-------------------------- MODULE WorkspaceProps --------------------------
(* What the tier and the schedule of a workspace promise. *)
EXTENDS Workspace

\* A downgrade within the billing cycle waits for its end: while the cycle runs on, the tier that is
\* active never goes down, whatever is selected in between and in whatever order.  The one exception is
\* the end of a trial that writes the row as it was listed.
NoDowngradeInCycle == [][held /\ held' /\ ~EndTrialAsListed => Current' >= Current]_vars

\* However late the scheduler is, the next run it writes is in the future, at most one interval of the
\* tier away, and on the grid of the run it has read: no run happens twice and none drifts.
NextRunAhead ==
    [][UpdateNextRun => /\ due' \in 1..Interval[stier]
                        /\ (due' - sat) % Interval[stier] = 0]_vars

\* The workspace is collected again and again, although the run may be moved by tier changes, and the
\* process may die between triggering the collections and storing the next run.
RunsAgain == []<>(spc = "collect")

\* A schedule that a race, a lost event or a downgrade has left with the wrong interval does not stay
\* so: once the tier rests, the next run is never more than one interval of the active tier away.
ScheduleHeals == <>[](due <= Interval[Current])

\* "when downgrading the tier, we should keep the tier till the end of the billing cycle": a user who changes from one
\* paid tier to another keeps the higher of the two, in a billing cycle that is running.
KeepsPaidTier == [][ChangeTier /\ {Current, btier} \subseteq Paid => held' /\ Current' >= Current]_vars

=============================================================================
