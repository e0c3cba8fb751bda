------------------------ MODULE AccountLimitsProps ------------------------
(* What the limits on the accounts of a workspace promise. *)
EXTENDS AccountLimits

\* The limits switch accounts off, but never the last one: unless an account is removed, or a user
\* switches one off, a workspace that collects an account goes on to collect one, although the trial
\* ends and subscriptions are cancelled at the same time and each task works on a list of its own.
KeepsOne == [][~touched' /\ On # {} => On' # {}]_vars

\* The cleanup looks at a workspace in one window only.  Of the accounts a free workspace has when the
\* window begins no more than the limit are left when it is over, although the job may be late, or die
\* between two accounts, and users add and remove accounts meanwhile.
CleanedInWindow == tier = "free" /\ age = Timeout + Window => Cardinality(overdue) <= Limit

=============================================================================
