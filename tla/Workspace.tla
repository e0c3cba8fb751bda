----------------------------- MODULE Workspace -----------------------------
(***************************************************************************)
(* The product tier of one workspace, and the schedule of its collect      *)
(* runs that depends on it.                                                *)
(*                                                                         *)
(* The API changes the tier (BillingEntryService.update_billing) and       *)
(* publishes ProductTierChanged; CloudAccountService in the app process    *)
(* handles the event and moves the next run, as it does when a             *)
(* subscription is created; the customer support may reset the next run;   *)
(* schedule_next_runs in the dispatching process moves it too, with the    *)
(* tier it has read before it triggers the collections; TrialEndService    *)
(* changes the tier on its own.  All of them share the organization row    *)
(* and the next_tenant_run row.                                            *)
(*                                                                         *)
(* Time is relative: due is next_tenant_run.at minus the current time.     *)
(***************************************************************************)
EXTENDS Integers, NextRun

CONSTANTS
    MaxTier,    \* the tiers, in the order of ProductTier: 0 Trial, 1 Free, 2 Plus, ...
    Interval,   \* the scan interval of each tier
    MaxLate,    \* bound: how many ticks a run may be late
    MaxChanges, \* bound: how often a user asks for another tier, or for a subscription
    MaxCrashes  \* bound: crashes of one of the processes

Trial == 0
Free == 1
Tiers == 0..MaxTier
Paid == {t \in Tiers : t > Free}

ASSUME TierAssumption == MaxTier \in Nat /\ MaxTier > Free
ASSUME IntervalAssumption == Interval \in [Tiers -> Nat \ {0}]
ASSUME BoundAssumption == MaxLate \in Nat \ {0} /\ MaxChanges \in Nat /\ MaxCrashes \in Nat

None == -1

VARIABLES
    selected,   \* selected_product_tier
    highest,    \* highest_current_cycle_tier, or None
    held,       \* current_cycle_ends_at is set and lies in the future
    subscribed, \* the workspace has a subscription
    due,        \* ticks until the next run; negative: it is overdue
    bpc,        \* a request to update_billing: what it does next
    btier,      \* the tier it asks for
    changed,    \* tiers of the ProductTierChanged messages in the stream
    created,    \* there is a SubscriptionCreated message in the stream
    hpc,        \* the handler of SubscriptionCreated: what it does next
    htier,      \* the tier it has read
    spc,        \* schedule_next_runs: what it does next
    sat,        \* the time of the run it has read, relative as due
    stier,      \* the tier it has read
    ending,     \* move_trials_to_free_tier has listed the workspace as an expired trial
    unpaid,     \* the row it has listed had no highest_current_cycle_tier
    changes, crashes

tier == <<selected, highest, held, subscribed>>
billing == <<bpc, btier>>
stream == <<changed, created>>
handler == <<hpc, htier>>
scheduler == <<spc, sat, stier>>
trial == <<ending, unpaid>>
vars == <<tier, due, billing, stream, handler, scheduler, trial, changes, crashes>>

TypeOK ==
    /\ selected \in Tiers
    /\ highest \in Tiers \cup {None}
    /\ held \in BOOLEAN /\ subscribed \in BOOLEAN
    /\ due \in Int
    /\ bpc \in {"idle", "update", "publish"}
    /\ btier \in Tiers
    /\ changed \subseteq Tiers /\ created \in BOOLEAN
    /\ hpc \in {"idle", "update"} /\ htier \in Tiers
    /\ spc \in {"idle", "tier", "collect", "update"}
    /\ sat \in Int
    /\ spc # "idle" => sat < 0
    /\ stier \in Tiers
    /\ ending \in BOOLEAN /\ unpaid \in BOOLEAN
    /\ changes \in 0..MaxChanges
    /\ crashes \in 0..MaxCrashes

Max(a, b) == IF a < b THEN b ELSE a

\* create_workspace starts with a trial; process_workspace_created has stored the first run
Init ==
    /\ selected = Trial /\ highest = None /\ held = FALSE /\ subscribed = FALSE
    /\ due = NextRunFor(0, Interval[Trial], 0)
    /\ bpc = "idle" /\ btier = Trial
    /\ changed = {} /\ created = FALSE
    /\ hpc = "idle" /\ htier = Trial
    /\ spc = "idle" /\ sat = 0 /\ stier = Trial
    /\ ending = FALSE /\ unpaid = FALSE
    /\ changes = 0 /\ crashes = 0

\* current_product_tier
Current == IF held /\ highest # None THEN Max(highest, selected) ELSE selected

-----------------------------------------------------------------------------
(* The tier.                                                               *)

\* mutant: the tier that is selected now
LatestTier(active, t) == t

HighestTier(active, t) == Max(active, t)

\* WorkspaceRepository.update_product_tier
UpdateTier(t) ==
    LET active == IF highest = None THEN Free ELSE highest
    IN  /\ t \in Paid => subscribed
        /\ selected' = t
        /\ held' = (held \/ highest = None \/ active < t)
        /\ highest' = HighestTier(active, t)
        /\ UNCHANGED subscribed

\* AwsMarketplaceHandler.subscribed and _create_stripe_subscription publish SubscriptionCreated once the
\* workspace has the subscription; assign_subscription, and a process that dies in between, do not.
Subscribe ==
    /\ changes < MaxChanges
    /\ changes' = changes + 1
    /\ subscribed' = TRUE
    /\ created' \in {created, TRUE}
    /\ UNCHANGED <<selected, highest, held, due, billing, changed, handler, scheduler, trial, crashes>>

\* process_domain_event for SubscriptionCancelled: the workspace keeps its tier
Unsubscribe ==
    /\ subscribed' = FALSE
    /\ UNCHANGED <<selected, highest, held, due, billing, stream, handler, scheduler, trial, changes,
                   crashes>>

\* update_billing: asking for the current tier changes nothing; the limits on accounts and users may
\* also refuse the tier
AskForTier(t) ==
    /\ bpc = "idle"
    /\ changes < MaxChanges
    /\ changes' = changes + 1
    /\ t # Current
    /\ btier' = t
    /\ bpc' = "update"
    /\ UNCHANGED <<tier, due, stream, scheduler, handler, trial, crashes>>

ChangeTier ==
    /\ bpc = "update"
    /\ UpdateTier(btier)
    /\ bpc' = "publish"
    /\ UNCHANGED <<due, btier, stream, scheduler, handler, trial, changes, crashes>>

\* a paid tier without a subscription: update_product_tier raises
RefuseTier ==
    /\ bpc = "update"
    /\ btier \in Paid /\ ~subscribed
    /\ bpc' = "idle"
    /\ UNCHANGED <<tier, due, btier, stream, scheduler, handler, trial, changes, crashes>>

PublishTier ==
    /\ bpc = "publish"
    /\ changed' = changed \cup {btier}
    /\ bpc' = "idle"
    /\ UNCHANGED <<tier, due, btier, created, scheduler, handler, trial, changes, crashes>>

\* move_trials_to_free_tier: list_expired_trials, then disable_cloud_accounts for each workspace, and
\* only then update_product_tier, which looks at the tier no more.  It publishes no event.
ListTrial ==
    /\ ~ending
    /\ selected = Trial
    /\ ending' = TRUE /\ unpaid' = (highest = None)
    /\ UNCHANGED <<tier, due, billing, stream, scheduler, handler, changes, crashes>>

\* A session that has committed for an earlier workspace of the list reads the row again.
EndTrial ==
    /\ ending
    /\ UpdateTier(Free)
    /\ ending' = FALSE /\ unpaid' = FALSE
    /\ UNCHANGED <<due, billing, stream, scheduler, handler, changes, crashes>>

\* For the first workspace of the list the session still holds the row as it was listed, and the row has
\* no version: a paid cycle that has begun since then is overwritten.
EndTrialAsListed ==
    /\ ending /\ unpaid
    /\ selected' = Free /\ highest' = Free /\ held' = TRUE
    /\ UNCHANGED subscribed
    /\ ending' = FALSE /\ unpaid' = FALSE
    /\ UNCHANGED <<due, billing, stream, scheduler, handler, changes, crashes>>

\* The database fails: the task lists the trial again in an hour.
TrialNotMoved ==
    /\ ending
    /\ ending' = FALSE /\ unpaid' = FALSE
    /\ UNCHANGED <<tier, due, billing, stream, scheduler, handler, changes, crashes>>

\* The billing cycle ends with the month.
EndCycle ==
    /\ held
    /\ held' = FALSE
    /\ UNCHANGED <<selected, highest, subscribed, due, billing, stream, scheduler, handler, trial, changes,
                   crashes>>

-----------------------------------------------------------------------------
(* The schedule.                                                           *)

\* process_domain_event for ProductTierChanged: from now on, with the tier of the event.  A handler
\* that fails is called again, so the message may stay.
HandleTierChanged(t) ==
    /\ t \in changed
    /\ due' = NextRunFor(0, Interval[t], 0)
    /\ \/ changed' = changed \ {t}
       \/ crashes < MaxCrashes /\ UNCHANGED changed
    /\ crashes' = IF changed' = changed THEN crashes + 1 ELSE crashes
    /\ UNCHANGED <<tier, billing, created, scheduler, handler, trial, changes>>

\* process_domain_event for SubscriptionCreated: list_workspaces_by_subscription_id, a write to the
\* workspace, and then the next run with the tier of the workspace that was listed
ListSubscribers ==
    /\ created
    /\ created' = FALSE
    /\ hpc = "idle"
    /\ IF subscribed
       THEN hpc' = "update" /\ htier' = Current
       ELSE UNCHANGED handler
    /\ UNCHANGED <<tier, due, billing, changed, scheduler, trial, changes, crashes>>

HandleSubscriptionCreated ==
    /\ hpc = "update"
    /\ due' = NextRunFor(0, Interval[htier], 0)
    /\ hpc' = "idle" /\ htier' = Trial
    /\ UNCHANGED <<tier, billing, stream, scheduler, trial, changes, crashes>>

\* reset_next_run of the customer support: five minutes ago
ResetNextRun ==
    /\ due' = -1
    /\ UNCHANGED <<tier, billing, stream, handler, scheduler, trial, changes, crashes>>

\* mutant: only a run whose time has just come is read
DueExactly == due = 0

\* next_run_repo.older_than(now)
Overdue == due < 0

ReadDue ==
    /\ spc = "idle"
    /\ Overdue
    /\ sat' = due
    /\ spc' = "tier"
    /\ UNCHANGED <<tier, due, billing, stream, stier, handler, trial, changes, crashes>>

\* mutant: the tier the user has selected
SelectedTier == selected

\* workspace_repository.get_product_tier
ReadTier == Current

GetTier ==
    /\ spc = "tier"
    /\ stier' = ReadTier
    /\ spc' = "collect"
    /\ UNCHANGED <<tier, due, billing, stream, sat, handler, trial, changes, crashes>>

\* trigger_collect for every account of the workspace (see Dispatcher)
Collect ==
    /\ spc = "collect"
    /\ spc' = "update"
    /\ UNCHANGED <<tier, due, billing, stream, sat, stier, handler, trial, changes, crashes>>

\* update_next_run_for(workspace_id, product_tier, last_run=at)
UpdateNextRun ==
    /\ spc = "update"
    /\ due' = NextRunFor(0, Interval[stier], sat)
    /\ spc' = "idle"
    /\ sat' = 0 /\ stier' = Trial
    /\ UNCHANGED <<tier, billing, stream, handler, trial, changes, crashes>>

-----------------------------------------------------------------------------

\* Bound: time waits for a run that is MaxLate ticks late.
Tick ==
    /\ due > -MaxLate
    /\ spc # "idle" => sat > -MaxLate
    /\ due' = due - 1
    /\ sat' = IF spc # "idle" THEN sat - 1 ELSE sat
    /\ UNCHANGED <<tier, billing, stream, spc, stier, handler, trial, changes, crashes>>

\* The app process dies, and its tasks with it: an event that is not published is lost, a message
\* that is not acknowledged comes again.
CrashApp ==
    /\ bpc # "idle" \/ hpc # "idle"
    /\ crashes < MaxCrashes /\ crashes' = crashes + 1
    /\ bpc' = "idle"
    /\ hpc' = "idle" /\ htier' = Trial
    /\ created' = (created \/ hpc # "idle")
    /\ UNCHANGED <<tier, due, btier, changed, scheduler, trial, changes>>

CrashDispatching ==
    /\ spc # "idle" \/ ending
    /\ crashes < MaxCrashes /\ crashes' = crashes + 1
    /\ spc' = "idle" /\ sat' = 0 /\ stier' = Trial
    /\ ending' = FALSE /\ unpaid' = FALSE
    /\ UNCHANGED <<tier, due, billing, stream, handler, changes>>

Schedule == ReadDue \/ GetTier \/ Collect \/ UpdateNextRun

HandleEvents ==
    \/ \E t \in changed : HandleTierChanged(t)
    \/ ListSubscribers \/ HandleSubscriptionCreated

Next ==
    \/ Subscribe \/ Unsubscribe
    \/ \E t \in Tiers : AskForTier(t)
    \/ ChangeTier \/ RefuseTier \/ PublishTier
    \/ ListTrial \/ EndTrial \/ EndTrialAsListed \/ TrialNotMoved
    \/ EndCycle
    \/ HandleEvents
    \/ ResetNextRun
    \/ Schedule
    \/ Tick
    \/ CrashApp \/ CrashDispatching

Spec == Init /\ [][Next]_vars

\* The periodic task is called every minute, events are delivered, time passes.
FairSpec == Spec /\ WF_vars(Schedule) /\ WF_vars(HandleEvents) /\ WF_vars(Tick)

=============================================================================
