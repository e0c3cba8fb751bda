--------------------------- MODULE AccountLimits ---------------------------
(***************************************************************************)
(* The switches of all cloud accounts of one workspace, and everything     *)
(* that turns them: requests, the handlers of the subscription and tier    *)
(* events in CloudAccountService, the end of the trial and the cleanup of  *)
(* the free tier.  The free tier has a limit on the accounts, the other    *)
(* tiers have none.  A task lists the accounts, or counts them, and works  *)
(* on what it has read while other tasks change them.                      *)
(*                                                                         *)
(* An account is a position in the list the database returns: the list has *)
(* no order of its own, it follows the random ids, so a new account may    *)
(* appear anywhere in it.                                                  *)
(***************************************************************************)
EXTENDS Integers, FiniteSets

CONSTANTS
    NAccounts,  \* the accounts of the workspace, by their position in a list
    Limit,      \* account_limit of the free tier
    NSubs,      \* bound: subscriptions
    Handlers,   \* messages CloudAccountService handles at the same time
    Timeout,    \* free_tier_cleanup_timeout
    Window,     \* the window in which the cleanup looks at a workspace
    MaxLate,    \* bound: how many ticks the cleanup may be late
    MaxRequests,\* bound: requests of users
    MaxChanges, \* bound: changes of the tier, cancellations and accounts that degrade
    MaxCrashes  \* bound: crashes of the process

Accounts == 1..NAccounts
Jobs == {"trialEnd", "cleanup"}
Tasks == Handlers \cup Jobs \cup {"request"}

ASSUME SizeAssumption ==
    /\ NAccounts \in Nat \ {0} /\ NSubs \in Nat /\ Limit \in Nat \ {0}
    /\ Timeout \in Nat \ {0} /\ Window \in Nat \ {0} /\ MaxLate \in Nat
\* the cleanup runs every hour, and the window is a day
ASSUME LateAssumption == MaxLate < Window
ASSUME TaskAssumption == Handlers \cap (Jobs \cup {"request"}) = {}
ASSUME BoundAssumption == MaxRequests \in Nat /\ MaxChanges \in Nat /\ MaxCrashes \in Nat

VARIABLES
    state,      \* the state of each account, "none" when it was never added
    enabled,    \* its switch
    tier,       \* selected_product_tier: "trial", "free" or "plus"
    cycle,      \* the billing cycle with a paid tier: "never" begun, it "runs", or it is "over"
    onHold,     \* payment_on_hold_since is set
    sub,        \* subscription_id, or 0
    used,       \* the subscriptions there have been
    events,     \* domain events in the stream
    pc,         \* what each task does next
    msg,        \* the event a handler works on
    todo,       \* the accounts a task has listed and not worked on
    mayEnable,  \* what a task has read of tier, hold and the count: the limits allow one more
    age,        \* ticks since tier_updated_at
    late,       \* ticks since the cleanup has run
    overdue,    \* history: the accounts that were there when the timeout was over, and still are
    touched,    \* history: an account was removed, or switched off by a user
    requests, changes, crashes

accounts == <<state, enabled>>
plan == <<tier, cycle, onHold, sub, used>>
task == <<pc, msg, todo, mayEnable>>
clock == <<age, late, overdue>>
bounds == <<requests, changes, crashes>>
vars == <<accounts, plan, events, task, clock, touched, bounds>>

States == {"none", "detected", "discovered", "configured", "degraded", "deleted"}
Tiers == {"trial", "free", "plus"}
Subs == 1..NSubs
Event == [kind : {"cancelled", "created"}, sub : Subs] \cup [kind : {"tierChanged"}, new : Tiers, old : Tiers]
NoEvent == [kind |-> "none"]

TypeOK ==
    /\ state \in [Accounts -> States]
    /\ enabled \in [Accounts -> BOOLEAN]
    /\ \A a \in Accounts : enabled[a] => state[a] \in {"discovered", "configured", "degraded"}
    /\ tier \in Tiers /\ cycle \in {"never", "runs", "over"} /\ onHold \in BOOLEAN /\ sub \in Subs \cup {0}
    /\ used \in 0..NSubs
    /\ events \subseteq Event
    /\ pc \in [Tasks -> {"idle", "hold", "unsubscribe", "unhold", "list", "disable", "count", "enable",
                         "delete", "tier", "insert"}]
    /\ msg \in [Tasks -> Event \cup {NoEvent}]
    /\ todo \in [Tasks -> SUBSET Accounts]
    /\ mayEnable \in [Tasks -> BOOLEAN]
    /\ age \in 0..(Timeout + Window + 1) /\ late \in 0..MaxLate
    /\ overdue \subseteq Accounts
    /\ touched \in BOOLEAN
    /\ requests \in 0..MaxRequests /\ changes \in 0..MaxChanges /\ crashes \in 0..MaxCrashes

\* A trial with some accounts: they have been added, which nothing limits, and configured.
Init ==
    /\ \E S \in SUBSET Accounts :
        /\ state = [a \in Accounts |-> IF a \in S THEN "configured" ELSE "none"]
        /\ enabled = [a \in Accounts |-> a \in S]
    /\ tier = "trial" /\ cycle = "never" /\ onHold = FALSE /\ sub = 0 /\ used = 0
    /\ events = {}
    /\ pc = [t \in Tasks |-> "idle"]
    /\ msg = [t \in Tasks |-> NoEvent]
    /\ todo = [t \in Tasks |-> {}]
    /\ mayEnable = [t \in Tasks |-> FALSE]
    /\ age = 0 /\ late = 0 /\ overdue = {}
    /\ touched = FALSE
    /\ requests = 0 /\ changes = 0 /\ crashes = 0

Live == {a \in Accounts : state[a] \notin {"none", "deleted"}}
On == {a \in Accounts : enabled[a]}

\* current_product_tier: a paid tier stays to the end of its cycle
Current == IF cycle = "runs" THEN "plus" ELSE tier

\* ProductTierSettings: a limit of NAccounts is none
AccountLimit(t) == IF t = "free" THEN Limit ELSE NAccounts + 1

\* The accounts of a list after the first n, and before the last n.
AfterFirst(S, n) == {a \in S : Cardinality({b \in S : b < a}) >= n}
BeforeLast(S, n) == {a \in S : Cardinality({b \in S : b > a}) >= n}
First(S, n) == S \ AfterFirst(S, n)

Goto(t, next, S) == pc' = [pc EXCEPT ![t] = next] /\ todo' = [todo EXCEPT ![t] = S]

-----------------------------------------------------------------------------
(* Requests and the life of one account.                                   *)

\* _should_be_enabled: the limit counts every account that is not deleted, the one that is given a new
\* role too
ShouldBeEnabled == Cardinality(Live) < AccountLimit(Current) /\ ~onHold

\* create_aws_account, create_gcp_account and create_azure_account up to the write
AskToAdd(a) ==
    /\ pc["request"] = "idle"
    /\ requests < MaxRequests /\ requests' = requests + 1
    /\ mayEnable' = [mayEnable EXCEPT !["request"] = ShouldBeEnabled]
    /\ Goto("request", "insert", {a})
    /\ UNCHANGED <<accounts, plan, events, msg, clock, touched, changes, crashes>>

\* An AWS account is discovered, once more when it comes with a new role, or only detected when it comes
\* without one; a GCP or Azure account that is not known is configured at once.
Insert ==
    /\ pc["request"] = "insert"
    /\ \E a \in todo["request"], s \in {"detected", "discovered", "configured"} :
        /\ s # "discovered" => state[a] = "none"
        /\ state' = [state EXCEPT ![a] = s]
        /\ enabled' = [enabled EXCEPT ![a] = s # "detected" /\ mayEnable["request"]]
        /\ touched' = (touched \/ enabled[a])
        /\ overdue' = overdue \ {a}
    /\ Goto("request", "idle", {})
    /\ mayEnable' = [mayEnable EXCEPT !["request"] = FALSE]
    /\ UNCHANGED <<plan, events, msg, age, late, bounds>>

\* configure_account, __degrade_account and __undegrade_account keep the switch (see CloudAccount)
Configure(a) ==
    /\ state[a] \in {"discovered", "degraded"}
    /\ state' = [state EXCEPT ![a] = "configured"]
    /\ UNCHANGED <<enabled, plan, events, task, clock, touched, bounds>>

Degrade(a) ==
    /\ state[a] \in {"discovered", "configured"}
    /\ changes < MaxChanges /\ changes' = changes + 1
    /\ state' = [state EXCEPT ![a] = "degraded"]
    /\ UNCHANGED <<enabled, plan, events, task, clock, touched, requests, crashes>>

\* delete_cloud_account
Deleted(a) ==
    /\ state' = [state EXCEPT ![a] = "deleted"]
    /\ enabled' = [enabled EXCEPT ![a] = FALSE]

Delete(a) ==
    /\ a \in Live
    /\ requests < MaxRequests /\ requests' = requests + 1
    /\ Deleted(a)
    /\ touched' = TRUE /\ overdue' = overdue \ {a}
    /\ UNCHANGED <<plan, events, task, age, late, changes, crashes>>

\* validate_tier_restrictions: only configured accounts count here
Ready == {a \in On : state[a] = "configured"}
MayEnable == Cardinality(Ready) < AccountLimit(Current) /\ ~onHold

\* update_cloud_account_enabled reads the workspace and the count first
AskToSwitch(a, on) ==
    /\ pc["request"] = "idle"
    /\ a \in Live
    /\ requests < MaxRequests /\ requests' = requests + 1
    /\ mayEnable' = [mayEnable EXCEPT !["request"] = on /\ MayEnable]
    /\ Goto("request", IF on THEN "enable" ELSE "disable", {a})
    /\ UNCHANGED <<accounts, plan, events, msg, clock, touched, changes, crashes>>

\* update_state: other states raise
CanSwitch(a) == state[a] \in {"configured", "degraded"}

\* update_cloud_account_enabled(False) by one of the tasks: the request, or one of the accounts that
\* disable_cloud_accounts works on in parallel
SwitchOff(t, a) ==
    /\ pc[t] = "disable"
    /\ a \in todo[t]
    /\ enabled' = [enabled EXCEPT ![a] = @ /\ ~CanSwitch(a)]
    /\ touched' = (touched \/ t = "request")
    /\ Goto(t, "disable", todo[t] \ {a})
    /\ UNCHANGED <<state, plan, events, msg, mayEnable, clock, bounds>>

\* enable_cloud_accounts works on one account after the other
ReadLimits(t) ==
    /\ pc[t] = "count"
    /\ todo[t] # {}
    /\ mayEnable' = [mayEnable EXCEPT ![t] = MayEnable]
    /\ pc' = [pc EXCEPT ![t] = "enable"]
    /\ UNCHANGED <<accounts, plan, events, msg, todo, clock, touched, bounds>>

SwitchOn(t, a) ==
    /\ pc[t] = "enable"
    /\ a \in First(todo[t], 1)
    /\ enabled' = [enabled EXCEPT ![a] = @ \/ (mayEnable[t] /\ CanSwitch(a))]
    /\ Goto(t, IF t = "request" THEN "disable" ELSE "count", todo[t] \ {a})
    /\ mayEnable' = [mayEnable EXCEPT ![t] = FALSE]
    /\ UNCHANGED <<state, plan, events, msg, clock, touched, bounds>>

-----------------------------------------------------------------------------
(* The tier and the subscription.                                          *)

\* update_billing: the accounts are counted, the tier is written, ProductTierChanged is published
ChangeTier(t) ==
    /\ t # Current /\ t # "trial"
    /\ changes < MaxChanges /\ changes' = changes + 1
    /\ Cardinality(Live) <= AccountLimit(t)
    /\ t = "plus" => sub # 0
    /\ tier' = t
    /\ cycle' = IF t = "plus" /\ cycle = "never" THEN "runs" ELSE cycle
    /\ events' = events \cup {[kind |-> "tierChanged", new |-> t, old |-> Current]}
    /\ age' = 0 /\ overdue' = {}
    /\ UNCHANGED <<accounts, onHold, sub, used, task, late, touched, requests, crashes>>

EndCycle ==
    /\ cycle = "runs"
    /\ cycle' = "over"
    /\ UNCHANGED <<accounts, tier, onHold, sub, used, events, task, clock, touched, bounds>>

\* A new subscription at a marketplace, assigned to the workspace (see Subscriptions)
Subscribe ==
    /\ used < NSubs
    /\ used' = used + 1
    /\ sub' = used'
    /\ events' = events \cup {[kind |-> "created", sub |-> used']}
    /\ UNCHANGED <<accounts, tier, cycle, onHold, task, clock, touched, bounds>>

\* The marketplace says that a subscription is over.
Cancel(s) ==
    /\ s <= used
    /\ changes < MaxChanges /\ changes' = changes + 1
    /\ events' = events \cup {[kind |-> "cancelled", sub |-> s]}
    /\ UNCHANGED <<accounts, plan, task, clock, touched, requests, crashes>>

-----------------------------------------------------------------------------
(* The handlers of the domain events.                                      *)

\* process_domain_event: a message is worked on by one handler, and stays in the stream until it is done
Take(h, e) ==
    /\ pc[h] = "idle"
    /\ e \in events /\ \A k \in Handlers : msg[k] # e
    /\ msg' = [msg EXCEPT ![h] = e]
    /\ Goto(h, CASE e.kind = "tierChanged" -> "list"
                  [] e.kind = "cancelled" -> IF e.sub = sub THEN "hold" ELSE "delete"
                  [] e.kind = "created" -> IF e.sub = sub THEN "unhold" ELSE "delete", {})
    /\ UNCHANGED <<accounts, plan, events, mayEnable, clock, touched, bounds>>

\* update_payment_on_hold, then update_subscription(None), whatever subscription the workspace has now
PutOnHold(h) ==
    /\ pc[h] = "hold"
    /\ onHold' = TRUE
    /\ Goto(h, "unsubscribe", {})
    /\ UNCHANGED <<accounts, tier, cycle, sub, used, events, msg, mayEnable, clock, touched, bounds>>

Unsubscribe(h) ==
    /\ pc[h] = "unsubscribe"
    /\ sub' = 0
    /\ Goto(h, "list", {})
    /\ UNCHANGED <<accounts, tier, cycle, onHold, used, events, msg, mayEnable, clock, touched, bounds>>

EndHold(h) ==
    /\ pc[h] = "unhold"
    /\ onHold' = FALSE
    /\ Goto(h, "list", {})
    /\ UNCHANGED <<accounts, tier, cycle, sub, used, events, msg, mayEnable, clock, touched, bounds>>

\* mutant: nothing is kept
DisableAll(S) == S

\* disable_cloud_accounts keeps the last of the accounts that are on
ToDisable(S) == BeforeLast(S, Limit)

\* enable_cloud_accounts: one account only if the tier is not a paid one
ToEnable ==
    LET off == {a \in Accounts : CanSwitch(a) /\ ~enabled[a]}
    IN  IF Current = "plus" THEN off ELSE First(off, 1)

List(h) ==
    /\ pc[h] = "list" /\ h \in Handlers
    /\ LET e == msg[h]
           change == e.kind = "tierChanged"
           lower == change /\ AccountLimit(e.new) < AccountLimit(e.old)
           same == change /\ AccountLimit(e.new) = AccountLimit(e.old)
       IN  CASE lower -> Goto(h, "delete", BeforeLast(Live, Limit))
             [] same -> Goto(h, "delete", {})
             [] e.kind = "cancelled" -> Goto(h, "disable", ToDisable(On))
             [] OTHER -> Goto(h, "count", ToEnable)
    /\ UNCHANGED <<accounts, plan, events, msg, mayEnable, clock, touched, bounds>>

\* delete_cloud_account by the handler of a lowered limit, which works in parallel, or by the cleanup
DeleteListed(t, a) ==
    /\ pc[t] = "delete"
    /\ a \in IF t = "cleanup" THEN First(todo[t], 1) ELSE todo[t]
    /\ Deleted(a)
    /\ touched' = TRUE /\ overdue' = overdue \ {a}
    /\ Goto(t, "delete", todo[t] \ {a})
    /\ UNCHANGED <<plan, events, msg, mayEnable, age, late, bounds>>

\* All that was listed is done: the message is acknowledged, the request answered.
Finish(t) ==
    /\ t # "trialEnd"
    /\ pc[t] \in {"disable", "count", "delete"} /\ todo[t] = {}
    /\ Goto(t, "idle", {})
    /\ msg' = [msg EXCEPT ![t] = NoEvent]
    /\ events' = events \ {msg[t]}
    /\ UNCHANGED <<accounts, plan, mayEnable, clock, touched, bounds>>

-----------------------------------------------------------------------------
(* The periodic tasks.                                                     *)

\* move_trials_to_free_tier: list_expired_trials and disable_cloud_accounts, which looks at no tier
ListTrial ==
    /\ pc["trialEnd"] = "idle"
    /\ tier = "trial"
    /\ Goto("trialEnd", "list", {})
    /\ UNCHANGED <<accounts, plan, events, msg, mayEnable, clock, touched, bounds>>

DisableTrial ==
    /\ pc["trialEnd"] = "list"
    /\ Goto("trialEnd", "disable", ToDisable(On))
    /\ UNCHANGED <<accounts, plan, events, msg, mayEnable, clock, touched, bounds>>

\* update_product_tier, whatever the tier is now; the session may hold the row as it was listed, with
\* no billing cycle
EndTrial ==
    /\ pc["trialEnd"] = "disable" /\ todo["trialEnd"] = {}
    /\ tier' = "free"
    /\ cycle' \in {cycle, "never"}
    /\ age' = 0 /\ overdue' = {}
    /\ Goto("trialEnd", "idle", {})
    /\ UNCHANGED <<accounts, onHold, sub, used, events, msg, mayEnable, late, touched, bounds>>

\* mutant: the window begins a tick later
LaterWindow == age > Timeout + 1 /\ age < Timeout + Window

\* list_overdue_free_tier_cleanup
InWindow == age > Timeout /\ age < Timeout + Window

\* cleanup_free_tiers
RunCleanup ==
    /\ pc["cleanup"] = "idle" /\ late > 0
    /\ late' = 0
    /\ Goto("cleanup", IF tier = "free" /\ InWindow THEN "list" ELSE "idle", {})
    /\ UNCHANGED <<accounts, plan, events, msg, mayEnable, age, overdue, touched, bounds>>

\* the accounts after the first, enabled or not
ToCleanUp(S) == AfterFirst(S, Limit)

ListForCleanup ==
    /\ pc["cleanup"] = "list"
    /\ Goto("cleanup", "delete", ToCleanUp(Live))
    /\ UNCHANGED <<accounts, plan, events, msg, mayEnable, clock, touched, bounds>>

\* Bounds: a run of the cleanup ends within a tick, and no run is more than MaxLate ticks late.
Tick ==
    /\ tier = "free" /\ age <= Timeout + Window
    /\ pc["cleanup"] = "idle" /\ late < MaxLate
    /\ age' = age + 1 /\ late' = late + 1
    /\ overdue' = IF age' = Timeout + 1 THEN Live ELSE overdue
    /\ UNCHANGED <<accounts, plan, events, task, touched, bounds>>

\* The process dies with its tasks; messages come again, and the cleanup runs right after the start.
Crash ==
    /\ crashes < MaxCrashes /\ crashes' = crashes + 1
    /\ pc' = [t \in Tasks |-> "idle"]
    /\ todo' = [t \in Tasks |-> {}]
    /\ msg' = [t \in Tasks |-> NoEvent]
    /\ mayEnable' = [t \in Tasks |-> FALSE]
    /\ late' = MaxLate
    /\ UNCHANGED <<accounts, plan, events, age, overdue, touched, requests, changes>>

Next ==
    \/ \E a \in Accounts :
        \/ AskToAdd(a) \/ Configure(a) \/ Degrade(a) \/ Delete(a)
        \/ \E on \in BOOLEAN : AskToSwitch(a, on)
        \/ \E t \in Tasks : SwitchOff(t, a) \/ SwitchOn(t, a) \/ DeleteListed(t, a)
    \/ Insert
    \/ \E t \in Tasks : ReadLimits(t) \/ Finish(t)
    \/ \E t \in Tiers : ChangeTier(t)
    \/ EndCycle \/ Subscribe
    \/ \E s \in Subs : Cancel(s)
    \/ \E h \in Handlers :
        \/ \E e \in events : Take(h, e)
        \/ PutOnHold(h) \/ Unsubscribe(h) \/ EndHold(h) \/ List(h)
    \/ ListTrial \/ DisableTrial \/ EndTrial
    \/ RunCleanup \/ ListForCleanup
    \/ Tick
    \/ Crash

Spec == Init /\ [][Next]_vars

=============================================================================
