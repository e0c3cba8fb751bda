------------------------------- MODULE Billing -------------------------------
(***************************************************************************)
(* One subscription of the AWS Marketplace or of Stripe, the billing       *)
(* entries made for it, and their report to the marketplace.               *)
(*                                                                         *)
(* The billing job is started every hour: it makes the entries that are    *)
(* due and reports those that are not marked.  In the app process, the     *)
(* listener of the marketplace queue makes a last entry when the customer  *)
(* cancels, and reports it itself, while CloudAccountService takes the     *)
(* subscription away from its workspaces.  Both makers of entries work     *)
(* with the charge timestamp of the subscription they have listed.         *)
(*                                                                         *)
(* The subscription stays active: mark_aws_marketplace_subscriptions,      *)
(* which the messages "subscribe-success" and "unsubscribe-success" call,  *)
(* does not commit its update.                                             *)
(***************************************************************************)
EXTENDS Integers

CONSTANTS
    Workspaces,
    Entries,     \* ids of billing entries
    None,
    Period,      \* ticks between two charges: a month or a day
    MaxTime,     \* bound of the time
    MaxCancels,  \* bound: how often the customer cancels
    MaxFaults    \* bound: crashes, and reports the marketplace does not take

ASSUME PeriodAssumption == Period \in Nat \ {0}
ASSUME BoundAssumption == MaxTime \in Nat /\ MaxCancels \in Nat /\ MaxFaults \in Nat
ASSUME NoneAssumption == None \notin Entries /\ None \notin Workspaces

VARIABLES
    method,      \* "aws" or "stripe"
    exists,      \* the row of the subscription is there
    last, next,  \* last_charge_timestamp, next_charge_timestamp
    attached,    \* the workspaces that have the subscription
    now,
    charged,     \* how often a billing entry charges a tick of a workspace, counted up to 2
    settled,     \* ticks that were charged or found without usage
    made,        \* entries in the table
    told,        \* entries the marketplace has taken
    marked,      \* entries with the reported flag
    requests,    \* "unsubscribe-pending" messages in the queue of the marketplace
    cancelled,   \* there is a SubscriptionCancelled message in the stream
    leaving,     \* workspaces its handler has listed and still has to detach
    pc,          \* the job and the listener: what each does next
    from, to,    \* the period it is about to charge
    ws,          \* the workspace it charges
    entry,       \* the entry it reports
    todo,        \* entries the job has still to report
    cancels, faults

subscription == <<method, exists, last, next>>
ledger == <<charged, settled, made, told, marked>>
messages == <<requests, cancelled, leaving>>
tasks == <<pc, from, to, ws, entry, todo>>
vars == <<subscription, attached, now, ledger, messages, tasks, cancels, faults>>

Tasks == {"job", "listener"}
Times == 0..MaxTime

TypeOK ==
    /\ method \in {"aws", "stripe"} /\ exists \in BOOLEAN
    /\ last \in Times /\ next \in Nat
    /\ attached \subseteq Workspaces
    /\ now \in Times
    /\ charged \in [Workspaces -> [Times -> 0..2]]
    /\ settled \subseteq Times
    /\ made \subseteq Entries /\ told \subseteq made /\ marked \subseteq made
    /\ requests \in 0..MaxCancels
    /\ cancelled \in BOOLEAN /\ leaving \subseteq Workspaces
    /\ pc \in [Tasks -> {"idle", "publish", "start", "workspaces", "charge", "list", "report", "tell", "mark",
                         "tellLast"}]
    /\ from \in [Tasks -> Times] /\ to \in [Tasks -> Times]
    /\ ws \in [Tasks -> Workspaces \cup {None}]
    /\ \A t \in Tasks : pc[t] = "charge" => ws[t] \in Workspaces
    /\ entry \in [Tasks -> made \cup {None}]
    /\ \A t \in Tasks : pc[t] \in {"tell", "mark", "tellLast"} => entry[t] \in made
    /\ todo \subseteq made
    /\ cancels \in 0..MaxCancels /\ faults \in 0..MaxFaults

\* start_of_next_period
NextPeriod(t) == ((t \div Period) + 1) * Period

\* The subscription has just been created; its workspace is assigned now or later.
Init ==
    /\ method \in {"aws", "stripe"} /\ exists = TRUE
    /\ last = 0 /\ next = NextPeriod(0)
    /\ attached = {}
    /\ now = 0
    /\ charged = [w \in Workspaces |-> [t \in Times |-> 0]] /\ settled = {}
    /\ made = {} /\ told = {} /\ marked = {}
    /\ requests = 0 /\ cancelled = FALSE /\ leaving = {}
    /\ pc = [t \in Tasks |-> "idle"]
    /\ from = [t \in Tasks |-> 0] /\ to = [t \in Tasks |-> 0]
    /\ ws = [t \in Tasks |-> None] /\ entry = [t \in Tasks |-> None]
    /\ todo = {}
    /\ cancels = 0 /\ faults = 0

-----------------------------------------------------------------------------
(* create_billing_entry, for the job and for the listener.                 *)

Goto(t, step) == pc' = [pc EXCEPT ![t] = step]

\* the locals of create_billing_entry
Forget(t) ==
    /\ from' = [from EXCEPT ![t] = 0]
    /\ to' = [to EXCEPT ![t] = 0]
    /\ ws' = [ws EXCEPT ![t] = None]

\* where the caller goes on when there is no entry: the job with its reports, the listener with the
\* message, which it deletes
Returned(t) ==
    /\ Forget(t)
    /\ IF t = "job"
       THEN Goto(t, "list") /\ UNCHANGED requests
       ELSE Goto(t, "idle") /\ requests' = requests - 1

\* the subscription is active: billing_time is taken
Start(t) ==
    /\ pc[t] = "start"
    /\ to' = [to EXCEPT ![t] = now]
    /\ Goto(t, "workspaces")
    /\ UNCHANGED <<subscription, attached, now, ledger, messages, from, ws, entry, todo, cancels, faults>>

\* list_workspaces_by_subscription_id; the loop over the workspaces returns within its first turn
FirstWorkspace(t) ==
    /\ pc[t] = "workspaces"
    /\ \E w \in attached : ws' = [ws EXCEPT ![t] = w]
    /\ Goto(t, "charge")
    /\ UNCHANGED <<subscription, attached, now, ledger, messages, from, to, entry, todo, cancels, faults>>

NoWorkspace(t) ==
    /\ pc[t] = "workspaces"
    /\ attached = {}
    /\ Returned(t)
    /\ UNCHANGED <<subscription, attached, now, ledger, cancelled, leaving, entry, todo, cancels, faults>>

\* mutant: the time of the update, not the time the summary ends
ChargedAtUpdate(t) == now

\* mutant: the timestamp stays
NotMoved(t) == last

\* billing_time, which is where the summary of the usage ends
ChargedUntil(t) == to[t]

\* both ways out move the charge timestamps; the row may be gone by now
MoveCharge(t) ==
    /\ IF exists
       THEN last' = ChargedUntil(t) /\ next' = NextPeriod(to[t])
       ELSE UNCHANGED <<last, next>>
    /\ settled' = settled \cup {x \in Times : from[t] <= x /\ x < to[t]}
    /\ UNCHANGED <<method, exists>>

Once(n) == IF n < 2 THEN n + 1 ELSE 2

\* add_billing_entry: the entry and the timestamps, in one transaction
AddEntry(t) ==
    /\ pc[t] = "charge"
    /\ MoveCharge(t)
    /\ charged' = [charged EXCEPT ![ws[t]] =
                      [x \in Times |-> IF from[t] <= x /\ x < to[t] THEN Once(@[x]) ELSE @[x]]]
    /\ \E e \in Entries \ made :
        /\ made' = made \cup {e}
        /\ entry' = [entry EXCEPT ![t] = IF t = "listener" THEN e ELSE None]
    /\ Goto(t, IF t = "job" THEN "list" ELSE "tellLast")
    /\ Forget(t)
    /\ UNCHANGED <<attached, now, told, marked, messages, todo, cancels, faults>>

\* update_charge_timestamp: no usage, or only on a tier that is not paid
NoUsage(t) ==
    /\ pc[t] = "charge"
    /\ MoveCharge(t)
    /\ Returned(t)
    /\ UNCHANGED <<attached, now, charged, made, told, marked, cancelled, leaving, entry, todo, cancels, faults>>

CreateEntry(t) == Start(t) \/ FirstWorkspace(t) \/ NoWorkspace(t) \/ AddEntry(t) \/ NoUsage(t)

-----------------------------------------------------------------------------
(* The billing job.                                                        *)

\* mutant: only when the time has just come
DueExactly == next = now

Due == next <= now

\* create_overdue_billing_entries lists the subscription ...
ListDue ==
    /\ pc["job"] = "idle"
    /\ exists /\ Due
    /\ from' = [from EXCEPT !["job"] = last]
    /\ Goto("job", "start")
    /\ UNCHANGED <<subscription, attached, now, ledger, messages, to, ws, entry, todo, cancels, faults>>

\* ... or does not, and goes on with the reports
NothingDue ==
    /\ pc["job"] = "idle"
    /\ ~(exists /\ Due)
    /\ Goto("job", "list")
    /\ UNCHANGED <<subscription, attached, now, ledger, messages, from, to, ws, entry, todo, cancels, faults>>

\* mutant: entries of a workspace that still has the subscription
UnreportedOfAttached == IF exists /\ attached # {} THEN made \ marked ELSE {}

\* unreported_aws_billing_entries, unreported_stripe_billing_entries: a join with the subscription
Unreported == IF exists THEN made \ marked ELSE {}

ListUnreported ==
    /\ pc["job"] = "list"
    /\ todo' = Unreported
    /\ Goto("job", "report")
    /\ UNCHANGED <<subscription, attached, now, ledger, messages, from, to, ws, entry, cancels, faults>>

\* the entries one after the other: every task is awaited before the next is made
TakeNext ==
    /\ pc["job"] = "report"
    /\ \E e \in todo :
        /\ entry' = [entry EXCEPT !["job"] = e]
        /\ todo' = todo \ {e}
    /\ Goto("job", "tell")
    /\ UNCHANGED <<subscription, attached, now, ledger, messages, from, to, ws, cancels, faults>>

\* an entry that could not be reported is logged, and left for the next hour
AfterFailure == "report"

Tell ==
    /\ pc["job"] = "tell"
    /\ \/ told' = told \cup {entry["job"]} /\ Goto("job", "mark") /\ UNCHANGED faults
       \/ faults < MaxFaults /\ faults' = faults + 1 /\ Goto("job", AfterFailure) /\ UNCHANGED told
    /\ UNCHANGED <<subscription, attached, now, charged, settled, made, marked, messages, from, to, ws, entry,
                   todo, cancels>>

\* mark_billing_entry_reported
Mark ==
    /\ pc["job"] = "mark"
    /\ marked' = marked \cup {entry["job"]}
    /\ Goto("job", "report")
    /\ UNCHANGED <<subscription, attached, now, charged, settled, made, told, messages, from, to, ws, entry, todo,
                   cancels, faults>>

\* the process ends, until the next hour
Finish ==
    /\ pc["job"] = "report"
    /\ todo = {}
    /\ Goto("job", "idle")
    /\ entry' = [entry EXCEPT !["job"] = None]
    /\ UNCHANGED <<subscription, attached, now, ledger, messages, from, to, ws, todo, cancels, faults>>

Job ==
    \/ ListDue \/ NothingDue \/ CreateEntry("job")
    \/ ListUnreported \/ TakeNext \/ Tell \/ Mark \/ Finish

-----------------------------------------------------------------------------
(* The end of a subscription.                                              *)

\* the customer cancels at the marketplace
Unsubscribe ==
    /\ method = "aws"
    /\ cancels < MaxCancels /\ cancels' = cancels + 1
    /\ requests' = requests + 1
    /\ UNCHANGED <<subscription, attached, now, ledger, cancelled, leaving, tasks, faults>>

\* subscription_canceled lists the subscription, tells the others, and only then makes the last entry
TakeRequest ==
    /\ pc["listener"] = "idle"
    /\ requests > 0
    /\ from' = [from EXCEPT !["listener"] = last]
    /\ Goto("listener", "publish")
    /\ UNCHANGED <<subscription, attached, now, ledger, messages, to, ws, entry, todo, cancels, faults>>

PublishCancelled ==
    /\ pc["listener"] = "publish"
    /\ cancelled' = TRUE
    /\ Goto("listener", "start")
    /\ UNCHANGED <<subscription, attached, now, ledger, requests, leaving, from, to, ws, entry, todo, cancels,
                   faults>>

\* The last entry is reported and not marked.  When the marketplace does not take it the whole message
\* is handled again.
TellLast ==
    /\ pc["listener"] = "tellLast"
    /\ \/ told' = told \cup {entry["listener"]} /\ requests' = requests - 1 /\ UNCHANGED faults
       \/ faults < MaxFaults /\ faults' = faults + 1 /\ UNCHANGED <<told, requests>>
    /\ Goto("listener", "idle")
    /\ entry' = [entry EXCEPT !["listener"] = None]
    /\ UNCHANGED <<subscription, attached, now, charged, settled, made, marked, cancelled, leaving, from, to, ws,
                   todo, cancels>>

Listener == TakeRequest \/ PublishCancelled \/ CreateEntry("listener") \/ TellLast

\* _stripe_subscription_cancelled: the row is deleted, and a process that dies now tells nobody
StripeCancelled ==
    /\ method = "stripe"
    /\ exists
    /\ exists' = FALSE
    /\ cancelled' \in {cancelled, TRUE}
    /\ UNCHANGED <<method, last, next, attached, now, ledger, requests, leaving, tasks, cancels, faults>>

\* process_domain_event of CloudAccountService for SubscriptionCancelled: list the workspaces (the
\* message may come again) ...
ListLeaving ==
    /\ cancelled /\ leaving = {}
    /\ cancelled' \in BOOLEAN
    /\ leaving' = attached
    /\ UNCHANGED <<subscription, attached, now, ledger, requests, tasks, cancels, faults>>

\* ... and take the subscription from each
Detach ==
    /\ \E w \in leaving :
        /\ attached' = attached \ {w}
        /\ leaving' = leaving \ {w}
    /\ UNCHANGED <<subscription, now, ledger, requests, cancelled, tasks, cancels, faults>>

\* update_subscription: for a subscription of AWS also later, and for more than one workspace
Attach ==
    /\ exists
    /\ method = "stripe" => attached = {}
    /\ \E w \in Workspaces : attached' = attached \cup {w}
    /\ UNCHANGED <<subscription, now, ledger, messages, tasks, cancels, faults>>

-----------------------------------------------------------------------------

Tick ==
    /\ now < MaxTime
    /\ now' = now + 1
    /\ UNCHANGED <<subscription, attached, ledger, messages, tasks, cancels, faults>>

\* the process of the job, or the app, dies; a message of the queue is not deleted and comes again
Crash(t) ==
    /\ pc[t] # "idle"
    /\ faults < MaxFaults /\ faults' = faults + 1
    /\ Goto(t, "idle")
    /\ Forget(t)
    /\ entry' = [entry EXCEPT ![t] = None]
    /\ todo' = IF t = "job" THEN {} ELSE todo
    /\ UNCHANGED <<subscription, attached, now, ledger, messages, cancels>>

Next ==
    \/ Job
    \/ Unsubscribe \/ Listener
    \/ StripeCancelled
    \/ ListLeaving \/ Detach \/ Attach
    \/ Tick
    \/ \E t \in Tasks : Crash(t)

Spec == Init /\ [][Next]_vars

\* the cron job runs again and again
FairSpec == Spec /\ WF_vars(Job)

=============================================================================
