--------------------------- MODULE Billing_proofs ---------------------------
(***************************************************************************)
(* What holds of the entries of a subscription for any number of           *)
(* workspaces, entries, cancellations and faults, and for any period.      *)
(***************************************************************************)
EXTENDS BillingProps, TLAPS

USE PeriodAssumption, BoundAssumption, NoneAssumption

-----------------------------------------------------------------------------
(* Types.                                                                  *)

LEMMA PeriodType == ASSUME NEW t \in Nat PROVE NextPeriod(t) \in Nat
<1>1. t \div Period \in Int BY SMT
<1>2. t \div Period >= 0 BY SMT
<1>. DEFINE q == (t \div Period) + 1
            d == Period
<1>3. q \in Nat /\ d \in Nat BY <1>1, <1>2
<1>. HIDE DEF q, d
<1>4. q * d \in Nat BY <1>3
<1>. QED BY <1>4 DEF q, d, NextPeriod

\* Every message that is being handled is still in the queue, and there are no more than were sent.
QueueInv ==
    /\ requests <= cancels
    /\ pc["listener"] # "idle" => requests > 0

LEMMA InitType == Init => TypeOK /\ QueueInv
<1>1. 0 \in Nat OBVIOUS
<1>. SUFFICES ASSUME Init PROVE TypeOK /\ QueueInv OBVIOUS
<1>2. next \in Nat BY <1>1, PeriodType DEF Init
<1>3. method \in {"aws", "stripe"} /\ exists \in BOOLEAN BY DEF Init
<1>4. last \in Times /\ now \in Times BY DEF Init, Times
<1>5. /\ charged \in [Workspaces -> [Times -> 0..2]]
      /\ pc \in [Tasks -> {"idle", "publish", "start", "workspaces", "charge", "list", "report", "tell",
                           "mark", "tellLast"}]
      /\ from \in [Tasks -> Times] /\ to \in [Tasks -> Times]
      /\ ws \in [Tasks -> Workspaces \cup {None}] /\ entry \in [Tasks -> made \cup {None}]
  BY DEF Init, Tasks, Times
<1>6. \A t \in Tasks : pc[t] = "idle" BY DEF Init
<1>7. /\ requests \in 0..MaxCancels /\ cancels \in 0..MaxCancels /\ faults \in 0..MaxFaults
      /\ QueueInv
  BY <1>6 DEF Init, QueueInv, Tasks
<1>8. /\ attached \subseteq Workspaces /\ leaving \subseteq Workspaces /\ settled \subseteq Times
      /\ made \subseteq Entries /\ told \subseteq made /\ marked \subseteq made /\ todo \subseteq made
      /\ cancelled \in BOOLEAN
  BY DEF Init
<1>9. \A t \in Tasks : /\ pc[t] = "charge" => ws[t] \in Workspaces
                       /\ pc[t] \in {"tell", "mark", "tellLast"} => entry[t] \in made
  BY <1>6
<1>. QED BY <1>2, <1>3, <1>4, <1>5, <1>7, <1>8, <1>9, Zenon DEF TypeOK

LEMMA MoveChargeType ==
    ASSUME TypeOK, NEW t \in Tasks, MoveCharge(t)
    PROVE  last' \in Times /\ next' \in Nat /\ settled' \subseteq Times
<1>1. NextPeriod(to[t]) \in Nat BY PeriodType DEF TypeOK, Times
<1>2. to[t] \in Times BY DEF TypeOK
<1>. QED BY <1>1, <1>2 DEF TypeOK, MoveCharge, ChargedUntil

LEMMA CreateEntryType ==
    ASSUME TypeOK, QueueInv, NEW t \in Tasks, CreateEntry(t)
    PROVE  TypeOK' /\ QueueInv'
<1>1. CASE Start(t)
  BY <1>1 DEF TypeOK, QueueInv, Tasks, Times, Start, Goto, subscription, ledger, messages
<1>2. CASE FirstWorkspace(t)
  BY <1>2 DEF TypeOK, QueueInv, Tasks, Times, FirstWorkspace, Goto, subscription, ledger, messages
<1>3. CASE NoWorkspace(t)
  BY <1>3 DEF TypeOK, QueueInv, Tasks, Times, NoWorkspace, Returned, Forget, Goto, subscription, ledger
<1>4. CASE NoUsage(t)
  <2>1. last' \in Times /\ next' \in Nat /\ settled' \subseteq Times BY <1>4, MoveChargeType DEF NoUsage
  <2>2. UNCHANGED method /\ UNCHANGED exists BY <1>4 DEF NoUsage, MoveCharge
  <2>3. UNCHANGED <<attached, now, charged, made, told, marked, cancelled, leaving, entry, todo, cancels, faults>>
    BY <1>4 DEF NoUsage
  <2>4. Returned(t) BY <1>4 DEF NoUsage
  <2>5. pc[t] = "charge" BY <1>4 DEF NoUsage
  <2>. QED BY <2>1, <2>2, <2>3, <2>4, <2>5
           DEF TypeOK, QueueInv, Tasks, Times, Returned, Forget, Goto
<1>5. CASE AddEntry(t)
  <2>1. last' \in Times /\ next' \in Nat /\ settled' \subseteq Times BY <1>5, MoveChargeType DEF AddEntry
  <2>2. charged' \in [Workspaces -> [Times -> 0..2]]
    BY <1>5 DEF TypeOK, AddEntry, Once
  <2>3. PICK e \in Entries \ made :
            /\ made' = made \cup {e}
            /\ entry' = [entry EXCEPT ![t] = IF t = "listener" THEN e ELSE None]
    BY <1>5 DEF AddEntry
  <2>4. entry' \in [Tasks -> made' \cup {None}] BY <2>3 DEF TypeOK
  <2>5. UNCHANGED method /\ UNCHANGED exists BY <1>5 DEF AddEntry, MoveCharge
  <2>6. /\ pc[t] = "charge"
        /\ Goto(t, IF t = "job" THEN "list" ELSE "tellLast") /\ Forget(t)
        /\ UNCHANGED <<attached, now, told, marked, messages, todo, cancels, faults>>
    BY <1>5 DEF AddEntry
  <2>. QED BY <2>1, <2>2, <2>3, <2>4, <2>5, <2>6
           DEF TypeOK, QueueInv, Tasks, Times, Forget, Goto, messages
<1>. QED BY <1>1, <1>2, <1>3, <1>4, <1>5 DEF CreateEntry

LEMMA JobType ==
    ASSUME TypeOK, QueueInv, Job
    PROVE  TypeOK' /\ QueueInv'
<1>. USE DEF TypeOK, QueueInv, Tasks, Times, Goto, subscription, ledger, messages
<1>1. CASE ListDue BY <1>1 DEF ListDue
<1>2. CASE NothingDue BY <1>2 DEF NothingDue
<1>3. CASE CreateEntry("job")
  <2>1. "job" \in Tasks OBVIOUS
  <2>. QED BY <1>3, <2>1, CreateEntryType
<1>4. CASE ListUnreported BY <1>4 DEF ListUnreported, Unreported
<1>5. CASE TakeNext BY <1>5 DEF TakeNext
<1>6. CASE Tell BY <1>6 DEF Tell, AfterFailure
<1>7. CASE Mark BY <1>7 DEF Mark
<1>8. CASE Finish BY <1>8 DEF Finish
<1>. QED BY <1>1, <1>2, <1>3, <1>4, <1>5, <1>6, <1>7, <1>8, Zenon DEF Job

LEMMA EndType ==
    ASSUME TypeOK, QueueInv,
           Unsubscribe \/ Listener \/ StripeCancelled \/ ListLeaving \/ Detach \/ Attach
    PROVE  TypeOK' /\ QueueInv'
<1>. USE DEF TypeOK, QueueInv, Tasks, Times, Goto, subscription, ledger, messages, tasks
<1>1. CASE Unsubscribe BY <1>1 DEF Unsubscribe
<1>2. CASE TakeRequest BY <1>2 DEF TakeRequest
<1>3. CASE PublishCancelled BY <1>3 DEF PublishCancelled
<1>4. CASE CreateEntry("listener")
  <2>1. "listener" \in Tasks OBVIOUS
  <2>. QED BY <1>4, <2>1, CreateEntryType
<1>5. CASE TellLast BY <1>5 DEF TellLast
<1>6. CASE StripeCancelled BY <1>6 DEF StripeCancelled
<1>7. CASE ListLeaving BY <1>7 DEF ListLeaving
<1>8. CASE Detach BY <1>8 DEF Detach
<1>9. CASE Attach BY <1>9 DEF Attach
<1>. QED BY <1>1, <1>2, <1>3, <1>4, <1>5, <1>6, <1>7, <1>8, <1>9, Zenon DEF Listener

LEMMA NextType ==
    ASSUME TypeOK, QueueInv, [Next]_vars
    PROVE  TypeOK' /\ QueueInv'
<1>. USE DEF TypeOK, QueueInv, Tasks, Times, subscription, ledger, messages, tasks
<1>1. CASE Tick BY <1>1 DEF Tick
<1>2. CASE \E t \in Tasks : Crash(t) BY <1>2 DEF Crash, Goto, Forget
<1>3. CASE UNCHANGED vars BY <1>3 DEF vars
<1>. QED BY <1>1, <1>2, <1>3, JobType, EndType, Zenon DEF Next

\* The subscription, its entries and both makers of entries keep their types, whatever is interleaved
\* and whoever dies.
THEOREM TypeCorrect == Spec => [](TypeOK /\ QueueInv)
BY InitType, NextType, PTL DEF Spec

-----------------------------------------------------------------------------
(* No time is skipped.                                                     *)

\* What lies before a period about to be charged is settled, whoever captured its start and however the
\* timestamp of the row has moved since.
SettledInv ==
    /\ \A x \in Times : x < last => x \in settled
    /\ \A t \in Tasks, x \in Times : x < from[t] => x \in settled

LEMMA MoveSettles ==
    ASSUME TypeOK, SettledInv, NEW t \in Tasks, MoveCharge(t), Forget(t)
    PROVE  SettledInv'
<1>1. /\ settled' = settled \cup {x \in Times : from[t] <= x /\ x < to[t]}
      /\ last' = to[t] \/ last' = last
  BY DEF MoveCharge, ChargedUntil
<1>2. to[t] \in Times /\ from[t] \in Times BY DEF TypeOK
<1>3. \A x \in Times : x < to[t] => x \in settled'
  BY <1>1, <1>2 DEF SettledInv, Times
<1>4. \A x \in Times : x < last' => x \in settled'
  BY <1>1, <1>3 DEF SettledInv
<1>5. ASSUME NEW u \in Tasks, NEW x \in Times, x < from'[u] PROVE x \in settled'
  <2>1. from' = [from EXCEPT ![t] = 0] /\ from \in [Tasks -> Times] BY DEF Forget, TypeOK
  <2>2. u # t BY <1>5, <2>1 DEF Times
  <2>. QED BY <1>1, <1>5, <2>1, <2>2 DEF SettledInv
<1>. QED BY <1>4, <1>5 DEF SettledInv

LEMMA NextSettles ==
    ASSUME TypeOK, SettledInv, [Next]_vars
    PROVE  SettledInv'
<1>1. ASSUME NEW t \in Tasks, AddEntry(t) \/ NoUsage(t) PROVE SettledInv'
  BY <1>1, MoveSettles DEF AddEntry, NoUsage, Returned
<1>2. ASSUME NEW t \in Tasks, NEW y \in {0, last}, UNCHANGED <<last, settled>>, from' = [from EXCEPT ![t] = y]
      PROVE  SettledInv'
  <2>1. from \in [Tasks -> Times] BY DEF TypeOK
  <2>2. \A x \in Times : x < y => x \in settled BY DEF SettledInv, Times
  <2>3. \A u \in Tasks : from'[u] = IF u = t THEN y ELSE from[u] BY <1>2, <2>1
  <2>. QED BY <1>2, <2>2, <2>3 DEF SettledInv
<1>3. UNCHANGED <<last, settled, from>> => SettledInv' BY DEF SettledInv
<1>4. "job" \in Tasks /\ "listener" \in Tasks BY DEF Tasks
<1>5. CASE ListDue BY <1>2, <1>4, <1>5 DEF ListDue, subscription, ledger
<1>6. CASE TakeRequest BY <1>2, <1>4, <1>6 DEF TakeRequest, subscription, ledger
<1>7. ASSUME NEW t \in Tasks, NoWorkspace(t) \/ Crash(t) PROVE SettledInv'
  BY <1>2, <1>7 DEF NoWorkspace, Crash, Returned, Forget, subscription, ledger
<1>8. ASSUME NEW t \in Tasks, Start(t) \/ FirstWorkspace(t) PROVE SettledInv'
  BY <1>3, <1>8 DEF Start, FirstWorkspace, subscription, ledger
<1>9. ASSUME NEW t \in Tasks, CreateEntry(t) PROVE SettledInv'
  BY <1>1, <1>7, <1>8, <1>9 DEF CreateEntry
<1>10. CASE NothingDue \/ ListUnreported \/ TakeNext \/ Tell \/ Mark \/ Finish
  BY <1>3, <1>10 DEF NothingDue, ListUnreported, TakeNext, Tell, Mark, Finish, subscription, ledger
<1>11. CASE \/ PublishCancelled \/ TellLast \/ Unsubscribe \/ StripeCancelled
            \/ ListLeaving \/ Detach \/ Attach \/ Tick \/ UNCHANGED vars
  BY <1>3, <1>11 DEF PublishCancelled, TellLast, Unsubscribe, StripeCancelled, ListLeaving, Detach, Attach,
                     Tick, vars, subscription, ledger, tasks
<1>. QED BY <1>4, <1>5, <1>6, <1>7, <1>9, <1>10, <1>11, Zenon DEF Next, Job, Listener

\* Whatever the charge timestamp says was charged or had no usage: the job and the listener may write it
\* in any order and die anywhere.
THEOREM NoTimeSkipped == Spec => []NothingSkipped
<1>1. Init => SettledInv BY DEF Init, SettledInv, Times, Tasks
<1>2. TypeOK /\ SettledInv /\ [Next]_vars => SettledInv' BY NextSettles
<1>3. SettledInv => NothingSkipped BY DEF SettledInv, NothingSkipped
<1>. QED BY <1>1, <1>2, <1>3, TypeCorrect, PTL DEF Spec

-----------------------------------------------------------------------------
(* Reports.                                                                *)

MarkInv ==
    /\ marked \subseteq told
    /\ pc["job"] = "mark" => entry["job"] \in told

LEMMA NextMarks ==
    ASSUME TypeOK, MarkInv, [Next]_vars
    PROVE  MarkInv'
<1>1. "job" \in Tasks /\ "listener" \in Tasks /\ "job" # "listener" BY DEF Tasks
<1>2. /\ pc \in [Tasks -> {"idle", "publish", "start", "workspaces", "charge", "list", "report", "tell",
                            "mark", "tellLast"}]
      /\ entry \in [Tasks -> made \cup {None}]
  BY DEF TypeOK
<1>. USE DEF MarkInv, Goto, ledger, tasks
<1>3. ASSUME NEW t \in Tasks, CreateEntry(t) PROVE MarkInv'
  <2>1. /\ UNCHANGED <<told, marked>>
        /\ pc'["job"] # "mark" \/ (pc'["job"] = pc["job"] /\ entry'["job"] = entry["job"])
    BY <1>1, <1>2, <1>3 DEF CreateEntry, Start, FirstWorkspace, NoWorkspace, AddEntry, NoUsage, Returned
  <2>. QED BY <2>1
<1>4. CASE Tell BY <1>1, <1>2, <1>4 DEF Tell, AfterFailure
<1>5. CASE Mark BY <1>1, <1>2, <1>5 DEF Mark
<1>6. CASE ListDue \/ NothingDue \/ ListUnreported \/ TakeNext \/ Finish
  BY <1>1, <1>2, <1>6 DEF ListDue, NothingDue, ListUnreported, TakeNext, Finish
<1>7. CASE TakeRequest \/ PublishCancelled \/ TellLast
  BY <1>1, <1>2, <1>7 DEF TakeRequest, PublishCancelled, TellLast
<1>8. CASE Unsubscribe \/ StripeCancelled \/ ListLeaving \/ Detach \/ Attach \/ Tick \/ UNCHANGED vars
  BY <1>8 DEF Unsubscribe, StripeCancelled, ListLeaving, Detach, Attach, Tick, vars
<1>9. ASSUME NEW t \in Tasks, Crash(t) PROVE MarkInv'
  BY <1>1, <1>2, <1>9 DEF Crash
<1>. QED BY <1>1, <1>3, <1>4, <1>5, <1>6, <1>7, <1>8, <1>9, Zenon DEF Next, Job, Listener

\* An entry is marked only when the marketplace has taken it, however many reports fail and jobs die.
THEOREM NoMoneyLost == Spec => []MarkedWasTold
<1>1. Init => MarkInv BY DEF Init, MarkInv, Tasks
<1>2. TypeOK /\ MarkInv /\ [Next]_vars => MarkInv' BY NextMarks
<1>3. MarkInv => MarkedWasTold BY DEF MarkInv, MarkedWasTold
<1>. QED BY <1>1, <1>2, <1>3, TypeCorrect, PTL DEF Spec

-----------------------------------------------------------------------------
(* Nothing is charged twice.                                               *)

\* the job is between reading the charge timestamp and writing it
Charging == pc["job"] \in {"start", "workspaces", "charge"}

\* Without a cancellation the job is the only one to charge: what it is about to charge starts at the
\* charge timestamp, and nothing from there on was charged.  It may find the row deleted when it writes
\* the timestamp; then it never comes back to it.
OnceInv ==
    /\ pc["listener"] = "idle"
    /\ last <= now
    /\ pc["job"] \in {"workspaces", "charge"} => last <= to["job"] /\ to["job"] <= now
    /\ Charging => from["job"] = last
    /\ \A w \in Workspaces, x \in Times :
        /\ charged[w][x] <= 1
        /\ (exists \/ Charging) /\ last <= x => charged[w][x] = 0

\* until the customer cancels
CancelInv == cancels = 0 => OnceInv

LEMMA AddOnce ==
    ASSUME TypeOK, OnceInv, AddEntry("job")
    PROVE  OnceInv'
<1>0. "job" \in Tasks /\ "listener" \in Tasks /\ "job" # "listener" BY DEF Tasks
<1>. DEFINE f == from["job"]
            u == to["job"]
<1>1. /\ pc["job"] = "charge" /\ pc' = [pc EXCEPT !["job"] = "list"]
      /\ charged' = [charged EXCEPT ![ws["job"]] =
                        [x \in Times |-> IF f <= x /\ x < u THEN Once(@[x]) ELSE @[x]]]
      /\ IF exists THEN last' = u ELSE last' = last
      /\ UNCHANGED <<exists, now>>
  BY <1>0 DEF AddEntry, MoveCharge, ChargedUntil, Goto
<1>2. /\ f = last /\ last <= u /\ u <= now /\ last \in Times /\ u \in Times /\ now \in Times
      /\ \A w \in Workspaces, x \in Times :
            charged[w][x] \in 0..1 /\ (last <= x => charged[w][x] = 0)
  BY <1>0, <1>1 DEF OnceInv, Charging, TypeOK
<1>3. pc'["job"] = "list" /\ pc'["listener"] = "idle" /\ ~Charging'
  BY <1>0, <1>1 DEF OnceInv, Charging, TypeOK
<1>. HIDE DEF f, u
<1>4. charged \in [Workspaces -> [Times -> 0..2]] BY DEF TypeOK
<1>5. ASSUME NEW w \in Workspaces, NEW x \in Times
      PROVE  charged'[w][x] = IF w = ws["job"] /\ f <= x /\ x < u THEN Once(charged[w][x]) ELSE charged[w][x]
  BY <1>1, <1>4
<1>6. ASSUME NEW w \in Workspaces, NEW x \in Times
      PROVE  charged'[w][x] <= 1 /\ (exists' /\ last' <= x => charged'[w][x] = 0)
  BY <1>1, <1>2, <1>5, <1>6 DEF Once, Times
<1>7. last' <= now'
  <2>1. last' \in {u, last} /\ now' = now BY <1>1
  <2>. QED BY <1>2, <2>1 DEF Times
<1>. QED BY <1>3, <1>6, <1>7 DEF OnceInv

LEMMA NoUsageOnce ==
    ASSUME TypeOK, OnceInv, NoUsage("job")
    PROVE  OnceInv'
<1>0. "job" \in Tasks /\ "listener" \in Tasks /\ "job" # "listener" BY DEF Tasks
<1>1. /\ pc["job"] = "charge" /\ pc' = [pc EXCEPT !["job"] = "list"]
      /\ IF exists THEN last' = to["job"] ELSE last' = last
      /\ UNCHANGED <<exists, now, charged>>
  BY <1>0 DEF NoUsage, MoveCharge, ChargedUntil, Returned, Goto
<1>2. /\ last <= to["job"] /\ to["job"] <= now /\ last \in Times /\ to["job"] \in Times /\ now \in Times
  BY <1>0, <1>1 DEF OnceInv, TypeOK
<1>3. pc'["job"] = "list" /\ pc'["listener"] = "idle" /\ ~Charging' /\ Charging
  BY <1>0, <1>1 DEF OnceInv, Charging, TypeOK
<1>. QED BY <1>1, <1>2, <1>3 DEF OnceInv, Times

LEMMA NextOnce ==
    ASSUME TypeOK, QueueInv, CancelInv, [Next]_vars
    PROVE  CancelInv'
<1>0. /\ "job" \in Tasks /\ "listener" \in Tasks /\ "job" # "listener"
      /\ requests \in Nat /\ cancels \in Nat /\ now \in Times /\ last \in Times
      /\ pc \in [Tasks -> {"idle", "publish", "start", "workspaces", "charge", "list", "report", "tell",
                            "mark", "tellLast"}]
      /\ from \in [Tasks -> Times] /\ to \in [Tasks -> Times]
  BY DEF TypeOK, Tasks
<1>1. CASE Unsubscribe BY <1>0, <1>1 DEF Unsubscribe, CancelInv
<1>2. CASE ~Unsubscribe /\ cancels # 0
  BY <1>0, <1>2 DEF CancelInv, Next, Job, Listener, CreateEntry, Start, FirstWorkspace, NoWorkspace, AddEntry,
                    NoUsage, ListDue, NothingDue, ListUnreported, TakeNext, Tell, Mark, Finish, TakeRequest,
                    PublishCancelled, TellLast, StripeCancelled, ListLeaving, Detach, Attach, Tick, Crash, vars
<1>3. CASE ~Unsubscribe /\ cancels = 0
  <2>0. OnceInv /\ requests = 0 /\ pc["listener"] = "idle"
    BY <1>0, <1>3 DEF CancelInv, OnceInv, QueueInv
  <2>. SUFFICES OnceInv' BY DEF CancelInv
  <2>. USE DEF Goto, Forget, subscription, ledger
  <2>1. CASE Listener
    BY <2>0, <2>1 DEF Listener, TakeRequest, PublishCancelled, TellLast, CreateEntry, Start, FirstWorkspace,
                      NoWorkspace, AddEntry, NoUsage
  <2>2. CASE AddEntry("job") BY <2>0, <2>2, AddOnce
  <2>3. CASE NoUsage("job") BY <2>0, <2>3, NoUsageOnce
  <2>4. CASE Start("job") BY <1>0, <2>0, <2>4 DEF Start, OnceInv, Charging, Times
  <2>5. CASE FirstWorkspace("job") BY <1>0, <2>0, <2>5 DEF FirstWorkspace, OnceInv, Charging
  <2>6. CASE NoWorkspace("job") BY <1>0, <2>0, <2>6 DEF NoWorkspace, Returned, OnceInv, Charging
  <2>7. CASE ListDue BY <1>0, <2>0, <2>7 DEF ListDue, OnceInv, Charging
  <2>8. CASE NothingDue \/ ListUnreported \/ TakeNext \/ Tell \/ Mark \/ Finish
    BY <1>0, <2>0, <2>8 DEF NothingDue, ListUnreported, TakeNext, Tell, AfterFailure, Mark, Finish, OnceInv,
                            Charging
  <2>9. CASE StripeCancelled BY <1>0, <2>0, <2>9 DEF StripeCancelled, OnceInv, Charging, tasks
  <2>10. CASE Tick BY <1>0, <2>0, <2>10 DEF Tick, OnceInv, Charging, Times, tasks
  <2>11. CASE ListLeaving \/ Detach \/ Attach \/ UNCHANGED vars
    BY <1>0, <2>0, <2>11 DEF ListLeaving, Detach, Attach, vars, OnceInv, Charging, tasks
  <2>12. ASSUME NEW t \in Tasks, Crash(t) PROVE OnceInv'
    BY <1>0, <2>0, <2>12 DEF Crash, OnceInv, Charging, Tasks
  <2>. QED
    BY <1>3, <2>1, <2>2, <2>3, <2>4, <2>5, <2>6, <2>7, <2>8, <2>9, <2>10, <2>11, <2>12, Zenon
    DEF Next, Job, CreateEntry
<1>. QED BY <1>1, <1>2, <1>3

\* Until the customer cancels no workspace is charged twice for the same time, however late the job runs
\* and wherever it dies.
THEOREM NothingChargedTwice == Spec => []ChargedOnce
<1>1. Init => CancelInv BY DEF Init, CancelInv, OnceInv, Charging, Tasks, Times
<1>2. TypeOK /\ QueueInv /\ CancelInv /\ [Next]_vars => CancelInv' BY NextOnce
<1>3. CancelInv => ChargedOnce BY DEF CancelInv, OnceInv, ChargedOnce
<1>. QED BY <1>1, <1>2, <1>3, TypeCorrect, PTL DEF Spec

=============================================================================
