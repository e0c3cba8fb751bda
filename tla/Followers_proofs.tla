-------------------------- MODULE Followers_proofs --------------------------
(***************************************************************************)
(* What is proved of the parts that follow a workspace and its accounts:   *)
(* the limits of its tier, its alerts, its reminders and reports, and its  *)
(* graph database.  Each part is about the specification of its own.       *)
(***************************************************************************)
EXTENDS AccountLimitsProps, Alerts, Reminders, ScheduledEmails, Inventory, Answers, FiniteSetTheorems,
        SequenceTheorems, TLAPS

-----------------------------------------------------------------------------
(* The limits on the accounts.                                             *)

LEMMA GotoType ==
    ASSUME TypeOK, NEW t \in Tasks, NEW next, NEW S,
           next \in {"idle", "hold", "unsubscribe", "unhold", "list", "disable", "count", "enable",
                     "delete", "tier", "insert"},
           S \in SUBSET Accounts, Goto(t, next, S)
    PROVE  /\ pc' \in [Tasks -> {"idle", "hold", "unsubscribe", "unhold", "list", "disable", "count",
                                 "enable", "delete", "tier", "insert"}]
           /\ todo' \in [Tasks -> SUBSET Accounts]
BY DEF TypeOK, Goto

LEMMA InitType == Init => TypeOK
<1>. SUFFICES ASSUME Init PROVE TypeOK OBVIOUS
<1>1. state \in [Accounts -> States] /\ enabled \in [Accounts -> BOOLEAN] BY DEF Init, States
<1>2. \A a \in Accounts : enabled[a] => state[a] \in {"discovered", "configured", "degraded"} BY DEF Init
<1>3. Timeout \in Nat /\ Window \in Nat /\ NSubs \in Nat BY SizeAssumption
<1>4. /\ age \in 0..(Timeout + Window + 1) /\ late \in 0..MaxLate /\ used \in 0..NSubs
  BY <1>3, SizeAssumption DEF Init
<1>5. requests \in 0..MaxRequests /\ changes \in 0..MaxChanges /\ crashes \in 0..MaxCrashes
  BY BoundAssumption DEF Init
<1>6. /\ pc \in [Tasks -> {"idle", "hold", "unsubscribe", "unhold", "list", "disable", "count",
                           "enable", "delete", "tier", "insert"}]
      /\ msg \in [Tasks -> Event \cup {NoEvent}]
      /\ todo \in [Tasks -> SUBSET Accounts]
      /\ mayEnable \in [Tasks -> BOOLEAN]
  BY DEF Init
<1>. QED BY <1>1, <1>2, <1>4, <1>5, <1>6 DEF TypeOK, Init, Tiers

\* What every step keeps of the accounts: the part of TypeOK about their rows.
RowsOK ==
    /\ state \in [Accounts -> States]
    /\ enabled \in [Accounts -> BOOLEAN]
    /\ \A a \in Accounts : enabled[a] => state[a] \in {"discovered", "configured", "degraded"}

LEMMA DeletedRows ==
    ASSUME TypeOK, NEW a \in Accounts, Deleted(a)
    PROVE  RowsOK'
BY DEF TypeOK, Deleted, RowsOK, States

LEMMA ListsType ==
    ASSUME TypeOK, NEW S \in SUBSET Accounts, NEW n
    PROVE  /\ AfterFirst(S, n) \in SUBSET Accounts /\ BeforeLast(S, n) \in SUBSET Accounts
           /\ First(S, n) \in SUBSET Accounts /\ ToDisable(S) \in SUBSET Accounts
           /\ ToCleanUp(S) \in SUBSET Accounts /\ On \in SUBSET Accounts /\ Live \in SUBSET Accounts
           /\ ToEnable \in SUBSET Accounts
BY DEF AfterFirst, BeforeLast, First, ToDisable, ToCleanUp, On, Live, ToEnable

LEMMA TaskFacts ==
    /\ "request" \in Tasks /\ "trialEnd" \in Tasks /\ "cleanup" \in Tasks
    /\ \A h \in Handlers : h \in Tasks /\ h # "trialEnd" /\ h # "request" /\ h # "cleanup"
    /\ "request" # "trialEnd" /\ "cleanup" # "trialEnd" /\ "request" # "cleanup"
BY TaskAssumption DEF Tasks, Jobs

Pcs == {"idle", "hold", "unsubscribe", "unhold", "list", "disable", "count", "enable", "delete", "tier",
        "insert"}

\* One case per action; each changes few variables, and Goto only the program counter and the list of a task.
LEMMA NextType ==
    ASSUME TypeOK, [Next]_vars
    PROVE  TypeOK'
<1>. USE DEF accounts, plan, task, clock, bounds, vars
<1>0. "request" \in Tasks /\ "trialEnd" \in Tasks /\ "cleanup" \in Tasks /\ Handlers \subseteq Tasks
  BY TaskFacts
<1>1. ASSUME NEW a \in Accounts, AskToAdd(a) PROVE TypeOK'
  <2>1. mayEnable' \in [Tasks -> BOOLEAN] BY <1>1 DEF AskToAdd, TypeOK, ShouldBeEnabled
  <2>2. Goto("request", "insert", {a}) BY <1>1 DEF AskToAdd
  <2>. QED BY <1>0, <1>1, <2>1, <2>2, GotoType, BoundAssumption DEF AskToAdd, TypeOK
<1>2. CASE Insert
  <2>1. Goto("request", "idle", {}) BY <1>2 DEF Insert
  <2>2. PICK a \in todo["request"], s \in {"detected", "discovered", "configured"} :
          /\ state' = [state EXCEPT ![a] = s]
          /\ enabled' = [enabled EXCEPT ![a] = s # "detected" /\ mayEnable["request"]]
          /\ touched' = (touched \/ enabled[a])
          /\ overdue' = overdue \ {a}
    BY <1>2 DEF Insert
  <2>3. a \in Accounts /\ mayEnable["request"] \in BOOLEAN BY <1>0 DEF TypeOK
  <2>4. RowsOK' BY <2>2, <2>3 DEF TypeOK, RowsOK, States
  <2>5. touched' \in BOOLEAN BY <2>2, <2>3 DEF TypeOK
  <2>6. mayEnable' \in [Tasks -> BOOLEAN] BY <1>2 DEF Insert, TypeOK
  <2>7. overdue' \subseteq Accounts BY <2>2 DEF TypeOK
  <2>8. UNCHANGED <<plan, events, msg, age, late, bounds>> BY <1>2 DEF Insert
  <2>. QED BY <1>0, <2>1, <2>4, <2>5, <2>6, <2>7, <2>8, GotoType DEF TypeOK, RowsOK
<1>3. ASSUME NEW a \in Accounts, Configure(a) PROVE TypeOK'
  <2>1. RowsOK' BY <1>3 DEF Configure, TypeOK, RowsOK, States
  <2>. QED BY <1>3, <2>1 DEF Configure, TypeOK, RowsOK
<1>4. ASSUME NEW a \in Accounts, Degrade(a) PROVE TypeOK'
  <2>1. RowsOK' BY <1>4 DEF Degrade, TypeOK, RowsOK, States
  <2>2. changes' \in 0..MaxChanges BY <1>4, BoundAssumption DEF Degrade, TypeOK
  <2>. QED BY <1>4, <2>1, <2>2 DEF Degrade, TypeOK, RowsOK
<1>5. ASSUME NEW a \in Accounts, Delete(a) PROVE TypeOK'
  <2>1. RowsOK' BY <1>5, DeletedRows DEF Delete
  <2>2. requests' \in 0..MaxRequests BY <1>5, BoundAssumption DEF Delete, TypeOK
  <2>. QED BY <1>5, <2>1, <2>2 DEF Delete, TypeOK, RowsOK
<1>6. ASSUME NEW a \in Accounts, NEW on \in BOOLEAN, AskToSwitch(a, on) PROVE TypeOK'
  <2>1. mayEnable' \in [Tasks -> BOOLEAN] BY <1>6 DEF AskToSwitch, TypeOK, MayEnable
  <2>2. Goto("request", IF on THEN "enable" ELSE "disable", {a}) BY <1>6 DEF AskToSwitch
  <2>3. requests' \in 0..MaxRequests BY <1>6, BoundAssumption DEF AskToSwitch, TypeOK
  <2>4. (IF on THEN "enable" ELSE "disable") \in Pcs BY DEF Pcs
  <2>. QED BY <1>0, <1>6, <2>1, <2>2, <2>3, <2>4, GotoType DEF AskToSwitch, TypeOK, Pcs
<1>7. ASSUME NEW t \in Tasks, NEW a \in Accounts, SwitchOff(t, a) PROVE TypeOK'
  <2>1. RowsOK' BY <1>7 DEF SwitchOff, TypeOK, RowsOK, CanSwitch
  <2>2. Goto(t, "disable", todo[t] \ {a}) /\ todo[t] \ {a} \in SUBSET Accounts
    BY <1>7 DEF SwitchOff, TypeOK
  <2>3. touched' \in BOOLEAN BY <1>7 DEF SwitchOff, TypeOK
  <2>. QED BY <1>7, <2>1, <2>2, <2>3, GotoType DEF SwitchOff, TypeOK, RowsOK
<1>8. ASSUME NEW t \in Tasks, NEW a \in Accounts, SwitchOn(t, a) PROVE TypeOK'
  <2>1. RowsOK' BY <1>8 DEF SwitchOn, TypeOK, RowsOK, CanSwitch
  <2>2. /\ Goto(t, IF t = "request" THEN "disable" ELSE "count", todo[t] \ {a})
        /\ todo[t] \ {a} \in SUBSET Accounts
    BY <1>8 DEF SwitchOn, TypeOK
  <2>3. mayEnable' \in [Tasks -> BOOLEAN] BY <1>8 DEF SwitchOn, TypeOK
  <2>4. (IF t = "request" THEN "disable" ELSE "count") \in Pcs BY DEF Pcs
  <2>. QED BY <1>8, <2>1, <2>2, <2>3, <2>4, GotoType DEF SwitchOn, TypeOK, RowsOK, Pcs
<1>9. ASSUME NEW t \in Tasks, NEW a \in Accounts, DeleteListed(t, a) PROVE TypeOK'
  <2>1. RowsOK' BY <1>9, DeletedRows DEF DeleteListed
  <2>2. Goto(t, "delete", todo[t] \ {a}) /\ todo[t] \ {a} \in SUBSET Accounts
    BY <1>9 DEF DeleteListed, TypeOK
  <2>3. touched' \in BOOLEAN /\ overdue' \subseteq Accounts BY <1>9 DEF DeleteListed, TypeOK
  <2>. QED BY <1>9, <2>1, <2>2, <2>3, GotoType DEF DeleteListed, TypeOK, RowsOK
<1>10. ASSUME NEW t \in Tasks, ReadLimits(t) PROVE TypeOK'
  <2>1. mayEnable' \in [Tasks -> BOOLEAN] BY <1>10 DEF ReadLimits, TypeOK, MayEnable
  <2>2. pc' \in [Tasks -> Pcs] BY <1>10 DEF ReadLimits, TypeOK, Pcs
  <2>. QED BY <1>10, <2>1, <2>2 DEF ReadLimits, TypeOK, Pcs
<1>11. ASSUME NEW t \in Tasks, Finish(t) PROVE TypeOK'
  <2>1. Goto(t, "idle", {}) BY <1>11 DEF Finish
  <2>2. msg' \in [Tasks -> Event \cup {NoEvent}] /\ events' \subseteq Event BY <1>11 DEF Finish, TypeOK
  <2>. QED BY <1>11, <2>1, <2>2, GotoType DEF Finish, TypeOK
<1>12. ASSUME NEW t \in Tiers, ChangeTier(t) PROVE TypeOK'
  <2>1. Current \in Tiers BY DEF Current, TypeOK, Tiers
  <2>2. events' \subseteq Event BY <1>12, <2>1 DEF ChangeTier, TypeOK, Event
  <2>3. changes' \in 0..MaxChanges BY <1>12, BoundAssumption DEF ChangeTier, TypeOK
  <2>4. age' \in 0..(Timeout + Window + 1) BY <1>12, SizeAssumption DEF ChangeTier
  <2>. QED BY <1>12, <2>2, <2>3, <2>4 DEF ChangeTier, TypeOK
<1>13. CASE EndCycle BY <1>13 DEF EndCycle, TypeOK
<1>14. CASE Subscribe
  <2>1. used' \in 0..NSubs /\ sub' \in Subs \cup {0} /\ used' \in Subs
    BY <1>14, SizeAssumption DEF Subscribe, TypeOK, Subs
  <2>2. events' \subseteq Event BY <1>14, <2>1 DEF Subscribe, TypeOK, Event
  <2>. QED BY <1>14, <2>1, <2>2 DEF Subscribe, TypeOK
<1>15. ASSUME NEW s \in Subs, Cancel(s) PROVE TypeOK'
  <2>1. events' \subseteq Event BY <1>15 DEF Cancel, TypeOK, Event
  <2>2. changes' \in 0..MaxChanges BY <1>15, BoundAssumption DEF Cancel, TypeOK
  <2>. QED BY <1>15, <2>1, <2>2 DEF Cancel, TypeOK
<1>16. ASSUME NEW h \in Handlers, NEW e \in events, Take(h, e) PROVE TypeOK'
  <2>0. e \in Event BY DEF TypeOK
  <2>1. e.kind \in {"tierChanged", "cancelled", "created"} BY <2>0 DEF Event
  <2>2. PICK next \in {"list", "hold", "unhold", "delete"} : Goto(h, next, {})
    BY <1>16, <2>1 DEF Take
  <2>3. msg' \in [Tasks -> Event \cup {NoEvent}] BY <1>16, <2>0 DEF Take, TypeOK
  <2>. QED BY <1>0, <1>16, <2>2, <2>3, GotoType DEF Take, TypeOK
<1>17. ASSUME NEW h \in Handlers, PutOnHold(h) \/ Unsubscribe(h) \/ EndHold(h) PROVE TypeOK'
  <2>1. PICK next \in {"unsubscribe", "list"} : Goto(h, next, {})
    BY <1>17 DEF PutOnHold, Unsubscribe, EndHold
  <2>2. onHold' \in BOOLEAN /\ sub' \in Subs \cup {0} BY <1>17 DEF PutOnHold, Unsubscribe, EndHold, TypeOK
  <2>3. UNCHANGED <<accounts, tier, cycle, used, events, msg, mayEnable, clock, touched, bounds>>
    BY <1>17 DEF PutOnHold, Unsubscribe, EndHold
  <2>. QED BY <1>0, <2>1, <2>2, <2>3, GotoType DEF TypeOK
<1>18. ASSUME NEW h \in Handlers, List(h) PROVE TypeOK'
  <2>1. PICK next \in {"delete", "disable", "count"}, S \in SUBSET Accounts : Goto(h, next, S)
    BY <1>18, ListsType DEF List
  <2>. QED BY <1>0, <1>18, <2>1, GotoType DEF List, TypeOK
<1>19. CASE ListTrial \/ DisableTrial
  <2>1. PICK next \in {"list", "disable"}, S \in SUBSET Accounts : Goto("trialEnd", next, S)
    BY <1>19, ListsType DEF ListTrial, DisableTrial
  <2>2. UNCHANGED <<accounts, plan, events, msg, mayEnable, clock, touched, bounds>>
    BY <1>19 DEF ListTrial, DisableTrial
  <2>. QED BY <1>0, <2>1, <2>2, GotoType DEF TypeOK
<1>20. CASE EndTrial
  <2>1. Goto("trialEnd", "idle", {}) BY <1>20 DEF EndTrial
  <2>2. age' \in 0..(Timeout + Window + 1) BY <1>20, SizeAssumption DEF EndTrial
  <2>3. tier' \in Tiers /\ cycle' \in {"never", "runs", "over"} /\ overdue' \subseteq Accounts
    BY <1>20 DEF EndTrial, TypeOK, Tiers
  <2>. QED BY <1>0, <1>20, <2>1, <2>2, <2>3, GotoType DEF EndTrial, TypeOK
<1>21. CASE RunCleanup
  <2>1. PICK next \in {"list", "idle"} : Goto("cleanup", next, {}) BY <1>21 DEF RunCleanup
  <2>2. late' \in 0..MaxLate BY <1>21, SizeAssumption DEF RunCleanup
  <2>. QED BY <1>0, <1>21, <2>1, <2>2, GotoType DEF RunCleanup, TypeOK
<1>22. CASE ListForCleanup
  <2>1. Goto("cleanup", "delete", ToCleanUp(Live)) /\ ToCleanUp(Live) \in SUBSET Accounts
    BY <1>22, ListsType DEF ListForCleanup
  <2>. QED BY <1>0, <1>22, <2>1, GotoType DEF ListForCleanup, TypeOK
<1>23. CASE Tick
  <2>1. age' \in 0..(Timeout + Window + 1) /\ late' \in 0..MaxLate
    BY <1>23, SizeAssumption DEF Tick, TypeOK
  <2>2. overdue' \subseteq Accounts BY <1>23 DEF Tick, TypeOK, Live
  <2>. QED BY <1>23, <2>1, <2>2 DEF Tick, TypeOK
<1>24. CASE Crash
  <2>1. late' \in 0..MaxLate BY <1>24, SizeAssumption DEF Crash
  <2>2. crashes' \in 0..MaxCrashes BY <1>24, BoundAssumption DEF Crash, TypeOK
  <2>3. /\ pc' \in [Tasks -> Pcs] /\ todo' \in [Tasks -> SUBSET Accounts]
        /\ msg' \in [Tasks -> Event \cup {NoEvent}] /\ mayEnable' \in [Tasks -> BOOLEAN]
    BY <1>24 DEF Crash, Pcs
  <2>. QED BY <1>24, <2>1, <2>2, <2>3 DEF Crash, TypeOK, Pcs
<1>25. CASE UNCHANGED vars BY <1>25 DEF TypeOK
<1>. QED BY <1>1, <1>2, <1>3, <1>4, <1>5, <1>6, <1>7, <1>8, <1>9, <1>10, <1>11, <1>12, <1>13, <1>14, <1>15,
            <1>16, <1>17, <1>18, <1>19, <1>20, <1>21, <1>22, <1>23, <1>24, <1>25
   DEF Next

\* Rows, programs and messages have the form the code relies on; in particular only an account that is
\* discovered, configured or degraded is ever switched on.
THEOREM TypeCorrect == Spec => []TypeOK
<1>. QED BY InitType, NextType, PTL DEF Spec

-----------------------------------------------------------------------------
(* The limits never switch off the last account.                           *)

\* Whatever a task other than a request is about to switch off, an account after it in the list is on.
\* That one is not switched off first: the same holds of it, in the list of any task that has it.
KeepInv ==
    ~touched => \A t \in Tasks \ {"request"} :
        pc[t] = "disable" => \A a \in todo[t] : \E b \in On : b > a

LEMMA BeforeLastHasLater ==
    ASSUME NEW S \in SUBSET Accounts, NEW a \in BeforeLast(S, Limit)
    PROVE  \E b \in S : b > a
<1>1. Cardinality({b \in S : b > a}) >= Limit BY DEF BeforeLast
<1>2. Limit \in Nat \ {0} BY SizeAssumption
<1>3. Cardinality({b \in S : b > a}) # 0 BY <1>1, <1>2
<1>4. {b \in S : b > a} # {} BY <1>3, FS_EmptySet
<1>. QED BY <1>4

\* A step that keeps every account on and gives no task anything new to switch off keeps the invariant.
LEMMA MoreOn ==
    ASSUME KeepInv, touched' \/ (~touched /\ On \subseteq On'),
           \A t \in Tasks \ {"request"} : pc'[t] = "disable" => pc[t] = "disable" /\ todo'[t] \subseteq todo[t]
    PROVE  KeepInv'
BY DEF KeepInv

LEMMA OthersStay ==
    ASSUME TypeOK, NEW t \in Tasks, NEW next, NEW S, Goto(t, next, S),
           t = "request" \/ next # "disable" \/ (pc[t] = "disable" /\ S \subseteq todo[t])
    PROVE  \A u \in Tasks \ {"request"} : pc'[u] = "disable" => pc[u] = "disable" /\ todo'[u] \subseteq todo[u]
BY DEF TypeOK, Goto

LEMMA NewList ==
    ASSUME TypeOK, KeepInv, NEW t \in Tasks, Goto(t, "disable", ToDisable(On)), touched' = touched, enabled' = enabled
    PROVE  KeepInv'
<1>1. On' = On BY DEF On
<1>2. \A a \in ToDisable(On) : \E b \in On : b > a BY ListsType, BeforeLastHasLater DEF ToDisable
<1>3. ASSUME NEW u \in Tasks, pc'[u] = "disable"
      PROVE  todo'[u] = ToDisable(On) \/ (pc[u] = "disable" /\ todo'[u] = todo[u])
  BY <1>3 DEF TypeOK, Goto
<1>. QED BY <1>1, <1>2, <1>3 DEF KeepInv

\* What switching off one account leaves on.
LEMMA OffStep ==
    ASSUME TypeOK, KeepInv, NEW t \in Tasks, NEW a \in Accounts, SwitchOff(t, a), ~touched'
    PROVE  /\ ~touched /\ t # "request" /\ On \ {a} \subseteq On'
           /\ \E c \in On \cap On' : c > a
           /\ \A u \in Tasks \ {"request"} : pc'[u] = "disable" => pc[u] = "disable" /\ todo'[u] \subseteq todo[u]
<1>1. ~touched /\ t # "request" /\ pc[t] = "disable" /\ a \in todo[t] BY DEF SwitchOff
<1>2. On \ {a} \subseteq On' BY DEF SwitchOff, On, TypeOK
<1>3. PICK c \in On : c > a BY <1>1 DEF KeepInv
<1>4. c # a BY <1>3 DEF On, Accounts
<1>5. Goto(t, "disable", todo[t] \ {a}) BY DEF SwitchOff
<1>. QED BY <1>1, <1>2, <1>3, <1>4, <1>5, OthersStay

LEMMA InitKeep == Init => KeepInv
BY DEF Init, KeepInv

\* Every step but SwitchOff keeps the accounts on, or is one that touched records.
LEMMA OtherSteps ==
    ASSUME TypeOK, [Next]_vars, ~touched'
    PROVE  ~touched /\ (On \subseteq On' \/ \E t \in Tasks, a \in Accounts : SwitchOff(t, a))
<1>. USE DEF accounts, plan, task, clock, bounds, vars
<1>1. CASE Insert
  <2>1. PICK a \in todo["request"], s \in {"detected", "discovered", "configured"} :
          /\ enabled' = [enabled EXCEPT ![a] = s # "detected" /\ mayEnable["request"]]
          /\ touched' = (touched \/ enabled[a])
    BY <1>1 DEF Insert
  <2>. QED BY <2>1 DEF On, TypeOK
<1>2. ASSUME NEW t \in Tasks, NEW a \in Accounts, SwitchOn(t, a) PROVE ~touched /\ On \subseteq On'
  BY <1>2 DEF SwitchOn, On, TypeOK
<1>3. ASSUME NEW t \in Tasks, NEW a \in Accounts, SwitchOff(t, a) PROVE ~touched
  BY <1>3 DEF SwitchOff
<1>4. ASSUME NEW a \in Accounts, Delete(a) \/ \E t \in Tasks : DeleteListed(t, a) PROVE FALSE
  BY <1>4 DEF Delete, DeleteListed
<1>5. ASSUME enabled' = enabled, touched' = touched PROVE ~touched /\ On \subseteq On'
  BY <1>5 DEF On
<1>6. ASSUME NEW a \in Accounts, \/ AskToAdd(a) \/ Configure(a) \/ Degrade(a)
                                 \/ \E on \in BOOLEAN : AskToSwitch(a, on)
      PROVE  enabled' = enabled /\ touched' = touched
  BY <1>6 DEF AskToAdd, Configure, Degrade, AskToSwitch
<1>7. ASSUME NEW t \in Tasks, ReadLimits(t) \/ Finish(t) PROVE enabled' = enabled /\ touched' = touched
  BY <1>7 DEF ReadLimits, Finish
<1>8. ASSUME \/ \E t \in Tiers : ChangeTier(t)
             \/ EndCycle \/ Subscribe
             \/ \E s \in Subs : Cancel(s)
      PROVE  enabled' = enabled /\ touched' = touched
  BY <1>8 DEF ChangeTier, EndCycle, Subscribe, Cancel
<1>9. ASSUME NEW h \in Handlers, \/ \E e \in events : Take(h, e)
                                 \/ PutOnHold(h) \/ Unsubscribe(h) \/ EndHold(h) \/ List(h)
      PROVE  enabled' = enabled /\ touched' = touched
  BY <1>9 DEF Take, PutOnHold, Unsubscribe, EndHold, List
<1>10. ASSUME ListTrial \/ DisableTrial \/ EndTrial \/ RunCleanup \/ ListForCleanup \/ Tick \/ Crash
      PROVE  enabled' = enabled /\ touched' = touched
  BY <1>10 DEF ListTrial, DisableTrial, EndTrial, RunCleanup, ListForCleanup, Tick, Crash
<1>11. ASSUME UNCHANGED vars PROVE enabled' = enabled /\ touched' = touched BY <1>11
<1>. QED BY <1>1, <1>2, <1>3, <1>4, <1>5, <1>6, <1>7, <1>8, <1>9, <1>10, <1>11 DEF Next

LEMMA NextKeep ==
    ASSUME TypeOK, KeepInv, [Next]_vars
    PROVE  KeepInv'
<1>. SUFFICES ASSUME ~touched' PROVE KeepInv' BY DEF KeepInv
<1>. USE DEF accounts, plan, task, clock, bounds, vars
<1>0. ~touched /\ (On \subseteq On' \/ \E t \in Tasks, a \in Accounts : SwitchOff(t, a)) BY OtherSteps
<1>. DEFINE Same == \A u \in Tasks \ {"request"} :
                      pc'[u] = "disable" => pc[u] = "disable" /\ todo'[u] \subseteq todo[u]
<1>1. CASE \E t \in Tasks, a \in Accounts : SwitchOff(t, a)
  <2>1. PICK t \in Tasks, a \in Accounts : SwitchOff(t, a) BY <1>1
  <2>2. PICK c \in On \cap On' : c > a BY <2>1, OffStep
  <2>3. On \ {a} \subseteq On' BY <2>1, OffStep
  <2>4. ASSUME NEW u \in Tasks \ {"request"}, pc'[u] = "disable", NEW x \in todo'[u]
        PROVE  \E b \in On' : b > x
    <3>1. pc[u] = "disable" /\ x \in todo[u] BY <2>1, <2>4, OffStep
    <3>2. x \in Accounts BY <3>1 DEF TypeOK
    <3>3. PICK b \in On : b > x BY <1>0, <3>1 DEF KeepInv
    <3>4. CASE b = a
      <4>1. c > x BY <2>2, <3>2, <3>3, <3>4 DEF On, Accounts
      <4>. QED BY <2>2, <4>1
    <3>5. CASE b # a BY <2>3, <3>3, <3>5
    <3>. QED BY <3>4, <3>5
  <2>. QED BY <2>4 DEF KeepInv
<1>2. CASE On \subseteq On'
  <2>. SUFFICES ASSUME ~KeepInv' PROVE Same BY <1>0, <1>2, MoreOn
  <2>1. ASSUME NEW a \in Accounts, AskToAdd(a) PROVE Same
    BY <2>1, OthersStay, TaskFacts DEF AskToAdd
  <2>2. ASSUME NEW a \in Accounts, Configure(a) \/ Degrade(a) \/ Delete(a) PROVE Same
    BY <2>2 DEF Configure, Degrade, Delete
  <2>3. ASSUME NEW a \in Accounts, NEW on \in BOOLEAN, AskToSwitch(a, on) PROVE Same
    <3>1. PICK next : Goto("request", next, {a}) BY <2>3 DEF AskToSwitch
    <3>. QED BY <3>1, OthersStay, TaskFacts
  <2>4. ASSUME NEW t \in Tasks, NEW a \in Accounts, SwitchOff(t, a) PROVE Same
    BY <2>4, OffStep
  <2>5. ASSUME NEW t \in Tasks, NEW a \in Accounts, SwitchOn(t, a) PROVE Same
    <3>1. Goto(t, IF t = "request" THEN "disable" ELSE "count", todo[t] \ {a}) BY <2>5 DEF SwitchOn
    <3>. QED BY <3>1, OthersStay
  <2>6. ASSUME NEW t \in Tasks, NEW a \in Accounts, DeleteListed(t, a) PROVE Same
    BY <2>6 DEF DeleteListed
  <2>7. CASE Insert BY <2>7, OthersStay, TaskFacts DEF Insert
  <2>8. ASSUME NEW t \in Tasks, ReadLimits(t) PROVE Same BY <2>8 DEF ReadLimits, TypeOK
  <2>9. ASSUME NEW t \in Tasks, Finish(t) PROVE Same BY <2>9, OthersStay DEF Finish
  <2>10. CASE \/ \E t \in Tiers : ChangeTier(t)
              \/ EndCycle \/ Subscribe
              \/ \E s \in Subs : Cancel(s)
    BY <2>10 DEF ChangeTier, EndCycle, Subscribe, Cancel
  <2>11. ASSUME NEW h \in Handlers, NEW e \in events, Take(h, e) PROVE Same
    <3>1. e.kind \in {"tierChanged", "cancelled", "created"} BY DEF TypeOK, Event
    <3>2. PICK next \in {"list", "hold", "unhold", "delete"} : Goto(h, next, {}) BY <2>11, <3>1 DEF Take
    <3>. QED BY <3>2, OthersStay, TaskFacts
  <2>12. ASSUME NEW h \in Handlers, PutOnHold(h) \/ Unsubscribe(h) \/ EndHold(h) PROVE Same
    <3>1. PICK next \in {"unsubscribe", "list"} : Goto(h, next, {})
      BY <2>12 DEF PutOnHold, Unsubscribe, EndHold
    <3>. QED BY <3>1, OthersStay, TaskFacts
  <2>13. ASSUME NEW h \in Handlers, List(h) PROVE Same
    <3>1. h \in Tasks /\ touched' = touched /\ enabled' = enabled BY <2>13, TaskFacts DEF List
    <3>2. Goto(h, "disable", ToDisable(On)) \/ \E next \in {"delete", "count"}, S \in SUBSET Accounts : Goto(h, next, S)
      BY <2>13, ListsType DEF List
    <3>3. ~Goto(h, "disable", ToDisable(On)) BY <3>1, NewList
    <3>. QED BY <3>1, <3>2, <3>3, OthersStay
  <2>14. CASE ListTrial BY <2>14, OthersStay, TaskFacts DEF ListTrial
  <2>15. CASE DisableTrial
    <3>1. touched' = touched /\ enabled' = enabled BY <2>15 DEF DisableTrial
    <3>2. Goto("trialEnd", "disable", ToDisable(On)) BY <2>15 DEF DisableTrial
    <3>. QED BY <3>1, <3>2, NewList, TaskFacts
  <2>16. CASE EndTrial BY <2>16, OthersStay, TaskFacts DEF EndTrial
  <2>17. CASE RunCleanup
    <3>1. PICK next \in {"list", "idle"} : Goto("cleanup", next, {}) BY <2>17 DEF RunCleanup
    <3>. QED BY <3>1, OthersStay, TaskFacts
  <2>18. CASE ListForCleanup BY <2>18, OthersStay, TaskFacts DEF ListForCleanup
  <2>19. CASE Tick BY <2>19 DEF Tick
  <2>20. CASE Crash BY <2>20 DEF Crash
  <2>21. CASE UNCHANGED vars BY <2>21
  <2>. QED BY <2>1, <2>2, <2>3, <2>4, <2>5, <2>6, <2>7, <2>8, <2>9, <2>10, <2>11, <2>12, <2>13, <2>14, <2>15,
              <2>16, <2>17, <2>18, <2>19, <2>20, <2>21 DEF Next
<1>. QED BY <1>0, <1>1, <1>2

LEMMA KeepStep ==
    ASSUME TypeOK, KeepInv, [Next]_vars
    PROVE  [~touched' /\ On # {} => On' # {}]_vars
<1>. SUFFICES ASSUME ~touched', On # {} PROVE On' # {} OBVIOUS
<1>1. ASSUME NEW t \in Tasks, NEW a \in Accounts, SwitchOff(t, a) PROVE On' # {} BY <1>1, OffStep
<1>. QED BY <1>1, OtherSteps

\* Unless an account is removed or a user switches one off, a workspace with an account that is on keeps
\* one on, for every number of accounts, handlers, messages and crashes and every positive limit.
THEOREM LastAccountStaysOn == Spec => KeepsOne
<1>1. Init => TypeOK /\ KeepInv BY InitType, InitKeep
<1>2. TypeOK /\ KeepInv /\ [Next]_vars => (TypeOK /\ KeepInv)' BY NextType, NextKeep
<1>3. TypeOK /\ KeepInv /\ [Next]_vars => [~touched' /\ On # {} => On' # {}]_vars BY KeepStep
<1>. QED BY <1>1, <1>2, <1>3, PTL DEF Spec, KeepsOne

-----------------------------------------------------------------------------
(* The cleanup of the free tier comes in its window.                       *)

\* The cleanup comes in time: it works on the workspace, or nothing keeps it from beginning within the window.
StillDue ==
    /\ age < Timeout + Window
    /\ pc["cleanup"] # "idle" \/ late >= age - Timeout \/ late = MaxLate

\* What the cleanup has listed are all overdue accounts but as many as the limit allows.
CleanInv ==
    /\ overdue \subseteq Live
    /\ pc["cleanup"] \in {"idle", "list", "delete"}
    /\ pc["cleanup"] = "delete" => Cardinality(overdue \ todo["cleanup"]) <= Limit
    /\ pc["cleanup"] # "idle" => age < Timeout + Window
    /\ tier = "free" /\ age > Timeout => Cardinality(overdue) <= Limit \/ StillDue

LEMMA FewerAccounts ==
    ASSUME NEW S \in SUBSET Accounts, NEW T \in SUBSET S
    PROVE  /\ IsFiniteSet(S) /\ Cardinality(S) \in Nat /\ Cardinality(T) \in Nat
           /\ Cardinality(T) <= Cardinality(S)
           /\ Cardinality(S) = Cardinality(T) => S = T
<1>1. NAccounts \in Int /\ 1 \in Int
    BY SizeAssumption
<1>2. IsFiniteSet(Accounts)
    BY <1>1, FS_Interval DEF Accounts
<1>3. IsFiniteSet(S)
    BY <1>2, FS_Subset
<1>4. IsFiniteSet(T) /\ Cardinality(T) <= Cardinality(S) /\ (Cardinality(S) = Cardinality(T) => S = T)
    BY <1>3, FS_Subset
<1> QED BY <1>3, <1>4, FS_CardinalityType

\* As many accounts come before the cut of a list as the limit says: each has a number of its own of accounts before it.
LEMMA CutLeavesLimit ==
    ASSUME NEW S \in SUBSET Accounts
    PROVE  Cardinality(S \ AfterFirst(S, Limit)) <= Limit
<1> DEFINE before(a) == {b \in S : b < a}
           kept == S \ AfterFirst(S, Limit)
           place == [a \in kept |-> Cardinality(before(a))]
<1>1. Limit \in Nat \ {0} /\ Accounts \subseteq Int
    BY SizeAssumption DEF Accounts
<1>2. \A a \in kept : Cardinality(before(a)) \in 0..(Limit - 1)
    <2> SUFFICES ASSUME NEW a \in kept PROVE Cardinality(before(a)) \in 0..(Limit - 1)
        OBVIOUS
    <2>1. ~(Cardinality(before(a)) >= Limit)
        BY DEF AfterFirst
    <2>2. Cardinality(before(a)) \in Nat
        BY FewerAccounts
    <2> QED BY <1>1, <2>1, <2>2
<1>3. \A a, b \in kept : a < b => Cardinality(before(a)) < Cardinality(before(b))
    <2> SUFFICES ASSUME NEW a \in kept, NEW b \in kept, a < b
                 PROVE  Cardinality(before(a)) < Cardinality(before(b))
        OBVIOUS
    <2>0. a \in S /\ a \in Int /\ b \in Int /\ S \subseteq Int
        BY <1>1
    <2>1. before(a) \in SUBSET before(b) /\ before(b) \in SUBSET Accounts
        <3>1. \A x \in S : x < a => x < b
            BY <2>0
        <3> QED BY <3>1
    <2>2. a \in before(b) /\ a \notin before(a)
        BY <2>0
    <2> HIDE DEF before
    <2>3. before(a) # before(b)
        BY <2>2
    <2> QED BY <2>1, <2>3, FewerAccounts
<1>4. \A a, b \in kept : place[a] = place[b] => a = b
    <2> SUFFICES ASSUME NEW a \in kept, NEW b \in kept, a # b PROVE place[a] # place[b]
        OBVIOUS
    <2>1. a < b \/ b < a
        BY <1>1
    <2>2. Cardinality(before(a)) \in Int /\ Cardinality(before(b)) \in Int
        BY <1>2
    <2>3. Cardinality(before(a)) # Cardinality(before(b))
        BY <1>3, <2>1, <2>2
    <2> QED BY <2>3
<1>5. place \in [kept -> 0..(Limit - 1)]
    BY <1>2
<1>6. IsFiniteSet(0..(Limit - 1)) /\ Cardinality(0..(Limit - 1)) = Limit
    <2>1. 0 \in Int /\ Limit - 1 \in Int /\ ~(0 > Limit - 1)
        BY <1>1
    <2>2. IsFiniteSet(0..(Limit - 1)) /\ Cardinality(0..(Limit - 1)) = IF 0 > Limit - 1 THEN 0 ELSE (Limit - 1) - 0 + 1
        BY <2>1, FS_Interval
    <2> QED BY <1>1, <2>1, <2>2
<1>7. IsFiniteSet(kept) /\ Cardinality(kept) \in Nat
    <2>1. kept \in SUBSET Accounts
        OBVIOUS
    <2> HIDE DEF kept
    <2> QED BY <2>1, FewerAccounts
<1> HIDE DEF place, kept
<1>8. ~(Cardinality(0..(Limit - 1)) < Cardinality(kept))
    <2>1. SUFFICES ASSUME Cardinality(0..(Limit - 1)) < Cardinality(kept) PROVE FALSE
        OBVIOUS
    <2>2. \E x, y \in kept : x # y /\ place[x] = place[y]
        BY <1>5, <1>6, <1>7, <2>1, FS_PigeonHole
    <2> QED BY <1>4, <2>2
<1>9. Cardinality(kept) <= Limit
    BY <1>1, <1>6, <1>7, <1>8
<1> QED BY <1>9 DEF kept

LEMMA CleanStart == Init => CleanInv
<1> SUFFICES ASSUME Init PROVE CleanInv
    OBVIOUS
<1>1. /\ overdue = {} /\ pc["cleanup"] = "idle" /\ age = 0 /\ Timeout \in Nat
    BY TaskFacts, SizeAssumption DEF Init
<1> QED BY <1>1 DEF CleanInv

\* Steps that are not of the cleanup and leave the clock alone; accounts may go, and new ones are not overdue.
LEMMA CleanStays ==
    ASSUME TypeOK, CleanInv, UNCHANGED <<tier, age>>, overdue' \subseteq overdue, overdue' \subseteq Live',
           pc'["cleanup"] = pc["cleanup"], late' = late,
           overdue' \ todo'["cleanup"] \subseteq overdue \ todo["cleanup"]
    PROVE  CleanInv'
<1>1. overdue \in SUBSET Accounts /\ overdue' \in SUBSET overdue
    BY DEF TypeOK
<1>2. Cardinality(overdue') <= Cardinality(overdue) /\ Cardinality(overdue') \in Nat /\ Cardinality(overdue) \in Nat
    BY <1>1, FewerAccounts
<1>3. PICK S \in SUBSET Accounts : S = overdue \ todo["cleanup"]
    BY <1>1
<1>4. PICK T \in SUBSET S : T = overdue' \ todo'["cleanup"]
    BY <1>3
<1>5. Cardinality(T) <= Cardinality(S) /\ Cardinality(T) \in Nat /\ Cardinality(S) \in Nat
    BY FewerAccounts
<1>6. Limit \in Nat
    BY SizeAssumption
<1>7. pc'["cleanup"] = "delete" => Cardinality(overdue' \ todo'["cleanup"]) <= Limit
    BY <1>3, <1>4, <1>5, <1>6 DEF CleanInv
<1>8. tier' = "free" /\ age' > Timeout => Cardinality(overdue') <= Limit \/ StillDue'
    BY <1>2, <1>6 DEF CleanInv, StillDue
<1> QED BY <1>7, <1>8 DEF CleanInv

\* A new tier, or the tier again: the clock begins anew and nothing is overdue.
LEMMA CleanAnew ==
    ASSUME TypeOK, CleanInv, age' = 0, overdue' = {}, pc'["cleanup"] = pc["cleanup"]
    PROVE  CleanInv'
<1>1. Cardinality(overdue' \ todo'["cleanup"]) = 0
    BY FS_EmptySet
<1>2. Limit \in Nat \ {0} /\ Timeout \in Nat \ {0} /\ Window \in Nat \ {0}
    BY SizeAssumption
<1>3. ~(0 > Timeout) /\ 0 < Timeout + Window /\ 0 <= Limit
    BY <1>2
<1> QED BY <1>1, <1>3 DEF CleanInv

LEMMA CleanGoto ==
    ASSUME TypeOK, NEW t \in Tasks \ {"cleanup"}, NEW next, NEW S, Goto(t, next, S)
    PROVE  pc'["cleanup"] = pc["cleanup"] /\ todo'["cleanup"] = todo["cleanup"]
BY TaskFacts DEF Goto, TypeOK

LEMMA CleanNext ==
    ASSUME TypeOK, TypeOK', CleanInv, [Next]_vars
    PROVE  CleanInv'
<1> USE DEF accounts, plan, task, clock, bounds, vars
<1>1. Live' = {a \in Accounts : state'[a] \notin {"none", "deleted"}}
    BY DEF Live
<1>2. overdue \subseteq Live /\ overdue \subseteq Accounts
    BY DEF CleanInv, TypeOK
\* what most of the steps leave alone
<1> DEFINE Apart == pc'["cleanup"] = pc["cleanup"] /\ todo'["cleanup"] = todo["cleanup"]
           Rest == UNCHANGED <<tier, age, late>>
           Lets == Rest /\ overdue' = overdue /\ state' = state
<1>3. ASSUME Apart, Lets PROVE CleanInv'
    <2>1. Live' = Live
        BY <1>3 DEF Live
    <2> QED BY <1>2, <1>3, <2>1, CleanStays
<1>4. ASSUME NEW a \in Accounts, Apart, Rest, overdue' = overdue \ {a},
             \A b \in Accounts \ {a} : state'[b] = state[b]
      PROVE  CleanInv'
    <2>1. overdue' \subseteq Live'
        BY <1>2, <1>4 DEF Live
    <2> QED BY <1>4, <2>1, CleanStays
<1>5. ASSUME NEW a \in Accounts, AskToAdd(a) PROVE CleanInv'
    <2>1. Goto("request", "insert", {a}) /\ Lets
        BY <1>5 DEF AskToAdd
    <2> QED BY <1>3, <2>1, CleanGoto, TaskFacts
<1>6. CASE Insert
    <2>1. PICK a \in todo["request"], s \in {"detected", "discovered", "configured"} :
            state' = [state EXCEPT ![a] = s] /\ overdue' = overdue \ {a}
        BY <1>6 DEF Insert
    <2>2. a \in Accounts /\ Goto("request", "idle", {}) /\ Rest
        BY <1>6, TaskFacts DEF Insert, TypeOK
    <2>3. \A b \in Accounts \ {a} : state'[b] = state[b]
        BY <2>1 DEF TypeOK
    <2> QED BY <1>4, <2>1, <2>2, <2>3, CleanGoto, TaskFacts
<1>7. ASSUME NEW a \in Accounts, Configure(a) \/ Degrade(a) PROVE CleanInv'
    <2>1. Apart /\ Rest /\ overdue' = overdue /\ Live' = Live
        BY <1>7 DEF Configure, Degrade, Live, TypeOK
    <2> QED BY <1>2, <2>1, CleanStays
<1>8. ASSUME NEW a \in Accounts, Delete(a) PROVE CleanInv'
    <2>1. Apart /\ Rest /\ overdue' = overdue \ {a} /\ Deleted(a)
        BY <1>8 DEF Delete
    <2>2. \A b \in Accounts \ {a} : state'[b] = state[b]
        BY <2>1 DEF Deleted, TypeOK
    <2> QED BY <1>4, <2>1, <2>2
<1>9. ASSUME NEW a \in Accounts, NEW on \in BOOLEAN, AskToSwitch(a, on) PROVE CleanInv'
    <2>1. Goto("request", IF on THEN "enable" ELSE "disable", {a}) /\ Lets
        BY <1>9 DEF AskToSwitch
    <2> QED BY <1>3, <2>1, CleanGoto, TaskFacts
<1>10. ASSUME NEW t \in Tasks, NEW a \in Accounts, SwitchOff(t, a) \/ SwitchOn(t, a) PROVE CleanInv'
    <2>1. t # "cleanup"
        BY <1>10 DEF SwitchOff, SwitchOn, CleanInv
    <2>2. Lets /\ \E next, S : Goto(t, next, S)
        BY <1>10 DEF SwitchOff, SwitchOn
    <2> QED BY <1>3, <2>1, <2>2, CleanGoto
<1>11. ASSUME NEW t \in Tasks, NEW a \in Accounts, DeleteListed(t, a) PROVE CleanInv'
    <2>1. /\ Rest /\ overdue' = overdue \ {a} /\ Deleted(a) /\ Goto(t, "delete", todo[t] \ {a})
          /\ pc[t] = "delete"
        BY <1>11 DEF DeleteListed
    <2>2. \A b \in Accounts \ {a} : state'[b] = state[b]
        BY <2>1 DEF Deleted, TypeOK
    <2>3. overdue' \subseteq Live'
        BY <1>2, <2>1, <2>2 DEF Live
    <2>4. CASE t # "cleanup"
        BY <1>4, <2>1, <2>2, <2>4, CleanGoto
    <2>5. CASE t = "cleanup"
        <3>1. pc'["cleanup"] = pc["cleanup"] /\ todo'["cleanup"] = todo["cleanup"] \ {a}
            BY <2>1, <2>5 DEF Goto, TypeOK
        <3>2. overdue' \ todo'["cleanup"] \subseteq overdue \ todo["cleanup"]
            BY <2>1, <3>1
        <3> QED BY <2>1, <2>3, <3>1, <3>2, CleanStays
    <2> QED BY <2>4, <2>5
<1>12. ASSUME NEW t \in Tasks, ReadLimits(t) PROVE CleanInv'
    <2>1. t # "cleanup"
        BY <1>12 DEF ReadLimits, CleanInv
    <2>2. Apart /\ Lets
        BY <1>12, <2>1, TaskFacts DEF ReadLimits, TypeOK
    <2> QED BY <1>3, <2>2
<1>13. ASSUME NEW t \in Tasks, Finish(t) PROVE CleanInv'
    <2>1. Goto(t, "idle", {}) /\ Lets /\ todo[t] = {} /\ pc[t] \in {"disable", "count", "delete"}
        BY <1>13 DEF Finish
    <2>2. CASE t # "cleanup"
        BY <1>3, <2>1, <2>2, CleanGoto
    <2>3. CASE t = "cleanup"
        <3>1. pc'["cleanup"] = "idle" /\ todo["cleanup"] = {} /\ pc["cleanup"] = "delete"
            BY <2>1, <2>3 DEF Goto, TypeOK, CleanInv
        <3>2. overdue \ todo["cleanup"] = overdue
            BY <3>1
        <3>3. Cardinality(overdue) <= Limit
            BY <3>1, <3>2 DEF CleanInv
        <3>4. Live' = Live
            BY <2>1 DEF Live
        <3> QED BY <1>2, <2>1, <3>1, <3>3, <3>4 DEF CleanInv
    <2> QED BY <2>2, <2>3
<1>14. ASSUME NEW t \in Tiers, ChangeTier(t) PROVE CleanInv'
    BY <1>14, CleanAnew DEF ChangeTier
<1>15. CASE EndCycle \/ Subscribe \/ \E s \in Subs : Cancel(s)
    <2>1. Apart /\ Lets
        BY <1>15 DEF EndCycle, Subscribe, Cancel
    <2> QED BY <1>3, <2>1
<1>16. ASSUME NEW h \in Handlers, NEW e \in events, Take(h, e) PROVE CleanInv'
    <2>1. Lets /\ \E next : Goto(h, next, {})
        BY <1>16 DEF Take
    <2> QED BY <1>3, <2>1, CleanGoto, TaskFacts
<1>17. ASSUME NEW h \in Handlers, PutOnHold(h) \/ Unsubscribe(h) \/ EndHold(h) PROVE CleanInv'
    <2>1. Lets /\ \E next : Goto(h, next, {})
        BY <1>17 DEF PutOnHold, Unsubscribe, EndHold
    <2> QED BY <1>3, <2>1, CleanGoto, TaskFacts
<1>18. ASSUME NEW h \in Handlers, List(h) PROVE CleanInv'
    <2>1. Lets /\ \E next, S : Goto(h, next, S)
        BY <1>18 DEF List
    <2> QED BY <1>3, <2>1, CleanGoto, TaskFacts
<1>19. CASE ListTrial \/ DisableTrial
    <2>1. Lets /\ \E next, S : Goto("trialEnd", next, S)
        BY <1>19 DEF ListTrial, DisableTrial
    <2> QED BY <1>3, <2>1, CleanGoto, TaskFacts
<1>20. CASE EndTrial
    <2>1. Goto("trialEnd", "idle", {}) /\ age' = 0 /\ overdue' = {}
        BY <1>20 DEF EndTrial
    <2>2. pc'["cleanup"] = pc["cleanup"]
        BY <2>1, CleanGoto, TaskFacts
    <2> QED BY <2>1, <2>2, CleanAnew
<1>21. CASE RunCleanup
    <2>1. /\ Goto("cleanup", IF tier = "free" /\ InWindow THEN "list" ELSE "idle", {})
          /\ UNCHANGED <<tier, age, overdue, state>> /\ late' = 0 /\ pc["cleanup"] = "idle"
        BY <1>21 DEF RunCleanup
    <2>2. Live' = Live
        BY <2>1 DEF Live
    <2>3. pc'["cleanup"] = IF tier = "free" /\ InWindow THEN "list" ELSE "idle"
        BY <2>1, TaskFacts DEF Goto, TypeOK
    <2> QED BY <1>2, <2>1, <2>2, <2>3 DEF CleanInv, StillDue, InWindow
<1>22. CASE ListForCleanup
    <2>1. /\ Goto("cleanup", "delete", ToCleanUp(Live)) /\ pc["cleanup"] = "list"
          /\ UNCHANGED <<tier, age, late, overdue, state>>
        BY <1>22 DEF ListForCleanup
    <2>2. Live' = Live
        BY <2>1 DEF Live
    <2>3. pc'["cleanup"] = "delete" /\ todo'["cleanup"] = AfterFirst(Live, Limit)
        BY <2>1, TaskFacts DEF Goto, TypeOK, ToCleanUp
    <2>4. PICK S \in SUBSET Accounts : S = Live
        BY DEF Live
    <2>5. PICK R \in SUBSET Accounts : R = S \ AfterFirst(S, Limit)
        OBVIOUS
    <2>6. PICK T \in SUBSET R : T = overdue' \ todo'["cleanup"]
        BY <1>2, <2>1, <2>3, <2>4, <2>5
    <2>7. Cardinality(R) <= Limit
        BY <2>5, CutLeavesLimit
    <2>8. Cardinality(T) <= Cardinality(R) /\ Cardinality(T) \in Nat /\ Cardinality(R) \in Nat /\ Limit \in Nat
        BY FewerAccounts, SizeAssumption
    <2>9. Cardinality(overdue' \ todo'["cleanup"]) <= Limit
        BY <2>6, <2>7, <2>8
    <2> QED BY <1>2, <2>1, <2>2, <2>3, <2>9 DEF CleanInv, StillDue
<1>23. CASE Tick
    <2>1. /\ tier = "free" /\ pc["cleanup"] = "idle" /\ late < MaxLate
          /\ age' = age + 1 /\ late' = late + 1 /\ UNCHANGED <<pc, todo, tier, state>>
          /\ overdue' = IF age' = Timeout + 1 THEN Live ELSE overdue
        BY <1>23 DEF Tick
    <2>2. Live' = Live
        BY <2>1 DEF Live
    <2>3. overdue' \subseteq Live'
        BY <1>2, <2>1, <2>2
    <2>4. age \in Nat /\ late \in Nat /\ Timeout \in Nat /\ Window \in Nat /\ MaxLate \in Nat /\ MaxLate < Window
        BY SizeAssumption, LateAssumption DEF TypeOK
    <2>5. ASSUME age + 1 > Timeout PROVE Cardinality(overdue') <= Limit \/ StillDue'
        <3>1. CASE age = Timeout
            BY <2>1, <2>4, <3>1 DEF StillDue
        <3>2. CASE age > Timeout
            <4>1. overdue' = overdue
                BY <2>1, <2>4, <3>2
            <4>2. SUFFICES ASSUME StillDue PROVE StillDue'
                BY <2>1, <3>2, <4>1 DEF CleanInv
            <4>3. late >= age - Timeout
                BY <2>1, <2>4, <4>2 DEF StillDue
            <4> QED BY <2>1, <2>4, <4>3 DEF StillDue
        <3> QED BY <2>4, <2>5, <3>1, <3>2
    <2> QED BY <2>1, <2>3, <2>5 DEF CleanInv
<1>24. CASE Crash
    <2>1. /\ pc'["cleanup"] = "idle" /\ late' = MaxLate /\ UNCHANGED <<tier, age, overdue, state>>
        BY <1>24, TaskFacts DEF Crash
    <2>2. Live' = Live
        BY <2>1 DEF Live
    <2> QED BY <1>2, <2>1, <2>2 DEF CleanInv, StillDue
<1>25. CASE UNCHANGED vars
    <2>1. Apart /\ Lets
        BY <1>25
    <2> QED BY <1>3, <2>1
<1> QED BY <1>5, <1>6, <1>7, <1>8, <1>9, <1>10, <1>11, <1>12, <1>13, <1>14, <1>15, <1>16, <1>17, <1>18, <1>19, <1>20,
           <1>21, <1>22, <1>23, <1>24, <1>25
    DEF Next

\* When the window of the cleanup is over, a free workspace has no more than the limit of the accounts it had at its
\* beginning, however the job is late or dies, and whoever adds or removes accounts meanwhile (cleanup_free_tiers).
THEOREM CleanupInTime == Spec => []CleanedInWindow
<1>1. Init => TypeOK /\ CleanInv
    BY InitType, CleanStart
<1>2. TypeOK /\ CleanInv /\ [Next]_vars => (TypeOK /\ CleanInv)'
    BY NextType, CleanNext
<1>3. TypeOK /\ CleanInv => CleanedInWindow
    <2>1. Window \in Nat \ {0} /\ Timeout \in Nat
        BY SizeAssumption
    <2> QED BY <2>1 DEF CleanInv, CleanedInWindow, StillDue
<1> QED BY <1>1, <1>2, <1>3, PTL DEF Spec

-----------------------------------------------------------------------------
(* The alerts of a collect run.                                            *)

\* What the messages and their handlers look like.
MessagesTyped ==
    /\ failing \subseteq Alert /\ collected \subseteq Collects
    /\ handler \in [Collects -> (SUBSET Message) \cup {None}]
    /\ stream \in [Message -> Nat] /\ sender \in Message \cup {None}
    /\ sent \in [Message -> Nat] /\ due \subseteq Message
    /\ unsure \in Nat /\ alertFaults \in Nat

\* The collect run of a message.
RunOf(m) == m[1][1]

\* What a handler has left to do is about its run and about what fails.
HandlersOfRuns ==
    \A c \in Collects : handler[c] # None =>
        c \in collected /\ \A m \in handler[c] : RunOf(m) = c /\ m[1] \in failing

\* The sender works on a message of the stream.
SenderHasMessage == sender # None => stream[sender] > 0

\* Where nothing fails nothing is sent.
NothingWithoutReason == \A m \in Message : m[1] \notin failing => sent[m] = 0 /\ stream[m] = 0

Safe(m) == sent[m] > 0 \/ m \in ended \/ stream[m] > 0

\* What a handler does not have to do any more is done.
HandledIsSafe ==
    \A c \in Collects : handler[c] # None => \A m \in due : RunOf(m) = c => m \in handler[c] \/ Safe(m)

\* A message that will be published, or published again.
ToPublish(m) ==
    IF handler[RunOf(m)] # None THEN m \in handler[RunOf(m)] ELSE RunOf(m) \in collected /\ m[1] \in failing

\* Every time that a message goes out is accounted for.
Accounted ==
    \A m \in Message :
        sent[m] + stream[m] + (IF ToPublish(m) THEN 1 ELSE 0)
            <= 1 + 2 * alertFaults + unsure

AlertsInv ==
    /\ MessagesTyped /\ HandlersOfRuns /\ SenderHasMessage /\ NothingWithoutReason
    /\ NoAlertLost /\ HandledIsSafe /\ Accounted

LEMMA Runs == \A m \in Message : RunOf(m) \in Collects /\ m[1] \in Alert /\ m[1][1] = RunOf(m)
BY DEF Message, Alert, RunOf

LEMMA AlertsStart == AlertsInit => AlertsInv
<1> SUFFICES ASSUME AlertsInit
             PROVE  AlertsInv
    OBVIOUS
<1>1. /\ failing = {} /\ collected = {} /\ handler = [c \in Collects |-> None] /\ sender = None /\ due = {}
      /\ stream = [m \in Message |-> 0] /\ sent = [m \in Message |-> 0] /\ unsure = 0 /\ alertFaults = 0
    BY DEF AlertsInit
<1>2. MessagesTyped
    BY <1>1 DEF MessagesTyped
<1>3. \A c \in Collects : handler[c] = None
    BY <1>1
<1>4. \A m \in Message : ~ToPublish(m) /\ sent[m] = 0 /\ stream[m] = 0
    BY <1>1, <1>3, Runs DEF ToPublish
<1> QED BY <1>1, <1>2, <1>3, <1>4
        DEF AlertsInv, HandlersOfRuns, SenderHasMessage, NothingWithoutReason, NoAlertLost, HandledIsSafe, Accounted

LEMMA AlertsImplied == AlertsInv => NoAlertLost /\ NotSentAgain
<1> SUFFICES ASSUME AlertsInv, NEW m \in Message
             PROVE  sent[m] <= 1 + 2 * alertFaults + unsure
    BY DEF AlertsInv, NotSentAgain
<1>1. /\ sent[m] \in Nat /\ stream[m] \in Nat /\ alertFaults \in Nat /\ unsure \in Nat
      /\ sent[m] + stream[m] + (IF ToPublish(m) THEN 1 ELSE 0)
            <= 1 + 2 * alertFaults + unsure
    BY DEF AlertsInv, MessagesTyped, Accounted
<1> QED BY <1>1

\* The settings, and the requests that change them, leave the messages alone.
LEMMA AlertsKeep ==
    ASSUME AlertsInv, UNCHANGED <<failing, alertStreams, alertHistory, alertFaults>>
    PROVE  AlertsInv'
<1>1. UNCHANGED <<failing, collected, handler, stream, sender, sent, ended, due, unsure, alertFaults>>
    BY DEF alertStreams, alertHistory
<1>2. \A m : (ToPublish(m)' <=> ToPublish(m)) /\ (Safe(m)' <=> Safe(m))
    BY <1>1 DEF ToPublish, Safe
<1>3. MessagesTyped' /\ HandlersOfRuns' /\ SenderHasMessage' /\ NothingWithoutReason' /\ NoAlertLost'
    BY <1>1 DEF AlertsInv, MessagesTyped, HandlersOfRuns, SenderHasMessage, NothingWithoutReason, NoAlertLost
<1>4. HandledIsSafe'
    BY <1>1, <1>2 DEF AlertsInv, HandledIsSafe
<1>5. Accounted'
    BY <1>1, <1>2 DEF AlertsInv, Accounted
<1> QED BY <1>3, <1>4, <1>5 DEF AlertsInv

LEMMA SettingsInv ==
    ASSUME AlertsInv,
           \/ \E ch \in Channels : AddChannel(ch) \/ GoToChannel(ch) \/ ConfirmChannel(ch) \/ RefuseChannel(ch)
           \/ \E s \in Setting : UpdateAlerting(s)
           \/ \E r \in Requests : DropChannel(r) \/ DeleteHook(r) \/ \E ch \in Channels : AskDelete(r, ch)
    PROVE  AlertsInv'
<1>1. UNCHANGED <<failing, alertStreams, alertHistory, alertFaults>>
    BY DEF AddChannel, GoToChannel, ConfirmChannel, RefuseChannel, UpdateAlerting, DropChannel, DeleteHook, AskDelete,
           AlertAsk
<1> QED BY <1>1, AlertsKeep

\* What the invariant says of one message.
LEMMA AccountOf ==
    ASSUME AlertsInv, NEW m \in Message
    PROVE  /\ sent[m] \in Nat /\ stream[m] \in Nat /\ alertFaults \in Nat /\ unsure \in Nat
           /\ sent[m] + stream[m] + (IF ToPublish(m) THEN 1 ELSE 0)
                <= 1 + 2 * alertFaults + unsure
BY DEF AlertsInv, MessagesTyped, Accounted

LEMMA CollectedInv ==
    ASSUME AlertsInv, NEW c \in Collects, NEW found \in SUBSET Benchmarks, Collected(c, found)
    PROVE  AlertsInv'
<1> USE DEF AlertsInv
<1>1. /\ UNCHANGED <<handler, stream, sender, sent, ended, due, unsure, alertFaults>>
      /\ c \notin collected /\ handler[c] = None /\ collected' = collected \cup {c}
      /\ failing' = failing \cup ({c} \X found) /\ \A a \in failing : a[1] # c
    BY DEF Collected, alertHistory
<1>2. MessagesTyped'
    BY <1>1 DEF MessagesTyped, Alert
<1>3. HandlersOfRuns' /\ SenderHasMessage' /\ NothingWithoutReason' /\ NoAlertLost'
    BY <1>1 DEF HandlersOfRuns, SenderHasMessage, NothingWithoutReason, NoAlertLost
<1>4. HandledIsSafe'
    BY <1>1 DEF HandledIsSafe, Safe
<1>5. Accounted'
    <2> SUFFICES ASSUME NEW m \in Message
                 PROVE  sent[m] + stream[m] + (IF ToPublish(m)' THEN 1 ELSE 0)
                            <= 1 + 2 * alertFaults + unsure
        BY <1>1 DEF Accounted
    <2>1. CASE RunOf(m) = c
        <3>1. sent[m] = 0 /\ stream[m] = 0
            BY <1>1, <2>1 DEF RunOf, NothingWithoutReason
        <3> QED BY <3>1, AccountOf
    <2>2. CASE RunOf(m) # c
        <3>1. m[1] \in failing' <=> m[1] \in failing
            BY <1>1, <2>2 DEF RunOf
        <3>2. ToPublish(m)' <=> ToPublish(m)
            BY <1>1, <2>2, <3>1 DEF ToPublish
        <3> QED BY <3>2, AccountOf
    <2> QED BY <2>1, <2>2
<1> QED BY <1>2, <1>3, <1>4, <1>5

LEMMA HandleCollectedInv ==
    ASSUME AlertsInv, NEW c \in Collects, HandleCollected(c)
    PROVE  AlertsInv'
<1> USE DEF AlertsInv
<1>1. PICK news : /\ news \subseteq {m \in failing \X Channels : m[1][1] = c}
                  /\ handler' = [handler EXCEPT ![c] = news] /\ due' = {m \in due : m[1][1] # c} \cup news
    BY DEF HandleCollected
<1>2. /\ UNCHANGED <<failing, collected, stream, sender, sent, ended, unsure, alertFaults>>
      /\ c \in collected /\ handler[c] = None
    BY DEF HandleCollected
<1>3. news \subseteq Message /\ \A m \in news : RunOf(m) = c /\ m[1] \in failing
    BY <1>1 DEF Message, RunOf, MessagesTyped
<1>4. /\ handler' \in [Collects -> (SUBSET Message) \cup {None}] /\ handler'[c] = news
      /\ \A d \in Collects : d # c => handler'[d] = handler[d]
    BY <1>1, <1>3 DEF MessagesTyped
<1>5. due' \subseteq Message
    BY <1>1, <1>3 DEF MessagesTyped
<1>6. MessagesTyped'
    BY <1>2, <1>4, <1>5 DEF MessagesTyped
<1>7. HandlersOfRuns' /\ SenderHasMessage' /\ NothingWithoutReason'
    BY <1>2, <1>3, <1>4 DEF HandlersOfRuns, SenderHasMessage, NothingWithoutReason
<1>8. NoAlertLost'
    BY <1>1, <1>2, <1>3 DEF NoAlertLost, RunOf
<1>9. HandledIsSafe'
    <2> SUFFICES ASSUME NEW d \in Collects, handler'[d] # None, NEW m \in due', RunOf(m) = d
                 PROVE  m \in handler'[d] \/ Safe(m)'
        BY DEF HandledIsSafe
    <2>1. CASE d = c
        BY <1>1, <1>4, <2>1 DEF RunOf
    <2>2. CASE d # c
        BY <1>1, <1>2, <1>3, <1>4, <2>2 DEF HandledIsSafe, Safe
    <2> QED BY <2>1, <2>2
<1>10. Accounted'
    <2> SUFFICES ASSUME NEW m \in Message
                 PROVE  sent[m] + stream[m] + (IF ToPublish(m)' THEN 1 ELSE 0)
                            <= 1 + 2 * alertFaults + unsure
        BY <1>2 DEF Accounted
    <2>1. RunOf(m) \in Collects
        BY Runs
    <2>2. ToPublish(m)' => ToPublish(m)
        BY <1>2, <1>3, <1>4, <2>1 DEF ToPublish
    <2> QED BY <2>2, AccountOf
<1> QED BY <1>6, <1>7, <1>8, <1>9, <1>10

LEMMA PublishAlertInv ==
    ASSUME AlertsInv, NEW c \in Collects, NEW p \in Message, PublishAlert(c, p)
    PROVE  AlertsInv'
<1> USE DEF AlertsInv
<1>1. /\ UNCHANGED <<failing, collected, sender, sent, ended, due, unsure, alertFaults>>
      /\ handler[c] # None /\ p \in handler[c]
      /\ stream' = [stream EXCEPT ![p] = @ + 1] /\ handler' = [handler EXCEPT ![c] = @ \ {p}]
    BY DEF PublishAlert, alertHistory
<1>2. handler[c] \in SUBSET Message /\ c \in collected /\ RunOf(p) = c /\ p[1] \in failing
    BY <1>1 DEF MessagesTyped, HandlersOfRuns
<1>3. /\ handler' \in [Collects -> (SUBSET Message) \cup {None}] /\ handler'[c] = handler[c] \ {p}
      /\ \A d \in Collects : d # c => handler'[d] = handler[d]
    BY <1>1, <1>2 DEF MessagesTyped
<1>4. handler'[c] # None
    BY <1>2, <1>3, MessageAssumption
<1>5. /\ stream' \in [Message -> Nat] /\ stream'[p] = stream[p] + 1 /\ stream'[p] > 0
      /\ \A m \in Message : m # p => stream'[m] = stream[m]
    BY <1>1 DEF MessagesTyped
<1>6. MessagesTyped'
    BY <1>1, <1>3, <1>5 DEF MessagesTyped
<1>7. HandlersOfRuns'
    BY <1>1, <1>2, <1>3 DEF HandlersOfRuns
<1>8. SenderHasMessage' /\ NothingWithoutReason'
    BY <1>1, <1>2, <1>5, <1>6 DEF SenderHasMessage, NothingWithoutReason, MessagesTyped
<1>9. \A m \in Message : Safe(m) => Safe(m)'
    BY <1>1, <1>5 DEF Safe
<1>10. NoAlertLost'
    BY <1>1, <1>9 DEF NoAlertLost, Safe, MessagesTyped
<1>11. HandledIsSafe'
    <2> SUFFICES ASSUME NEW d \in Collects, handler'[d] # None, NEW m \in due', RunOf(m) = d
                 PROVE  m \in handler'[d] \/ Safe(m)'
        BY DEF HandledIsSafe
    <2>1. handler[d] # None /\ m \in Message
        BY <1>1, <1>3 DEF MessagesTyped
    <2>2. m \in handler[d] \/ Safe(m)
        BY <1>1, <2>1 DEF HandledIsSafe
    <2>3. m = p => Safe(m)'
        BY <1>5 DEF Safe
    <2> QED BY <1>3, <1>9, <2>1, <2>2, <2>3
<1>12. Accounted'
    <2> SUFFICES ASSUME NEW m \in Message
                 PROVE  sent[m] + stream'[m] + (IF ToPublish(m)' THEN 1 ELSE 0)
                            <= 1 + 2 * alertFaults + unsure
        BY <1>1 DEF Accounted
    <2>1. RunOf(m) \in Collects
        BY Runs
    <2>2. CASE m = p
        <3>1. ToPublish(m) /\ ~ToPublish(m)'
            BY <1>1, <1>2, <1>3, <1>4, <2>2 DEF ToPublish
        <3> QED BY <1>5, <2>2, <3>1, AccountOf
    <2>3. CASE m # p
        <3>1. ToPublish(m)' <=> ToPublish(m)
            BY <1>1, <1>2, <1>3, <1>4, <2>1, <2>3 DEF ToPublish
        <3> QED BY <1>5, <2>3, <3>1, AccountOf
    <2> QED BY <2>2, <2>3
<1> QED BY <1>6, <1>7, <1>8, <1>10, <1>11, <1>12

LEMMA EndCollectedInv ==
    ASSUME AlertsInv, NEW c \in Collects, EndCollected(c)
    PROVE  AlertsInv'
<1> USE DEF AlertsInv
<1>1. /\ UNCHANGED <<failing, stream, sender, sent, ended, due, unsure, alertFaults>>
      /\ handler[c] = {} /\ handler' = [handler EXCEPT ![c] = None] /\ collected' = collected \ {c}
    BY DEF EndCollected, alertHistory
<1>2. handler[c] # None
    BY <1>1, MessageAssumption
<1>3. /\ handler' \in [Collects -> (SUBSET Message) \cup {None}] /\ handler'[c] = None
      /\ \A d \in Collects : d # c => handler'[d] = handler[d]
    BY <1>1 DEF MessagesTyped
<1>4. MessagesTyped'
    BY <1>1, <1>3 DEF MessagesTyped
<1>5. HandlersOfRuns' /\ SenderHasMessage' /\ NothingWithoutReason'
    BY <1>1, <1>3 DEF HandlersOfRuns, SenderHasMessage, NothingWithoutReason
<1>6. NoAlertLost'
    <2>1. \A m \in due : RunOf(m) = c => Safe(m)
        BY <1>1, <1>2 DEF HandledIsSafe
    <2> QED BY <1>1, <2>1 DEF NoAlertLost, Safe, RunOf
<1>7. HandledIsSafe'
    BY <1>1, <1>3 DEF HandledIsSafe, Safe
<1>8. Accounted'
    <2> SUFFICES ASSUME NEW m \in Message
                 PROVE  sent[m] + stream[m] + (IF ToPublish(m)' THEN 1 ELSE 0)
                            <= 1 + 2 * alertFaults + unsure
        BY <1>1 DEF Accounted
    <2>1. RunOf(m) \in Collects
        BY Runs
    <2>2. ToPublish(m)' => ToPublish(m)
        BY <1>1, <1>3, <2>1 DEF ToPublish
    <2> QED BY <2>2, AccountOf
<1> QED BY <1>4, <1>5, <1>6, <1>7, <1>8

\* A handler that fails has its event handled again.
LEMMA CollectedFailsInv ==
    ASSUME AlertsInv, NEW c \in Collects, CollectedFails(c)
    PROVE  AlertsInv'
<1> USE DEF AlertsInv
<1>1. /\ UNCHANGED <<failing, collected, stream, sender, sent, ended, due, unsure>>
      /\ handler' = [handler EXCEPT ![c] = None] /\ alertFaults' = alertFaults + 1
    BY DEF CollectedFails, alertHistory
<1>2. /\ handler' \in [Collects -> (SUBSET Message) \cup {None}] /\ handler'[c] = None
      /\ \A d \in Collects : d # c => handler'[d] = handler[d]
    BY <1>1 DEF MessagesTyped
<1>3. MessagesTyped'
    BY <1>1, <1>2 DEF MessagesTyped
<1>4. HandlersOfRuns' /\ SenderHasMessage' /\ NothingWithoutReason' /\ NoAlertLost'
    BY <1>1, <1>2 DEF HandlersOfRuns, SenderHasMessage, NothingWithoutReason, NoAlertLost
<1>5. HandledIsSafe'
    BY <1>1, <1>2 DEF HandledIsSafe, Safe
<1>6. Accounted'
    BY <1>1, AccountOf DEF Accounted
<1> QED BY <1>3, <1>4, <1>5, <1>6

\* A step of the sender, which works on one message of the stream: 1 or 0 for sent, and for taken off the stream.
Sending(m, out, off) ==
    /\ stream[m] > 0
    /\ UNCHANGED <<failing, collected, handler, due, alertFaults>>
    /\ sent' = [sent EXCEPT ![m] = @ + out] /\ stream' = [stream EXCEPT ![m] = @ - off]
    /\ ended \subseteq ended' /\ (off = 1 => out = 1 \/ m \in ended')
    /\ unsure' = unsure \/ unsure' = unsure + 1
    /\ out > off => unsure' = unsure + 1
    /\ sender' = None \/ (sender' = m /\ off = 0)

LEMMA SenderInv ==
    ASSUME AlertsInv, NEW p \in Message, NEW out \in {0, 1}, NEW off \in {0, 1}, Sending(p, out, off)
    PROVE  AlertsInv'
<1> USE DEF AlertsInv, Sending
<1>1. /\ sent' \in [Message -> Nat] /\ sent'[p] = sent[p] + out /\ stream' \in [Message -> Nat]
      /\ stream'[p] = stream[p] - off
      /\ \A m \in Message : m # p => sent'[m] = sent[m] /\ stream'[m] = stream[m]
    BY DEF MessagesTyped
<1>2. MessagesTyped'
    BY <1>1 DEF MessagesTyped
<1>3. HandlersOfRuns'
    BY DEF HandlersOfRuns
<1>10. SenderHasMessage'
    BY <1>1 DEF SenderHasMessage, MessagesTyped
<1>4. p[1] \in failing
    BY DEF NothingWithoutReason
<1>5. NothingWithoutReason'
    BY <1>1, <1>4 DEF NothingWithoutReason
<1>6. \A m \in Message : Safe(m) => Safe(m)'
    BY <1>1 DEF Safe, MessagesTyped
<1>7. NoAlertLost'
    BY <1>6 DEF NoAlertLost, Safe, MessagesTyped
<1>8. HandledIsSafe'
    BY <1>6 DEF HandledIsSafe, MessagesTyped
<1>9. Accounted'
    <2> SUFFICES ASSUME NEW m \in Message
                 PROVE  sent'[m] + stream'[m] + (IF ToPublish(m)' THEN 1 ELSE 0)
                            <= 1 + 2 * alertFaults + unsure'
        BY DEF Accounted
    <2>1. ToPublish(m)' <=> ToPublish(m)
        BY DEF ToPublish
    <2>2. CASE m = p
        BY <1>1, <2>1, <2>2, AccountOf
    <2>3. CASE m # p
        BY <1>1, <2>1, <2>3, AccountOf
    <2> QED BY <2>2, <2>3
<1> QED BY <1>2, <1>3, <1>10, <1>5, <1>7, <1>8, <1>9

\* The steps of the sender.
LEMMA SendingInv ==
    ASSUME AlertsInv,
           (\E m \in Message : SendAlert(m)) \/ Deliver \/ GiveUp \/ ServerError \/ FailsThoughTaken
    PROVE  AlertsInv'
<1>1. sent \in [Message -> Nat] /\ stream \in [Message -> Nat] /\ unsure \in Nat
    BY DEF AlertsInv, MessagesTyped
<1>2. \A m \in Message : sent = [sent EXCEPT ![m] = @ + 0] /\ stream = [stream EXCEPT ![m] = @ - 0]
    BY <1>1
<1>3. ASSUME NEW m \in Message, SendAlert(m) PROVE AlertsInv'
    <2>1. CASE m[2] \in hooks
        <3>1. Sending(m, 0, 0)
            BY <1>1, <1>2, <1>3, <2>1 DEF SendAlert, Sending
        <3> QED BY <3>1, SenderInv
    <2>2. CASE m[2] \notin hooks
        <3>1. Sending(m, 0, 1)
            BY <1>1, <1>2, <1>3, <2>2 DEF SendAlert, Drop, Sending
        <3> QED BY <3>1, SenderInv
    <2> QED BY <2>1, <2>2
<1>4. ASSUME Deliver \/ GiveUp \/ ServerError \/ FailsThoughTaken PROVE AlertsInv'
    <2>1. sender # None
        BY <1>4 DEF Deliver, GiveUp, ServerError, FailsThoughTaken, Raise
    <2>2. PICK m \in Message : m = sender
        BY <2>1 DEF AlertsInv, MessagesTyped
    <2>3. stream[m] > 0
        BY <2>1, <2>2 DEF AlertsInv, SenderHasMessage
    <2>4. CASE Deliver
        <3>1. Sending(m, 1, 1)
            BY <1>1, <2>2, <2>3, <2>4 DEF Deliver, Sending
        <3> QED BY <3>1, SenderInv
    <2>5. CASE GiveUp
        <3>1. Sending(m, 0, 1)
            BY <1>1, <1>2, <2>2, <2>3, <2>5 DEF GiveUp, Drop, Sending
        <3> QED BY <3>1, SenderInv
    <2>6. CASE ServerError
        <3>1. Sending(m, 0, 0)
            BY <1>1, <1>2, <2>2, <2>3, <2>6 DEF ServerError, Raise, Sending
        <3> QED BY <3>1, SenderInv
    <2>7. CASE FailsThoughTaken
        <3>1. Sending(m, 1, 0)
            BY <1>1, <1>2, <2>2, <2>3, <2>7 DEF FailsThoughTaken, Raise, Sending
        <3> QED BY <3>1, SenderInv
    <2> QED BY <1>4, <2>4, <2>5, <2>6, <2>7
<1> QED BY <1>3, <1>4

LEMMA CrashAlertsInv ==
    ASSUME AlertsInv, CrashAlerts
    PROVE  AlertsInv'
<1> USE DEF AlertsInv
<1>1. /\ UNCHANGED <<failing, collected, stream, ended, due, unsure>> /\ alertFaults' = alertFaults + 1
      /\ handler' = [c \in Collects |-> None] /\ sender' = None
      /\ sent' = sent \/ (sender # None /\ sent' = [sent EXCEPT ![sender] = @ + 1])
    BY DEF CrashAlerts
<1>2. sender # None => sender \in Message /\ stream[sender] > 0 /\ sender[1] \in failing
    BY DEF MessagesTyped, SenderHasMessage, NothingWithoutReason
<1>3. /\ sent' \in [Message -> Nat]
      /\ \A m \in Message : sent'[m] = sent[m] \/ (sent'[m] = sent[m] + 1 /\ m[1] \in failing)
    BY <1>1, <1>2 DEF MessagesTyped
<1>4. MessagesTyped'
    BY <1>1, <1>3 DEF MessagesTyped
<1>9. \A c \in Collects : handler'[c] = None
    BY <1>1
<1>5. HandlersOfRuns' /\ SenderHasMessage' /\ HandledIsSafe'
    BY <1>1, <1>9 DEF HandlersOfRuns, SenderHasMessage, HandledIsSafe
<1>6. NothingWithoutReason'
    BY <1>1, <1>3 DEF NothingWithoutReason
<1>7. NoAlertLost'
    BY <1>1, <1>3 DEF NoAlertLost, MessagesTyped
<1>8. Accounted'
    <2> SUFFICES ASSUME NEW m \in Message
                 PROVE  sent'[m] + stream[m] + (IF ToPublish(m)' THEN 1 ELSE 0)
                            <= 1 + 2 * alertFaults' + unsure
        BY <1>1 DEF Accounted
    <2> QED BY <1>1, <1>3, AccountOf
<1> QED BY <1>4, <1>5, <1>6, <1>7, <1>8

LEMMA AlertsStep == AlertsInv /\ [AlertsNext]_alertVars => AlertsInv'
<1> SUFFICES ASSUME AlertsInv, [AlertsNext]_alertVars
             PROVE  AlertsInv'
    OBVIOUS
<1>1. CASE AlertStep
    BY <1>1, HandleCollectedInv, EndCollectedInv, PublishAlertInv, SendingInv DEF AlertStep
<1>2. CASE ServerError \/ FailsThoughTaken \/ CrashAlerts
    BY <1>2, SendingInv, CrashAlertsInv
<1>3. CASE \/ \E ch \in Channels : AddChannel(ch) \/ GoToChannel(ch) \/ ConfirmChannel(ch) \/ RefuseChannel(ch)
           \/ \E s \in Setting : UpdateAlerting(s)
           \/ \E r \in Requests : DropChannel(r) \/ DeleteHook(r) \/ \E ch \in Channels : AskDelete(r, ch)
    BY <1>3, SettingsInv
<1>4. CASE \E c \in Collects, found \in SUBSET Benchmarks : Collected(c, found)
    BY <1>4, CollectedInv
<1>5. CASE \E c \in Collects : CollectedFails(c)
    BY <1>5, CollectedFailsInv
<1>6. CASE UNCHANGED alertVars
    BY <1>6, AlertsKeep DEF alertVars
<1> QED BY <1>1, <1>2, <1>3, <1>4, <1>5, <1>6 DEF AlertsNext

\* An alert that the settings ask for is not lost: until the provider has taken it, or its channel is not set
\* up, or the provider refuses it for good, the event of alert_on_changed or the message of _send_alert is
\* still there to be handled.
THEOREM AlertsArrive == AlertsSpec => []NoAlertLost
<1>1. AlertsSpec => []AlertsInv
    BY AlertsStart, AlertsStep, PTL DEF AlertsSpec
<1> QED BY <1>1, AlertsImplied, PTL

\* However often the settings change and whatever the providers answer, _send_alert sends an alert again only where it
\* cannot know that it went out: two more for each crash or error of the event, one more for each call that failed
\* though the provider had taken the message.
THEOREM AlertsOnce == AlertsSpec => []NotSentAgain
<1>1. AlertsSpec => []AlertsInv
    BY AlertsStart, AlertsStep, PTL DEF AlertsSpec
<1> QED BY <1>1, AlertsImplied, PTL

-----------------------------------------------------------------------------
(* The reminders of the end of a trial.                                    *)

RemindersTyped ==
    /\ changed \subseteq Spaces
    /\ space \in [Spaces -> {"new", "trial", "left"}]
    /\ toStore \in [Spaces -> [days : SUBSET DaysBefore, at : Nat] \cup {None}]
    /\ stored \in [Reminder -> Row \cup {None}]
    /\ mailing \in [row : Reminder, mailed : BOOLEAN] \cup {None}
    /\ mailed \in [Reminder -> Nat] /\ today \in Nat

\* Which events there are for which workspace.
EventsOfSpaces ==
    /\ \A w \in Spaces : space[w] = "new" => w \notin created /\ toStore[w] = None
    /\ \A w \in changed : space[w] = "left"

\* What is marked was mailed.
MarkedWasMailed ==
    /\ \A r \in Reminder : stored[r] # None /\ stored[r].sent # None => mailed[r] > 0
    /\ mailing # None /\ mailing.mailed => mailed[mailing.row] > 0

Had(r) == stored[r] # None \/ mailed[r] > 0
HasReminder(w, d) == \E n \in 1..(MaxReminderFaults + 1) : Had(<<w, d, n>>)

\* Until the event is acknowledged, the reminders that the task has stored are there.
StoredSoFar ==
    \A w \in Spaces : space[w] = "trial" /\ w \in created \ wiped /\ toStore[w] # None =>
        \A d \in DaysBefore \ toStore[w].days : HasReminder(w, d)

\* A workspace without the trial has no rows, unless they were stored late.
NoneLeft == \A r \in Reminder : space[r[1]] = "left" /\ r[1] \notin changed \cup belated => stored[r] = None

RemindersInv ==
    /\ RemindersTyped /\ EventsOfSpaces /\ MarkedWasMailed /\ StoredSoFar /\ RemindersComplete /\ NoneLeft

LEMMA ReminderIs ==
    \A r \in Reminder : r[1] \in Spaces /\ r[2] \in DaysBefore /\ r[3] \in 1..(MaxReminderFaults + 1)
                        /\ r = <<r[1], r[2], r[3]>>
BY DEF Reminder

LEMMA TripleIs ==
    \A w \in Spaces, d \in DaysBefore, n \in 1..(MaxReminderFaults + 1) :
        <<w, d, n>> \in Reminder /\ <<w, d, n>>[1] = w
BY DEF Reminder

LEMMA RemindersStart == RemindersInit => RemindersInv
<1> SUFFICES ASSUME RemindersInit
             PROVE  RemindersInv
    OBVIOUS
<1>1. /\ space = [w \in Spaces |-> "new"] /\ created = {} /\ changed = {} /\ toStore = [w \in Spaces |-> None]
      /\ stored = [r \in Reminder |-> None] /\ today = 0 /\ mailing = None /\ mailed = [r \in Reminder |-> 0]
    BY DEF RemindersInit
<1>2. RemindersTyped
    BY <1>1 DEF RemindersTyped
<1>3. \A w \in Spaces : space[w] = "new" /\ toStore[w] = None
    BY <1>1
<1>4. \A r \in Reminder : stored[r] = None
    BY <1>1
<1> QED BY <1>1, <1>2, <1>3, <1>4
        DEF RemindersInv, EventsOfSpaces, MarkedWasMailed, StoredSoFar, RemindersComplete, NoneLeft

\* What the events and the rows of a workspace come to in a step.
LEMMA RemindersKeep ==
    ASSUME RemindersInv, UNCHANGED <<space, changed, belated>>, RemindersTyped',
           \A w \in Spaces : space[w] = "trial" /\ w \notin wiped' => w \notin wiped,
           \A w \in Spaces : space[w] = "trial" /\ w \notin wiped' =>
                \A d \in DaysBefore : HasReminder(w, d) => HasReminder(w, d)',
           \A w \in Spaces : w \in created' <=> w \in created,
           \A w \in Spaces : toStore'[w] = toStore[w] \/ toStore'[w] = None,
           \A r \in Reminder : stored[r] = None => stored'[r] = None,
           MarkedWasMailed'
    PROVE  RemindersInv'
<1>1. EventsOfSpaces'
    BY DEF RemindersInv, EventsOfSpaces
<1>2. StoredSoFar'
    BY DEF RemindersInv, StoredSoFar
<1>3. RemindersComplete'
    BY DEF RemindersInv, RemindersComplete, HasReminder, Had
<1>4. NoneLeft'
    BY ReminderIs DEF RemindersInv, NoneLeft
<1> QED BY <1>1, <1>2, <1>3, <1>4 DEF RemindersInv

LEMMA SpaceCreatedInv ==
    ASSUME RemindersInv, NEW w \in Spaces, SpaceCreated(w)
    PROVE  RemindersInv'
<1>1. /\ space[w] = "new" /\ space' = [space EXCEPT ![w] = "trial"] /\ created' = created \cup {w}
      /\ UNCHANGED <<changed, toStore, stored, today, mailing, mailed, belated, wiped>>
    BY DEF SpaceCreated, reminderJob, reminderHistory
<1>2. /\ space' \in [Spaces -> {"new", "trial", "left"}] /\ space'[w] = "trial"
      /\ \A x \in Spaces : x # w => space'[x] = space[x]
    BY <1>1 DEF RemindersInv, RemindersTyped
<1>3. RemindersTyped' /\ MarkedWasMailed'
    BY <1>1, <1>2 DEF RemindersInv, RemindersTyped, MarkedWasMailed
<1>4. toStore[w] = None /\ w \notin changed
    BY <1>1 DEF RemindersInv, EventsOfSpaces
<1>5. EventsOfSpaces'
    BY <1>1, <1>2, <1>4 DEF RemindersInv, EventsOfSpaces
<1>6. StoredSoFar'
    BY <1>1, <1>2, <1>4 DEF RemindersInv, StoredSoFar, HasReminder, Had
<1>7. RemindersComplete'
    BY <1>1, <1>2 DEF RemindersInv, RemindersComplete
<1>8. NoneLeft'
    BY <1>1, <1>2, ReminderIs DEF RemindersInv, NoneLeft
<1> QED BY <1>3, <1>5, <1>6, <1>7, <1>8 DEF RemindersInv

LEMMA LeaveTrialInv ==
    ASSUME RemindersInv, NEW w \in Spaces, LeaveTrial(w)
    PROVE  RemindersInv'
<1>1. /\ space[w] = "trial" /\ space' = [space EXCEPT ![w] = "left"] /\ changed' = changed \cup {w}
      /\ UNCHANGED <<created, toStore, stored, today, mailing, mailed, belated, wiped>>
    BY DEF LeaveTrial, reminderJob, reminderHistory
<1>2. /\ space' \in [Spaces -> {"new", "trial", "left"}] /\ space'[w] = "left"
      /\ \A x \in Spaces : x # w => space'[x] = space[x]
    BY <1>1 DEF RemindersInv, RemindersTyped
<1>3. RemindersTyped' /\ MarkedWasMailed'
    BY <1>1, <1>2 DEF RemindersInv, RemindersTyped, MarkedWasMailed
<1>4. EventsOfSpaces'
    BY <1>1, <1>2 DEF RemindersInv, EventsOfSpaces
<1>5. StoredSoFar'
    BY <1>1, <1>2 DEF RemindersInv, StoredSoFar, HasReminder, Had
<1>6. RemindersComplete'
    BY <1>1, <1>2 DEF RemindersInv, RemindersComplete
<1>7. NoneLeft'
    BY <1>1, <1>2, ReminderIs DEF RemindersInv, NoneLeft
<1> QED BY <1>3, <1>4, <1>5, <1>6, <1>7 DEF RemindersInv

\* A task for the reminders of a workspace begins, by the event or by the customer support.
LEMMA TaskInv ==
    ASSUME RemindersInv, NEW w \in Spaces, NEW day \in Nat, space[w] # "new",
           toStore[w] = None, toStore' = [toStore EXCEPT ![w] = [days |-> DaysBefore, at |-> day]],
           UNCHANGED <<reminderEvents, stored, today, reminderJob, reminderHistory>>
    PROVE  RemindersInv'
<1> DEFINE new == [days |-> DaysBefore, at |-> day]
<1>1. UNCHANGED <<space, created, changed, stored, today, mailing, mailed, belated, wiped>>
    BY DEF reminderEvents, reminderJob, reminderHistory
<1>2. new \in [days : SUBSET DaysBefore, at : Nat] /\ new.days = DaysBefore /\ toStore' = [toStore EXCEPT ![w] = new]
    OBVIOUS
<1> HIDE DEF new
<1>3. /\ toStore' \in [Spaces -> [days : SUBSET DaysBefore, at : Nat] \cup {None}] /\ toStore'[w] = new
      /\ \A x \in Spaces : x # w => toStore'[x] = toStore[x]
    BY <1>2 DEF RemindersInv, RemindersTyped
<1>4. RemindersTyped' /\ MarkedWasMailed' /\ RemindersComplete' /\ NoneLeft'
    BY <1>1, <1>3 DEF RemindersInv, RemindersTyped, MarkedWasMailed, RemindersComplete, NoneLeft
<1>5. EventsOfSpaces'
    BY <1>1, <1>3 DEF RemindersInv, EventsOfSpaces
<1>6. StoredSoFar'
    BY <1>1, <1>2, <1>3 DEF RemindersInv, StoredSoFar, HasReminder, Had
<1> QED BY <1>4, <1>5, <1>6 DEF RemindersInv

LEMMA TasksInv ==
    ASSUME RemindersInv, NEW w \in Spaces, StartStoring(w) \/ ScheduleBySupport(w)
    PROVE  RemindersInv'
<1>1. today \in Nat /\ TrialDays \in Nat /\ MaxDays \in Nat
    BY RemindersAssumption DEF RemindersInv, RemindersTyped
<1>2. CASE StartStoring(w)
    <2>1. PICK day \in Nat : day = today + TrialDays
        BY <1>1
    <2>2. space[w] # "new"
        BY <1>2 DEF StartStoring, RemindersInv, EventsOfSpaces
    <2> QED BY <1>2, <2>1, <2>2, TaskInv DEF StartStoring
<1>3. CASE ScheduleBySupport(w)
    <2>1. PICK day \in 0..MaxDays : toStore' = [toStore EXCEPT ![w] = [days |-> DaysBefore, at |-> day]]
        BY <1>3 DEF ScheduleBySupport
    <2>2. day \in Nat
        BY <1>1
    <2>3. /\ space[w] # "new" /\ toStore[w] = None
          /\ UNCHANGED <<reminderEvents, stored, today, reminderJob, reminderHistory>>
        BY <1>3 DEF ScheduleBySupport
    <2> QED BY <2>1, <2>2, <2>3, TaskInv
<1> QED BY <1>2, <1>3

LEMMA StoreInv ==
    ASSUME RemindersInv, NEW w \in Spaces, NEW r \in Reminder, Store(w, r)
    PROVE  RemindersInv'
<1> DEFINE new == [due |-> toStore[w].at - r[2], sent |-> None]
           rest == [toStore[w] EXCEPT !.days = @ \ {r[2]}]
<1>1. /\ toStore[w] # None /\ r[1] = w /\ Free(r)
      /\ stored' = [stored EXCEPT ![r] = new] /\ toStore' = [toStore EXCEPT ![w] = rest]
      /\ belated' = IF space[w] = "left" /\ w \notin changed THEN belated \cup {w} ELSE belated
      /\ UNCHANGED <<space, created, changed, today, mailing, mailed, wiped>>
    BY DEF Store, reminderEvents, reminderJob
<1>2. toStore[w] \in [days : SUBSET DaysBefore, at : Nat]
    BY <1>1 DEF RemindersInv, RemindersTyped
<1>3. r[2] \in Int
    BY ReminderIs, RemindersAssumption
<1>4. new \in Row /\ new # None /\ new.sent = None
    BY <1>2, <1>3, ReminderAssumption DEF Row
<1>5. rest \in [days : SUBSET DaysBefore, at : Nat] /\ rest.days = toStore[w].days \ {r[2]}
    BY <1>2
<1> HIDE DEF new, rest
<1>6. /\ stored' \in [Reminder -> Row \cup {None}] /\ stored'[r] = new
      /\ \A x \in Reminder : x # r => stored'[x] = stored[x]
    BY <1>1, <1>4 DEF RemindersInv, RemindersTyped
<1>7. /\ toStore' \in [Spaces -> [days : SUBSET DaysBefore, at : Nat] \cup {None}] /\ toStore'[w] = rest
      /\ \A x \in Spaces : x # w => toStore'[x] = toStore[x]
    BY <1>1, <1>5 DEF RemindersInv, RemindersTyped
<1>8. RemindersTyped'
    BY <1>1, <1>6, <1>7 DEF RemindersInv, RemindersTyped
<1>9. EventsOfSpaces'
    BY <1>1, <1>7 DEF RemindersInv, EventsOfSpaces
<1>10. MarkedWasMailed'
    BY <1>1, <1>4, <1>6 DEF RemindersInv, MarkedWasMailed
<1>11. \A x \in Reminder : Had(x) => Had(x)'
    BY <1>1, <1>4, <1>6 DEF Had
<1>12. \A x \in Spaces, d \in DaysBefore : HasReminder(x, d) => HasReminder(x, d)'
    BY <1>11, TripleIs DEF HasReminder
<1>13. HasReminder(w, r[2])'
    <2>1. Had(<<w, r[2], r[3]>>)'
        BY <1>1, <1>4, <1>6, ReminderIs DEF Had
    <2> QED BY <2>1, ReminderIs DEF HasReminder
<1>14. StoredSoFar'
    BY <1>1, <1>5, <1>7, <1>12, <1>13 DEF RemindersInv, StoredSoFar
<1>15. RemindersComplete'
    BY <1>1, <1>12 DEF RemindersInv, RemindersComplete, HasReminder, Had
<1>16. NoneLeft'
    BY <1>1, <1>6, ReminderIs DEF RemindersInv, NoneLeft
<1> QED BY <1>8, <1>9, <1>10, <1>14, <1>15, <1>16 DEF RemindersInv

LEMMA EndStoringInv ==
    ASSUME RemindersInv, NEW w \in Spaces, EndStoring(w)
    PROVE  RemindersInv'
<1>1. /\ toStore[w] # None /\ toStore[w].days = {} /\ toStore' = [toStore EXCEPT ![w] = None]
      /\ created' = created \ {w} /\ UNCHANGED <<space, changed, stored, today, mailing, mailed, belated, wiped>>
    BY DEF EndStoring, reminderJob, reminderHistory
<1>2. /\ toStore' \in [Spaces -> [days : SUBSET DaysBefore, at : Nat] \cup {None}] /\ toStore'[w] = None
      /\ \A x \in Spaces : x # w => toStore'[x] = toStore[x]
    BY <1>1 DEF RemindersInv, RemindersTyped
<1>3. RemindersTyped' /\ MarkedWasMailed' /\ NoneLeft'
    BY <1>1, <1>2 DEF RemindersInv, RemindersTyped, MarkedWasMailed, NoneLeft
<1>4. EventsOfSpaces'
    BY <1>1, <1>2 DEF RemindersInv, EventsOfSpaces
<1>5. StoredSoFar'
    BY <1>1, <1>2 DEF RemindersInv, StoredSoFar, HasReminder, Had
<1>6. RemindersComplete'
    <2>1. space[w] = "trial" /\ w \in created \ wiped => \A d \in DaysBefore : HasReminder(w, d)
        BY <1>1 DEF RemindersInv, StoredSoFar
    <2> QED BY <1>1, <2>1 DEF RemindersInv, RemindersComplete, HasReminder, Had
<1> QED BY <1>3, <1>4, <1>5, <1>6 DEF RemindersInv

\* The rows of all workspaces are removed; those that had some are noted, except one that has left its trial.
LEMMA RemoveInv ==
    ASSUME RemindersInv, NEW removed, RemoveReminders, removed \cap Spaces \subseteq {w \in Spaces : space[w] = "left"},
           wiped' = wiped \cup (HaveReminders \ removed), changed' \subseteq changed,
           UNCHANGED <<space, created, toStore, today, reminderJob, belated>>
    PROVE  RemindersInv'
<1>1. UNCHANGED <<mailing, mailed>> /\ stored' = [r \in Reminder |-> None]
    BY DEF reminderJob, RemoveReminders
<1>2. \A r \in Reminder : stored'[r] = None
    BY <1>1
<1>3. RemindersTyped' /\ MarkedWasMailed'
    BY <1>1, <1>2 DEF RemindersInv, RemindersTyped, MarkedWasMailed
<1>4. EventsOfSpaces'
    BY DEF RemindersInv, EventsOfSpaces
<1>5. ASSUME NEW w \in Spaces, space[w] = "trial", w \notin wiped', NEW d \in DaysBefore, HasReminder(w, d)
      PROVE  HasReminder(w, d)'
    <2>1. PICK n \in 1..(MaxReminderFaults + 1) : Had(<<w, d, n>>)
        BY <1>5 DEF HasReminder
    <2>2. stored[<<w, d, n>>] = None
        BY <1>5, TripleIs DEF HaveReminders
    <2>3. Had(<<w, d, n>>)'
        BY <1>1, <2>1, <2>2 DEF Had
    <2> QED BY <2>3 DEF HasReminder
<1>6. StoredSoFar'
    BY <1>5 DEF RemindersInv, StoredSoFar
<1>7. RemindersComplete'
    BY <1>5 DEF RemindersInv, RemindersComplete, HasReminder, Had
<1>8. NoneLeft'
    BY <1>2 DEF NoneLeft
<1> QED BY <1>3, <1>4, <1>6, <1>7, <1>8 DEF RemindersInv

LEMMA UnscheduleInv ==
    ASSUME RemindersInv, UnscheduleBySupport \/ \E w \in Spaces : Unschedule(w)
    PROVE  RemindersInv'
<1>1. CASE UnscheduleBySupport
    <2>1. wiped' = wiped \cup (HaveReminders \ {}) /\ changed' \subseteq changed /\ RemoveReminders
        BY <1>1 DEF UnscheduleBySupport, reminderEvents
    <2>2. UNCHANGED <<space, created, toStore, today, reminderJob, belated>>
        BY <1>1 DEF UnscheduleBySupport, reminderEvents
    <2> QED BY <2>1, <2>2, RemoveInv
<1>2. ASSUME NEW w \in Spaces, Unschedule(w) PROVE RemindersInv'
    <2>1. /\ w \in changed /\ wiped' = wiped \cup (HaveReminders \ {w}) /\ changed' \subseteq changed /\ RemoveReminders
          /\ UNCHANGED <<space, created, toStore, today, reminderJob, belated>>
        BY <1>2 DEF Unschedule
    <2>2. space[w] = "left"
        BY <2>1 DEF RemindersInv, EventsOfSpaces
    <2> QED BY <2>1, <2>2, RemoveInv
<1> QED BY <1>1, <1>2

-----------------------------------------------------------------------------
(* The jobs.                                                               *)

LEMMA ReadReminderInv ==
    ASSUME RemindersInv, NEW r \in Reminder, ReadReminder(r)
    PROVE  RemindersInv'
<1> DEFINE new == [row |-> r, mailed |-> FALSE]
<1>1. /\ mailing' = new \/ mailing' = None
      /\ UNCHANGED <<space, created, changed, toStore, stored, today, mailed, belated, wiped>>
    BY DEF ReadReminder, reminderEvents, reminderHistory
<1>2. new \in [row : Reminder, mailed : BOOLEAN] /\ ~new.mailed
    OBVIOUS
<1> HIDE DEF new
<1>3. RemindersTyped'
    BY <1>1, <1>2 DEF RemindersInv, RemindersTyped
<1>4. MarkedWasMailed'
    BY <1>1, <1>2 DEF RemindersInv, MarkedWasMailed
<1>5. \A w \in Spaces, d \in DaysBefore : HasReminder(w, d) => HasReminder(w, d)'
    BY <1>1 DEF HasReminder, Had
<1> QED BY <1>1, <1>3, <1>4, <1>5, RemindersKeep

LEMMA MailReminderInv ==
    ASSUME RemindersInv, Mail
    PROVE  RemindersInv'
<1> DEFINE new == [mailing EXCEPT !.mailed = TRUE]
<1>1. /\ mailing # None /\ mailing' = new /\ mailed' = [mailed EXCEPT ![mailing.row] = @ + 1]
      /\ UNCHANGED <<space, created, changed, toStore, stored, today, belated, wiped>>
    BY DEF Mail, reminderEvents, reminderHistory
<1>2. mailing \in [row : Reminder, mailed : BOOLEAN]
    BY <1>1 DEF RemindersInv, RemindersTyped
<1>3. new \in [row : Reminder, mailed : BOOLEAN] /\ new.row = mailing.row /\ mailing.row \in Reminder
    BY <1>2
<1> HIDE DEF new
<1>4. /\ mailed' \in [Reminder -> Nat] /\ mailed'[mailing.row] > 0
      /\ \A r \in Reminder : mailed[r] > 0 => mailed'[r] > 0
    BY <1>1, <1>3 DEF RemindersInv, RemindersTyped
<1>5. RemindersTyped'
    BY <1>1, <1>3, <1>4 DEF RemindersInv, RemindersTyped
<1>6. MarkedWasMailed'
    BY <1>1, <1>3, <1>4 DEF RemindersInv, MarkedWasMailed
<1>7. \A w \in Spaces, d \in DaysBefore : HasReminder(w, d) => HasReminder(w, d)'
    BY <1>1, <1>4, TripleIs DEF HasReminder, Had
<1> QED BY <1>1, <1>5, <1>6, <1>7, RemindersKeep

LEMMA MarkMailedInv ==
    ASSUME RemindersInv, MarkMailed
    PROVE  RemindersInv'
<1>1. /\ mailing # None /\ mailing.mailed /\ mailing' = None
      /\ stored' = IF stored[mailing.row] = None THEN stored ELSE [stored EXCEPT ![mailing.row].sent = today]
      /\ UNCHANGED <<space, created, changed, toStore, mailed, today, belated, wiped>>
    BY DEF MarkMailed, reminderEvents, reminderHistory
<1>2. mailing.row \in Reminder /\ mailed[mailing.row] > 0 /\ today \in Nat
    BY <1>1 DEF RemindersInv, RemindersTyped, MarkedWasMailed
<1>3. PICK r \in Reminder : r = mailing.row
    BY <1>2
<1> DEFINE new == [stored[r] EXCEPT !.sent = today]
<1>4. stored[r] # None => new \in Row
    BY <1>2 DEF RemindersInv, RemindersTyped, Row
<1>5. stored' = IF stored[r] = None THEN stored ELSE [stored EXCEPT ![r] = new]
    BY <1>1, <1>3
<1> HIDE DEF new
<1>6. /\ stored' \in [Reminder -> Row \cup {None}]
      /\ \A x \in Reminder : x # r => stored'[x] = stored[x]
      /\ stored[r] # None => stored'[r] # None
      /\ stored[r] = None => stored'[r] = None
    BY <1>4, <1>5, ReminderAssumption DEF RemindersInv, RemindersTyped
<1>7. RemindersTyped'
    BY <1>1, <1>6 DEF RemindersInv, RemindersTyped
<1>8. MarkedWasMailed'
    BY <1>1, <1>2, <1>3, <1>6 DEF RemindersInv, MarkedWasMailed
<1>9. \A w \in Spaces, d \in DaysBefore : HasReminder(w, d) => HasReminder(w, d)'
    BY <1>1, <1>6, TripleIs DEF HasReminder, Had
<1>10. \A x \in Reminder : stored[x] = None => stored'[x] = None
    BY <1>6
<1> QED BY <1>1, <1>7, <1>8, <1>9, <1>10, RemindersKeep

\* What is cleaned up was mailed.
LEMMA CleanupInv ==
    ASSUME RemindersInv, CleanupOldEmails
    PROVE  RemindersInv'
<1>1. /\ stored' = [r \in Reminder |-> IF Old(r) THEN None ELSE stored[r]]
      /\ UNCHANGED <<space, created, changed, toStore, today, mailing, mailed, belated, wiped>>
    BY DEF CleanupOldEmails, reminderEvents, reminderJob, reminderHistory
<1>2. \A r \in Reminder : Old(r) => mailed[r] > 0
    BY DEF Old, RemindersInv, MarkedWasMailed
<1>3. \A r \in Reminder : stored'[r] = stored[r] \/ (stored'[r] = None /\ mailed[r] > 0)
    BY <1>1, <1>2
<1>4. RemindersTyped'
    BY <1>1 DEF RemindersInv, RemindersTyped
<1>5. MarkedWasMailed'
    BY <1>1, <1>3 DEF RemindersInv, MarkedWasMailed
<1>6. \A w \in Spaces, d \in DaysBefore : HasReminder(w, d) => HasReminder(w, d)'
    BY <1>1, <1>3, TripleIs DEF HasReminder, Had
<1>7. \A x \in Reminder : stored[x] = None => stored'[x] = None
    BY <1>3
<1> QED BY <1>1, <1>4, <1>5, <1>6, <1>7, RemindersKeep

\* The job ends a run, the day goes on, the process dies: the rows and the mails are left alone.
LEMMA RowsKept ==
    ASSUME RemindersInv, UNCHANGED <<reminderEvents, stored, mailed, reminderHistory>>,
           today' = today \/ today' = today + 1, mailing' = mailing \/ mailing' = None,
           toStore' = toStore \/ toStore' = [w \in Spaces |-> None]
    PROVE  RemindersInv'
<1>1. UNCHANGED <<space, created, changed, stored, mailed, belated, wiped>>
    BY DEF reminderEvents, reminderHistory
<1>2. RemindersTyped'
    BY <1>1 DEF RemindersInv, RemindersTyped
<1>3. MarkedWasMailed'
    BY <1>1 DEF RemindersInv, MarkedWasMailed
<1>4. \A w \in Spaces : toStore'[w] = toStore[w] \/ toStore'[w] = None
    OBVIOUS
<1>5. \A w \in Spaces, d \in DaysBefore : HasReminder(w, d) => HasReminder(w, d)'
    BY <1>1 DEF HasReminder, Had
<1> QED BY <1>1, <1>2, <1>3, <1>4, <1>5, RemindersKeep

LEMMA RemindersStepInv == RemindersInv /\ [RemindersNext]_reminderVars => RemindersInv'
<1> SUFFICES ASSUME RemindersInv, [RemindersNext]_reminderVars
             PROVE  RemindersInv'
    OBVIOUS
<1>1. CASE ReminderStep
    BY <1>1, TasksInv, EndStoringInv, UnscheduleInv, StoreInv, ReadReminderInv, MailReminderInv, MarkMailedInv DEF ReminderStep
<1>2. CASE \E w \in Spaces : SpaceCreated(w) \/ LeaveTrial(w) \/ ScheduleBySupport(w)
    BY <1>2, SpaceCreatedInv, LeaveTrialInv, TasksInv
<1>3. CASE UnscheduleBySupport \/ CleanupOldEmails
    BY <1>3, UnscheduleInv, CleanupInv
<1>4. CASE ListPending \/ SendFails \/ NextDay \/ CrashReminders \/ UNCHANGED reminderVars
    <2>1. /\ UNCHANGED <<reminderEvents, stored, mailed, reminderHistory>>
          /\ today' = today \/ today' = today + 1
          /\ mailing' = mailing \/ mailing' = None
          /\ toStore' = toStore \/ toStore' = [w \in Spaces |-> None]
        BY <1>4 DEF ListPending, SendFails, NextDay, CrashReminders, reminderVars, reminderJob
    <2> QED BY <2>1, RowsKept
<1> QED BY <1>1, <1>2, <1>3, <1>4 DEF RemindersNext

\* A handler of WorkspaceCreated that dies between two of its transactions loses no reminder: when the event is
\* acknowledged and the workspace is still in its trial, schedule_one_time_email has stored each, or it was mailed.
THEOREM RemindersAreComplete == RemindersSpec => []RemindersComplete
<1>1. RemindersInv => RemindersComplete
    BY DEF RemindersInv
<1> QED BY <1>1, RemindersStart, RemindersStepInv, PTL DEF RemindersSpec

\* The job mails what it has in its hands, and takes a reminder that has a row.
LEMMA NothingNew ==
    ASSUME RemindersInv, [RemindersNext]_reminderVars, NEW r \in Reminder,
           stored[r] = None, mailing = None \/ mailing.row # r
    PROVE  mailed'[r] = mailed[r] /\ (mailing' = None \/ mailing'.row # r)
<1>1. CASE Mail
    <2>1. mailing \in [row : Reminder, mailed : BOOLEAN] /\ mailing # None
        BY <1>1 DEF Mail, RemindersInv, RemindersTyped
    <2>2. mailing'.row = mailing.row /\ mailed'[r] = mailed[r]
        BY <1>1, <2>1 DEF Mail, RemindersInv, RemindersTyped
    <2> QED BY <2>1, <2>2
<1>2. ASSUME NEW x \in Reminder, ReadReminder(x)
      PROVE  mailed'[r] = mailed[r] /\ (mailing' = None \/ mailing'.row # r)
    BY <1>2 DEF ReadReminder
<1>3. CASE ~Mail /\ ~\E x \in Reminder : ReadReminder(x)
    <2>1. mailed' = mailed /\ (mailing' = mailing \/ mailing' = None)
        BY <1>3 DEF RemindersNext, ReminderStep, StartStoring, EndStoring, Unschedule, Store, MarkMailed, ListPending,
                SendFails, CleanupOldEmails, NextDay, CrashReminders, SpaceCreated, LeaveTrial, ScheduleBySupport,
                UnscheduleBySupport, reminderVars, reminderJob
    <2> QED BY <2>1
<1> QED BY <1>1, <1>2, <1>3

\* A workspace that has left the trial is not reminded again once its rows are removed by
\* unschedule_one_time_email, unless WorkspaceCreated was handled after ProductTierChanged.
THEOREM RemindersEnd == RemindersSpec => RemindersStop
<1>1. RemindersInv /\ [RemindersNext]_reminderVars =>
        [\A r \in Reminder :
            space[r[1]] = "left" /\ r[1] \notin changed \cup belated /\ (mailing = None \/ mailing.row # r)
                => mailed'[r] = mailed[r] /\ (mailing' = None \/ mailing'.row # r)]_reminderVars
    BY NothingNew DEF RemindersInv, NoneLeft
<1> QED BY <1>1, RemindersStart, RemindersStepInv, PTL DEF RemindersSpec, RemindersStop

-----------------------------------------------------------------------------
(* The reports and mails on a schedule.                                    *)

LettersTyped ==
    /\ batch \in 0..3 /\ queue \subseteq Letter /\ got \in [Letter -> Nat]
    /\ notes \subseteq People \X Kinds /\ marked \subseteq People \X Kinds
    /\ \A l \in queue : l[2] = "weekly_report" => l[3] \in Teams

\* The report of each workspace of a user is sent, given up or still to be sent.
Covered(u) ==
    \A w \in Teams : u \in MemberOf[w] =>
        LET l == <<u, "weekly_report", w>> IN got[l] > 0 \/ l \in given \/ l \in queue

\* Who has a report in the batch has those of all workspaces in it.
BatchCovers ==
    \A u \in People :
        (<<u, "weekly_report">> \in notes \/ \E w \in Teams : <<u, "weekly_report", w>> \in queue) => Covered(u)

MailInv == LettersTyped /\ BatchCovers /\ MarkedMeansMailed

\* What a batch selects.
LEMMA SelectedIs ==
    ASSUME NEW n \in 1..3
    PROVE  /\ Batches[n] \in Kinds /\ \A l \in Selected(Batches[n]) : l \in Letter /\ l[2] = Batches[n]
           /\ Selected("weekly_report") =
                {<<u, "weekly_report", w>> : u \in {x \in People : Wants(x, "weekly_report")}, w \in Teams}
<1>1. Batches[n] \in Kinds
    BY DEF Batches, Kinds
<1>2. \A u : u \in UNION {MemberOf[w] : w \in Teams \ connected} => u \in People
    BY ScheduledEmailsAssumption
<1>3. ASSUME NEW l \in Selected(Batches[n]) PROVE l \in Letter /\ l[2] = Batches[n]
    <2>1. CASE Batches[n] = "no_cloud_account"
        BY <1>2, <1>3, <2>1 DEF Selected, Letter, Kinds
    <2>2. CASE Batches[n] = "weekly_report"
        BY <1>3, <2>2 DEF Selected, Letter, Kinds
    <2>3. CASE Batches[n] = "tutorial"
        BY <1>3, <2>3 DEF Selected, Letter, Kinds
    <2> QED BY <1>1, <2>1, <2>2, <2>3 DEF Kinds
<1>4. Selected("weekly_report") =
        {<<u, "weekly_report", w>> : u \in {x \in People : Wants(x, "weekly_report")}, w \in Teams}
    BY DEF Selected
<1> QED BY <1>1, <1>3, <1>4

\* Select takes the reports of all workspaces of a user, or none.
LEMMA SelectCovers ==
    ASSUME NEW n \in 1..3, Select(n), NEW u \in People, NEW v \in Teams, <<u, "weekly_report", v>> \in queue',
           NEW w \in Teams, u \in MemberOf[w]
    PROVE  <<u, "weekly_report", w>> \in queue'
<1>1. queue' = {l \in Selected(Batches[n]) : Member(l) /\ <<l[1], l[2]>> \notin marked'}
    BY DEF Select
<1>2. Batches[n] = "weekly_report"
    BY <1>1, SelectedIs
<1>3. <<u, "weekly_report">> \notin marked' /\ Wants(u, "weekly_report")
    BY <1>1, <1>2, SelectedIs
<1>4. <<u, "weekly_report", w>> \in Selected(Batches[n])
    BY <1>2, <1>3, SelectedIs
<1>5. Member(<<u, "weekly_report", w>>)
    BY DEF Member
<1> QED BY <1>1, <1>3, <1>4, <1>5

LEMMA SelectInv ==
    ASSUME MailInv, NEW n \in 1..3, Select(n), UNCHANGED mailHistory,
           marked' \subseteq People \X Kinds, MarkedMeansMailed'
    PROVE  MailInv'
<1>1. queue' \subseteq Letter /\ notes' = {} /\ batch' = n /\ got' = got
    BY SelectedIs DEF Select, mailHistory
<1>4. \A l \in queue' : l[2] = "weekly_report" => l[3] \in Teams
    BY SelectedIs DEF Select
<1>2. LettersTyped'
    BY <1>1, <1>4 DEF MailInv, LettersTyped
<1>3. BatchCovers'
    BY <1>1, SelectCovers DEF BatchCovers, Covered
<1> QED BY <1>2, <1>3 DEF MailInv

LEMMA StartBatchesInv ==
    ASSUME MailInv, StartBatches
    PROVE  MailInv'
<1>1. Select(1) /\ UNCHANGED mailHistory /\ marked' = marked
    BY DEF StartBatches
<1>2. MarkedMeansMailed' /\ marked' \subseteq People \X Kinds
    BY <1>1 DEF MailInv, MarkedMeansMailed, LettersTyped, mailHistory
<1> QED BY <1>1, <1>2, SelectInv

LEMMA CommitBatchInv ==
    ASSUME MailInv, CommitBatch
    PROVE  MailInv'
<1>1. /\ queue = {} /\ marked' = marked \cup notes /\ UNCHANGED mailHistory
      /\ IF batch < 3 THEN Select(batch + 1) ELSE batch' = 0 /\ queue' = {} /\ notes' = {}
    BY DEF CommitBatch
<1>2. MarkedMeansMailed'
    BY <1>1 DEF MailInv, MarkedMeansMailed, BatchCovers, Covered, mailHistory
<1>3. marked' \subseteq People \X Kinds /\ batch \in 0..3 /\ batch # 0
    BY <1>1 DEF MailInv, LettersTyped, CommitBatch
<1>4. CASE batch < 3
    <2>1. batch + 1 \in 1..3
        BY <1>3, <1>4
    <2>2. PICK n \in 1..3 : n = batch + 1
        BY <2>1
    <2> QED BY <1>1, <1>2, <1>3, <1>4, <2>2, SelectInv
<1>5. CASE ~(batch < 3)
    <2>1. batch' = 0 /\ queue' = {} /\ notes' = {} /\ got' = got
        BY <1>1, <1>5 DEF mailHistory
    <2>2. LettersTyped'
        BY <1>3, <2>1 DEF MailInv, LettersTyped
    <2>3. BatchCovers'
        BY <2>1 DEF BatchCovers
    <2> QED BY <1>2, <2>2, <2>3 DEF MailInv
<1> QED BY <1>4, <1>5

\* A mail leaves the batch when it is sent, or logged as failed.
LEMMA SendInv ==
    ASSUME MailInv, NEW l \in Letter, Send(l)
    PROVE  MailInv'
<1>1. /\ l \in queue /\ queue' = queue \ {l} /\ got' = [got EXCEPT ![l] = @ + 1]
      /\ notes' = notes \cup {<<l[1], l[2]>>} /\ UNCHANGED <<batch, marked, given>>
    BY DEF Send, Note
<1>2. /\ got' \in [Letter -> Nat] /\ got'[l] > 0 /\ \A m \in Letter : m # l => got'[m] = got[m]
      /\ \A m \in Letter : got[m] > 0 => got'[m] > 0
    BY <1>1 DEF MailInv, LettersTyped
<1>3. l[1] \in People /\ l[2] \in Kinds /\ l[3] \in Teams \cup {None} /\ l = <<l[1], l[2], l[3]>>
    BY DEF Letter
<1>4. LettersTyped'
    BY <1>1, <1>2, <1>3 DEF MailInv, LettersTyped
<1>5. \A u \in People, w \in Teams : <<u, "weekly_report", w>> \in Letter
    BY DEF Letter, Kinds
<1>6. \A u \in People : Covered(u) => Covered(u)'
    BY <1>1, <1>2, <1>5 DEF Covered
<1>7. MarkedMeansMailed'
    BY <1>1, <1>2, <1>5 DEF MailInv, MarkedMeansMailed
<1>8. BatchCovers'
    <2> SUFFICES ASSUME NEW u \in People,
                        <<u, "weekly_report">> \in notes' \/ \E w \in Teams : <<u, "weekly_report", w>> \in queue'
                 PROVE  Covered(u)
        BY <1>6 DEF BatchCovers
    <2>1. CASE <<u, "weekly_report">> = <<l[1], l[2]>>
        <3>1. l[3] \in Teams /\ <<u, "weekly_report", l[3]>> \in queue
            BY <1>1, <1>3, <2>1 DEF MailInv, LettersTyped
        <3> QED BY <3>1 DEF MailInv, BatchCovers
    <2>2. CASE <<u, "weekly_report">> # <<l[1], l[2]>>
        BY <1>1, <2>2 DEF MailInv, BatchCovers
    <2> QED BY <2>1, <2>2
<1> QED BY <1>4, <1>7, <1>8 DEF MailInv

LEMMA SendingFailsInv ==
    ASSUME MailInv, NEW l \in Letter, SendingFails(l)
    PROVE  MailInv'
<1>1. l \in queue /\ UNCHANGED <<marked, got>>
    BY DEF SendingFails
<1>2. CASE l[2] = "weekly_report"
    <2>1. queue' = queue \ {l} /\ given' = given \cup {l} /\ UNCHANGED <<batch, notes>>
        BY <1>2 DEF SendingFails
    <2>2. LettersTyped' /\ MarkedMeansMailed'
        BY <1>1, <2>1 DEF MailInv, LettersTyped, MarkedMeansMailed
    <2>3. \A u \in People : Covered(u) => Covered(u)'
        BY <1>1, <2>1 DEF Covered
    <2>4. BatchCovers'
        BY <2>1, <2>3 DEF MailInv, BatchCovers
    <2> QED BY <2>2, <2>4 DEF MailInv
<1>3. CASE l[2] # "weekly_report"
    <2>1. batch' = 0 /\ queue' = {} /\ notes' = {} /\ UNCHANGED given
        BY <1>3 DEF SendingFails
    <2>2. LettersTyped' /\ MarkedMeansMailed'
        BY <1>1, <2>1 DEF MailInv, LettersTyped, MarkedMeansMailed
    <2>3. BatchCovers'
        BY <2>1 DEF BatchCovers
    <2> QED BY <2>2, <2>3 DEF MailInv
<1> QED BY <1>2, <1>3

LEMMA CrashMailsInv ==
    ASSUME MailInv, CrashMails
    PROVE  MailInv'
<1>1. batch' = 0 /\ queue' = {} /\ notes' = {} /\ UNCHANGED <<marked, got, given>>
    BY DEF CrashMails, mailHistory
<1>2. LettersTyped' /\ MarkedMeansMailed'
    BY <1>1 DEF MailInv, LettersTyped, MarkedMeansMailed
<1>3. BatchCovers'
    BY <1>1 DEF BatchCovers
<1> QED BY <1>2, <1>3 DEF MailInv

LEMMA MailKeep ==
    ASSUME MailInv, UNCHANGED <<mailJob, marked, mailHistory>>
    PROVE  MailInv'
<1>1. UNCHANGED <<batch, queue, notes, marked, got, given>>
    BY DEF mailJob, mailHistory
<1>2. LettersTyped' /\ MarkedMeansMailed'
    BY <1>1 DEF MailInv, LettersTyped, MarkedMeansMailed
<1>3. BatchCovers'
    BY <1>1 DEF MailInv, BatchCovers, Covered
<1> QED BY <1>2, <1>3 DEF MailInv

LEMMA MailStepInv == MailInv /\ [ScheduledEmailsNext]_mailVars => MailInv'
<1> SUFFICES ASSUME MailInv, [ScheduledEmailsNext]_mailVars
             PROVE  MailInv'
    OBVIOUS
<1>1. CASE MailStep
    BY <1>1, StartBatchesInv, CommitBatchInv, SendInv DEF MailStep
<1>2. CASE CrashMails
    BY <1>2, CrashMailsInv
<1>3. CASE \E l \in Letter : SendingFails(l)
    BY <1>3, SendingFailsInv
<1>4. CASE \/ \E w \in Teams : ConnectAccount(w)
           \/ \E e \in Edits : \/ WriteSettings(e)
                               \/ \E u \in People, option \in Options, value \in BOOLEAN : ReadSettings(e, u, option, value)
           \/ UNCHANGED mailVars
    BY <1>4, MailKeep DEF ConnectAccount, WriteSettings, ReadSettings, mailVars
<1> QED BY <1>1, <1>2, <1>3, <1>4 DEF ScheduledEmailsNext

\* Marks are committed at the end of a batch, and one mark stands for the reports of all workspaces: who is marked
\* by send_emails had the report of every workspace, or it failed and was logged.
THEOREM ReportsCovered == ScheduledEmailsSpec => []MarkedMeansMailed
<1>1. ScheduledEmailsInit => MailInv
    <2> SUFFICES ASSUME ScheduledEmailsInit
                 PROVE  MailInv
        OBVIOUS
    <2>1. batch = 0 /\ queue = {} /\ notes = {} /\ marked = {} /\ got = [l \in Letter |-> 0]
        BY DEF ScheduledEmailsInit
    <2> QED BY <2>1 DEF MailInv, LettersTyped, BatchCovers, MarkedMeansMailed
<1>2. MailInv => MarkedMeansMailed
    BY DEF MailInv
<1> QED BY <1>1, <1>2, MailStepInv, PTL DEF ScheduledEmailsSpec

-----------------------------------------------------------------------------
(* The settings.                                                           *)

\* A request that has read a row finds one when it writes: rows are never deleted.
SettingsTyped ==
    /\ opts \in [People -> Opts \cup {None}]
    /\ editing \in [Edits -> Edit \cup {None}]
    /\ \A e \in Edits : editing[e] # None /\ editing[e].read # None => opts[editing[e].user] \in Opts

LEMMA SettingsStart == ScheduledEmailsInit => SettingsTyped
<1> SUFFICES ASSUME ScheduledEmailsInit
             PROVE  SettingsTyped
    OBVIOUS
<1>1. opts \in [People -> {None, [o \in Options |-> TRUE]}] /\ editing = [e \in Edits |-> None]
    BY DEF ScheduledEmailsInit
<1>2. [o \in Options |-> TRUE] \in Opts
    BY DEF Opts
<1> QED BY <1>1, <1>2 DEF SettingsTyped

\* What a request writes is a row, and it changes one field of it.
LEMMA WrittenIs ==
    ASSUME NEW wish \in Edit, NEW row, row \in Opts \/ wish.read = None
    PROVE  /\ Written(row, wish) \in Opts
           /\ wish.read # None => \A o \in Options :
                Written(row, wish)[o] = row[o] \/ (o = wish.option /\ Written(row, wish)[o] = wish.value)
<1>1. wish.option \in Options /\ wish.value \in BOOLEAN /\ wish.read \in Opts \cup {None}
    BY DEF Edit
<1>2. CASE wish.read = None
    BY <1>1, <1>2 DEF Written, Opts
<1>3. CASE wish.read # None
    BY <1>1, <1>3 DEF Written, Opts
<1> QED BY <1>2, <1>3

LEMMA WriteSettingsIs ==
    ASSUME SettingsTyped, NEW e \in Edits, WriteSettings(e)
    PROVE  /\ SettingsTyped'
           /\ \A u \in People, o \in Options :
                opts[u] # None /\ ~opts[u][o] /\ opts'[u] # None /\ opts'[u][o] =>
                    editing[e].user = u /\ editing[e].option = o /\ editing[e].value
<1>1. editing[e] # None /\ editing' = [editing EXCEPT ![e] = None]
    BY DEF WriteSettings
<1>2. PICK wish \in Edit : wish = editing[e]
    BY <1>1 DEF SettingsTyped
<1>3. wish.user \in People /\ wish.option \in Options /\ wish.value \in BOOLEAN /\ wish.read \in Opts \cup {None}
    BY DEF Edit
<1>4. opts' = IF wish.read = None /\ opts[wish.user] # None THEN opts
              ELSE [opts EXCEPT ![wish.user] = Written(opts[wish.user], wish)]
    BY <1>2 DEF WriteSettings
<1>5. opts[wish.user] \in Opts \/ wish.read = None
    BY <1>1, <1>2 DEF SettingsTyped
<1>6. /\ Written(opts[wish.user], wish) \in Opts
      /\ wish.read # None => \A o \in Options :
            Written(opts[wish.user], wish)[o] = opts[wish.user][o]
                \/ (o = wish.option /\ Written(opts[wish.user], wish)[o] = wish.value)
    BY <1>5, WrittenIs
<1>7. opts' \in [People -> Opts \cup {None}] /\ \A u \in People : opts[u] \in Opts => opts'[u] \in Opts
    BY <1>3, <1>4, <1>6 DEF SettingsTyped
<1>8. editing' \in [Edits -> Edit \cup {None}] /\ \A d \in Edits : editing'[d] # None => editing'[d] = editing[d]
    BY <1>1 DEF SettingsTyped
<1>9. SettingsTyped'
    <2>1. ASSUME NEW d \in Edits, editing'[d] # None, editing'[d].read # None PROVE opts'[editing'[d].user] \in Opts
        <3>1. editing[d] \in Edit /\ editing'[d] = editing[d]
            BY <1>8, <2>1 DEF SettingsTyped
        <3>2. editing[d].user \in People
            BY <3>1 DEF Edit
        <3> QED BY <1>7, <2>1, <3>1, <3>2 DEF SettingsTyped
    <2> QED BY <1>7, <1>8, <2>1 DEF SettingsTyped
<1>10. ASSUME NEW u \in People, NEW o \in Options, opts[u] # None, ~opts[u][o], opts'[u] # None, opts'[u][o]
       PROVE  wish.user = u /\ wish.option = o /\ wish.value
    <2>1. wish.user = u /\ wish.read # None /\ opts'[u] = Written(opts[u], wish)
        BY <1>3, <1>4, <1>10 DEF SettingsTyped
    <2>2. Written(opts[u], wish)[o]
        BY <1>10, <2>1
    <2> QED BY <1>6, <1>10, <2>1, <2>2
<1> QED BY <1>2, <1>9, <1>10

LEMMA ReadSettingsInv ==
    ASSUME SettingsTyped, NEW e \in Edits, NEW u \in People, NEW option \in Options, NEW value \in BOOLEAN,
           ReadSettings(e, u, option, value)
    PROVE  SettingsTyped' /\ opts' = opts
<1> DEFINE new == [user |-> u, option |-> option, value |-> value, read |-> opts[u]]
<1>1. editing' = [editing EXCEPT ![e] = new] /\ opts' = opts
    BY DEF ReadSettings
<1>2. new \in Edit /\ new.user = u /\ (new.read # None => opts[u] \in Opts)
    BY DEF Edit, SettingsTyped
<1> HIDE DEF new
<1> QED BY <1>1, <1>2 DEF SettingsTyped

LEMMA SettingsStep ==
    ASSUME SettingsTyped, [ScheduledEmailsNext]_mailVars
    PROVE  /\ SettingsTyped'
           /\ \A u \in People, o \in Options :
                opts[u] # None /\ ~opts[u][o] /\ opts'[u] # None /\ opts'[u][o] =>
                    \E e \in Edits : editing[e] # None /\ editing[e].user = u /\ editing[e].option = o
                                    /\ editing[e].value
<1>1. CASE \E e \in Edits : WriteSettings(e)
    <2>1. PICK e \in Edits : WriteSettings(e)
        BY <1>1
    <2>2. editing[e] # None
        BY <2>1 DEF WriteSettings
    <2> QED BY <2>1, <2>2, WriteSettingsIs
<1>2. CASE \E e \in Edits, u \in People, option \in Options, value \in BOOLEAN : ReadSettings(e, u, option, value)
    BY <1>2, ReadSettingsInv
<1>3. CASE CrashMails
    <2>1. opts' = opts /\ editing' = [e \in Edits |-> None]
        BY <1>3 DEF CrashMails
    <2>2. \A e \in Edits : editing'[e] = None
        BY <2>1
    <2>3. SettingsTyped'
        BY <2>1, <2>2 DEF SettingsTyped
    <2> QED BY <2>1, <2>3
<1>4. CASE MailStep \/ (\E l \in Letter : SendingFails(l)) \/ (\E w \in Teams : ConnectAccount(w)) \/ UNCHANGED mailVars
    <2>1. UNCHANGED <<opts, editing>>
        BY <1>4 DEF MailStep, StartBatches, CommitBatch, Send, SendingFails, ConnectAccount, mailVars
    <2> QED BY <2>1 DEF SettingsTyped
<1> QED BY <1>1, <1>2, <1>3, <1>4 DEF ScheduledEmailsNext

\* An opt-out stands until a request of update_notification_settings that asks for the opposite: one that changes
\* another field of the row at the same time does not undo it.
THEOREM OptOutsStay == ScheduledEmailsSpec => OptOutStays
<1>1. SettingsTyped /\ [ScheduledEmailsNext]_mailVars => SettingsTyped'
    BY SettingsStep
<1>2. SettingsTyped /\ [ScheduledEmailsNext]_mailVars =>
        [\A u \in People, o \in Options :
            opts[u] # None /\ ~opts[u][o] /\ opts'[u] # None /\ opts'[u][o] =>
                \E e \in Edits : editing[e] # None /\ editing[e].user = u /\ editing[e].option = o
                                /\ editing[e].value]_mailVars
    BY SettingsStep
<1> QED BY <1>1, <1>2, SettingsStart, PTL DEF ScheduledEmailsSpec, OptOutStays

-----------------------------------------------------------------------------
(* The graph database follows the tables.                                  *)

InventoryTyped ==
    /\ accountRows \in [CloudAccounts -> AccountRow \cup {None}]
    /\ domainEvents \in Seq(DomainEvent)
    /\ work \in [Replicas -> Work \cup {None}]
    /\ later \subseteq {e \in DomainEvent : e.kind = "again"}
    /\ owed \in [Editors -> {e \in DomainEvent : e.kind \in {"renamed", "toggled", "deleted", "tier"}} \cup {None}]

Queued(topic) == \E i \in 1..Len(domainEvents) : topic \in Topic(domainEvents[i])
WorksOn(r, topic) == work[r] # None /\ topic \in Topic(work[r].event)
Idle(topic) == ~Queued(topic) /\ \A r \in Replicas : ~WorksOn(r, topic)

\* One replica at a time is at work on a topic.
Alone(topic) == \A r, x \in Replicas : WorksOn(r, topic) /\ WorksOn(x, topic) => r = x

\* The tier that an event about the retention brings.
TierOf(e) == IF e.kind = "created" THEN "Trial" ELSE e.tier

\* The last event about the retention brings the tier of the workspace.
LastTier ==
    \A i \in 1..Len(domainEvents) :
        "retention" \in Topic(domainEvents[i])
            /\ (\A j \in 1..Len(domainEvents) : "retention" \in Topic(domainEvents[j]) => j <= i)
            => TierOf(domainEvents[i]) = tierNow

\* Every change of the tier was told, or its event was lost and another change followed it.
Told == ~untold /\ \A q \in Editors : ~Owes(q, "tier")

\* One request at a time owes an event of the tier, and the tier it brings is that of the workspace.
OneOwes ==
    /\ \A p, q \in Editors : Owes(p, "tier") /\ Owes(q, "tier") => p = q
    /\ ~untold => \A q \in Editors : Owes(q, "tier") => owed[q].tier = tierNow

RetentionFollows ==
    "retention" \notin jumbled =>
        /\ Alone("retention") /\ OneOwes
        /\ Told =>
            /\ LastTier
            /\ ~Queued("retention") =>
                \A r \in Replicas : WorksOn(r, "retention") => TierOf(work[r].event) = tierNow
            /\ Idle("retention") => keep = TierRetention[tierNow]

OwesToggle(a) == \E q \in Editors : Owes(q, "toggled") /\ owed[q].account = a

\* A list of accounts that says of each account whether it is switched off: of those whose change is, or was, told.
Lists(excluded) ==
    \A a \in CloudAccounts \ unlisted : OwesToggle(a) \/ (a \in excluded <=> a \in Disabled)

IgnoredFollow ==
    "ignore" \notin jumbled =>
        /\ Alone("ignore")
        /\ ~Queued("ignore") =>
            \A r \in Replicas : WorksOn(r, "ignore") /\ work[r].step = 2 => Lists(work[r].read)
        /\ Idle("ignore") => Lists(ignoring)

InventoryInv == InventoryTyped /\ RetentionFollows /\ IgnoredFollow

-----------------------------------------------------------------------------
(* The events.                                                             *)

LEMMA NewEvents ==
    /\ \A k \in {"created", "collected"} : [kind |-> k] \in DomainEvent
    /\ \A t \in DOMAIN TierRetention : [kind |-> "tier", tier |-> t] \in DomainEvent
    /\ \A a \in CloudAccounts, n \in Names : [kind |-> "renamed", account |-> a, name |-> n] \in DomainEvent
    /\ \A a \in CloudAccounts, k \in {"toggled", "deleted"} : [kind |-> k, account |-> a] \in DomainEvent
BY DEF DomainEvent

LEMMA DeferredEvent ==
    ASSUME NEW e \in DomainEvent, e.kind \in {"renamed", "again"}
    PROVE  [e EXCEPT !.kind = "again"] \in {x \in DomainEvent : x.kind = "again"}
<1>1. e \in [kind : {"renamed", "again"}, account : CloudAccounts, name : Names]
    BY DEF DomainEvent
<1>2. [e EXCEPT !.kind = "again"] \in [kind : {"renamed", "again"}, account : CloudAccounts, name : Names]
    BY <1>1
<1>3. [e EXCEPT !.kind = "again"].kind = "again"
    BY <1>1
<1> QED BY <1>2, <1>3 DEF DomainEvent

LEMMA TopicIs ==
    ASSUME NEW e
    PROVE  /\ "retention" \in Topic(e) <=> e.kind \in {"created", "tier"}
           /\ "ignore" \in Topic(e) <=> e.kind = "toggled"
           /\ Topic(e) \subseteq {"retention", "ignore"}
BY DEF Topic

LEMMA PublishIs ==
    ASSUME InventoryTyped, NEW e \in DomainEvent, Publish(e)
    PROVE  /\ domainEvents' \in Seq(DomainEvent) /\ Len(domainEvents) \in Nat
           /\ Len(domainEvents') = Len(domainEvents) + 1
           /\ \A i \in 1..Len(domainEvents) : domainEvents'[i] = domainEvents[i]
           /\ domainEvents'[Len(domainEvents) + 1] = e
           /\ \A topic : Queued(topic)' <=> Queued(topic) \/ topic \in Topic(e)
<1>1. /\ domainEvents' \in Seq(DomainEvent) /\ Len(domainEvents) \in Nat
      /\ Len(domainEvents') = Len(domainEvents) + 1
      /\ \A i \in 1..Len(domainEvents) : domainEvents'[i] = domainEvents[i]
      /\ domainEvents'[Len(domainEvents) + 1] = e
    BY AppendProperties, LenProperties DEF InventoryTyped, Publish
<1>2. 1..Len(domainEvents') = 1..Len(domainEvents) \cup {Len(domainEvents) + 1}
    BY <1>1
<1>3. \A topic : Queued(topic)' <=> Queued(topic) \/ topic \in Topic(e)
    BY <1>1, <1>2 DEF Queued
<1> QED BY <1>1, <1>3

LEMMA TailIs ==
    ASSUME InventoryTyped, domainEvents # <<>>, domainEvents' = Tail(domainEvents)
    PROVE  /\ Head(domainEvents) \in DomainEvent /\ Head(domainEvents) = domainEvents[1]
           /\ domainEvents' \in Seq(DomainEvent) /\ Len(domainEvents) \in Nat /\ Len(domainEvents) >= 1
           /\ Len(domainEvents') = Len(domainEvents) - 1
           /\ \A i \in 1..Len(domainEvents') : domainEvents'[i] = domainEvents[i + 1]
           /\ \A topic : Queued(topic) <=> Queued(topic)' \/ topic \in Topic(Head(domainEvents))
<1>1. /\ Head(domainEvents) \in DomainEvent /\ Head(domainEvents) = domainEvents[1]
      /\ domainEvents' \in Seq(DomainEvent) /\ Len(domainEvents) \in Nat /\ Len(domainEvents) >= 1
      /\ Len(domainEvents') = Len(domainEvents) - 1
      /\ \A i \in 1..Len(domainEvents') : domainEvents'[i] = domainEvents[i + 1]
    BY HeadTailProperties, LenProperties, EmptySeq DEF InventoryTyped
<1>2. ASSUME NEW topic
      PROVE  Queued(topic) <=> Queued(topic)' \/ topic \in Topic(Head(domainEvents))
    <2>1. ASSUME Queued(topic), topic \notin Topic(Head(domainEvents)) PROVE Queued(topic)'
        <3>1. PICK i \in 1..Len(domainEvents) : topic \in Topic(domainEvents[i])
            BY <2>1 DEF Queued
        <3>2. i # 1 /\ i - 1 \in 1..Len(domainEvents') /\ domainEvents'[i - 1] = domainEvents[i]
            BY <1>1, <2>1, <3>1
        <3> QED BY <3>1, <3>2 DEF Queued
    <2>2. ASSUME Queued(topic)' PROVE Queued(topic)
        <3>1. PICK i \in 1..Len(domainEvents') : topic \in Topic(domainEvents'[i])
            BY <2>2 DEF Queued
        <3>2. i + 1 \in 1..Len(domainEvents) /\ domainEvents'[i] = domainEvents[i + 1]
            BY <1>1
        <3> QED BY <3>1, <3>2 DEF Queued
    <2>3. ASSUME topic \in Topic(Head(domainEvents)) PROVE Queued(topic)
        BY <1>1, <2>3 DEF Queued
    <2> QED BY <2>1, <2>2, <2>3
<1> QED BY <1>1, <1>2

LEMMA InventoryStart == InventoryInit => InventoryInv
<1> SUFFICES ASSUME InventoryInit
             PROVE  InventoryInv
    OBVIOUS
<1>1. /\ tierNow = "Trial" /\ ignoring = {} /\ domainEvents = <<[kind |-> "created"]>>
      /\ work = [r \in Replicas |-> None] /\ later = {} /\ owed = [q \in Editors |-> None]
    BY DEF InventoryInit
<1>2. PICK n \in Names : accountRows \in [CloudAccounts ->
                            [name : {n}, state : {"configured", "degraded"}, enabled : {TRUE}, scan : {TRUE}]]
    BY DEF InventoryInit
<1>3. [kind |-> "created"] \in DomainEvent
    BY NewEvents
<1>8. accountRows \in [CloudAccounts -> AccountRow \cup {None}]
    BY <1>2 DEF AccountRow
<1>4. InventoryTyped
    BY <1>1, <1>3, <1>8 DEF InventoryTyped
<1>5. Len(domainEvents) = 1 /\ domainEvents[1] = [kind |-> "created"] /\ \A r \in Replicas : work[r] = None
    BY <1>1
<1>6. RetentionFollows
    <2>1. Queued("retention") /\ Alone("retention")
        BY <1>5, TopicIs DEF Queued, Alone, WorksOn
    <2>2. LastTier
        BY <1>1, <1>5 DEF LastTier, TierOf
    <2>3. OneOwes
        BY <1>1 DEF OneOwes, Owes
    <2> QED BY <2>1, <2>2, <2>3 DEF RetentionFollows, Idle
<1>7. IgnoredFollow
    <2>1. Disabled = {}
        BY <1>2 DEF Disabled, ToCollect
    <2>2. Lists(ignoring)
        BY <1>1, <2>1 DEF Lists
    <2> QED BY <1>5, <2>2 DEF IgnoredFollow, Alone, WorksOn
<1> QED BY <1>4, <1>6, <1>7 DEF InventoryInv

LEMMA InventoryImplied == InventoryInv => ConfigFollowsTables
<1> SUFFICES ASSUME InventoryInv
             PROVE  ConfigFollowsTables
    OBVIOUS
<1>1. \A i : i \in 1..Len(domainEvents) <=> i \in DOMAIN domainEvents
    BY LenProperties DEF InventoryInv, InventoryTyped
<1>2. \A topic : ~Pending(topic) => Idle(topic)
    BY <1>1 DEF Pending, Idle, Queued, WorksOn
<1> QED BY <1>2 DEF ConfigFollowsTables, InventoryInv, RetentionFollows, IgnoredFollow, Lists, Told, OwesToggle

-----------------------------------------------------------------------------
(* The tables and what they publish.                                       *)

\* An event that is published is the last.
LEMMA LastPublished ==
    ASSUME InventoryTyped, NEW e \in DomainEvent, Publish(e),
           "retention" \in Topic(e) => TierOf(e) = tierNow',
           "retention" \notin Topic(e) => tierNow' = tierNow /\ LastTier
    PROVE  LastTier'
<1> DEFINE n == Len(domainEvents)
<1>1. n \in Nat /\ Len(domainEvents') = n + 1 /\ domainEvents'[n + 1] = e
    BY PublishIs
<1>2. \A i \in 1..n : domainEvents'[i] = domainEvents[i]
    BY PublishIs
<1> HIDE DEF n
<1>3. SUFFICES ASSUME NEW i \in 1..(n + 1), "retention" \in Topic(domainEvents'[i]),
                      \A j \in 1..(n + 1) : "retention" \in Topic(domainEvents'[j]) => j <= i
               PROVE  TierOf(domainEvents'[i]) = tierNow'
    BY <1>1 DEF LastTier
<1>4. CASE i = n + 1
    BY <1>1, <1>3, <1>4
<1>5. CASE i # n + 1
    <2>1. i \in 1..n /\ 1..n \subseteq 1..(n + 1) /\ n + 1 \in 1..(n + 1) /\ ~(n + 1 <= i)
        BY <1>1, <1>5
    <2>2. "retention" \notin Topic(e)
        BY <1>1, <1>3, <2>1
    <2>3. \A j \in 1..n : "retention" \in Topic(domainEvents[j]) => j <= i
        BY <1>2, <1>3, <2>1
    <2> QED BY <1>2, <1>3, <2>1, <2>2, <2>3 DEF LastTier, n
<1> QED BY <1>4, <1>5

\* What the lists say of the table stands, if those that are switched are owed or noted.
LEMMA ListsStay ==
    ASSUME unlisted \subseteq unlisted',
           \A x \in CloudAccounts : x \in Switched \/ OwesToggle(x) => x \in unlisted' \/ OwesToggle(x)'
    PROVE  \A excluded : Lists(excluded) => Lists(excluded)'
<1> SUFFICES ASSUME NEW excluded, Lists(excluded), NEW x \in CloudAccounts \ unlisted', ~OwesToggle(x)'
             PROVE  x \in excluded <=> x \in Disabled'
    BY DEF Lists
<1>1. x \in CloudAccounts \ unlisted /\ ~OwesToggle(x) /\ x \notin Switched
    OBVIOUS
<1>2. x \in Disabled <=> x \in Disabled'
    BY <1>1 DEF Switched
<1> QED BY <1>1, <1>2 DEF Lists

\* A change of the tables: no event moves, and no configuration is written.
LEMMA TableInv ==
    ASSUME InventoryInv, UNCHANGED <<domainEvents, work, later, keep, ignoring>>, jumbled \subseteq jumbled',
           accountRows' \in [CloudAccounts -> AccountRow \cup {None}],
           owed' \in [Editors -> {e \in DomainEvent : e.kind \in {"renamed", "toggled", "deleted", "tier"}} \cup {None}],
           "retention" \notin jumbled' => OneOwes' /\ (Told' => Told /\ tierNow' = tierNow),
           \A excluded : Lists(excluded) => Lists(excluded)'
    PROVE  InventoryInv'
<1>1. InventoryTyped'
    BY DEF InventoryInv, InventoryTyped
<1>2. \A topic : (Queued(topic)' <=> Queued(topic)) /\ (Idle(topic)' <=> Idle(topic)) /\ (Alone(topic)' <=> Alone(topic))
    BY DEF Queued, Idle, Alone, WorksOn
<1>3. \A r, topic : WorksOn(r, topic)' <=> WorksOn(r, topic)
    BY DEF WorksOn
<1>4. RetentionFollows'
    <2> SUFFICES ASSUME "retention" \notin jumbled'
                 PROVE  /\ Alone("retention")' /\ OneOwes'
                        /\ Told' => /\ LastTier'
                                    /\ ~Queued("retention")' =>
                                        \A r \in Replicas : WorksOn(r, "retention")' => TierOf(work[r].event) = tierNow'
                                    /\ Idle("retention")' => keep = TierRetention[tierNow']
        BY DEF RetentionFollows
    <2>1. Alone("retention")'
        BY <1>2 DEF InventoryInv, RetentionFollows
    <2>2. ASSUME Told' PROVE LastTier'
        BY <2>2 DEF InventoryInv, RetentionFollows, LastTier
    <2> QED BY <1>2, <1>3, <2>1, <2>2 DEF InventoryInv, RetentionFollows
<1>5. IgnoredFollow'
    <2> SUFFICES ASSUME "ignore" \notin jumbled'
                 PROVE  /\ Alone("ignore")'
                        /\ ~Queued("ignore")' =>
                            \A r \in Replicas : WorksOn(r, "ignore")' /\ work[r].step = 2 => Lists(work[r].read)'
                        /\ Idle("ignore")' => Lists(ignoring)'
        BY DEF IgnoredFollow
    <2> QED BY <1>2, <1>3 DEF InventoryInv, IgnoredFollow
<1> QED BY <1>1, <1>4, <1>5 DEF InventoryInv

\* What a request owes once it has committed.
LEMMA CommitIs ==
    ASSUME InventoryTyped, NEW q \in Editors, NEW e \in DomainEvent,
           e.kind \in {"renamed", "toggled", "deleted", "tier"}, Commit(q, e)
    PROVE  /\ owed' \in [Editors -> {x \in DomainEvent : x.kind \in {"renamed", "toggled", "deleted", "tier"}} \cup {None}]
           /\ owed[q] = None /\ owed'[q] = e
           /\ \A p \in Editors : p # q => owed'[p] = owed[p]
           /\ \A p \in Editors : \A k : Owes(p, k)' <=> (IF p = q THEN e.kind = k ELSE Owes(p, k))
           /\ \A x \in CloudAccounts : OwesToggle(x) => OwesToggle(x)'
           /\ UNCHANGED <<domainEvents, work, later, keep, ignoring>>
<1>1. /\ owed[q] = None /\ owed' = [owed EXCEPT ![q] = e]
      /\ UNCHANGED <<domainEvents, work, later, keep, ignoring>>
    BY DEF Commit, graph, queues
<1>2. /\ owed' \in [Editors -> {x \in DomainEvent : x.kind \in {"renamed", "toggled", "deleted", "tier"}} \cup {None}]
      /\ owed'[q] = e /\ \A p \in Editors : p # q => owed'[p] = owed[p]
    BY <1>1 DEF InventoryTyped
<1>3. e # None
    BY WorkAssumption
<1>4. \A p \in Editors : \A k : Owes(p, k)' <=> (IF p = q THEN e.kind = k ELSE Owes(p, k))
    BY <1>2, <1>3 DEF Owes
<1>5. \A x \in CloudAccounts : OwesToggle(x) => OwesToggle(x)'
    <2> SUFFICES ASSUME NEW x \in CloudAccounts, OwesToggle(x)
                 PROVE  OwesToggle(x)'
        OBVIOUS
    <2>1. PICK p \in Editors : Owes(p, "toggled") /\ owed[p].account = x
        BY DEF OwesToggle
    <2>2. p # q
        BY <1>1, <2>1 DEF Owes
    <2> QED BY <1>2, <1>4, <2>1, <2>2 DEF OwesToggle
<1> QED BY <1>1, <1>2, <1>4, <1>5

\* A request on an account.
LEMMA AccountEditInv ==
    ASSUME InventoryInv, NEW q \in Editors, NEW a \in CloudAccounts,
           \/ DeleteRow(q, a)
           \/ \E n \in Names : Rename(q, a, n)
           \/ \E on \in BOOLEAN : ToggleScan(q, a, on) \/ ToggleActive(q, a, on)
    PROVE  InventoryInv'
<1>1. UNCHANGED <<tierNow, untold, jumbled>>
    BY DEF DeleteRow, Rename, ToggleScan, ToggleActive
<1>2. InventoryTyped /\ accountRows[a] # None /\ accountRows \in [CloudAccounts -> AccountRow \cup {None}]
    BY DEF InventoryInv, InventoryTyped, DeleteRow, Rename, ToggleScan, ToggleActive
\* what the four have in common
<1>3. ASSUME NEW e \in DomainEvent, e.kind \in {"renamed", "toggled", "deleted"}, Commit(q, e),
             NEW row \in AccountRow \cup {None}, accountRows' = [accountRows EXCEPT ![a] = row],
             unlisted \subseteq unlisted',
             \/ e.kind = "toggled" /\ e.account = a
             \/ Switched \subseteq unlisted'
      PROVE  InventoryInv'
    <2>1. /\ owed' \in [Editors -> {x \in DomainEvent : x.kind \in {"renamed", "toggled", "deleted", "tier"}} \cup {None}]
          /\ owed'[q] = e /\ owed[q] = None
          /\ \A p \in Editors : p # q => owed'[p] = owed[p]
          /\ \A p \in Editors : \A k : Owes(p, k)' <=> (IF p = q THEN e.kind = k ELSE Owes(p, k))
          /\ \A x \in CloudAccounts : OwesToggle(x) => OwesToggle(x)'
          /\ UNCHANGED <<domainEvents, work, later, keep, ignoring>>
        BY <1>2, <1>3, CommitIs
    <2>2. \A p \in Editors : (Owes(p, "tier")' <=> Owes(p, "tier")) /\ (Owes(p, "tier") => owed'[p] = owed[p])
        BY <1>3, <2>1 DEF Owes
    <2>3. Told' <=> Told
        BY <1>1, <2>2 DEF Told
    <2>4. OneOwes => OneOwes'
        BY <1>1, <2>2 DEF OneOwes
    <2>5. /\ accountRows' \in [CloudAccounts -> AccountRow \cup {None}]
          /\ \A x \in CloudAccounts : x # a => accountRows'[x] = accountRows[x]
        BY <1>2, <1>3
    <2>6. Switched \subseteq {a}
        BY <2>5 DEF Switched, Disabled, ToCollect
    <2>7. e.kind = "toggled" /\ e.account = a => OwesToggle(a)'
        BY <2>1 DEF OwesToggle
    <2>8. \A x \in CloudAccounts : x \in Switched \/ OwesToggle(x) => x \in unlisted' \/ OwesToggle(x)'
        BY <1>3, <2>1, <2>6, <2>7
    <2>9. \A excluded : Lists(excluded) => Lists(excluded)'
        BY <1>3, <2>8, ListsStay
    <2>10. "retention" \notin jumbled => OneOwes
        BY DEF InventoryInv, RetentionFollows
    <2> QED BY <1>1, <2>1, <2>3, <2>4, <2>5, <2>9, <2>10, TableInv
<1>4. CASE DeleteRow(q, a)
    <2> DEFINE e == [kind |-> "deleted", account |-> a]
    <2>1. /\ Commit(q, e) /\ accountRows' = [accountRows EXCEPT ![a] = None] /\ unlisted' = unlisted \cup Switched
        BY <1>4 DEF DeleteRow
    <2>2. e \in DomainEvent /\ e.kind = "deleted"
        BY NewEvents
    <2> HIDE DEF e
    <2> QED BY <1>3, <2>1, <2>2
<1>5. ASSUME NEW n \in Names, Rename(q, a, n) PROVE InventoryInv'
    <2> DEFINE e == [kind |-> "renamed", account |-> a, name |-> n]
               row == [accountRows[a] EXCEPT !.name = n]
    <2>1. /\ Commit(q, e) /\ accountRows' = [accountRows EXCEPT ![a] = row] /\ unlisted' = unlisted
        BY <1>5 DEF Rename
    <2>2. e \in DomainEvent /\ e.kind = "renamed"
        BY NewEvents
    <2>3. /\ row \in AccountRow
          /\ row.state = accountRows[a].state /\ row.enabled = accountRows[a].enabled /\ row.scan = accountRows[a].scan
        BY <1>2 DEF AccountRow
    <2> HIDE DEF e, row
    <2>4. /\ accountRows'[a] = row /\ row # None
          /\ \A x \in CloudAccounts : x # a => accountRows'[x] = accountRows[x]
        BY <1>2, <2>1, <2>3, WorkAssumption
    <2>5. \A x \in CloudAccounts : x \in Disabled <=> x \in Disabled'
        BY <1>2, <2>3, <2>4 DEF Disabled, ToCollect
    <2>6. Switched = {}
        BY <2>5 DEF Switched
    <2> QED BY <1>3, <2>1, <2>2, <2>3, <2>6
<1>6. ASSUME NEW on \in BOOLEAN, ToggleScan(q, a, on) \/ ToggleActive(q, a, on) PROVE InventoryInv'
    <2> DEFINE e == [kind |-> "toggled", account |-> a]
    <2>1. /\ Commit(q, e) /\ unlisted' = unlisted
          /\ \/ accountRows' = [accountRows EXCEPT ![a] = [accountRows[a] EXCEPT !.scan = on]]
             \/ accountRows' = [accountRows EXCEPT ![a] = [accountRows[a] EXCEPT !.enabled = on]]
        BY <1>6 DEF ToggleScan, ToggleActive
    <2>2. e \in DomainEvent /\ e.kind = "toggled" /\ e.account = a
        BY NewEvents
    <2>3. [accountRows[a] EXCEPT !.scan = on] \in AccountRow /\ [accountRows[a] EXCEPT !.enabled = on] \in AccountRow
        BY <1>2 DEF AccountRow
    <2>4. PICK row \in AccountRow : accountRows' = [accountRows EXCEPT ![a] = row]
        BY <2>1, <2>3
    <2> HIDE DEF e
    <2> QED BY <1>3, <2>1, <2>2, <2>4
<1> QED BY <1>4, <1>5, <1>6

\* A request on the tier.
LEMMA TierInv ==
    ASSUME InventoryInv, NEW q \in Editors, NEW t \in DOMAIN TierRetention, ChangeProductTier(q, t)
    PROVE  InventoryInv'
<1> DEFINE e == [kind |-> "tier", tier |-> t]
<1>1. /\ Commit(q, e) /\ tierNow' = t /\ untold' = FALSE /\ UNCHANGED <<accountRows, unlisted>>
      /\ jumbled' = IF \E p \in Editors : Owes(p, "tier") THEN jumbled \cup {"retention"} ELSE jumbled
    BY DEF ChangeProductTier
<1>2. e \in DomainEvent /\ e.kind = "tier" /\ e.tier = t
    BY NewEvents
<1> HIDE DEF e
<1>3. InventoryTyped /\ accountRows \in [CloudAccounts -> AccountRow \cup {None}]
    BY DEF InventoryInv, InventoryTyped
<1>4. /\ owed' \in [Editors -> {x \in DomainEvent : x.kind \in {"renamed", "toggled", "deleted", "tier"}} \cup {None}]
      /\ owed'[q] = e
      /\ \A p \in Editors : \A k : Owes(p, k)' <=> (IF p = q THEN e.kind = k ELSE Owes(p, k))
      /\ \A x \in CloudAccounts : OwesToggle(x) => OwesToggle(x)'
      /\ UNCHANGED <<domainEvents, work, later, keep, ignoring>>
    BY <1>1, <1>2, <1>3, CommitIs
<1>5. ~Told'
    BY <1>2, <1>4 DEF Told
<1>6. "retention" \notin jumbled' => \A p \in Editors : ~Owes(p, "tier")
    BY <1>1
<1>7. "retention" \notin jumbled' => OneOwes'
    BY <1>1, <1>2, <1>4, <1>6 DEF OneOwes
<1>8. \A x \in CloudAccounts : x \notin Switched
    BY <1>1 DEF Switched, Disabled, ToCollect
<1>9. \A excluded : Lists(excluded) => Lists(excluded)'
    BY <1>1, <1>4, <1>8, ListsStay
<1>10. jumbled \subseteq jumbled'
    BY <1>1
<1> QED BY <1>1, <1>3, <1>4, <1>5, <1>7, <1>9, <1>10, TableInv

\* Changes with no event, and the event that gets lost.
LEMMA QuietInv ==
    ASSUME InventoryInv, NEW a \in CloudAccounts, NEW row \in AccountRow, Quietly(a, row)
    PROVE  InventoryInv'
<1>1. /\ accountRows' = [accountRows EXCEPT ![a] = row] /\ unlisted' = unlisted \cup Switched
      /\ UNCHANGED <<tierNow, owed, untold, domainEvents, work, later, keep, ignoring, jumbled>>
    BY DEF Quietly, graph, queues
<1>2. accountRows' \in [CloudAccounts -> AccountRow \cup {None}] /\ owed' = owed
    BY <1>1 DEF InventoryInv, InventoryTyped
<1>3. (Told' <=> Told) /\ (OneOwes' <=> OneOwes) /\ \A x : OwesToggle(x)' <=> OwesToggle(x)
    BY <1>1 DEF Told, OneOwes, OwesToggle, Owes
<1>4. \A excluded : Lists(excluded) => Lists(excluded)'
    BY <1>1, <1>3, ListsStay
<1> QED BY <1>1, <1>2, <1>3, <1>4, TableInv DEF InventoryInv, InventoryTyped, RetentionFollows

LEMMA StateInv ==
    ASSUME InventoryInv, NEW a \in CloudAccounts,
           \/ RowConfigured(a) \/ RowDegraded(a) \/ RowUndegraded(a) \/ RowDisabled(a)
           \/ \E n \in Names, on \in BOOLEAN : RowDiscovered(a, n, on)
           \/ \E on \in BOOLEAN : ToggleDegraded(a, on)
    PROVE  InventoryInv'
<1>1. ASSUME NEW n \in Names, NEW on \in BOOLEAN, RowDiscovered(a, n, on) PROVE InventoryInv'
    <2>1. [name |-> n, state |-> "discovered", enabled |-> on, scan |-> FALSE] \in AccountRow
        BY DEF AccountRow
    <2> QED BY <1>1, <2>1, QuietInv DEF RowDiscovered
<1>2. ASSUME accountRows[a] # None
      PROVE  /\ accountRows[a] \in AccountRow /\ accountRows[a].enabled \in BOOLEAN
             /\ \A s \in {"configured", "degraded"} : [accountRows[a] EXCEPT !.state = s] \in AccountRow
             /\ \A on \in BOOLEAN : [accountRows[a] EXCEPT !.scan = on] \in AccountRow
    BY <1>2 DEF InventoryInv, InventoryTyped, AccountRow
<1>3. CASE RowConfigured(a)
    <2>1. accountRows[a] # None
        BY <1>3 DEF RowConfigured
    <2>2. [accountRows[a] EXCEPT !.state = "configured", !.scan = accountRows[a].enabled] \in AccountRow
        BY <1>2, <2>1 DEF AccountRow
    <2> QED BY <1>3, <2>2, QuietInv DEF RowConfigured
<1>4. CASE RowDegraded(a)
    BY <1>2, <1>4, QuietInv DEF RowDegraded
<1>5. CASE RowUndegraded(a)
    <2>1. accountRows[a] # None
        BY <1>5 DEF RowUndegraded
    <2>2. [accountRows[a] EXCEPT !.state = "configured", !.enabled = FALSE, !.scan = FALSE] \in AccountRow
        BY <1>2, <2>1 DEF AccountRow
    <2> QED BY <1>2, <1>5, <2>2, QuietInv DEF RowUndegraded
<1>6. CASE RowDisabled(a)
    <2>1. accountRows[a] # None
        BY <1>6 DEF RowDisabled
    <2>2. [accountRows[a] EXCEPT !.enabled = FALSE, !.scan = FALSE] \in AccountRow
        BY <1>2, <2>1 DEF AccountRow
    <2> QED BY <1>6, <2>2, QuietInv DEF RowDisabled
<1>7. ASSUME NEW on \in BOOLEAN, ToggleDegraded(a, on) PROVE InventoryInv'
    BY <1>2, <1>7, QuietInv DEF ToggleDegraded
<1> QED BY <1>1, <1>3, <1>4, <1>5, <1>6, <1>7

LEMMA TrialMovedInv ==
    ASSUME InventoryInv, TrialMoved
    PROVE  InventoryInv'
<1>1. /\ untold' = TRUE
      /\ UNCHANGED <<accountRows, owed, unlisted, domainEvents, work, later, keep, ignoring, jumbled>>
    BY DEF TrialMoved, graph, queues
<1>2. ~Told' /\ (OneOwes => OneOwes') /\ \A x : OwesToggle(x)' <=> OwesToggle(x)
    BY <1>1 DEF Told, OneOwes, OwesToggle, Owes
<1>3. \A x \in CloudAccounts : x \notin Switched
    BY <1>1 DEF Switched, Disabled, ToCollect
<1>4. \A excluded : Lists(excluded) => Lists(excluded)'
    BY <1>1, <1>2, <1>3, ListsStay
<1> QED BY <1>1, <1>2, <1>4, TableInv DEF InventoryInv, InventoryTyped, RetentionFollows

LEMMA LoseEventInv ==
    ASSUME InventoryInv, NEW q \in Editors, LoseEvent(q)
    PROVE  InventoryInv'
<1>1. /\ owed[q] # None /\ owed' = [owed EXCEPT ![q] = None]
      /\ unlisted' = IF owed[q].kind = "toggled" THEN unlisted \cup {owed[q].account} ELSE unlisted
      /\ untold' = (untold \/ owed[q].kind = "tier")
      /\ UNCHANGED <<accountRows, tierNow, domainEvents, work, later, keep, ignoring, jumbled>>
    BY DEF LoseEvent, graph, queues
<1>2. /\ owed' \in [Editors -> {x \in DomainEvent : x.kind \in {"renamed", "toggled", "deleted", "tier"}} \cup {None}]
      /\ owed'[q] = None /\ \A p \in Editors : p # q => owed'[p] = owed[p]
    BY <1>1 DEF InventoryInv, InventoryTyped
<1>3. \A p \in Editors : \A k : Owes(p, k)' <=> p # q /\ Owes(p, k)
    BY <1>2 DEF Owes
<1>4. OneOwes => OneOwes'
    BY <1>1, <1>2, <1>3 DEF OneOwes
<1>5. Told' => Told
    BY <1>1, <1>3 DEF Told, Owes
<1>6. ASSUME NEW x \in CloudAccounts, OwesToggle(x) PROVE x \in unlisted' \/ OwesToggle(x)'
    <2>1. PICK p \in Editors : Owes(p, "toggled") /\ owed[p].account = x
        BY <1>6 DEF OwesToggle
    <2>2. CASE p = q
        BY <1>1, <2>1, <2>2 DEF Owes
    <2>3. CASE p # q
        BY <1>2, <1>3, <2>1, <2>3 DEF OwesToggle
    <2> QED BY <2>2, <2>3
<1>7. \A x \in CloudAccounts : x \notin Switched
    BY <1>1 DEF Switched, Disabled, ToCollect
<1>8. unlisted \subseteq unlisted'
    BY <1>1
<1>9. \A excluded : Lists(excluded) => Lists(excluded)'
    BY <1>6, <1>7, <1>8, ListsStay
<1> QED BY <1>1, <1>2, <1>4, <1>5, <1>9, TableInv DEF InventoryInv, InventoryTyped, RetentionFollows

\* The report configuration is replaced: where an account is off, that is noted.
LEMMA PutReportConfigInv ==
    ASSUME InventoryInv, PutReportConfig
    PROVE  InventoryInv'
<1>1. /\ ignoring' = {} /\ unlisted' = unlisted \cup Disabled
      /\ UNCHANGED <<accountRows, tierNow, owed, untold, domainEvents, work, later, keep, jumbled>>
    BY DEF PutReportConfig, queues
<1>2. InventoryTyped' /\ LastTier' = LastTier
    BY <1>1 DEF InventoryInv, InventoryTyped, LastTier
<1>3. \A topic : (Queued(topic)' <=> Queued(topic)) /\ (Idle(topic)' <=> Idle(topic)) /\ (Alone(topic)' <=> Alone(topic))
    BY <1>1 DEF Queued, Idle, Alone, WorksOn
<1>4. /\ \A r, topic : WorksOn(r, topic)' <=> WorksOn(r, topic)
      /\ (Told' <=> Told) /\ (OneOwes' <=> OneOwes) /\ \A x : OwesToggle(x)' <=> OwesToggle(x)
    BY <1>1 DEF WorksOn, Told, OneOwes, OwesToggle, Owes
<1>5. RetentionFollows'
    BY <1>1, <1>2, <1>3, <1>4 DEF InventoryInv, RetentionFollows
<1>6. Disabled' = Disabled
    BY <1>1 DEF Disabled, ToCollect
<1>7. (\A excluded : Lists(excluded) => Lists(excluded)') /\ Lists(ignoring)'
    BY <1>1, <1>4, <1>6 DEF Lists
<1>8. IgnoredFollow'
    <2> SUFFICES ASSUME "ignore" \notin jumbled
                 PROVE  /\ Alone("ignore")'
                        /\ ~Queued("ignore")' =>
                            \A r \in Replicas : WorksOn(r, "ignore")' /\ work[r].step = 2 => Lists(work[r].read)'
                        /\ Idle("ignore")' => Lists(ignoring)'
        BY <1>1 DEF IgnoredFollow
    <2> QED BY <1>1, <1>3, <1>4, <1>7 DEF InventoryInv, IgnoredFollow
<1> QED BY <1>2, <1>5, <1>8 DEF InventoryInv

-----------------------------------------------------------------------------
(* What the requests and the collect runs publish.                         *)

LEMMA PublishInv ==
    ASSUME InventoryInv, NEW e \in DomainEvent, Publish(e),
           UNCHANGED <<accountRows, tierNow, untold, work, keep, ignoring, jumbled, later>>,
           owed' \in [Editors -> {x \in DomainEvent : x.kind \in {"renamed", "toggled", "deleted", "tier"}} \cup {None}],
           "retention" \notin jumbled =>
                /\ OneOwes'
                /\ Told' => IF "retention" \in Topic(e) THEN TierOf(e) = tierNow ELSE Told,
           "ignore" \notin Topic(e) => \A excluded : Lists(excluded) => Lists(excluded)'
    PROVE  InventoryInv'
<1>1. InventoryTyped'
    BY PublishIs DEF InventoryInv, InventoryTyped
<1>2. \A topic : Queued(topic)' <=> Queued(topic) \/ topic \in Topic(e)
    BY PublishIs DEF InventoryInv
<1>3. \A r, topic : WorksOn(r, topic)' <=> WorksOn(r, topic)
    BY DEF WorksOn
<1>4. RetentionFollows'
    <2> SUFFICES ASSUME "retention" \notin jumbled
                 PROVE  /\ Alone("retention")' /\ OneOwes'
                        /\ Told' => /\ LastTier'
                                    /\ ~Queued("retention")' =>
                                        \A r \in Replicas : WorksOn(r, "retention")' => TierOf(work[r].event) = tierNow
                                    /\ Idle("retention")' => keep = TierRetention[tierNow]
        BY DEF RetentionFollows
    <2>1. ASSUME Told' PROVE LastTier'
        BY <2>1, LastPublished DEF InventoryInv, RetentionFollows
    <2>2. Alone("retention")'
        BY <1>3 DEF InventoryInv, RetentionFollows, Alone
    <2> QED BY <1>2, <1>3, <2>1, <2>2 DEF InventoryInv, RetentionFollows, Idle
<1>5. IgnoredFollow'
    <2> SUFFICES ASSUME "ignore" \notin jumbled
                 PROVE  /\ Alone("ignore")'
                        /\ ~Queued("ignore")' =>
                            \A r \in Replicas : WorksOn(r, "ignore")' /\ work[r].step = 2 => Lists(work[r].read)'
                        /\ Idle("ignore")' => Lists(ignoring)'
        BY DEF IgnoredFollow
    <2>1. Alone("ignore")'
        BY <1>3 DEF InventoryInv, IgnoredFollow, Alone
    <2> QED BY <1>2, <1>3, <2>1 DEF InventoryInv, IgnoredFollow, Idle
<1> QED BY <1>1, <1>4, <1>5 DEF InventoryInv

LEMMA TellInv ==
    ASSUME InventoryInv, NEW q \in Editors, Tell(q)
    PROVE  InventoryInv'
<1>1. /\ owed[q] # None /\ Publish(owed[q]) /\ owed' = [owed EXCEPT ![q] = None]
      /\ UNCHANGED <<accountRows, tierNow, unlisted, untold, work, keep, ignoring, jumbled, later>>
    BY DEF Tell, graph
<1>2. PICK e \in DomainEvent : e = owed[q] /\ e.kind \in {"renamed", "toggled", "deleted", "tier"}
    BY <1>1 DEF InventoryInv, InventoryTyped
<1>3. /\ owed' \in [Editors -> {x \in DomainEvent : x.kind \in {"renamed", "toggled", "deleted", "tier"}} \cup {None}]
      /\ owed'[q] = None /\ \A p \in Editors : p # q => owed'[p] = owed[p]
    BY <1>1 DEF InventoryInv, InventoryTyped
<1>4. \A p \in Editors : \A k : Owes(p, k)' <=> p # q /\ Owes(p, k)
    BY <1>3 DEF Owes
<1>5. OneOwes => OneOwes'
    BY <1>1, <1>3, <1>4 DEF OneOwes
<1>6. ("retention" \in Topic(e) <=> e.kind = "tier") /\ ("ignore" \in Topic(e) <=> e.kind = "toggled")
    BY <1>2, TopicIs
<1>7. ASSUME "retention" \notin jumbled, Told'
      PROVE  IF "retention" \in Topic(e) THEN TierOf(e) = tierNow ELSE Told
    <2>1. OneOwes
        BY <1>7 DEF InventoryInv, RetentionFollows
    <2>2. CASE e.kind = "tier"
        BY <1>1, <1>2, <1>6, <1>7, <2>1, <2>2 DEF OneOwes, Told, Owes, TierOf
    <2>3. CASE e.kind # "tier"
        BY <1>1, <1>2, <1>4, <1>6, <1>7, <2>3 DEF Told, Owes
    <2> QED BY <2>2, <2>3
<1>8. "ignore" \notin Topic(e) => \A excluded : Lists(excluded) => Lists(excluded)'
    <2>1. ASSUME e.kind # "toggled", NEW x \in CloudAccounts, OwesToggle(x) PROVE OwesToggle(x)'
        <3>1. PICK p \in Editors : Owes(p, "toggled") /\ owed[p].account = x
            BY <2>1 DEF OwesToggle
        <3>2. p # q
            BY <1>2, <2>1, <3>1 DEF Owes
        <3> QED BY <1>3, <1>4, <3>1, <3>2 DEF OwesToggle
    <2>2. \A x \in CloudAccounts : x \notin Switched
        BY <1>1 DEF Switched, Disabled, ToCollect
    <2> QED BY <1>1, <1>6, <2>1, <2>2, ListsStay
<1>9. "retention" \notin jumbled => OneOwes'
    BY <1>5 DEF InventoryInv, RetentionFollows
<1> QED BY <1>1, <1>2, <1>3, <1>7, <1>8, <1>9, PublishInv

\* Steps that touch neither the configuration nor the events about it.
LEMMA InventoryKeep ==
    ASSUME InventoryInv,
           UNCHANGED <<tables, keep, ignoring, domainEvents, work, later, jumbled>>
    PROVE  InventoryInv'
<1>1. UNCHANGED <<accountRows, tierNow, owed, unlisted, untold>>
    BY DEF tables
<1>2. (Told' <=> Told) /\ (OneOwes' <=> OneOwes) /\ \A x : OwesToggle(x)' <=> OwesToggle(x)
    BY <1>1 DEF Told, OneOwes, OwesToggle, Owes
<1>3. \A excluded : Lists(excluded) => Lists(excluded)'
    BY <1>1, <1>2 DEF Lists, Disabled, ToCollect
<1> QED BY <1>1, <1>2, <1>3, TableInv DEF InventoryInv, InventoryTyped, RetentionFollows

LEMMA MergeInv ==
    ASSUME InventoryInv, NEW a \in CloudAccounts, Merge(a)
    PROVE  InventoryInv'
<1>1. UNCHANGED <<tables, keep, ignoring, work, later, jumbled>>
    BY DEF Merge
<1>2. domainEvents' = domainEvents \/ Publish([kind |-> "collected"])
    BY DEF Merge
<1>3. CASE domainEvents' = domainEvents
    BY <1>1, <1>3, InventoryKeep
<1>4. CASE Publish([kind |-> "collected"])
    <2> DEFINE e == [kind |-> "collected"]
    <2>1. e \in DomainEvent /\ e.kind = "collected" /\ Publish(e)
        BY <1>4, NewEvents
    <2> HIDE DEF e
    <2>2. UNCHANGED <<accountRows, tierNow, owed, unlisted, untold>>
        BY <1>1 DEF tables
    <2>3. (Told' <=> Told) /\ (OneOwes' <=> OneOwes) /\ \A x : OwesToggle(x)' <=> OwesToggle(x)
        BY <2>2 DEF Told, OneOwes, OwesToggle, Owes
    <2>4. \A excluded : Lists(excluded) => Lists(excluded)'
        BY <2>2, <2>3 DEF Lists, Disabled, ToCollect
    <2>5. "retention" \notin Topic(e)
        BY <2>1, TopicIs
    <2> QED BY <1>1, <2>1, <2>2, <2>3, <2>4, <2>5, PublishInv DEF InventoryInv, InventoryTyped, RetentionFollows
<1> QED BY <1>2, <1>3, <1>4

-----------------------------------------------------------------------------
(* The listeners.                                                          *)

\* An event is at work, and no other of its topic, or that is noted.
LEMMA BeginIs ==
    ASSUME InventoryTyped, NEW r \in Replicas, NEW e \in DomainEvent, Begin(r, e)
    PROVE  /\ work' \in [Replicas -> Work \cup {None}] /\ work[r] = None
           /\ jumbled \subseteq jumbled'
           /\ work'[r] # None /\ work'[r].event = e /\ work'[r].step = 1
           /\ \A x \in Replicas : x # r => work'[x] = work[x]
           /\ \A topic \in Topic(e) : (\E x \in Replicas : WorksOn(x, topic)) => topic \in jumbled'
<1> DEFINE new == [event |-> e, step |-> 1, read |-> {}]
<1>1. /\ work[r] = None /\ work' = [work EXCEPT ![r] = new]
      /\ jumbled' = jumbled \cup (Topic(e) \cap UNION {Topic(work[x].event) : x \in {y \in Replicas : work[y] # None}})
    BY DEF Begin
<1>2. new \in Work /\ new # None /\ new.event = e /\ new.step = 1
    BY WorkAssumption DEF Work
<1> HIDE DEF new
<1>3. \A topic \in Topic(e) : (\E x \in Replicas : WorksOn(x, topic)) => topic \in jumbled'
    BY <1>1 DEF WorksOn
<1> QED BY <1>1, <1>2, <1>3 DEF InventoryTyped

LEMMA BeginAlone ==
    ASSUME InventoryTyped, NEW r \in Replicas, NEW e \in DomainEvent, Begin(r, e), NEW topic, topic \notin jumbled',
           Alone(topic)
    PROVE  /\ Alone(topic)'
           /\ \A x \in Replicas : WorksOn(x, topic)' <=> (x = r /\ topic \in Topic(e)) \/ WorksOn(x, topic)
           /\ topic \in Topic(e) => \A x \in Replicas : ~WorksOn(x, topic)
<1>1. \A x \in Replicas : WorksOn(x, topic)' <=> (x = r /\ topic \in Topic(e)) \/ WorksOn(x, topic)
    BY BeginIs DEF WorksOn
<1>2. topic \in Topic(e) => \A x \in Replicas : ~WorksOn(x, topic)
    BY BeginIs
<1> QED BY <1>1, <1>2 DEF Alone

LEMMA TakeEventInv ==
    ASSUME InventoryInv, NEW r \in Replicas, TakeEvent(r)
    PROVE  InventoryInv'
<1> DEFINE e == Head(domainEvents)
<1>1. /\ domainEvents # <<>> /\ Begin(r, e) /\ domainEvents' = Tail(domainEvents)
      /\ UNCHANGED <<accountRows, tierNow, owed, unlisted, untold, keep, ignoring, later>>
    BY DEF TakeEvent, tables, graph
<1>10. (Told' <=> Told) /\ (OneOwes' <=> OneOwes) /\ \A excluded : Lists(excluded)' <=> Lists(excluded)
    BY <1>1 DEF Told, OneOwes, OwesToggle, Owes, Lists, Disabled, ToCollect
<1>2. /\ e \in DomainEvent /\ e = domainEvents[1]
      /\ domainEvents' \in Seq(DomainEvent) /\ Len(domainEvents) \in Nat /\ Len(domainEvents) >= 1
      /\ Len(domainEvents') = Len(domainEvents) - 1
      /\ \A i \in 1..Len(domainEvents') : domainEvents'[i] = domainEvents[i + 1]
      /\ \A topic : Queued(topic) <=> Queued(topic)' \/ topic \in Topic(e)
    BY <1>1, TailIs DEF InventoryInv
<1> HIDE DEF e
<1>3. InventoryTyped
    BY DEF InventoryInv
<1>4. /\ work' \in [Replicas -> Work \cup {None}] /\ jumbled \subseteq jumbled'
      /\ work'[r] # None /\ work'[r].event = e /\ work'[r].step = 1
      /\ \A x \in Replicas : x # r => work'[x] = work[x]
    BY <1>1, <1>2, <1>3, BeginIs
<1>5. InventoryTyped'
    BY <1>1, <1>2, <1>3, <1>4 DEF InventoryTyped
<1>6. ASSUME "retention" \notin jumbled'
      PROVE  /\ Alone("retention")'
             /\ Told =>
                /\ LastTier'
                /\ ~Queued("retention")' =>
                    \A x \in Replicas : WorksOn(x, "retention")' => TierOf(work'[x].event) = tierNow
                /\ Idle("retention")' => keep = TierRetention[tierNow]
    <2>8. Alone("retention")
        BY <1>4, <1>6 DEF InventoryInv, RetentionFollows
    <2>2. /\ Alone("retention")'
          /\ \A x \in Replicas :
                WorksOn(x, "retention")' <=> (x = r /\ "retention" \in Topic(e)) \/ WorksOn(x, "retention")
          /\ "retention" \in Topic(e) => \A x \in Replicas : ~WorksOn(x, "retention")
        BY <1>1, <1>2, <1>3, <1>6, <2>8, BeginAlone
    <2>9. SUFFICES ASSUME Told
                   PROVE  /\ LastTier'
                          /\ ~Queued("retention")' =>
                                \A x \in Replicas : WorksOn(x, "retention")' => TierOf(work'[x].event) = tierNow
                          /\ Idle("retention")' => keep = TierRetention[tierNow]
        BY <2>2
    <2>1. LastTier
        BY <1>4, <1>6, <2>9 DEF InventoryInv, RetentionFollows
    <2>3. LastTier'
        <3>1. SUFFICES ASSUME NEW i \in 1..Len(domainEvents'), "retention" \in Topic(domainEvents'[i]),
                              \A j \in 1..Len(domainEvents') : "retention" \in Topic(domainEvents'[j]) => j <= i
                       PROVE  TierOf(domainEvents'[i]) = tierNow
            BY <1>1 DEF LastTier
        <3>2. i + 1 \in 1..Len(domainEvents) /\ domainEvents'[i] = domainEvents[i + 1]
            BY <1>2
        <3>3. ASSUME NEW j \in 1..Len(domainEvents), "retention" \in Topic(domainEvents[j]) PROVE j <= i + 1
            <4>1. CASE j = 1
                BY <4>1
            <4>2. CASE j # 1
                <5>1. j - 1 \in 1..Len(domainEvents') /\ domainEvents'[j - 1] = domainEvents[j]
                    BY <1>2, <4>2
                <5> QED BY <3>1, <3>3, <5>1
            <4> QED BY <4>1, <4>2
        <3> QED BY <2>1, <3>1, <3>2, <3>3 DEF LastTier
    <2>4. ASSUME ~Queued("retention")', "retention" \in Topic(e) PROVE TierOf(e) = tierNow
        <3>1. ASSUME NEW j \in 1..Len(domainEvents), "retention" \in Topic(domainEvents[j]) PROVE j <= 1
            <4>1. SUFFICES ASSUME j # 1 PROVE FALSE
                BY <1>2
            <4>2. j - 1 \in 1..Len(domainEvents') /\ domainEvents'[j - 1] = domainEvents[j]
                BY <1>2, <4>1
            <4> QED BY <2>4, <3>1, <4>2 DEF Queued
        <3>2. 1 \in 1..Len(domainEvents)
            BY <1>2
        <3> QED BY <1>2, <2>1, <2>4, <3>1, <3>2 DEF LastTier
    <2>5. ~Queued("retention")' /\ "retention" \notin Topic(e) => ~Queued("retention")
        BY <1>2
    <2>6. ~Queued("retention")' => \A x \in Replicas : WorksOn(x, "retention")' => TierOf(work'[x].event) = tierNow
        <3>1. SUFFICES ASSUME ~Queued("retention")', NEW x \in Replicas, WorksOn(x, "retention")'
                       PROVE  TierOf(work'[x].event) = tierNow
            OBVIOUS
        <3>2. CASE "retention" \in Topic(e)
            BY <1>4, <2>2, <2>4, <3>1, <3>2
        <3>3. CASE "retention" \notin Topic(e)
            <4>1. WorksOn(x, "retention") /\ x # r
                BY <1>1, <2>2, <3>1, <3>3 DEF WorksOn, Begin
            <4> QED BY <1>4, <1>6, <2>5, <2>9, <3>1, <3>3, <4>1 DEF InventoryInv, RetentionFollows
        <3> QED BY <3>2, <3>3
    <2>7. Idle("retention")' => keep = TierRetention[tierNow]
        BY <1>4, <1>6, <2>2, <2>5, <2>9 DEF InventoryInv, RetentionFollows, Idle
    <2> QED BY <2>3, <2>6, <2>7
<1>7. RetentionFollows'
    BY <1>1, <1>4, <1>6, <1>10 DEF InventoryInv, RetentionFollows
<1>8. ASSUME "ignore" \notin jumbled'
      PROVE  /\ Alone("ignore")'
             /\ ~Queued("ignore")' =>
                    \A x \in Replicas : WorksOn(x, "ignore")' /\ work'[x].step = 2 => Lists(work[x].read)'
             /\ Idle("ignore")' => Lists(ignoring)'
    <2>1. Alone("ignore")
        BY <1>4, <1>8 DEF InventoryInv, IgnoredFollow
    <2>2. /\ Alone("ignore")'
          /\ \A x \in Replicas : WorksOn(x, "ignore")' <=> (x = r /\ "ignore" \in Topic(e)) \/ WorksOn(x, "ignore")
          /\ "ignore" \in Topic(e) => \A x \in Replicas : ~WorksOn(x, "ignore")
        BY <1>1, <1>2, <1>3, <1>8, <2>1, BeginAlone
    <2>4. ~Queued("ignore")' /\ "ignore" \notin Topic(e) => ~Queued("ignore")
        BY <1>2
    <2>5. ASSUME ~Queued("ignore")', NEW x \in Replicas, WorksOn(x, "ignore")', work'[x].step = 2
          PROVE  Lists(work'[x].read)
        <3>1. x # r
            BY <1>4, <2>5
        <3>2. work'[x] = work[x] /\ WorksOn(x, "ignore") /\ "ignore" \notin Topic(e)
            BY <1>4, <2>2, <2>5, <3>1
        <3> QED BY <1>4, <1>8, <2>4, <2>5, <3>2 DEF InventoryInv, IgnoredFollow
    <2>6. Idle("ignore")' => Lists(ignoring)
        BY <1>4, <1>8, <2>2, <2>4 DEF InventoryInv, IgnoredFollow, Idle
    <2>7. ~Queued("ignore")' =>
            \A x \in Replicas : WorksOn(x, "ignore")' /\ work'[x].step = 2 => Lists(work[x].read)'
        BY <1>1, <1>4, <1>10, <2>2, <2>5
    <2>8. Idle("ignore")' => Lists(ignoring)'
        BY <1>1, <1>10, <2>6
    <2> QED BY <2>2, <2>7, <2>8
<1>9. IgnoredFollow'
    BY <1>8 DEF IgnoredFollow
<1> QED BY <1>5, <1>7, <1>9 DEF InventoryInv

\* A deferred job is about no topic.
LEMMA TakeLaterInv ==
    ASSUME InventoryInv, NEW r \in Replicas, NEW e \in later, TakeLater(r, e)
    PROVE  InventoryInv'
<1>1. /\ Begin(r, e) /\ later' \subseteq later
      /\ UNCHANGED <<accountRows, tierNow, owed, unlisted, untold, keep, ignoring, domainEvents>>
    BY DEF TakeLater, tables, graph
<1>2. e \in DomainEvent /\ e.kind = "again"
    BY DEF InventoryInv, InventoryTyped
<1>3. Topic(e) = {}
    BY <1>2 DEF Topic
<1>4. InventoryTyped
    BY DEF InventoryInv
<1>5. /\ work' \in [Replicas -> Work \cup {None}] /\ work[r] = None
      /\ work'[r] # None /\ work'[r].event = e /\ work'[r].step = 1
      /\ \A x \in Replicas : x # r => work'[x] = work[x]
    BY <1>1, <1>2, <1>4, BeginIs
<1>6. jumbled' = jumbled
    BY <1>1, <1>3 DEF Begin
<1>7. InventoryTyped'
    BY <1>1, <1>4, <1>5 DEF InventoryTyped
<1>8. \A x \in Replicas : \A topic : (WorksOn(x, topic)' <=> WorksOn(x, topic)) /\ (WorksOn(x, topic) => work'[x] = work[x])
    BY <1>3, <1>5 DEF WorksOn
<1>9. LastTier' = LastTier /\ \A topic : Queued(topic)' <=> Queued(topic)
    BY <1>1 DEF LastTier, Queued
<1>10. \A topic : (Alone(topic)' <=> Alone(topic)) /\ (Idle(topic)' <=> Idle(topic))
    BY <1>8, <1>9 DEF Alone, Idle
<1>11. (Told' <=> Told) /\ (OneOwes' <=> OneOwes) /\ \A excluded : Lists(excluded)' <=> Lists(excluded)
    BY <1>1 DEF Told, OneOwes, OwesToggle, Owes, Lists, Disabled, ToCollect
<1>12. RetentionFollows'
    BY <1>1, <1>6, <1>8, <1>9, <1>10, <1>11 DEF InventoryInv, RetentionFollows
<1>13. IgnoredFollow'
    BY <1>1, <1>6, <1>8, <1>9, <1>10, <1>11 DEF InventoryInv, IgnoredFollow
<1> QED BY <1>7, <1>12, <1>13 DEF InventoryInv

-----------------------------------------------------------------------------
(* The handlers.                                                           *)

\* A handler goes on with its event or ends; it writes the configuration of its topic when it ends, and the list
\* of accounts it writes is the one it has read.
LEMMA HandlerInv ==
    ASSUME InventoryInv, NEW r \in Replicas, work[r] # None,
           UNCHANGED <<accountRows, tierNow, owed, untold, domainEvents, jumbled>>,
           later' \subseteq {e \in DomainEvent : e.kind = "again"},
           NEW new \in Work \cup {None}, work' = [work EXCEPT ![r] = new],
           new # None => new.event = work[r].event,
           IF new = None /\ WorksOn(r, "retention") THEN keep' = TierRetention[TierOf(work[r].event)] ELSE keep' = keep,
           IF new = None /\ WorksOn(r, "ignore")
           THEN work[r].step = 2 /\ ignoring' = work[r].read
           ELSE ignoring' = ignoring,
           new # None /\ WorksOn(r, "ignore") => new.read = Disabled,
           unlisted' = unlisted \/ (new # None /\ WorksOn(r, "ignore"))
    PROVE  InventoryInv'
<1>1. /\ work' \in [Replicas -> Work \cup {None}] /\ work'[r] = new
      /\ \A x \in Replicas : x # r => work'[x] = work[x]
    BY DEF InventoryInv, InventoryTyped
<1>2. InventoryTyped'
    BY <1>1 DEF InventoryInv, InventoryTyped
<1>3. \A x \in Replicas : \A topic : WorksOn(x, topic)' <=> WorksOn(x, topic) /\ (x = r => new # None)
    BY <1>1 DEF WorksOn
<1>4. LastTier' = LastTier /\ \A topic : Queued(topic)' <=> Queued(topic)
    BY DEF LastTier, Queued
<1>5. \A topic : Alone(topic) => Alone(topic)'
    BY <1>3 DEF Alone
<1>6. \A topic : Alone(topic) /\ Idle(topic)' =>
            Idle(topic) \/ (~Queued(topic) /\ WorksOn(r, topic) /\ new = None)
    BY <1>3, <1>4 DEF Idle, Alone
<1>11. /\ Told' <=> Told
       /\ OneOwes' <=> OneOwes
       /\ Disabled' = Disabled
       /\ \A excluded : unlisted' = unlisted /\ Lists(excluded) => Lists(excluded)'
    BY DEF Told, OneOwes, OwesToggle, Owes, Lists, Disabled, ToCollect
<1>7. ASSUME "retention" \notin jumbled, Told PROVE
        /\ Alone("retention")' /\ LastTier'
        /\ ~Queued("retention")' => \A x \in Replicas : WorksOn(x, "retention")' => TierOf(work'[x].event) = tierNow
        /\ Idle("retention")' => keep' = TierRetention[tierNow]
    <2>1. /\ Alone("retention") /\ LastTier
          /\ ~Queued("retention") => \A x \in Replicas : WorksOn(x, "retention") => TierOf(work[x].event) = tierNow
          /\ Idle("retention") => keep = TierRetention[tierNow]
        BY <1>7 DEF InventoryInv, RetentionFollows
    <2>2. \A x \in Replicas : WorksOn(x, "retention")' => WorksOn(x, "retention") /\ work'[x].event = work[x].event
        BY <1>1, <1>3
    <2>3. Idle("retention") => ~WorksOn(r, "retention")
        BY DEF Idle
    <2>4. Idle("retention")' => keep' = TierRetention[tierNow]
        BY <1>6, <2>1, <2>3
    <2>5. ~Queued("retention")' => \A x \in Replicas : WorksOn(x, "retention")' => TierOf(work'[x].event) = tierNow
        BY <1>4, <2>1, <2>2
    <2> QED BY <1>4, <1>5, <2>1, <2>4, <2>5
<1>8. RetentionFollows'
    BY <1>5, <1>7, <1>11 DEF InventoryInv, RetentionFollows
<1>9. ASSUME "ignore" \notin jumbled PROVE
        /\ Alone("ignore")'
        /\ ~Queued("ignore")' =>
            \A x \in Replicas : WorksOn(x, "ignore")' /\ work'[x].step = 2 => Lists(work[x].read)'
        /\ Idle("ignore")' => Lists(ignoring)'
    <2>1. /\ Alone("ignore")
          /\ ~Queued("ignore") => \A x \in Replicas : WorksOn(x, "ignore") /\ work[x].step = 2 => Lists(work[x].read)
          /\ Idle("ignore") => Lists(ignoring)
        BY <1>9 DEF InventoryInv, IgnoredFollow
    <2>2. Lists(Disabled)'
        BY DEF Lists
    <2>3. ASSUME ~Queued("ignore")', NEW x \in Replicas, WorksOn(x, "ignore")', work'[x].step = 2
          PROVE  Lists(work[x].read)'
        <3>2. CASE x = r
            <4>1. work'[x].read = Disabled'
                BY <1>1, <1>3, <1>11, <2>3, <3>2
            <4> QED BY <2>2, <4>1
        <3>3. CASE x # r
            <4>1. WorksOn(x, "ignore") /\ ~WorksOn(r, "ignore") /\ work'[x] = work[x]
                BY <1>1, <1>3, <2>1, <2>3, <3>3 DEF Alone
            <4>2. Lists(work[x].read) /\ unlisted' = unlisted
                BY <1>4, <2>1, <2>3, <4>1
            <4> QED BY <1>11, <4>1, <4>2
        <3> QED BY <3>2, <3>3
    <2>4. Idle("ignore") => ~WorksOn(r, "ignore")
        BY DEF Idle
    <2>5. ASSUME Idle("ignore")' PROVE Lists(ignoring)'
        <3>1. Lists(ignoring') /\ unlisted' = unlisted
            BY <1>3, <1>6, <2>1, <2>4, <2>5 DEF Idle
        <3> QED BY <1>11, <3>1
    <2> QED BY <1>5, <2>1, <2>3, <2>5
<1>10. IgnoredFollow'
    BY <1>9 DEF IgnoredFollow
<1> QED BY <1>2, <1>8, <1>10 DEF InventoryInv

\* What a replica works on.
LEMMA WorkIs ==
    ASSUME InventoryTyped, NEW r \in Replicas, work[r] # None
    PROVE  /\ work[r] \in Work /\ work[r].event \in DomainEvent
           /\ WorksOn(r, "retention") <=> work[r].event.kind \in {"created", "tier"}
           /\ WorksOn(r, "ignore") <=> work[r].event.kind = "toggled"
BY TopicIs DEF InventoryTyped, Work, WorksOn

\* A handler ends.
LEMMA DoneInv ==
    ASSUME InventoryInv, NEW r \in Replicas, work[r] # None, Done(r),
           UNCHANGED <<accountRows, tierNow, owed, unlisted, untold, domainEvents, jumbled>>,
           later' \subseteq {e \in DomainEvent : e.kind = "again"},
           IF WorksOn(r, "retention") THEN keep' = TierRetention[TierOf(work[r].event)] ELSE keep' = keep,
           IF WorksOn(r, "ignore") THEN work[r].step = 2 /\ ignoring' = work[r].read ELSE ignoring' = ignoring
    PROVE  InventoryInv'
<1>1. PICK new \in Work \cup {None} : new = None
    OBVIOUS
<1>2. work' = [work EXCEPT ![r] = new]
    BY <1>1 DEF Done
<1> QED BY <1>1, <1>2, HandlerInv

\* A handler goes on.
LEMMA GoOnInv ==
    ASSUME InventoryInv, NEW r \in Replicas, work[r] # None, NEW step \in 1..3, NEW read \in SUBSET CloudAccounts,
           work' = [work EXCEPT ![r] = [event |-> work[r].event, step |-> step, read |-> read]],
           WorksOn(r, "ignore") => read = Disabled,
           unlisted' = unlisted \/ WorksOn(r, "ignore"),
           UNCHANGED <<accountRows, tierNow, owed, untold, domainEvents, jumbled, later, keep, ignoring>>
    PROVE  InventoryInv'
<1>1. work[r].event \in DomainEvent /\ later' \subseteq {e \in DomainEvent : e.kind = "again"}
    BY WorkIs DEF InventoryInv, InventoryTyped
<1>2. PICK e \in DomainEvent : e = work[r].event
    BY <1>1
<1>3. PICK new \in Work : new = [event |-> e, step |-> step, read |-> read]
    BY DEF Work
<1>4. work' = [work EXCEPT ![r] = new] /\ new # None /\ new.event = work[r].event /\ new.read = read
    BY <1>2, <1>3, WorkAssumption
<1> QED BY <1>1, <1>4, HandlerInv

LEMMA HandlerStepInv ==
    ASSUME InventoryInv, NEW r \in Replicas, HandlerStep(r)
    PROVE  InventoryInv'
<1> DEFINE kind == work[r].event.kind
<1>1. /\ work[r] # None /\ UNCHANGED <<accountRows, tierNow, owed, untold, domainEvents, jumbled>>
      /\ unlisted' = unlisted \/ ListDisabled(r)
    BY DEF HandlerStep, CreateDatabase, KeepForTrial, KeepForTier, ListDisabled, WriteIgnored, DeleteNode,
           EvictCollected, SearchNode, UpdateNode, EvictRenamed, NameWork, AtWork, tables
<1>2. /\ work[r] \in Work /\ work[r].event \in DomainEvent
      /\ WorksOn(r, "retention") <=> kind \in {"created", "tier"}
      /\ WorksOn(r, "ignore") <=> kind = "toggled"
    BY <1>1, WorkIs DEF InventoryInv
<1>3. later \subseteq {e \in DomainEvent : e.kind = "again"} /\ work \in [Replicas -> Work \cup {None}]
    BY DEF InventoryInv, InventoryTyped
<1>4. work[r] = [event |-> work[r].event, step |-> work[r].step, read |-> work[r].read]
    BY <1>2 DEF Work
<1>5. work[r].step \in 1..3 /\ work[r].read \in SUBSET CloudAccounts
    BY <1>2 DEF Work
\* a step that only counts
<1>6. ASSUME Step(r), kind # "toggled", work[r].step \in 1..2, UNCHANGED <<unlisted, later, keep, ignoring>>
      PROVE  InventoryInv'
    <2>1. PICK step \in 1..3 : step = work[r].step + 1
        BY <1>6
    <2>2. PICK read \in SUBSET CloudAccounts : read = work[r].read
        BY <1>5
    <2>3. [work[r] EXCEPT !.step = @ + 1] = [event |-> work[r].event, step |-> step, read |-> read]
        BY <1>4, <2>1, <2>2
    <2>4. work' = [work EXCEPT ![r] = [event |-> work[r].event, step |-> step, read |-> read]]
        BY <1>6, <2>3 DEF Step
    <2> HIDE DEF kind
    <2> QED BY <1>1, <1>2, <1>6, <2>4, GoOnInv DEF kind
<1>7. CASE CreateDatabase(r)
    BY <1>1, <1>6, <1>7 DEF CreateDatabase, AtWork, tables
<1>8. CASE KeepForTrial(r)
    <2>1. kind = "created" /\ Done(r) /\ keep' = TierRetention["Trial"] /\ UNCHANGED <<unlisted, later, ignoring>>
        BY <1>8 DEF KeepForTrial, AtWork, tables
    <2>2. TierOf(work[r].event) = "Trial"
        BY <2>1 DEF TierOf
    <2> QED BY <1>1, <1>2, <1>3, <2>1, <2>2, DoneInv
<1>9. CASE KeepForTier(r)
    <2>1. /\ kind = "tier" /\ Done(r) /\ keep' = TierRetention[work[r].event.tier]
          /\ UNCHANGED <<unlisted, later, ignoring>>
        BY <1>9 DEF KeepForTier, AtWork, tables
    <2>2. TierOf(work[r].event) = work[r].event.tier
        BY <2>1 DEF TierOf
    <2> QED BY <1>1, <1>2, <1>3, <2>1, <2>2, DoneInv
<1>10. CASE ListDisabled(r)
    <2>1. PICK step \in 1..3 : step = 2
        OBVIOUS
    <2>2. PICK read \in SUBSET CloudAccounts : read = Disabled
        BY DEF Disabled
    <2>3. work' = [work EXCEPT ![r] = [[work[r] EXCEPT !.step = step] EXCEPT !.read = read]]
        BY <1>3, <1>10, <2>1, <2>2 DEF ListDisabled
    <2>7. [work[r] EXCEPT !.step = step] = [event |-> work[r].event, step |-> step, read |-> work[r].read]
        BY <1>4
    <2>8. [[event |-> work[r].event, step |-> step, read |-> work[r].read] EXCEPT !.read = read] =
            [event |-> work[r].event, step |-> step, read |-> read]
        OBVIOUS
    <2>4. [[work[r] EXCEPT !.step = step] EXCEPT !.read = read] =
            [event |-> work[r].event, step |-> step, read |-> read]
        BY ONLY <2>7, <2>8
    <2>5. work' = [work EXCEPT ![r] = [event |-> work[r].event, step |-> step, read |-> read]]
        BY <2>3, <2>4
    <2>6. kind = "toggled" /\ UNCHANGED <<later, keep, ignoring>>
        BY <1>10 DEF ListDisabled, graph, AtWork
    <2> QED BY <1>1, <1>2, <2>2, <2>5, <2>6, GoOnInv
<1>11. CASE WriteIgnored(r)
    <2>1. /\ kind = "toggled" /\ work[r].step = 2 /\ Done(r) /\ ignoring' = work[r].read
          /\ UNCHANGED <<unlisted, later, keep>>
        BY <1>11 DEF WriteIgnored, AtWork, tables
    <2> QED BY <1>1, <1>2, <1>3, <2>1, DoneInv
<1>12. CASE DeleteNode(r) \/ EvictCollected(r)
    <2>1. kind \in {"deleted", "collected"} /\ Done(r) /\ UNCHANGED <<unlisted, later, keep, ignoring>>
        BY <1>12 DEF DeleteNode, EvictCollected, AtWork, graph, tables
    <2> QED BY <1>1, <1>2, <1>3, <2>1, DoneInv
<1>13. CASE SearchNode(r) \/ UpdateNode(r)
    <2>1. kind \in {"renamed", "again"} /\ work[r].step \in 1..2 /\ UNCHANGED <<unlisted, later, keep, ignoring>>
        BY <1>13 DEF SearchNode, UpdateNode, NameWork, AtWork, graph, tables
    <2>2. Done(r) \/ Step(r)
        BY <1>13 DEF SearchNode, UpdateNode
    <2>3. CASE Done(r)
        BY <1>1, <1>2, <1>3, <2>1, <2>3, DoneInv
    <2>4. CASE Step(r)
        BY <1>6, <2>1, <2>4
    <2> QED BY <2>2, <2>3, <2>4
<1>14. CASE EvictRenamed(r)
    <2>1. kind \in {"renamed", "again"} /\ Done(r) /\ UNCHANGED <<unlisted, keep, ignoring>>
        BY <1>14 DEF EvictRenamed, NameWork, AtWork, graph, tables
    <2>2. later' \subseteq {e \in DomainEvent : e.kind = "again"}
        BY <1>2, <1>3, <1>14, <2>1, DeferredEvent DEF EvictRenamed
    <2> QED BY <1>1, <1>2, <2>1, <2>2, DoneInv
<1> QED BY <1>7, <1>8, <1>9, <1>10, <1>11, <1>12, <1>13, <1>14 DEF HandlerStep

\* An event that is given back stands last: of the topic of the tier, that is noted.
LEMMA RequestFailsInv ==
    ASSUME InventoryInv, NEW r \in Replicas, RequestFails(r)
    PROVE  InventoryInv'
<1>1. /\ work[r] # None /\ Return(r, work[r].event)
      /\ UNCHANGED <<accountRows, tierNow, owed, unlisted, untold, keep, ignoring>>
    BY DEF RequestFails, tables, graph
<1>6. (Told' <=> Told) /\ (OneOwes' <=> OneOwes) /\ \A excluded : Lists(excluded)' <=> Lists(excluded)
    BY <1>1 DEF Told, OneOwes, OwesToggle, Owes, Lists, Disabled, ToCollect
<1>2. PICK e \in DomainEvent : e = work[r].event
    BY <1>1, WorkIs DEF InventoryInv
<1>3. Done(r) /\ jumbled' = jumbled \cup (Topic(e) \cap {"retention"})
    BY <1>1, <1>2 DEF Return
<1>4. CASE e.kind = "again"
    <2>1. later' = later \cup {e} /\ domainEvents' = domainEvents
        BY <1>1, <1>2, <1>4 DEF Return
    <2>2. Topic(e) = {}
        BY <1>4 DEF Topic
    <2>3. jumbled' = jumbled /\ ~WorksOn(r, "retention") /\ ~WorksOn(r, "ignore")
        BY <1>2, <1>3, <2>2 DEF WorksOn
    <2>4. later' \subseteq {x \in DomainEvent : x.kind = "again"}
        BY <1>4, <2>1 DEF InventoryInv, InventoryTyped
    <2> QED BY <1>1, <1>3, <2>1, <2>3, <2>4, DoneInv
<1>5. CASE e.kind # "again"
    <2>1. Publish(e) /\ later' = later
        BY <1>1, <1>2, <1>5 DEF Return
    <2>2. /\ work' \in [Replicas -> Work \cup {None}] /\ work'[r] = None
          /\ \A x \in Replicas : x # r => work'[x] = work[x]
        BY <1>3 DEF Done, InventoryInv, InventoryTyped
    <2>3. InventoryTyped'
        BY <1>1, <2>1, <2>2, PublishIs DEF InventoryInv, InventoryTyped
    <2>4. \A topic : Queued(topic)' <=> Queued(topic) \/ topic \in Topic(e)
        BY <2>1, PublishIs DEF InventoryInv
    <2>5. \A x \in Replicas : \A topic : WorksOn(x, topic)' <=> x # r /\ WorksOn(x, topic)
        BY <2>2 DEF WorksOn
    <2>6. \A topic : Alone(topic) => Alone(topic)'
        BY <2>5 DEF Alone
    <2>7. \A topic : WorksOn(r, topic) <=> topic \in Topic(e)
        BY <1>1, <1>2 DEF WorksOn
    <2>8. \A topic : Idle(topic)' => Idle(topic)
        BY <2>4, <2>5, <2>7 DEF Idle
    <2>9. ASSUME "retention" \notin jumbled', Told PROVE
            /\ Alone("retention")' /\ LastTier'
            /\ ~Queued("retention")' => \A x \in Replicas : WorksOn(x, "retention")' => TierOf(work'[x].event) = tierNow
            /\ Idle("retention")' => keep = TierRetention[tierNow]
        <3>1. "retention" \notin Topic(e) /\ "retention" \notin jumbled
            BY <1>3, <2>9
        <3>2. /\ Alone("retention") /\ LastTier
              /\ ~Queued("retention") => \A x \in Replicas : WorksOn(x, "retention") => TierOf(work[x].event) = tierNow
              /\ Idle("retention") => keep = TierRetention[tierNow]
            BY <2>9, <3>1 DEF InventoryInv, RetentionFollows
        <3>3. LastTier'
            BY <1>1, <2>1, <3>1, <3>2, LastPublished DEF InventoryInv
        <3>4. ~Queued("retention")' => \A x \in Replicas : WorksOn(x, "retention")' => TierOf(work'[x].event) = tierNow
            BY <2>2, <2>4, <2>5, <3>2
        <3> QED BY <2>6, <2>8, <3>2, <3>3, <3>4
    <2>13. "retention" \notin jumbled' => "retention" \notin jumbled
        BY <1>3
    <2>10. RetentionFollows'
        BY <1>1, <1>6, <2>6, <2>9, <2>13 DEF InventoryInv, RetentionFollows
    <2>11. ASSUME "ignore" \notin jumbled' PROVE
            /\ Alone("ignore")'
            /\ ~Queued("ignore")' => \A x \in Replicas : WorksOn(x, "ignore")' /\ work'[x].step = 2 => Lists(work'[x].read)
            /\ Idle("ignore")' => Lists(ignoring)
        <3>1. "ignore" \notin jumbled
            BY <1>3, <2>11
        <3>2. /\ Alone("ignore")
              /\ ~Queued("ignore") => \A x \in Replicas : WorksOn(x, "ignore") /\ work[x].step = 2 => Lists(work[x].read)
              /\ Idle("ignore") => Lists(ignoring)
            BY <3>1 DEF InventoryInv, IgnoredFollow
        <3>3. ~Queued("ignore")' =>
                \A x \in Replicas : WorksOn(x, "ignore")' /\ work'[x].step = 2 => Lists(work'[x].read)
            BY <2>2, <2>4, <2>5, <3>2
        <3> QED BY <2>6, <2>8, <3>2, <3>3
    <2>12. IgnoredFollow'
        BY <1>1, <1>6, <2>11 DEF IgnoredFollow
    <2> QED BY <2>3, <2>10, <2>12 DEF InventoryInv
<1> QED BY <1>4, <1>5

LEMMA InventoryStep == InventoryInv /\ [InventoryNext]_inventoryVars => InventoryInv'
<1> SUFFICES ASSUME InventoryInv, [InventoryNext]_inventoryVars
             PROVE  InventoryInv'
    OBVIOUS
<1>1. CASE \E r \in Replicas : Listen(r) \/ RequestFails(r)
    BY <1>1, TakeEventInv, TakeLaterInv, HandlerStepInv, RequestFailsInv DEF Listen
<1>2. CASE \E q \in Editors, a \in CloudAccounts :
            \/ DeleteRow(q, a)
            \/ \E n \in Names : Rename(q, a, n)
            \/ \E on \in BOOLEAN : ToggleScan(q, a, on) \/ ToggleActive(q, a, on)
    BY <1>2, AccountEditInv
<1>3. CASE \E a \in CloudAccounts : Merge(a)
    BY <1>3, MergeInv
<1>4. CASE \E q \in Editors :
            \/ Tell(q) \/ LoseEvent(q)
            \/ \E t \in DOMAIN TierRetention : ChangeProductTier(q, t)
    BY <1>4, TellInv, LoseEventInv, TierInv
<1>6. CASE \E a \in CloudAccounts :
            \/ RowConfigured(a) \/ RowDegraded(a) \/ RowUndegraded(a) \/ RowDisabled(a)
            \/ \E n \in Names, on \in BOOLEAN : RowDiscovered(a, n, on)
            \/ \E on \in BOOLEAN : ToggleDegraded(a, on)
    BY <1>6, StateInv
<1>7. CASE TrialMoved \/ PutReportConfig
    BY <1>7, TrialMovedInv, PutReportConfigInv
<1>5. CASE (\E a \in CloudAccounts : StartRun(a)) \/ Compute \/ StoreReport \/ ExpireCache \/ UNCHANGED inventoryVars
    <2>1. UNCHANGED <<tables, keep, ignoring, domainEvents, work, later, jumbled>>
        BY <1>5 DEF StartRun, Compute, StoreReport, ExpireCache, inventoryVars, graph, queues
    <2> QED BY <2>1, InventoryKeep
<1> QED BY <1>1, <1>2, <1>3, <1>4, <1>5, <1>6, <1>7 DEF InventoryNext

\* Once the events about them are handled, the retention of the database is that of the tier of the workspace, and an
\* account is ignored if and only if it is collected and switched off: unless two replicas of InventoryService handled
\* such events, or two requests owed them, at the same time, one of the tier was delivered late, or the change had no
\* event, lost it, or was overwritten by update_report_config.
THEOREM ConfigurationFollows == InventorySpec => []ConfigFollowsTables
<1>1. InventorySpec => []InventoryInv
    BY InventoryStart, InventoryStep, PTL DEF InventorySpec
<1> QED BY <1>1, InventoryImplied, PTL

-----------------------------------------------------------------------------
(* The answers of the graph database.                                      *)

LEMMA OneOfParts ==
    ASSUME NEW parts, NEW x \in DOMAIN Together(parts)
    PROVE  \E p \in parts : x \in DOMAIN p /\ Together(parts)[x] = p[x]
BY DEF Together

LEMMA DomainOfTogether ==
    ASSUME NEW parts, NEW p \in parts, NEW x \in DOMAIN p
    PROVE  x \in DOMAIN Together(parts)
BY DEF Together

Named == {"execute_single", "search", "search_history", "history_timeline", "aggregate", "benchmarks", "checks",
          "complete_property_path", "possible_values", "model", "timeseries", "update_node", "config",
          "update_config", "call_json", "call_json_for_nothing"}

LEMMA Methods ==
    ASSUME NEW m \in Named \cup {"resource"}
    PROVE  m \in DOMAIN Client /\ Client[m].raises = IF m = "resource" THEN Missing ELSE Refusals
<1> DEFINE parts == {SearchMethods, ReportMethods, PropertyMethods, NodeMethods, ModelMethods, ConfigMethods, JsonMethods}
<1> DEFINE Good(p) == \A x \in DOMAIN p : p[x].raises = IF x = "resource" THEN Missing ELSE Refusals
<1>1. Client = Together(parts)
    BY DEF Client
<1>2. /\ Lines.raises = Refusals /\ Content.raises = Refusals
      /\ [Content EXCEPT !.raises = Missing].raises = Missing
      /\ [Content EXCEPT !.typed = FALSE].raises = Refusals
    BY DEF Lines, Content
<1>3. Good(SearchMethods)
    BY <1>2 DEF SearchMethods
<1>4. Good(ReportMethods)
    BY <1>2 DEF ReportMethods
<1>5. Good(PropertyMethods)
    BY <1>2 DEF PropertyMethods
<1>6. Good(NodeMethods)
    <2>1. ASSUME NEW a, a.raises = Missing
          PROVE  Good([resource |-> a])
        BY <2>1
    <2> QED BY <1>2, <2>1, Zenon DEF NodeMethods
<1>7. Good(ModelMethods)
    BY <1>2 DEF ModelMethods
<1>8. Good(ConfigMethods)
    BY <1>2 DEF ConfigMethods
<1>9. Good(JsonMethods)
    <2>1. ASSUME NEW a, NEW b, a.raises = Refusals, b.raises = Refusals
          PROVE  Good([call_json |-> a, call_json_for_nothing |-> b])
        BY <2>1
    <2> QED BY <1>2, <2>1, Zenon DEF JsonMethods
<1>10. \A p \in parts : Good(p)
    BY <1>3, <1>4, <1>5, <1>6, <1>7, <1>8, <1>9
<1>11. \E p \in parts : m \in DOMAIN p
    <2>1. CASE m \in {"execute_single", "search", "search_history", "history_timeline", "aggregate"}
        BY <2>1 DEF SearchMethods
    <2>2. CASE m \in {"benchmarks", "checks"}
        BY <2>2 DEF ReportMethods
    <2>3. CASE m \in {"complete_property_path", "possible_values"}
        BY <2>3 DEF PropertyMethods
    <2>4. CASE m = "resource"
        BY <2>4 DEF NodeMethods
    <2>5. CASE m \in {"model", "timeseries"}
        BY <2>5 DEF ModelMethods
    <2>6. CASE m \in {"update_node", "config", "update_config"}
        BY <2>6 DEF ConfigMethods
    <2>7. CASE m \in {"call_json", "call_json_for_nothing"}
        BY <2>7 DEF JsonMethods
    <2> QED BY <2>1, <2>2, <2>3, <2>4, <2>5, <2>6, <2>7 DEF Named
<1>12. m \in DOMAIN Together(parts)
    BY <1>11, DomainOfTogether
<1>13. PICK p \in parts : m \in DOMAIN p /\ Together(parts)[m] = p[m]
    BY <1>12, OneOfParts
<1>14. Good(p) => p[m].raises = IF m = "resource" THEN Missing ELSE Refusals
    BY <1>13
<1> QED BY <1>1, <1>10, <1>12, <1>13, <1>14

LEMMA Calls ==
    ASSUME NEW r \in DOMAIN Routes, NEW i \in 1..Len(Routes[r])
    PROVE  Routes[r][i] \in Named \/ (Routes[r][i] = "resource" /\ r = "get_node")
<1> DEFINE parts == {ManagementRoutes, CheckRoutes, ModelRoutes, PropertyRoutes, QueryRoutes, NodeRoutes, SummaryRoutes}
<1> DEFINE Good(x, cs) == \A k \in 1..Len(cs) : cs[k] \in Named \/ (cs[k] = "resource" /\ x = "get_node")
<1>1. Routes = Together(parts)
    BY DEF Routes
<1>2. \A x \in DOMAIN ManagementRoutes : Good(x, ManagementRoutes[x])
    BY DEF ManagementRoutes, Named
<1>3. \A x \in DOMAIN CheckRoutes : Good(x, CheckRoutes[x])
    BY DEF CheckRoutes, Named
<1>4. \A x \in DOMAIN ModelRoutes : Good(x, ModelRoutes[x])
    BY DEF ModelRoutes, Named
<1>5. \A x \in DOMAIN PropertyRoutes : Good(x, PropertyRoutes[x])
    BY DEF PropertyRoutes, Named
<1>6. \A x \in DOMAIN QueryRoutes : Good(x, QueryRoutes[x])
    BY DEF QueryRoutes, Named
<1>7. \A x \in DOMAIN NodeRoutes : Good(x, NodeRoutes[x])
    BY DEF NodeRoutes, Named
<1>8. \A x \in DOMAIN SummaryRoutes : Good(x, SummaryRoutes[x])
    BY DEF SummaryRoutes, Named
<1>9. PICK p \in parts : r \in DOMAIN p /\ Routes[r] = p[r]
    BY <1>1, OneOfParts
<1>10. Good(r, p[r])
    BY <1>2, <1>3, <1>4, <1>5, <1>6, <1>7, <1>8, <1>9
<1> QED BY <1>9, <1>10

\* Nothing has gone wrong that the customer is not told, and what has been sent is what has been read.
SoFar ==
    /\ asked = None => over = None /\ failed = None /\ ~reading
    /\ reading => asked \in Streamed
    /\ over = None =>
        /\ failed # None => asked = "get_node" /\ failed \in Refusals \ Missing
        /\ status \in {None, 200}
        /\ ~reading => told = 0 /\ status = None /\ body = <<>>
        /\ reading => body = IF accept = "json" THEN <<"[">> \o LinesOf(told) ELSE LinesOf(told)
    /\ accept \in {"json", "lines"} /\ told \in Nat /\ calls \in Nat

AnswersInv == SoFar /\ EndMeansComplete

LEMMA RoutesAreSeqs ==
    ASSUME NEW r \in DOMAIN Routes
    PROVE  Len(Routes[r]) \in Nat
<1> DEFINE parts == {ManagementRoutes, CheckRoutes, ModelRoutes, PropertyRoutes, QueryRoutes, NodeRoutes, SummaryRoutes}
<1> DEFINE Good(p) == \A x \in DOMAIN p : Len(p[x]) \in Nat
<1>1. Good(ManagementRoutes)
    BY DEF ManagementRoutes
<1>2. Good(CheckRoutes)
    BY DEF CheckRoutes
<1>3. Good(ModelRoutes)
    BY DEF ModelRoutes
<1>4. Good(PropertyRoutes)
    BY DEF PropertyRoutes
<1>5. Good(QueryRoutes)
    BY DEF QueryRoutes
<1>6. Good(NodeRoutes)
    BY DEF NodeRoutes
<1>7. Good(SummaryRoutes)
    BY DEF SummaryRoutes
<1>8. PICK p \in parts : r \in DOMAIN p /\ Routes[r] = p[r]
    BY OneOfParts DEF Routes
<1> QED BY <1>1, <1>2, <1>3, <1>4, <1>5, <1>6, <1>7, <1>8

LEMMA FunIsSeq ==
    ASSUME NEW S, NEW n \in Nat, NEW f \in [1..n -> S]
    PROVE  f \in Seq(S) /\ Len(f) = n
<1>1. f \in Seq(S)
    BY SeqDef
<1>2. Len(f) \in Nat /\ DOMAIN f = 1..Len(f) /\ DOMAIN f = 1..n
    BY <1>1, LenProperties
<1> QED BY <1>1, <1>2

LineChunks == {"line", ",line"}

LEMMA LinesOfType ==
    ASSUME NEW n \in Nat
    PROVE  LinesOf(n) \in Seq(LineChunks) /\ Len(LinesOf(n)) = n
<1>1. LinesOf(n) \in [1..n -> LineChunks]
    BY DEF LinesOf, LineChunks
<1> QED BY <1>1, FunIsSeq

LEMMA NoLines == LinesOf(0) = <<>>
BY LinesOfType, EmptySeq

LEMMA OneMore ==
    ASSUME NEW S, NEW s \in Seq(S), NEW t \in Seq(S), NEW x \in S,
           Len(t) = Len(s) + 1, t[Len(t)] = x, \A i \in 1..Len(s) : t[i] = s[i]
    PROVE  t = s \o <<x>>
<1>1. <<x>> \in Seq(S) /\ Len(<<x>>) = 1 /\ <<x>>[1] = x /\ Len(s) \in Nat
    BY LenProperties
<1>2. /\ s \o <<x>> \in Seq(S) /\ Len(s \o <<x>>) = Len(s) + 1
      /\ \A i \in 1..(Len(s) + 1) : (s \o <<x>>)[i] = IF i <= Len(s) THEN s[i] ELSE <<x>>[i - Len(s)]
    BY <1>1, ConcatProperties
<1>3. ASSUME NEW i \in 1..(Len(s) + 1)
      PROVE  t[i] = (s \o <<x>>)[i]
    <2>1. CASE i <= Len(s)
        BY <1>1, <1>2, <2>1
    <2>2. CASE i = Len(s) + 1
        <3>1. i - Len(s) = 1 /\ ~(i <= Len(s))
            BY <1>1, <2>2
        <3> QED BY <1>1, <1>2, <2>2, <3>1
    <2> QED BY <1>1, <2>1, <2>2
<1> QED BY <1>2, <1>3, SeqEqual

LEMMA OneMoreLine ==
    ASSUME NEW n \in Nat
    PROVE  LinesOf(n + 1) = LinesOf(n) \o <<IF accept = "json" /\ n > 0 THEN ",line" ELSE "line">>
<1> DEFINE x == IF accept = "json" /\ n > 0 THEN ",line" ELSE "line"
<1>1. n + 1 \in Nat /\ x \in LineChunks
    BY DEF LineChunks
<1>2. /\ LinesOf(n) \in Seq(LineChunks) /\ Len(LinesOf(n)) = n
      /\ LinesOf(n + 1) \in Seq(LineChunks) /\ Len(LinesOf(n + 1)) = n + 1
    BY <1>1, LinesOfType
<1>3. n + 1 \in 1..(n + 1) /\ (n + 1 # 1 <=> n > 0)
    OBVIOUS
<1>4. LinesOf(n + 1)[n + 1] = x
    BY <1>3 DEF LinesOf
<1>5. ASSUME NEW i \in 1..n
      PROVE  LinesOf(n + 1)[i] = LinesOf(n)[i]
    BY i \in 1..(n + 1) DEF LinesOf
<1>6. LinesOf(n + 1) = LinesOf(n) \o <<x>>
    <2> HIDE DEF x
    <2> QED BY <1>1, <1>2, <1>4, <1>5, OneMore
<1> QED BY <1>6

LEMMA AnswersStart == AnswersInit => AnswersInv
BY AnswersAssumption DEF AnswersInit, AnswersInv, SoFar, EndMeansComplete

\* The call that is made next.
LEMMA NextCall ==
    ASSUME SoFar, CallLeft, asked \in DOMAIN Routes
    PROVE  \/ Method.raises = Refusals
           \/ Method.raises = Missing /\ asked = "get_node"
<1>1. calls + 1 \in 1..Len(Routes[asked])
    <2>1. calls \in Nat /\ calls < Len(Routes[asked])
        BY DEF SoFar, CallLeft
    <2>2. Len(Routes[asked]) \in Int
        BY RoutesAreSeqs
    <2> QED BY <2>1, <2>2
<1>2. Routes[asked][calls + 1] \in Named \/ (Routes[asked][calls + 1] = "resource" /\ asked = "get_node")
    BY <1>1, Calls
<1>3. "resource" \notin Named
    BY DEF Named
<1> QED BY <1>2, <1>3, Methods DEF Method

\* An error is told instead of the answer, or breaks it off.
LEMMA RaisesInv ==
    ASSUME SoFar, UnderWay, asked \in Streamed => failed = None, NEW e \in Errors, Raises(e)
    PROVE  AnswersInv'
<1>1. e # None /\ failed' = e /\ accept' = accept /\ told' = told /\ calls' = calls /\ asked' = asked /\ asked # None
      /\ reading' = reading
    BY AnswersAssumption DEF Raises, UnderWay
<1>2. CASE asked \in Streamed /\ status = None
    <2>1. over' = "ended" /\ body' = <<"detail">> /\ status' \in {400, 500}
        BY <1>2 DEF Raises, RaiseInStream, AnswerInstead, StreamStatus
    <2> QED BY <1>1, <2>1, AnswersAssumption DEF AnswersInv, SoFar, EndMeansComplete
<1>3. CASE asked \in Streamed /\ status # None
    <2>1. over' = "broken" /\ status' = status /\ status = 200
        BY <1>3 DEF Raises, RaiseInStream, SoFar, UnderWay
    <2> QED BY <1>1, <2>1, AnswersAssumption DEF AnswersInv, SoFar, EndMeansComplete
<1>4. CASE asked \notin Streamed
    <2>1. over' = "ended" /\ body' = <<"detail">> /\ status' = HandlerStatus(e)
        BY <1>4 DEF Raises, AnswerInstead
    <2>2. HandlerStatus(e) \in {401, 404, 408, 422, 500, 502}
        BY DEF HandlerStatus
    <2> QED BY <1>1, <2>1, <2>2, AnswersAssumption DEF AnswersInv, SoFar, EndMeansComplete
<1> QED BY <1>2, <1>3, <1>4

\* One step per action: before the end a stream has had no error, and all that was read has been sent.
LEMMA AnswersStep ==
    ASSUME AnswersInv, asked = None \/ asked \in DOMAIN Routes, [AnswersNext]_answerVars
    PROVE  AnswersInv' /\ (asked' = None \/ asked' \in DOMAIN Routes)
<1> USE DEF AnswersInv
<1>1. "get_node" \notin Streamed
    BY DEF Streamed
<1>2. asked \in Streamed /\ over = None => failed = None
    BY <1>1 DEF SoFar
<1>0. None \notin {"ended", "broken"} /\ None \notin Errors
    BY AnswersAssumption
<1>3. ASSUME NEW route \in DOMAIN Routes, NEW a \in {"json", "lines"}, Ask(route, a)
      PROVE  AnswersInv' /\ asked' \in DOMAIN Routes
    <2>1. over = None /\ failed = None /\ ~reading
        BY <1>3 DEF Ask, SoFar
    <2> QED BY <1>0, <1>3, <2>1 DEF Ask, SoFar, EndMeansComplete, answer
<1>4. CASE NoAccess
    <2>1. /\ failed' # None /\ over' = "ended" /\ body' = <<"detail">> /\ status' = 500 /\ asked # None
          /\ asked' = asked /\ accept' = accept /\ told' = told /\ calls' = calls /\ reading' = reading
        BY <1>0, <1>4 DEF NoAccess, AnswerInstead, UnderWay, Errors
    <2> QED BY <1>0, <2>1 DEF SoFar, EndMeansComplete
<1>5. CASE CallFails
    <2>1. PICK e \in Method.raises \cup {"unreachable", "took too long", "unreadable"}
                \cup (IF Method.typed THEN {"other type"} ELSE {}) : Raises(e)
        BY <1>5 DEF CallFails
    <2>2. UnderWay /\ asked \in DOMAIN Routes
        BY <1>5 DEF CallFails, CallLeft, UnderWay
    <2>3. e \in Errors
        BY <1>5, <2>2, NextCall DEF CallFails, Errors, Refusals
    <2> QED BY <1>2, <2>1, <2>2, <2>3, RaisesInv DEF Raises, UnderWay
<1>6. CASE CallSucceeds
    BY <1>0, <1>6 DEF CallSucceeds, CallLeft, SoFar, EndMeansComplete, UnderWay, answer
<1>7. CASE ErrorForResult
    <2>1. asked = "get_node" /\ failed' \in Refusals \ Missing /\ over = None /\ asked # None
        BY <1>7, NextCall DEF ErrorForResult, CallLeft, UnderWay
    <2>2. calls' \in Nat
        BY <1>7, <2>1, RoutesAreSeqs DEF ErrorForResult, CallLeft, UnderWay
    <2> QED BY <1>0, <1>1, <1>7, <2>1, <2>2 DEF ErrorForResult, SoFar, EndMeansComplete, answer
<1>8. CASE AskNothing
    <2>1. calls' \in Nat
        BY <1>8, RoutesAreSeqs DEF AskNothing, CallLeft, UnderWay
    <2> QED BY <1>0, <1>8, <2>1 DEF AskNothing, CallLeft, UnderWay, SoFar, EndMeansComplete, answer
<1>9. CASE OpenStream
    <2>1. told = 0 /\ status = None /\ body = <<>> /\ over = None
        BY <1>9 DEF OpenStream, CallLeft, UnderWay, SoFar
    <2>2. body' = IF accept = "json" THEN <<"[">> \o LinesOf(0) ELSE LinesOf(0)
        <3>1. <<"[">> \o <<>> = <<"[">> /\ body' = IF accept = "json" THEN body \o <<"[">> ELSE body
            BY <1>9, <2>1 DEF OpenStream, SendChunks
        <3>2. <<>> \o <<"[">> = <<"[">>
            OBVIOUS
        <3> QED BY <2>1, <3>1, <3>2, NoLines
    <2>3. LinesOf(told)' = LinesOf(0)
        BY <1>9, <2>1 DEF OpenStream, LinesOf
    <2> QED BY <1>0, <1>9, <2>1, <2>2, <2>3 DEF OpenStream, SendChunks, SoFar, EndMeansComplete, CallLeft, UnderWay
<1>10. CASE NextLine
    <2>1. body' = IF accept = "json" THEN <<"[">> \o LinesOf(told + 1) ELSE LinesOf(told + 1)
        <3> DEFINE x == IF accept = "json" /\ told > 0 THEN ",line" ELSE "line"
        <3>1. LinesOf(told + 1) = LinesOf(told) \o <<x>>
            BY OneMoreLine DEF SoFar
        <3>2. body' = body \o <<x>>
            BY <1>10 DEF NextLine, SendChunks
        <3>3. body = IF accept = "json" THEN <<"[">> \o LinesOf(told) ELSE LinesOf(told)
            BY <1>10 DEF NextLine, UnderWay, SoFar
        <3>4. (<<"[">> \o LinesOf(told)) \o <<x>> = <<"[">> \o (LinesOf(told) \o <<x>>)
            <4> DEFINE S == LineChunks \cup {"["}
            <4>1. <<"[">> \in Seq(S) /\ <<x>> \in Seq(S)
                BY DEF LineChunks
            <4>2. LinesOf(told) \in Seq(S)
                BY LinesOfType, SeqMonotonic DEF SoFar
            <4> HIDE DEF S, x
            <4> QED BY <4>1, <4>2, ConcatAssociative
        <3> QED BY <3>1, <3>2, <3>3, <3>4
    <2>2. LinesOf(told)' = LinesOf(told + 1)
        BY <1>10 DEF NextLine, LinesOf
    <2>3. /\ over = None /\ over' = None /\ asked' = asked /\ asked # None /\ accept' = accept /\ calls' = calls
          /\ told' = told + 1 /\ reading /\ reading' /\ failed' = failed
          /\ status' = IF status = None THEN 200 ELSE status
        BY <1>10 DEF NextLine, SendChunks, UnderWay
    <2>4. SoFar'
        BY <2>1, <2>2, <2>3 DEF SoFar
    <2> QED BY <1>0, <2>3, <2>4 DEF EndMeansComplete
<1>11. CASE EndOfStream
    <2>1. asked \in Streamed /\ failed = None /\ status \in {None, 200}
        BY <1>2, <1>11 DEF EndOfStream, UnderWay, SoFar
    <2>2. body' = IF accept = "json" THEN <<"[">> \o LinesOf(told) \o <<"]">> ELSE LinesOf(told)
        <3>1. LinesOf(told) \o <<>> = LinesOf(told)
            BY LinesOfType, ConcatEmptySeq DEF SoFar
        <3> QED BY <1>11, <3>1 DEF EndOfStream, SendChunks, UnderWay, SoFar
    <2>3. LinesOf(told)' = LinesOf(told)
        BY <1>11 DEF EndOfStream, LinesOf
    <2>4. body' = Whole'
        BY <1>11, <2>1, <2>2, <2>3 DEF EndOfStream, Whole
    <2> QED BY <1>0, <1>11, <2>1, <2>4 DEF EndOfStream, SendChunks, SoFar, EndMeansComplete, UnderWay
<1>12. CASE StreamFails
    <2>1. PICK e \in {"took too long", "unreadable"} : Raises(e)
        BY <1>12 DEF StreamFails
    <2>2. e \in Errors
        BY DEF Errors
    <2> QED BY <1>2, <1>12, <2>1, <2>2, RaisesInv DEF StreamFails, Raises, UnderWay
<1>13. CASE CloseConnection
    BY <1>0, <1>13 DEF CloseConnection, SoFar, EndMeansComplete, UnderWay
<1>14. CASE Return200
    <2>1. failed = None \/ (asked = "get_node" /\ failed \in Refusals \ Missing)
        BY <1>14 DEF Return200, UnderWay, SoFar
    <2>2. asked \notin Streamed /\ asked' = asked /\ failed' = failed /\ over' = "ended" /\ body' = <<"result">>
          /\ status' \in {200, 204} /\ asked # None
        BY <1>14 DEF Return200, UnderWay
    <2>3. Whole' = <<"result">>
        BY <2>2 DEF Whole
    <2>4. SoFar'
        BY <1>0, <1>14, <2>2 DEF Return200, SoFar
    <2> QED BY <1>0, <2>1, <2>2, <2>3, <2>4 DEF EndMeansComplete
<1>15. CASE UNCHANGED answerVars
    <2>1. LinesOf(told)' = LinesOf(told) /\ Whole' = Whole
        BY <1>15 DEF answerVars, answer, Whole, LinesOf
    <2> QED BY <1>15, <2>1 DEF answerVars, answer, SoFar, EndMeansComplete
<1> QED
    <2>1. asked' = asked \/ \E route \in DOMAIN Routes, a \in {"json", "lines"} : Ask(route, a)
        BY DEF AnswersNext, NoAccess, CallFails, CallSucceeds, ErrorForResult, AskNothing, OpenStream, NextLine,
               EndOfStream, StreamFails, CloseConnection, Return200, Raises, answerVars
    <2> QED BY <1>3, <1>4, <1>5, <1>6, <1>7, <1>8, <1>9, <1>10, <1>11, <1>12, <1>13, <1>14, <1>15, <2>1 DEF AnswersNext

\* An answer that ends is whole or an error, for any number of lines (streaming_response.py, errors.py).
THEOREM AnswersEndComplete == AnswersSpec => []EndMeansComplete
<1> DEFINE Inv == AnswersInv /\ (asked = None \/ asked \in DOMAIN Routes)
<1>1. AnswersInit => Inv
    BY AnswersStart DEF AnswersInit
<1>2. Inv /\ [AnswersNext]_answerVars => Inv'
    BY AnswersStep
<1>3. Inv => EndMeansComplete
    BY DEF AnswersInv
<1> QED BY <1>1, <1>2, <1>3, PTL DEF AnswersSpec

=============================================================================
