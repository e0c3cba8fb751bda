------------------------ MODULE CloudAccount_proofs ------------------------
(***************************************************************************)
(* What holds of a cloud account whatever the roles, the number of tasks   *)
(* and the bounds: its type, that state and access belong together, and    *)
(* that every step is one of AccountLifecycle.                             *)
(***************************************************************************)
EXTENDS CloudAccountProps, FiniteSetTheorems, TLAPS

USE DEF Tasks, Accesses, Ages, Kinds

-----------------------------------------------------------------------------
(* Types.  Most steps are made of a few pieces; each has its lemma.        *)

PcType == pc \in [Tasks -> {"idle", "insert", "move", "publish", "get", "book", "assume", "configure",
                            "degrade", "setDegraded", "undegrade", "setConfigured"}]

TasksOK ==
    /\ PcType
    /\ arg \in [Tasks -> Accesses \cup {None}]
    /\ \A t \in Tasks : /\ pc[t] \in {"assume", "configure", "move"} => arg[t] \in Roles
                        /\ pc[t] = "insert" => arg[t] \in Roles \cup {None}
    /\ since \in [Tasks -> Ages]
    /\ kind \in [Tasks -> Kinds \cup {None}]

RowOK ==
    /\ cloud \in {"aws", "other"}
    /\ st \in {"absent", "detected", "discovered", "configured", "degraded", "deleted"}
    /\ access \in Accesses \cup {None}
    /\ enabled \in BOOLEAN /\ scan \in BOOLEAN
    /\ failed \in 0..(MaxFailed + 2)
    /\ age \in Ages

RestOK ==
    /\ events \in [Kinds -> 0..MaxEvents]
    /\ edits \in 0..MaxEdits
    /\ faults \in 0..MaxFaults

LEMMA TypeParts == TypeOK <=> RowOK /\ TasksOK /\ RestOK
BY DEF TypeOK, RowOK, TasksOK, PcType, RestOK

LEMMA ReturnType == ASSUME TasksOK, NEW t \in Tasks, Return(t) PROVE TasksOK'
BY DEF TasksOK, PcType, Return

LEMMA GotoType ==
    ASSUME TasksOK, NEW t \in Tasks, NEW step, Goto(t, step),
           step \in {"publish", "degrade", "setDegraded", "undegrade", "setConfigured"}
    PROVE  TasksOK'
BY DEF TasksOK, PcType, Goto

LEMMA ConfigureType ==
    ASSUME TasksOK, NEW t \in Tasks, Goto(t, "configure"), pc[t] = "assume"
    PROVE  TasksOK'
BY DEF TasksOK, PcType, Goto

LEMMA RowType ==
    ASSUME RowOK,
           NEW s \in {"absent", "detected", "discovered", "configured", "degraded", "deleted"},
           NEW a \in Accesses \cup {None}, NEW e \in BOOLEAN, NEW sc \in BOOLEAN,
           SetRow(s, a, e, sc)
    PROVE  RowOK'
BY DEF RowOK, SetRow

LEMMA RaiseType == ASSUME TasksOK, RestOK, NEW t \in Tasks, Raise(t), UNCHANGED edits,
                          faults' \in 0..MaxFaults
                   PROVE  TasksOK' /\ RestOK'
<1>1. TasksOK' BY ReturnType DEF Raise
<1>2. events' \in [Kinds -> 0..MaxEvents]
  <2>1. CASE t \in Handlers
    <3>1. PICK again \in BOOLEAN :
            events' = [events EXCEPT ![kind[t]] =
                         IF again /\ @ < MaxEvents THEN @ + 1 ELSE @]
      BY <2>1 DEF Raise
    <3>2. \A k \in Kinds : events[k] \in 0..MaxEvents /\ MaxEvents \in Nat
      BY BoundAssumption DEF RestOK
    <3>3. ASSUME NEW k \in Kinds PROVE events'[k] \in {events[k], events[k] + 1} \cap 0..MaxEvents
      <4>1. CASE k = kind[t] /\ again /\ events[k] < MaxEvents
        <5>1. events'[k] = events[k] + 1 BY <3>1, <4>1 DEF RestOK
        <5>. QED BY <3>2, <4>1, <5>1
      <4>2. CASE ~(k = kind[t] /\ again /\ events[k] < MaxEvents)
        <5>1. events'[k] = events[k] BY <3>1, <4>2 DEF RestOK
        <5>. QED BY <3>2, <5>1
      <4>. QED BY <4>1, <4>2
    <3>4. events' = [k \in Kinds |-> events'[k]] BY <3>1 DEF RestOK
    <3>. QED BY <3>3, <3>4
  <2>2. CASE t \notin Handlers BY <2>2 DEF Raise, RestOK
  <2>. QED BY <2>1, <2>2
<1>. QED BY <1>1, <1>2 DEF RestOK

LEMMA AddType == ASSUME RestOK, NEW k \in Kinds, Add(k), UNCHANGED <<edits, faults>>
                 PROVE  RestOK'
BY BoundAssumption DEF RestOK, Add

LEMMA SameRow == ASSUME RowOK, UNCHANGED row PROVE RowOK'
BY DEF RowOK, row

LEMMA SameTasks == ASSUME TasksOK, UNCHANGED tasks PROVE TasksOK'
BY DEF TasksOK, PcType, tasks

LEMMA SameRest == ASSUME RestOK, UNCHANGED <<events, edits, faults>> PROVE RestOK'
BY DEF RestOK

-----------------------------------------------------------------------------

LEMMA InitType == Init => TypeOK
<1> SUFFICES ASSUME Init PROVE RowOK /\ TasksOK /\ RestOK
  BY TypeParts
<1>1. RowOK
  <2>1. failed \in 0..(MaxFailed + 2) BY FailedAssumption DEF Init
  <2>2. age \in Ages BY DEF Init
  <2>. QED BY <2>1, <2>2 DEF Init, RowOK
<1>2. TasksOK BY DEF Init, TasksOK, PcType
<1>3. RestOK BY BoundAssumption DEF Init, RestOK
<1>. QED BY <1>1, <1>2, <1>3

LEMMA ConfigureStepsType ==
    ASSUME RowOK, TasksOK, RestOK, NEW t \in Tasks, ConfigureSteps(t)
    PROVE  RowOK' /\ TasksOK' /\ RestOK'
<1>1. CASE RoleAssumed(t)
  BY <1>1, ConfigureType, SameRow, SameRest DEF RoleAssumed
<1>2. CASE RoleRefusedTooLong(t)
  BY <1>2, GotoType, SameRow, SameRest DEF RoleRefusedTooLong
<1>3. CASE FastLaneEnds(t)
  BY <1>3, ReturnType, SameRow, SameRest DEF FastLaneEnds
<1>4. CASE RetryRole(t) \/ PermissionMissing(t)
  <2>1. Raise(t) /\ UNCHANGED <<row, edits, faults>>
    BY <1>4 DEF RetryRole, PermissionMissing
  <2>2. faults' \in 0..MaxFaults BY <2>1 DEF RestOK
  <2>. QED BY <2>1, <2>2, RaiseType, SameRow
<1>5. CASE Configure(t)
  <2>1. CASE StillDiscovered
    <3>1. SetRow("configured", arg[t], enabled, enabled) BY <1>5, <2>1 DEF Configure, Update
    <3>2. arg[t] \in Accesses \cup {None} /\ enabled \in BOOLEAN BY DEF TasksOK, RowOK
    <3>3. RowOK' BY <3>1, <3>2, RowType
    <3>. QED BY <1>5, <3>3, ReturnType, SameRest DEF Configure
  <2>2. CASE ~StillDiscovered
    BY <1>5, <2>2, ReturnType, SameRow, SameRest DEF Configure, Update
  <2>. QED BY <2>1, <2>2
<1>. QED BY <1>1, <1>2, <1>3, <1>4, <1>5 DEF ConfigureSteps

LEMMA DegradeStepsType ==
    ASSUME RowOK, TasksOK, RestOK, NEW t \in Tasks, DegradeSteps(t)
    PROVE  RowOK' /\ TasksOK' /\ RestOK'
<1>1. CASE Degrade(t)
  BY <1>1, GotoType, ReturnType, SameRow, SameRest DEF Degrade
<1>2. CASE SetDegraded(t)
  <2>1. CASE Degradable
    <3>1. SetRow("degraded", access, enabled, scan) BY <1>2, <2>1 DEF SetDegraded, Update
    <3>2. access \in Accesses \cup {None} /\ enabled \in BOOLEAN /\ scan \in BOOLEAN BY DEF RowOK
    <3>3. RowOK' BY <3>1, <3>2, RowType
    <3>. QED BY <1>2, <3>3, ReturnType, SameRest DEF SetDegraded
  <2>2. CASE ~Degradable
    BY <1>2, <2>2, ReturnType, SameRow, SameRest DEF SetDegraded, Update
  <2>. QED BY <2>1, <2>2
<1>. QED BY <1>1, <1>2 DEF DegradeSteps

LEMMA StartConfigureType ==
    ASSUME RowOK, TasksOK, AccessMatchesState, NEW t \in Tasks, Configurable, StartConfigure(t)
    PROVE  TasksOK'
<1>1. access \in Roles /\ age \in Ages BY DEF RowOK, AccessMatchesState, Configurable
<1>. QED BY <1>1 DEF StartConfigure, TasksOK, PcType

LEMMA HandleType ==
    ASSUME RowOK, TasksOK, RestOK, AccessMatchesState, NEW h \in Handlers, Handle(h)
    PROVE  RowOK' /\ TasksOK' /\ RestOK'
<1>0. h \in Tasks OBVIOUS
<1>1. ASSUME NEW k \in Kinds, Receive(h, k) PROVE RowOK' /\ TasksOK' /\ RestOK'
  <2>1. RowOK' BY <1>1, SameRow DEF Receive
  <2>2. TasksOK' BY <1>1 DEF Receive, TasksOK, PcType
  <2>3. events[k] \in 0..MaxEvents BY DEF RestOK
  <2>4. events[k] - 1 \in 0..MaxEvents BY <1>1, <2>3, BoundAssumption DEF Receive
  <2>5. RestOK' BY <1>1, <2>4 DEF Receive, RestOK
  <2>. QED BY <2>1, <2>2, <2>5
<1>2. CASE ProcessDiscovered(h)
  BY <1>0, <1>2, StartConfigureType, ReturnType, SameRow, SameRest DEF ProcessDiscovered
<1>3. CASE BookScan(h)
  <2>1. failed' \in 0..(MaxFailed + 2)
    BY <1>3, FailedAssumption DEF BookScan, FailedScans, RowOK
  <2>2. RowOK' BY <1>3, <2>1 DEF BookScan, RowOK
  <2>3. Goto(h, "degrade") \/ Goto(h, "undegrade") \/ Return(h) BY <1>3 DEF BookScan
  <2>4. TasksOK' BY <1>0, <2>3, GotoType, ReturnType
  <2>5. RestOK' BY <1>3, SameRest DEF BookScan
  <2>. QED BY <2>2, <2>4, <2>5
<1>4. CASE Undegrade(h)
  BY <1>0, <1>4, GotoType, ReturnType, SameRow, SameRest DEF Undegrade
<1>5. CASE SetConfigured(h)
  <2>1. access \in Accesses \cup {None} /\ enabled \in BOOLEAN /\ scan \in BOOLEAN BY DEF RowOK
  <2>2. \/ UNCHANGED row
        \/ SetRow("configured", access, enabled, scan)
        \/ SetRow("configured", access, FALSE, FALSE)
    BY <1>5 DEF SetConfigured
  <2>3. RowOK' BY <2>1, <2>2, RowType, SameRow
  <2>4. TasksOK' /\ RestOK' BY <1>0, <1>5, ReturnType, SameRest DEF SetConfigured
  <2>. QED BY <2>3, <2>4
<1>. QED BY <1>0, <1>1, <1>2, <1>3, <1>4, <1>5, ConfigureStepsType, DegradeStepsType DEF Handle

LEMMA RequestType ==
    ASSUME RowOK, TasksOK, RestOK, NEW r \in Requests, Request(r)
    PROVE  RowOK' /\ TasksOK' /\ RestOK'
<1>0. r \in Tasks OBVIOUS
<1>1. ASSUME NEW role \in Roles \cup {None}, ReadForCreate(r, role)
      PROVE  RowOK' /\ TasksOK' /\ RestOK'
  <2>1. RowOK' BY <1>1, SameRow DEF ReadForCreate
  <2>2. TasksOK' BY <1>0, <1>1 DEF ReadForCreate, TasksOK, PcType
  <2>3. edits' \in 0..MaxEdits BY <1>1, BoundAssumption DEF ReadForCreate, RestOK
  <2>4. RestOK' BY <1>1, <2>3 DEF ReadForCreate, RestOK
  <2>. QED BY <2>1, <2>2, <2>4
<1>2. CASE Insert(r)
  <2>1. CASE st # "absent"
    BY <1>0, <1>2, <2>1, ReturnType, SameRow, SameRest DEF Insert
  <2>2. CASE st = "absent" /\ arg[r] = None
    <3>1. SetRow("detected", None, FALSE, FALSE) /\ Return(r) BY <1>2, <2>2 DEF Insert, Create
    <3>2. RowOK' BY <3>1, RowType
    <3>. QED BY <1>0, <1>2, <3>1, <3>2, ReturnType, SameRest DEF Insert
  <2>3. CASE st = "absent" /\ arg[r] # None
    <3>1. PICK e \in BOOLEAN : SetRow("discovered", arg[r], e, FALSE) BY <1>2, <2>3 DEF Insert, Create
    <3>2. Goto(r, "publish") BY <1>2, <2>3 DEF Insert
    <3>3. arg[r] \in Accesses \cup {None} BY <1>0 DEF TasksOK
    <3>4. RowOK' BY <3>1, <3>3, RowType
    <3>. QED BY <1>0, <1>2, <3>2, <3>4, GotoType, SameRest DEF Insert
  <2>. QED BY <2>1, <2>2, <2>3
<1>3. CASE Move(r)
  <2>1. PICK e \in BOOLEAN : SetRow("discovered", arg[r], e, FALSE) BY <1>3 DEF Move
  <2>2. arg[r] \in Accesses \cup {None} BY <1>0 DEF TasksOK
  <2>3. RowOK' BY <2>1, <2>2, RowType
  <2>. QED BY <1>0, <1>3, <2>3, GotoType, SameRest DEF Move
<1>4. CASE PublishDiscovered(r)
  BY <1>0, <1>4, ReturnType, SameRow, AddType DEF PublishDiscovered
<1>5. CASE StackDeleted(r)
  BY <1>0, <1>5, GotoType, SameRow, SameRest DEF StackDeleted
<1>. QED BY <1>0, <1>1, <1>2, <1>3, <1>4, <1>5, DegradeStepsType DEF Request

LEMMA ConfigureDiscoveredType ==
    ASSUME RowOK, TasksOK, RestOK, AccessMatchesState, ConfigureDiscovered
    PROVE  RowOK' /\ TasksOK' /\ RestOK'
<1>0. Periodic \in Tasks OBVIOUS
<1>1. CASE ListDiscovered
  BY <1>0, <1>1, GotoType, StartConfigureType, SameRow, SameRest DEF ListDiscovered
<1>. QED BY <1>0, <1>1, ConfigureStepsType, DegradeStepsType DEF ConfigureDiscovered

LEMMA FaultType ==
    ASSUME RowOK, TasksOK, RestOK,
           (\E h \in Handlers : Abort(h)) \/ CrashApp \/ CrashDispatching
    PROVE  RowOK' /\ TasksOK' /\ RestOK'
<1>0. faults < MaxFaults /\ faults' = faults + 1 => faults' \in 0..MaxFaults
  BY BoundAssumption DEF RestOK
<1>1. ASSUME NEW h \in Handlers, Abort(h) PROVE RowOK' /\ TasksOK' /\ RestOK'
  BY <1>0, <1>1, RaiseType, SameRow DEF Abort
<1>2. CASE CrashApp
  <2>1. RowOK' BY <1>2, SameRow DEF CrashApp
  <2>2. pc' \in [Tasks -> {"idle", "insert", "move", "publish", "get", "book", "assume", "configure",
                           "degrade", "setDegraded", "undegrade", "setConfigured"}]
    BY <1>2 DEF CrashApp, TasksOK, PcType
  <2>3. TasksOK' BY <1>2, <2>2 DEF CrashApp, TasksOK, PcType
  <2>4. ASSUME NEW k \in Kinds PROVE events[k] + InHand(k) \in 0..MaxEvents
    <3>1. InHand(k) \in Nat
      BY TaskAssumption, FS_Subset, FS_CardinalityType DEF InHand
    <3>. QED BY <1>2, <3>1, BoundAssumption DEF CrashApp, RestOK
  <2>5. RestOK' BY <1>0, <1>2, <2>4 DEF CrashApp, RestOK
  <2>. QED BY <2>1, <2>3, <2>5
<1>3. CASE CrashDispatching
  BY <1>0, <1>3, ReturnType, SameRow DEF CrashDispatching, RestOK
<1>. QED BY <1>1, <1>2, <1>3

LEMMA NextType ==
    ASSUME TypeOK, AccessMatchesState, [Next]_vars
    PROVE  TypeOK'
<1>. RowOK /\ TasksOK /\ RestOK BY TypeParts
<1>. SUFFICES RowOK' /\ TasksOK' /\ RestOK' BY TypeParts DEF TypeOK, RowOK, TasksOK, PcType, RestOK
<1>1. ASSUME NEW h \in Handlers, Handle(h) PROVE RowOK' /\ TasksOK' /\ RestOK'
  BY <1>1, HandleType
<1>2. ASSUME NEW r \in Requests, Request(r) PROVE RowOK' /\ TasksOK' /\ RestOK'
  BY <1>2, RequestType
<1>3. CASE ConfigureDiscovered BY <1>3, ConfigureDiscoveredType
<1>4. CASE CreateOther \/ Delete
  <2>0. edits < MaxEdits /\ edits' = edits + 1 BY <1>4 DEF CreateOther, Delete
  <2>1. edits' \in 0..MaxEdits BY <2>0, BoundAssumption DEF RestOK
  <2>2. RestOK' BY <1>4, <2>1 DEF CreateOther, Delete, RestOK
  <2>3. TasksOK' BY <1>4, SameTasks DEF CreateOther, Delete
  <2>4. RowOK' BY <1>4, RowType DEF CreateOther, Delete
  <2>. QED BY <2>2, <2>3, <2>4
<1>5. CASE Toggle
  <2>1. RowOK' BY <1>5 DEF Toggle, RowOK
  <2>. QED BY <1>5, <2>1, SameTasks, SameRest DEF Toggle
<1>6. CASE Scanned
  BY <1>6, AddType, SameRow, SameTasks DEF Scanned, Collected
<1>7. CASE (\E h \in Handlers : Abort(h)) \/ CrashApp \/ CrashDispatching
  BY <1>7, FaultType
<1>8. CASE Tick
  <2>1. RowOK' BY <1>8 DEF Tick, RowOK, Older
  <2>2. TasksOK' BY <1>8 DEF Tick, TasksOK, PcType, Older
  <2>. QED BY <1>8, <2>1, <2>2, SameRest DEF Tick
<1>9. CASE UNCHANGED vars
  BY <1>9, SameRow, SameTasks, SameRest DEF vars
<1>. QED BY <1>1, <1>2, <1>3, <1>4, <1>5, <1>6, <1>7, <1>8, <1>9 DEF Next

-----------------------------------------------------------------------------
(* State and access.                                                       *)

LEMMA NextAccess ==
    ASSUME TypeOK, AccessMatchesState, [Next]_vars
    PROVE  AccessMatchesState'
<1>. USE NoneAssumption DEF AccessMatchesState, SetRow, Create, Update
<1>0. UNCHANGED row => AccessMatchesState' BY DEF row
<1>1. ASSUME NEW t \in Tasks, ConfigureSteps(t) PROVE AccessMatchesState'
  <2>1. CASE Configure(t)
    BY <1>0, <2>1 DEF Configure, StillDiscovered, TypeOK
  <2>2. CASE ~Configure(t)
    BY <1>0, <1>1, <2>2 DEF ConfigureSteps, RoleAssumed, RoleRefusedTooLong, FastLaneEnds, RetryRole,
                            PermissionMissing
  <2>. QED BY <2>1, <2>2
<1>2. ASSUME NEW t \in Tasks, DegradeSteps(t) PROVE AccessMatchesState'
  BY <1>0, <1>2 DEF DegradeSteps, Degrade, SetDegraded, Degradable
<1>3. ASSUME NEW h \in Handlers, Handle(h) PROVE AccessMatchesState'
  <2>1. CASE SetConfigured(h)
    BY <1>0, <2>1 DEF SetConfigured
  <2>2. CASE BookScan(h)
    BY <2>2 DEF BookScan
  <2>3. CASE (\E k \in Kinds : Receive(h, k)) \/ ProcessDiscovered(h) \/ Undegrade(h)
    BY <1>0, <2>3 DEF Receive, ProcessDiscovered, Undegrade
  <2>. QED BY <1>1, <1>2, <1>3, <2>1, <2>2, <2>3 DEF Handle
<1>4. ASSUME NEW r \in Requests, Request(r) PROVE AccessMatchesState'
  <2>1. CASE Insert(r)
    BY <1>0, <2>1 DEF Insert, TypeOK
  <2>2. CASE Move(r)
    BY <2>2 DEF Move, TypeOK
  <2>3. CASE \/ \E role \in Roles \cup {None} : ReadForCreate(r, role)
             \/ PublishDiscovered(r) \/ StackDeleted(r)
    BY <1>0, <2>3 DEF ReadForCreate, PublishDiscovered, StackDeleted
  <2>. QED BY <1>2, <1>4, <2>1, <2>2, <2>3 DEF Request
<1>5. CASE ConfigureDiscovered
  BY <1>0, <1>1, <1>2, <1>5 DEF ConfigureDiscovered, ListDiscovered
<1>6. CASE CreateOther \/ Delete \/ Toggle
  BY <1>6 DEF CreateOther, Delete, Toggle, TypeOK
<1>7. CASE Scanned \/ (\E h \in Handlers : Abort(h)) \/ CrashApp \/ CrashDispatching
  BY <1>0, <1>7 DEF Scanned, Collected, Abort, CrashApp, CrashDispatching
<1>8. CASE Tick BY <1>8 DEF Tick
<1>9. CASE UNCHANGED vars BY <1>0, <1>9 DEF vars
<1>. QED BY <1>3, <1>4, <1>5, <1>6, <1>7, <1>8, <1>9 DEF Next

\* The invariant every theorem below rests on: what a task writes is well typed only because the row
\* it has read had an access.
IInv == TypeOK /\ AccessMatchesState

LEMMA Invariance == Spec => []IInv
<1>1. Init => IInv
  BY InitType, NoneAssumption DEF Init, IInv, AccessMatchesState
<1>2. IInv /\ [Next]_vars => IInv'
  BY NextType, NextAccess DEF IInv
<1>. QED BY <1>1, <1>2, PTL DEF Spec

\* Rows and tasks keep their types, whatever the interleaving: in particular the role that is tried
\* in configure_account is a role, since only an account with access is configurable.
THEOREM TypeCorrect == Spec => []TypeOK
<1>1. IInv => TypeOK BY DEF IInv
<1>. QED BY <1>1, Invariance, PTL

\* No update of any task, based on whatever it has read before, leaves a row to_model cannot read.
THEOREM RowStaysReadable == Spec => []AccessMatchesState
<1>1. IInv => AccessMatchesState BY DEF IInv
<1>. QED BY <1>1, Invariance, PTL

-----------------------------------------------------------------------------
(* The lifecycle.                                                          *)

\* A write of the row is a step of the lifecycle; every other step leaves state, access and switch.
LEMMA NextLifecycle ==
    ASSUME TypeOK, AccessMatchesState, [Next]_vars
    PROVE  [Lifecycle!Next]_<<st, access, enabled>>
<1>. DEFINE Allowed == [Lifecycle!Next]_<<st, access, enabled>>
<1>. USE DEF SetRow, Create, Update
<1>0. UNCHANGED row => Allowed BY DEF row
<1>1. ASSUME NEW t \in Tasks, ConfigureSteps(t) PROVE Allowed
  <2>1. CASE Configure(t) /\ StillDiscovered
    <3>1. Lifecycle!Configure
      BY <2>1 DEF Configure, StillDiscovered, TypeOK, Lifecycle!Configure
    <3>. QED BY <3>1 DEF Lifecycle!Next
  <2>2. CASE ~(Configure(t) /\ StillDiscovered)
    BY <1>0, <1>1, <2>2 DEF ConfigureSteps, RoleAssumed, RoleRefusedTooLong, FastLaneEnds, RetryRole,
                            PermissionMissing, Configure
  <2>. QED BY <2>1, <2>2
<1>2. ASSUME NEW t \in Tasks, DegradeSteps(t) PROVE Allowed
  <2>1. CASE SetDegraded(t) /\ Degradable /\ st # "degraded"
    <3>1. Lifecycle!Degrade
      BY <2>1 DEF SetDegraded, Degradable, AccessMatchesState, Lifecycle!Degrade
    <3>. QED BY <3>1 DEF Lifecycle!Next
  <2>2. CASE SetDegraded(t) /\ Degradable /\ st = "degraded"
    BY <2>2 DEF SetDegraded
  <2>3. CASE ~(SetDegraded(t) /\ Degradable)
    BY <1>0, <1>2, <2>3 DEF DegradeSteps, Degrade, SetDegraded
  <2>. QED BY <2>1, <2>2, <2>3
<1>3. ASSUME NEW h \in Handlers, Handle(h) PROVE Allowed
  <2>1. CASE SetConfigured(h) /\ access # None
    <3>1. Lifecycle!Recover
      BY <2>1 DEF SetConfigured, AccessMatchesState, Lifecycle!Recover
    <3>. QED BY <3>1 DEF Lifecycle!Next
  <2>2. CASE SetConfigured(h) /\ access = None
    BY <1>0, <2>2 DEF SetConfigured
  <2>3. CASE BookScan(h) \/ (\E k \in Kinds : Receive(h, k)) \/ ProcessDiscovered(h) \/ Undegrade(h)
    BY <1>0, <2>3 DEF BookScan, Receive, ProcessDiscovered, Undegrade
  <2>. QED BY <1>1, <1>2, <1>3, <2>1, <2>2, <2>3 DEF Handle
<1>4. ASSUME NEW r \in Requests, Request(r) PROVE Allowed
  <2>1. CASE Insert(r) /\ st # "absent"
    BY <1>0, <2>1 DEF Insert
  <2>2. CASE Insert(r) /\ st = "absent" /\ arg[r] = None
    <3>1. Lifecycle!Detect
      BY <2>2 DEF Insert, TypeOK, AccessMatchesState, Lifecycle!Detect
    <3>. QED BY <3>1 DEF Lifecycle!Next
  <2>3. CASE Move(r) \/ (Insert(r) /\ st = "absent" /\ arg[r] # None)
    <3>1. Lifecycle!Discover
      BY <2>3 DEF Move, Insert, TypeOK, Lifecycle!Discover
    <3>. QED BY <3>1 DEF Lifecycle!Next
  <2>4. CASE \/ \E role \in Roles \cup {None} : ReadForCreate(r, role)
             \/ PublishDiscovered(r) \/ StackDeleted(r)
    BY <1>0, <2>4 DEF ReadForCreate, PublishDiscovered, StackDeleted
  <2>. QED BY <1>2, <1>4, <2>1, <2>2, <2>3, <2>4 DEF Request
<1>5. CASE ConfigureDiscovered
  BY <1>0, <1>1, <1>2, <1>5 DEF ConfigureDiscovered, ListDiscovered
<1>6. CASE CreateOther
  <2>1. Lifecycle!Connect BY <1>6 DEF CreateOther, Lifecycle!Connect
  <2>. QED BY <2>1 DEF Lifecycle!Next
<1>7. CASE Delete
  <2>1. Lifecycle!Remove BY <1>7 DEF Delete, Lifecycle!Remove
  <2>. QED BY <2>1 DEF Lifecycle!Next
<1>8. CASE Toggle
  <2>1. Lifecycle!Switch \/ UNCHANGED <<st, access, enabled>> BY <1>8 DEF Toggle, Lifecycle!Switch
  <2>. QED BY <2>1 DEF Lifecycle!Next
<1>9. CASE \/ Scanned \/ (\E h \in Handlers : Abort(h)) \/ CrashApp \/ CrashDispatching \/ Tick
           \/ UNCHANGED vars
  BY <1>0, <1>9 DEF Scanned, Collected, Abort, CrashApp, CrashDispatching, Tick, vars
<1>. QED BY <1>3, <1>4, <1>5, <1>6, <1>7, <1>8, <1>9 DEF Next

\* CloudAccountService implements the lifecycle: nobody but a user who names a role revives a deleted
\* account, degrading and recovering keep the access, and nothing but a user or the limit of the
\* workspace switches an account on, for any number of concurrent handlers, requests and crashes.
THEOREM LifecycleRefined == Spec => ImplementsLifecycle
<1>1. Init => Lifecycle!Init BY DEF Init, Lifecycle!Init
<1>2. IInv /\ [Next]_vars => [Lifecycle!Next]_<<st, access, enabled>>
  BY NextLifecycle DEF IInv
<1>. QED BY <1>1, <1>2, Invariance, PTL DEF Spec, ImplementsLifecycle, Lifecycle!Spec

=============================================================================
