-------------------------- MODULE Dispatcher_proofs --------------------------
(***************************************************************************)
(* Theorems about the collect run, for any accounts, jobs and tasks, any   *)
(* lifetime of the keys and any number of crashes.                         *)
(***************************************************************************)
EXTENDS DispatcherProps, TLAPS

USE TtlAssumption, CrashAssumption, NoneAssumption, IdAssumption
    DEF vars, store, listener, tasks

-----------------------------------------------------------------------------
(* Type correctness.                                                       *)

LEMMA InitType == Init => TypeOK
  BY DEF Init, TypeOK, Empty, Entry, Done, ListenerSteps

\* A task that triggers a collection.
LEMMA TriggerType ==
  ASSUME TypeOK, NEW t \in Tasks, Trigger(t)
  PROVE  TypeOK'
  <1> USE DEF TypeOK
  <1>1. ASSUME NEW a \in Accounts, CheckOngoing(t, a) PROVE TypeOK'
    BY <1>1 DEF CheckOngoing
  <1>2. CASE GiveUp(t)
    BY <1>2 DEF GiveUp
  <1>3. CASE Track(t)
    BY <1>3 DEF Track, Entry, Renew
  <1>4. CASE Enqueue(t)
    BY <1>4 DEF Enqueue
  <1>5. QED BY <1>1, <1>2, <1>3, <1>4 DEF Trigger

LEMMA WorkerType == TypeOK /\ Worker => TypeOK'
  <1> SUFFICES ASSUME TypeOK, Worker PROVE TypeOK'
    OBVIOUS
  <1> USE DEF TypeOK
  <1>1. ASSUME NEW j \in Jobs \cup Posts, Lose(j) PROVE TypeOK'
    BY <1>1 DEF Lose
  <1>2. ASSUME NEW j \in Jobs \cup Posts, NEW ok \in BOOLEAN, Finish(j, ok) PROVE TypeOK'
    BY <1>2 DEF Finish, Message
  <1>3. QED BY <1>1, <1>2 DEF Worker

\* The listener, from the delivery of a message to its acknowledgement.
LEMMA ListenType == TypeOK /\ Listen => TypeOK'
  <1> SUFFICES ASSUME TypeOK, Listen PROVE TypeOK'
    OBVIOUS
  <1> USE DEF TypeOK, Goto, ListenerSteps
  <1>1. ASSUME NEW m \in stream, Receive(m) PROVE TypeOK'
    BY <1>1 DEF Receive, Message
  <1>2. CASE AddMetering
    BY <1>2 DEF AddMetering, Records
  <1>3. CASE Lookup
    BY <1>3 DEF Lookup
  <1>20. CASE FindEntry
    BY <1>20 DEF FindEntry
  <1>4. CASE Reread
    BY <1>4 DEF Reread
  <1>5. CASE RereadRaises
    BY <1>5 DEF RereadRaises, Empty, Entry
  <1>6. CASE WriteResult
    BY <1>6 DEF WriteResult, Entry, Done
  <1>7. CASE FindWorkspace
    BY <1>7 DEF FindWorkspace
  <1>8. CASE ReadState
    BY <1>8 DEF ReadState
  <1>9. CASE EnqueuePost
    BY <1>9 DEF EnqueuePost, FreePosts
  <1>10. CASE PostCollectDone
    BY <1>10 DEF PostCollectDone
  <1>11. CASE Complete
    BY <1>11 DEF Complete
  <1>12. CASE Publish
    BY <1>12 DEF Publish
  <1>13. CASE DeleteProgress
    BY <1>13 DEF DeleteProgress, Deleted, Empty, Entry
  <1>14. CASE ListJobs
    BY <1>14 DEF ListJobs
  <1>15. CASE DeleteJobKey
    BY <1>15 DEF DeleteJobKey
  <1>16. CASE JobKeysDeleted
    BY <1>16 DEF JobKeysDeleted
  <1>17. CASE DeleteJobs
    BY <1>17 DEF DeleteJobs
  <1>18. CASE Acknowledge
    BY <1>18 DEF Acknowledge, Acknowledged, Empty, Entry
  <1>19. QED
    BY <1>1, <1>2, <1>3, <1>4, <1>5, <1>6, <1>7, <1>8, <1>9, <1>10, <1>11, <1>12, <1>13, <1>14,
       <1>15, <1>16, <1>17, <1>18, <1>20 DEF Listen

LEMMA TickType == TypeOK /\ Tick => TypeOK'
  BY DEF TypeOK, Tick, Dec, Empty, Entry

LEMMA CrashType == TypeOK /\ Crash => TypeOK'
  BY DEF TypeOK, Crash, Empty, Entry, ListenerSteps

LEMMA NextType == TypeOK /\ [Next]_vars => TypeOK'
  <1>1. TypeOK /\ UNCHANGED vars => TypeOK'
    BY DEF TypeOK
  <1>2. QED BY <1>1, TriggerType, WorkerType, ListenType, TickType, CrashType DEF Next, Work

\* The variables have their types, the listener handles a message that is still pending on the
\* stream, and a task that has tracked a job still knows its account and its id.
THEOREM TypeCorrect == Spec => []TypeOK
  <1>1. QED BY InitType, NextType, PTL DEF Spec

-----------------------------------------------------------------------------
(* The expiry of the progress store.  Only Track writes a running entry or *)
(* a job, and it renews the expiry in the same transaction; a hash loses   *)
(* its expiry only together with its entries.                              *)

LEMMA RunningHasTtlStep == TypeOK /\ RunningHasTtl /\ [Next]_vars => RunningHasTtl'
  <1> SUFFICES ASSUME TypeOK, RunningHasTtl, [Next]_vars PROVE RunningHasTtl'
    OBVIOUS
  <1> USE DEF RunningHasTtl
  <1>1. ASSUME NEW t \in Tasks, Trigger(t) PROVE RunningHasTtl'
    <2>1. CASE Track(t)
      BY <2>1 DEF Track, Renew
    <2>2. CASE GiveUp(t) \/ Enqueue(t) \/ \E a \in Accounts : CheckOngoing(t, a)
      BY <2>2 DEF GiveUp, Enqueue, CheckOngoing
    <2>3. QED BY <1>1, <2>1, <2>2 DEF Trigger
  <1>2. CASE Worker
    BY <1>2 DEF Worker, Lose, Finish
  <1>3. CASE Listen
    <2>1. CASE WriteResult
      BY <2>1 DEF WriteResult, TypeOK
    <2>2. CASE DeleteProgress
      BY <2>2 DEF DeleteProgress, Deleted, Empty
    <2>3. CASE ~WriteResult /\ ~DeleteProgress
      BY <1>3, <2>3
      DEF Listen, Receive, AddMetering, Lookup, FindEntry, Reread, RereadRaises, FindWorkspace, ReadState,
          EnqueuePost, PostCollectDone, Complete, Publish, ListJobs, DeleteJobKey, JobKeysDeleted,
          DeleteJobs, Acknowledge
    <2>4. QED BY <2>1, <2>2, <2>3
  <1>4. CASE Tick
    BY <1>4 DEF Tick, Dec, Empty, TypeOK
  <1>5. CASE Crash
    BY <1>5 DEF Crash
  <1>6. CASE UNCHANGED vars
    BY <1>6
  <1>7. QED BY <1>1, <1>2, <1>3, <1>4, <1>5, <1>6 DEF Next, Work

\* Whatever the order of overlapping runs, expiries, results that come late and crashes, an account
\* that is still being collected sits in a hash that expires.
THEOREM RunningAlwaysExpires == Spec => []RunningHasTtl
  <1>1. Init => RunningHasTtl
    BY DEF Init, RunningHasTtl, Empty
  <1>2. QED BY <1>1, TypeCorrect, RunningHasTtlStep, PTL DEF Spec

LEMMA JobsHaveTtlStep == TypeOK /\ JobsHaveTtl /\ [Next]_vars => JobsHaveTtl'
  <1> SUFFICES ASSUME TypeOK, JobsHaveTtl, [Next]_vars PROVE JobsHaveTtl'
    OBVIOUS
  <1> USE DEF JobsHaveTtl
  <1>1. ASSUME NEW t \in Tasks, Trigger(t) PROVE JobsHaveTtl'
    <2>1. CASE Track(t)
      BY <2>1 DEF Track, Renew
    <2>2. CASE GiveUp(t) \/ Enqueue(t) \/ \E a \in Accounts : CheckOngoing(t, a)
      BY <2>2 DEF GiveUp, Enqueue, CheckOngoing
    <2>3. QED BY <1>1, <2>1, <2>2 DEF Trigger
  <1>2. CASE Worker
    BY <1>2 DEF Worker, Lose, Finish
  <1>3. CASE Listen
    <2>1. CASE DeleteJobs
      BY <2>1 DEF DeleteJobs
    <2>2. CASE ~DeleteJobs
      BY <1>3, <2>2
      DEF Listen, Receive, AddMetering, Lookup, FindEntry, Reread, RereadRaises, WriteResult, FindWorkspace,
          ReadState, EnqueuePost, PostCollectDone, Complete, Publish, DeleteProgress, ListJobs,
          DeleteJobKey, JobKeysDeleted, Acknowledge
    <2>3. QED BY <2>1, <2>2
  <1>4. CASE Tick
    BY <1>4 DEF Tick, Dec, TypeOK
  <1>5. CASE Crash
    BY <1>5 DEF Crash
  <1>6. CASE UNCHANGED vars
    BY <1>6
  <1>7. QED BY <1>1, <1>2, <1>3, <1>4, <1>5, <1>6 DEF Next, Work

\* The jobs hash, which concurrent triggers write while a run is being deleted, never outlives its
\* last job by more than the lifetime of a key.
THEOREM JobsAlwaysExpire == Spec => []JobsHaveTtl
  <1>1. Init => JobsHaveTtl
    BY DEF Init, JobsHaveTtl
  <1>2. QED BY <1>1, TypeCorrect, JobsHaveTtlStep, PTL DEF Spec

-----------------------------------------------------------------------------
(* Metering.  Between the metering of a message and the booking of its     *)
(* result the message is pending, so its id is not fresh and no task can   *)
(* start a job under it; a crash sends the handler back to the metering.   *)

MeteredInv ==
    (lpc \in {"lookup", "entry", "reread", "write"} /\ msg.ok) => metered[msg.id] > 0

LEMMA MeteredInvStep == TypeOK /\ MeteredInv /\ [Next]_vars => MeteredInv'
  <1> SUFFICES ASSUME TypeOK, MeteredInv, [Next]_vars PROVE MeteredInv'
    OBVIOUS
  <1> USE DEF MeteredInv
  <1>1. ASSUME NEW t \in Tasks, Trigger(t) PROVE MeteredInv'
    <2>1. CASE Track(t)
      <3>1. SUFFICES ASSUME lpc \in {"lookup", "entry", "reread", "write"}, msg.ok
                     PROVE  metered'[msg.id] > 0
        BY <2>1 DEF Track
      <3>2. PICK j \in Jobs : Fresh(j) /\ metered' = [metered EXCEPT ![j] = 0]
        BY <2>1 DEF Track
      <3>3. msg \in stream /\ msg.id \in Jobs
        BY <3>1 DEF TypeOK
      <3>4. msg.id # j
        BY <3>2, <3>3 DEF Fresh
      <3>5. QED BY <3>1, <3>2, <3>3, <3>4 DEF TypeOK
    <2>2. CASE GiveUp(t) \/ Enqueue(t) \/ \E a \in Accounts : CheckOngoing(t, a)
      BY <2>2 DEF GiveUp, Enqueue, CheckOngoing
    <2>3. QED BY <1>1, <2>1, <2>2 DEF Trigger
  <1>2. CASE Worker
    BY <1>2 DEF Worker, Lose, Finish
  <1>3. CASE Listen
    <2>1. CASE AddMetering
      BY <2>1 DEF AddMetering, Records, Goto, TypeOK
    <2>2. CASE ~AddMetering
      BY <1>3, <2>2
      DEF Listen, Receive, Lookup, FindEntry, Reread, RereadRaises, WriteResult, FindWorkspace, ReadState,
          EnqueuePost, PostCollectDone, Complete, Publish, DeleteProgress, ListJobs, DeleteJobKey,
          JobKeysDeleted, DeleteJobs, Acknowledge, Goto
    <2>3. QED BY <2>1, <2>2
  <1>4. CASE Tick
    BY <1>4 DEF Tick
  <1>5. CASE Crash
    BY <1>5 DEF Crash
  <1>6. CASE UNCHANGED vars
    BY <1>6
  <1>7. QED BY <1>1, <1>2, <1>3, <1>4, <1>5, <1>6 DEF Next, Work

\* Only WriteResult turns an entry into a success, and it does so for a metered message.
LEMMA CollectedStep ==
  ASSUME TypeOK, MeteredInv, [Next]_vars,
         NEW a \in Accounts, progress[a] # "ok", progress'[a] = "ok"
  PROVE  metered[msg.id] > 0
  <1>1. ASSUME NEW t \in Tasks, Trigger(t) PROVE FALSE
    BY <1>1 DEF Trigger, Track, GiveUp, Enqueue, CheckOngoing, TypeOK
  <1>2. CASE Worker
    BY <1>2 DEF Worker, Lose, Finish
  <1>3. CASE Listen
    <2>1. CASE WriteResult
      BY <2>1 DEF WriteResult, MeteredInv, TypeOK
    <2>2. CASE DeleteProgress
      BY <2>2 DEF DeleteProgress, Deleted, Empty
    <2>3. CASE ~WriteResult /\ ~DeleteProgress
      BY <1>3, <2>3
      DEF Listen, Receive, AddMetering, Lookup, FindEntry, Reread, RereadRaises, FindWorkspace, ReadState,
          EnqueuePost, PostCollectDone, Complete, Publish, ListJobs, DeleteJobKey, JobKeysDeleted,
          DeleteJobs, Acknowledge
    <2>4. QED BY <2>1, <2>2, <2>3
  <1>4. CASE Tick
    BY <1>4 DEF Tick, Empty
  <1>5. CASE Crash
    BY <1>5 DEF Crash
  <1>6. CASE UNCHANGED vars
    BY <1>6
  <1>7. QED BY <1>1, <1>2, <1>3, <1>4, <1>5, <1>6 DEF Next, Work

\* No usage is lost: a crash between the metering and the booking of a result, a message that is
\* delivered again and an id that is used again cannot make an unmetered collection visible.
THEOREM MeteredFirst == Spec => MeteredBeforeCollected
  <1>1. Init => MeteredInv
    BY DEF Init, MeteredInv
  <1>2. TypeOK /\ MeteredInv /\ [Next]_vars =>
          [\A a \in Accounts :
             (progress[a] # "ok" /\ progress'[a] = "ok") => metered[msg.id] > 0]_vars
    BY CollectedStep
  <1>3. QED BY <1>1, <1>2, TypeCorrect, MeteredInvStep, PTL DEF Spec, MeteredBeforeCollected

-----------------------------------------------------------------------------
(* Completion.                                                             *)

LEMMA PostCollectHasInputStep ==
  TypeOK /\ PostCollectHasInput /\ [Next]_vars => PostCollectHasInput'
  <1> SUFFICES ASSUME TypeOK, PostCollectHasInput, [Next]_vars PROVE PostCollectHasInput'
    OBVIOUS
  <1> USE DEF PostCollectHasInput
  <1>1. ASSUME NEW t \in Tasks, Trigger(t) PROVE PostCollectHasInput'
    BY <1>1 DEF Trigger, Track, GiveUp, Enqueue, CheckOngoing
  <1>2. CASE Worker
    BY <1>2 DEF Worker, Lose, Finish
  <1>3. CASE Listen
    <2>1. CASE ReadState
      BY <2>1 DEF ReadState, Goto, AllDone, AllFailed, TypeOK, Entry, Done
    <2>2. CASE ~ReadState
      BY <1>3, <2>2
      DEF Listen, Receive, AddMetering, Lookup, FindEntry, Reread, RereadRaises, WriteResult, FindWorkspace,
          EnqueuePost, PostCollectDone, Complete, Publish, DeleteProgress, ListJobs, DeleteJobKey,
          JobKeysDeleted, DeleteJobs, Acknowledge, Goto
    <2>3. QED BY <2>1, <2>2
  <1>4. CASE Tick
    BY <1>4 DEF Tick
  <1>5. CASE Crash
    BY <1>5 DEF Crash
  <1>6. CASE UNCHANGED vars
    BY <1>6
  <1>7. QED BY <1>1, <1>2, <1>3, <1>4, <1>5, <1>6 DEF Next, Work

\* The branch "Nothing to post collect" of collect_job_finished is dead code.
THEOREM PostCollectNeverEmpty == Spec => []PostCollectHasInput
  <1>1. Init => PostCollectHasInput
    BY DEF Init, PostCollectHasInput
  <1>2. QED BY <1>1, TypeCorrect, PostCollectHasInputStep, PTL DEF Spec

-----------------------------------------------------------------------------
(* While nothing expires and the process stays up, the collect run         *)
(* implements CollectRun.  A report is taken at the moment the listener    *)
(* reads the hash for the last time (Complete); from then on the entries   *)
(* of the report wait for their deletion and are nothing to the outside.   *)

\* Nothing that is about to be published is still being collected, and a result is booked only on
\* an account that has an entry.
CutInv ==
    /\ lpc = "publish" => \A a \in Accounts : snap[a] # "running"
    /\ lpc \in {"reread", "write"} => progress[acc] # "none"

TimelyInv == TypeOK /\ CutInv

LEMMA TimelyType == TypeOK /\ [Work]_vars => TypeOK'
  BY NextType DEF Next

LEMMA CutStep == TypeOK /\ CutInv /\ [Work]_vars => CutInv'
  <1> SUFFICES ASSUME TypeOK, CutInv, [Work]_vars PROVE CutInv'
    OBVIOUS
  <1> USE DEF CutInv, Goto
  <1>1. ASSUME NEW t \in Tasks, Trigger(t) PROVE CutInv'
    BY <1>1 DEF Trigger, Track, GiveUp, Enqueue, CheckOngoing, TypeOK
  <1>2. CASE Worker
    BY <1>2 DEF Worker, Lose, Finish
  <1>3. CASE Listen
    <2>1. CASE Complete
      BY <2>1 DEF Complete, AllDone
    <2>2. CASE FindEntry
      BY <2>2 DEF FindEntry
    <2>3. CASE WriteResult \/ DeleteProgress
      BY <2>3 DEF WriteResult, DeleteProgress
    <2>4. CASE ~Complete /\ ~FindEntry /\ ~WriteResult /\ ~DeleteProgress
      BY <1>3, <2>4
      DEF Listen, Receive, AddMetering, Lookup, Reread, RereadRaises, FindWorkspace, ReadState,
          EnqueuePost, PostCollectDone, Publish, ListJobs, DeleteJobKey, JobKeysDeleted,
          DeleteJobs, Acknowledge
    <2>5. QED BY <2>1, <2>2, <2>3, <2>4
  <1>4. CASE UNCHANGED vars
    BY <1>4
  <1>5. QED BY <1>1, <1>2, <1>3, <1>4 DEF Work

LEMMA TimelyInvHolds == TimelySpec => []TimelyInv
  <1>1. Init => CutInv
    BY DEF Init, CutInv
  <1>2. QED BY <1>1, InitType, TimelyType, CutStep, PTL DEF TimelySpec, TimelyInv

LEMMA InitRefines == Init => Run!Init
  BY DEF Init, Run!Init, Run!Nothing, Empty, Completing, Done

LEMMA TriggerRefines ==
  ASSUME TypeOK, CutInv, NEW t \in Tasks, Trigger(t)
  PROVE  Run!Next \/ UNCHANGED Run!vars
  <1> USE DEF TypeOK, Run!vars, Completing
  <1>1. CASE Track(t)
    <2>1. PICK a \in Accounts : a = tacc[t]
      BY <1>1 DEF Track
    <2>2. Run!Start(a)
      BY <1>1, <2>1 DEF Track, Run!Start, Done
    <2>3. QED BY <2>2 DEF Run!Next
  <1>2. CASE GiveUp(t) \/ Enqueue(t) \/ \E a \in Accounts : CheckOngoing(t, a)
    BY <1>2 DEF GiveUp, Enqueue, CheckOngoing
  <1>3. QED BY <1>1, <1>2 DEF Trigger

LEMMA ListenRefines ==
  ASSUME TypeOK, CutInv, Listen
  PROVE  Run!Next \/ UNCHANGED Run!vars
  <1> USE DEF TypeOK, Run!vars, Completing, Goto
  <1>1. CASE WriteResult
    <2>1. PICK a \in Accounts : a = acc
      BY <1>1 DEF WriteResult
    <2>2. Run!Finish(a)
      BY <1>1, <2>1 DEF WriteResult, CutInv, Run!Finish, Run!Result, Done
    <2>3. QED BY <2>2 DEF Run!Next
  <1>2. CASE Complete
    <2>1. CASE ~AllDone
      BY <1>2, <2>1 DEF Complete
    <2>2. CASE AllDone
      <3>1. Run!Report
        BY <1>2, <2>2 DEF Complete, AllDone, Run!Report, Run!Nothing, Empty, Entry
      <3>2. QED BY <3>1 DEF Run!Next
    <2>3. QED BY <2>1, <2>2
  <1>3. CASE Publish
    <2>1. CASE snap = Empty
      BY <1>3, <2>1 DEF Publish
    <2>2. CASE snap # Empty
      <3>1. Run!Deliver
        BY <1>3, <2>2 DEF Publish, Run!Deliver, Run!Nothing, Empty
      <3>2. QED BY <3>1 DEF Run!Next
    <2>3. QED BY <2>1, <2>2
  <1>4. CASE DeleteProgress
    <2> DEFINE phase == [a \in Accounts |->
                           IF Completing /\ progress[a] \in Done THEN "none" ELSE progress[a]]
               S == {a \in Accounts : phase[a] = "running"}
    <2>1. phase' = [a \in Accounts |-> IF a \in S THEN "none" ELSE phase[a]]
      BY <1>4 DEF DeleteProgress, Deleted, Empty, Entry, Done
    <2>2. S \in SUBSET {a \in Accounts : phase[a] = "running"}
      OBVIOUS
    <2>3. (IF lpc = "publish" THEN snap ELSE Empty)' = IF lpc = "publish" THEN snap ELSE Empty
      BY <1>4 DEF DeleteProgress, Empty
    <2> HIDE DEF S
    <2>4. Run!Abandon
      BY <2>1, <2>2, <2>3 DEF Run!Abandon
    <2>5. QED BY <2>4 DEF Run!Next
  <1>5. CASE ~WriteResult /\ ~Complete /\ ~Publish /\ ~DeleteProgress
    BY <1>5
    DEF Listen, Receive, AddMetering, Lookup, FindEntry, Reread, RereadRaises, FindWorkspace, ReadState,
        EnqueuePost, PostCollectDone, ListJobs, DeleteJobKey, JobKeysDeleted, DeleteJobs,
        Acknowledge
  <1>6. QED BY <1>1, <1>2, <1>3, <1>4, <1>5

LEMMA NextRefines == TypeOK /\ CutInv /\ [Work]_vars => [Run!Next]_Run!vars
  <1>1. TypeOK /\ Worker => UNCHANGED Run!vars
    BY DEF Worker, Lose, Finish, Run!vars, Completing
  <1>2. UNCHANGED vars => UNCHANGED Run!vars
    BY DEF Run!vars, Completing
  <1>3. QED BY <1>1, <1>2, TriggerRefines, ListenRefines DEF Work

\* Every report of the code is a consistent cut: it is taken while no account is being collected,
\* it holds every result there is, and no result is told twice or dropped.
THEOREM CollectRunRefined == TimelySpec => ImplementsCollectRun
  <1>1. QED
    BY InitRefines, NextRefines, TimelyInvHolds, PTL
    DEF TimelySpec, TimelyInv, ImplementsCollectRun, Run!Spec

-----------------------------------------------------------------------------
(* While nothing expires and the process stays up, a job is metered once.  *)

\* the listener has metered its message and not yet let go of it
PastMetering == lpc \notin {"idle", "metering"}

\* A job is held in one place: by the task that has tracked it, in the queue, or in one message of the
\* stream.  Once it is metered only the message the listener is about to acknowledge holds it.
OnePlace ==
    /\ \A t \in Tasks : tjob[t] \in Jobs =>
          /\ tjob[t] \notin queue
          /\ \A m \in stream : m.id # tjob[t]
          /\ \A u \in Tasks : tjob[u] = tjob[t] => u = t
    /\ \A m \in stream : m.id \in Jobs =>
          /\ m.id \notin queue
          /\ \A n \in stream : n.id = m.id => n = m

MeteredPlace ==
    \A j \in Jobs : metered[j] > 0 =>
        /\ metered[j] <= 1
        /\ j \notin queue
        /\ \A t \in Tasks : tjob[t] # j
        /\ \A m \in stream : m.id = j => m = msg /\ PastMetering

OnceInv == OnePlace /\ MeteredPlace

LEMMA TriggerOnce ==
  ASSUME TypeOK, OnceInv, NEW t \in Tasks, Trigger(t)
  PROVE  OnceInv'
  <1>0. None \notin Jobs BY NoneAssumption
  <1>. USE DEF OnceInv, OnePlace, MeteredPlace, PastMetering, listener, store
  <1>1. ASSUME NEW a \in Accounts, CheckOngoing(t, a) PROVE OnceInv'
    BY <1>1 DEF CheckOngoing
  <1>2. CASE GiveUp(t)
    BY <1>2 DEF GiveUp
  <1>3. CASE Track(t)
    <2>1. PICK j \in Jobs : /\ Fresh(j)
                            /\ tjob' = [tjob EXCEPT ![t] = j]
                            /\ metered' = [metered EXCEPT ![j] = 0]
      BY <1>3 DEF Track
    <2>2. UNCHANGED <<queue, stream, lpc, msg>> BY <1>3 DEF Track
    <2>3. \A u \in Tasks : tjob'[u] = IF u = t THEN j ELSE tjob[u] BY <2>1 DEF TypeOK
    <2>4. \A i \in Jobs : metered'[i] = IF i = j THEN 0 ELSE metered[i] BY <2>1 DEF TypeOK
    <2>5. OnePlace' BY <2>1, <2>2, <2>3 DEF Fresh
    <2>6. MeteredPlace' BY <2>1, <2>2, <2>3, <2>4
    <2>7. QED BY <2>5, <2>6
  <1>4. CASE Enqueue(t)
    <2>1. /\ queue' = queue \cup {tjob[t]} /\ tjob[t] \in Jobs
          /\ UNCHANGED <<stream, lpc, msg, metered>>
      BY <1>4 DEF Enqueue, TypeOK
    <2>2. \A u \in Tasks : tjob'[u] = IF u = t THEN None ELSE tjob[u]
      BY <1>4 DEF Enqueue, TypeOK
    <2>3. OnePlace' BY <1>0, <2>1, <2>2
    <2>4. MeteredPlace' BY <1>0, <2>1, <2>2
    <2>5. QED BY <2>3, <2>4
  <1>5. QED BY <1>1, <1>2, <1>3, <1>4 DEF Trigger

LEMMA WorkerOnce ==
  ASSUME TypeOK, OnceInv, Worker
  PROVE  OnceInv'
  <1>. USE DEF OnceInv, OnePlace, MeteredPlace, PastMetering, listener, store, tasks
  <1>1. ASSUME NEW j \in Jobs \cup Posts, Lose(j) PROVE OnceInv'
    BY <1>1 DEF Lose
  <1>2. ASSUME NEW j \in Jobs \cup Posts, NEW ok \in BOOLEAN, Finish(j, ok) PROVE OnceInv'
    <2>1. /\ j \in queue /\ queue' = queue \ {j}
          /\ stream' = stream \cup {[id |-> j, ok |-> ok]}
          /\ UNCHANGED <<tjob, lpc, msg, metered>>
      BY <1>2 DEF Finish
    <2>2. OnePlace' BY <2>1
    <2>3. MeteredPlace' BY <2>1
    <2>4. QED BY <2>2, <2>3
  <1>3. QED BY <1>1, <1>2 DEF Worker

LEMMA ListenOnce ==
  ASSUME TypeOK, CutInv, OnceInv, Listen
  PROVE  OnceInv'
  <1>. USE DEF OnceInv, OnePlace, MeteredPlace, PastMetering, store, tasks, Goto
  <1>1. ASSUME NEW m \in stream, Receive(m) PROVE OnceInv'
    <2>1. lpc = "idle" /\ UNCHANGED <<queue, stream, tjob, metered>> BY <1>1 DEF Receive
    <2>2. \A j \in Jobs : metered[j] > 0 => \A n \in stream : n.id # j BY <2>1
    <2>3. QED BY <2>1, <2>2
  <1>2. CASE AddMetering
    <2>1. /\ msg \in stream /\ msg.id \in Jobs /\ lpc = "metering" /\ lpc' = "lookup"
          /\ metered' = [metered EXCEPT ![msg.id] = Records(msg.id)]
          /\ UNCHANGED <<queue, stream, tjob, msg>>
      BY <1>2 DEF AddMetering, TypeOK
    <2>2. metered[msg.id] = 0 BY <2>1 DEF TypeOK
    <2>3. \A j \in Jobs : metered'[j] = IF j = msg.id THEN 1 ELSE metered[j]
      BY <2>1, <2>2 DEF TypeOK, Records
    <2>4. OnePlace' BY <2>1
    <2>5. MeteredPlace' BY <2>1, <2>3
    <2>6. QED BY <2>4, <2>5
  <1>3. CASE RereadRaises
    BY <1>3 DEF RereadRaises, CutInv
  <1>4. CASE EnqueuePost
    <2>1. UNCHANGED <<stream, tjob, msg, metered>> /\ lpc = "enqueuePost" /\ lpc' = "ack"
      BY <1>4 DEF EnqueuePost
    <2>2. \A j \in Jobs : j \in queue' => j \in queue
      BY <1>4, IdAssumption DEF EnqueuePost, FreePosts
    <2>3. OnePlace' BY <2>1, <2>2
    <2>4. MeteredPlace' BY <2>1, <2>2
    <2>5. QED BY <2>3, <2>4
  <1>5. CASE Acknowledge
    <2>1. stream' = stream \ {msg} /\ UNCHANGED <<queue, tjob, metered>>
      BY <1>5 DEF Acknowledge, Acknowledged
    <2>2. OnePlace' BY <2>1
    <2>3. MeteredPlace' BY <2>1
    <2>4. QED BY <2>2, <2>3
  <1>6. CASE \/ Lookup \/ FindEntry \/ Reread \/ WriteResult \/ FindWorkspace \/ ReadState
             \/ PostCollectDone \/ Complete \/ Publish
             \/ DeleteProgress \/ ListJobs \/ DeleteJobKey \/ JobKeysDeleted \/ DeleteJobs
    <2>1. UNCHANGED <<queue, stream, tjob, msg, metered>> /\ PastMetering /\ PastMetering'
      BY <1>6 DEF Lookup, FindEntry, Reread, WriteResult, FindWorkspace, ReadState, PostCollectDone, Complete,
                  Publish, DeleteProgress, ListJobs, DeleteJobKey, JobKeysDeleted, DeleteJobs
    <2>2. QED BY <2>1
  <1>7. QED BY <1>1, <1>2, <1>3, <1>4, <1>5, <1>6, Zenon DEF Listen

\* As long as runs are over before their keys expire, and the process stays up, the usage of a job is
\* metered at most once.
THEOREM MeteredAtMostOnce == TimelySpec => []MeteredOnce
  <1>1. Init => OnceInv
    BY NoneAssumption DEF Init, OnceInv, OnePlace, MeteredPlace
  <1>2. TypeOK /\ CutInv /\ OnceInv /\ [Work]_vars => OnceInv'
    <2>1. OnceInv /\ UNCHANGED vars => OnceInv'
      BY DEF OnceInv, OnePlace, MeteredPlace, PastMetering, vars, listener, tasks
    <2>2. QED BY <2>1, TriggerOnce, WorkerOnce, ListenOnce DEF Work
  <1>3. TypeOK /\ OnceInv => MeteredOnce
    BY DEF TypeOK, OnceInv, MeteredPlace, MeteredOnce
  <1>4. QED BY <1>1, <1>2, <1>3, TimelyInvHolds, PTL DEF TimelySpec, TimelyInv

=============================================================================
