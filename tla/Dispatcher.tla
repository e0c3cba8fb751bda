----------------------------- MODULE Dispatcher -----------------------------
(***************************************************************************)
(* The collect run of one workspace, as DispatcherService drives it.       *)
(*                                                                         *)
(* Three tasks of the dispatching process share the progress store in      *)
(* Redis: the periodic scheduler and the CloudAccountConfigured handler    *)
(* start collections (trigger_collect), and the listener of the            *)
(* "collect-events" stream books their results, starts the post collect    *)
(* job and completes the run.  Every await on Redis, on the queue or on    *)
(* the event bus is a step of its own: other tasks, the clock and a crash  *)
(* of the process come between any two of them.                            *)
(*                                                                         *)
(* Outside of this program, and free to take any time: the workers, which  *)
(* take jobs off the queue and put a message on the stream, and the        *)
(* expiry of Redis keys.                                                   *)
(***************************************************************************)
EXTENDS Integers, FiniteSets

CONSTANTS
    Accounts,    \* cloud accounts of the workspace
    Jobs,        \* ids of collect jobs; an id that no key and no message holds is as good as new
    Posts,       \* ids of post collect jobs
    Tasks,       \* tasks that call trigger_collect: the scheduler, the CloudAccountConfigured handler
    None,        \* "no account", "no job", "no message"
    Ttl,         \* lifetime of the progress keys in clock ticks: the four hours of the code
    MaxCrashes   \* bound: how often the process may crash

ASSUME TtlAssumption == Ttl \in Nat \ {0}
ASSUME CrashAssumption == MaxCrashes \in Nat
ASSUME NoneAssumption == None \notin Accounts /\ None \notin Jobs
ASSUME IdAssumption == Jobs \cap Posts = {}

VARIABLES
    progress,    \* the progress hash of the workspace: account -> entry
    progressTtl, \* ticks until it expires; 0: the key has no expiry (or does not exist)
    jobs,        \* the jobs hash of the workspace: job -> account
    jobsTtl,     \* as progressTtl
    jobTtl,      \* the jobs_to_tenant key of every job: it exists exactly while its ttl is not 0
    queue,       \* jobs waiting for, or with, a worker
    stream,      \* messages on "collect-events" that are not acknowledged
    metered,     \* number of metering records written for a job (counted up to 2)
    lpc,         \* the listener: what it does next
    msg,         \* the message it handles
    acc,         \* the account that message is about
    snap,        \* the progress hash as it was last read
    todo,        \* job keys that are still to be deleted
    tpc,         \* the triggering tasks: what each does next
    tacc,        \* the account it wants to collect
    tjob,        \* the job it has tracked and not yet enqueued
    crashes

store == <<progress, progressTtl, jobs, jobsTtl, jobTtl>>
listener == <<lpc, msg, acc, snap, todo>>
tasks == <<tpc, tacc, tjob>>
vars == <<store, queue, stream, metered, listener, tasks, crashes>>

\* An account has no entry, is being collected, or has a CollectionSuccess or a CollectionFailure.
Done == {"ok", "failed"}
Entry == Done \cup {"none", "running"}

\* What a worker reports: collect-done without an error (ok), job-failed or collect-done with an
\* error (not ok), and post-collect-done with its success flag.
Message == [id : Jobs \cup Posts, ok : BOOLEAN]

Empty == [a \in Accounts |-> "none"]

ListenerSteps ==
    {"idle", "metering", "lookup", "entry", "reread", "write", "workspace", "state", "enqueuePost",
     "post", "complete", "publish", "delProgress", "listJobs", "delJobKeys", "delJobs", "ack"}

TypeOK ==
    /\ progress \in [Accounts -> Entry]
    /\ progressTtl \in 0..Ttl
    /\ jobs \in [Jobs -> Accounts \cup {None}]
    /\ jobsTtl \in 0..Ttl
    /\ jobTtl \in [Jobs -> 0..Ttl]
    /\ queue \subseteq Jobs \cup Posts
    /\ stream \subseteq Message
    /\ metered \in [Jobs -> 0..2]
    /\ lpc \in ListenerSteps
    /\ msg \in Message \cup {None}
    /\ lpc # "idle" => msg \in stream
    /\ lpc \in {"metering", "lookup", "entry", "reread", "write", "workspace", "state"} => msg.id \in Jobs
    /\ acc \in Accounts \cup {None}
    /\ lpc \in {"entry", "reread", "write"} => acc \in Accounts
    /\ snap \in [Accounts -> Entry]
    /\ todo \subseteq Jobs
    /\ tpc \in [Tasks -> {"idle", "track", "enqueue"}]
    /\ tacc \in [Tasks -> Accounts \cup {None}]
    /\ tjob \in [Tasks -> Jobs \cup {None}]
    /\ \A t \in Tasks : /\ tpc[t] # "idle" => tacc[t] \in Accounts
                        /\ tpc[t] = "enqueue" => tjob[t] \in Jobs
    /\ crashes \in 0..MaxCrashes

Init ==
    /\ progress = Empty /\ progressTtl = 0
    /\ jobs = [j \in Jobs |-> None] /\ jobsTtl = 0
    /\ jobTtl = [j \in Jobs |-> 0]
    /\ queue = {} /\ stream = {}
    /\ metered = [j \in Jobs |-> 0]
    /\ lpc = "idle" /\ msg = None /\ acc = None /\ snap = Empty /\ todo = {}
    /\ tpc = [t \in Tasks |-> "idle"]
    /\ tacc = [t \in Tasks |-> None]
    /\ tjob = [t \in Tasks |-> None]
    /\ crashes = 0

-----------------------------------------------------------------------------
(* trigger_collect, called by the scheduler for every account of a due     *)
(* workspace and by the handler of CloudAccountConfigured.                 *)

\* uuid4: an id nothing in the system holds
Fresh(j) ==
    /\ j \notin queue
    /\ \A m \in stream : m.id # j
    /\ jobs[j] = None /\ jobTtl[j] = 0
    /\ \A t \in Tasks : tjob[t] # j

\* account_collection_ongoing: any entry counts, a finished one too
Ongoing(a) == progress[a] # "none"

\* trigger_collect goes on only when nothing is ongoing; else it returns and changes nothing
CheckOngoing(t, a) ==
    /\ tpc[t] = "idle"
    /\ ~Ongoing(a)
    /\ tpc' = [tpc EXCEPT ![t] = "track"]
    /\ tacc' = [tacc EXCEPT ![t] = a]
    /\ UNCHANGED <<store, queue, stream, metered, listener, tjob, crashes>>

\* no account information (state, credentials) or no database access: nothing is collected
GiveUp(t) ==
    /\ tpc[t] = "track"
    /\ tpc' = [tpc EXCEPT ![t] = "idle"]
    /\ tacc' = [tacc EXCEPT ![t] = None]
    /\ UNCHANGED <<store, queue, stream, metered, listener, tjob, crashes>>

\* mutant: EXPIRE with the XX flag, which leaves a key without an expiry as it is
RenewOnly(ttl) == IF ttl > 0 THEN Ttl ELSE 0

\* EXPIRE of a key that exists
Renew(ttl) == Ttl

\* track_account_collection_progress: one MULTI/EXEC writes all three keys and renews their expiry
Track(t) ==
    /\ tpc[t] = "track"
    /\ \E j \in Jobs :
        /\ Fresh(j)
        /\ progress' = [progress EXCEPT ![tacc[t]] = "running"]
        /\ jobs' = [jobs EXCEPT ![j] = tacc[t]]
        /\ jobTtl' = [jobTtl EXCEPT ![j] = Ttl]
        /\ tjob' = [tjob EXCEPT ![t] = j]
        /\ metered' = [metered EXCEPT ![j] = 0]
    /\ progressTtl' = Renew(progressTtl)
    /\ jobsTtl' = Renew(jobsTtl)
    /\ tpc' = [tpc EXCEPT ![t] = "enqueue"]
    /\ UNCHANGED <<queue, stream, listener, tacc, crashes>>

Enqueue(t) ==
    /\ tpc[t] = "enqueue"
    /\ queue' = queue \cup {tjob[t]}
    /\ tpc' = [tpc EXCEPT ![t] = "idle"]
    /\ tacc' = [tacc EXCEPT ![t] = None]
    /\ tjob' = [tjob EXCEPT ![t] = None]
    /\ UNCHANGED <<store, stream, metered, listener, crashes>>

Trigger(t) ==
    \/ \E a \in Accounts : CheckOngoing(t, a)
    \/ GiveUp(t)
    \/ Track(t)
    \/ Enqueue(t)

-----------------------------------------------------------------------------
(* The workers.                                                            *)

Finish(j, ok) ==
    /\ j \in queue
    /\ queue' = queue \ {j}
    /\ stream' = stream \cup {[id |-> j, ok |-> ok]}
    /\ UNCHANGED <<store, metered, listener, tasks, crashes>>

\* a worker dies with the job, or the queue drops it: no message will come
Lose(j) ==
    /\ j \in queue
    /\ queue' = queue \ {j}
    /\ UNCHANGED <<store, stream, metered, listener, tasks, crashes>>

Worker ==
    \E j \in Jobs \cup Posts : Lose(j) \/ \E ok \in BOOLEAN : Finish(j, ok)

-----------------------------------------------------------------------------
(* The listener handles one message at a time (batch_size 1) and           *)
(* acknowledges it when the handler has returned.                          *)

Goto(step) == lpc' = step

\* Bound: a collect message is taken only while a post collect id is free, so that the handler
\* never waits for one.
FreePosts == {p \in Posts : p \notin queue /\ \A m \in stream : m.id # p}

Receive(m) ==
    /\ lpc = "idle"
    /\ m \in stream
    /\ msg' = m
    /\ IF m.id \in Posts
       THEN Goto("post")
       ELSE /\ FreePosts # {}
            /\ Goto(IF m.ok THEN "metering" ELSE "lookup")
    /\ UNCHANGED <<store, queue, stream, metered, acc, snap, todo, tasks, crashes>>

\* mutant: usage of a job whose key is gone is not metered
RecordsOfKnownJob(j) == IF jobTtl[j] > 0 /\ metered[j] < 2 THEN metered[j] + 1 ELSE metered[j]

\* one more metering record for the job (two are as good as many)
Records(j) == IF metered[j] < 2 THEN metered[j] + 1 ELSE 2

\* handle_success writes the metering records before it looks at the progress store
AddMetering ==
    /\ lpc = "metering"
    /\ metered' = [metered EXCEPT ![msg.id] = Records(msg.id)]
    /\ Goto("lookup")
    /\ UNCHANGED <<store, queue, stream, msg, acc, snap, todo, tasks, crashes>>

\* get_account_collect_state_by_job_id finds the account in the jobs hash.  mark_job_as_failed asks for
\* the workspace of the job first; nothing adds a job to the hash in between, so that one step does for
\* both reads.
Lookup ==
    /\ lpc = "lookup"
    /\ IF jobs[msg.id] # None /\ (~msg.ok => jobTtl[msg.id] > 0)
       THEN Goto("entry") /\ acc' = jobs[msg.id]
       ELSE Goto("workspace") /\ UNCHANGED acc
    /\ UNCHANGED <<store, queue, stream, metered, msg, snap, todo, tasks, crashes>>

\* ... and then its entry in the progress hash, get_account_collect_state
FindEntry ==
    /\ lpc = "entry"
    /\ Goto(IF progress[acc] = "none" THEN "workspace" ELSE IF msg.ok THEN "reread" ELSE "write")
    /\ UNCHANGED <<store, queue, stream, metered, msg, acc, snap, todo, tasks, crashes>>

\* mark_account_as_collected reads the whole hash and insists on the account being there
Reread ==
    /\ lpc = "reread"
    /\ progress[acc] # "none"
    /\ Goto("write")
    /\ UNCHANGED <<store, queue, stream, metered, msg, acc, snap, todo, tasks, crashes>>

\* ... and raises when it is not: the stream either gives the message up or delivers it again
RereadRaises ==
    /\ lpc = "reread"
    /\ progress[acc] = "none"
    /\ \/ Goto("ack") /\ UNCHANGED <<msg, acc, snap>>
       \/ Goto("idle") /\ msg' = None /\ acc' = None /\ snap' = Empty
    /\ UNCHANGED <<store, queue, stream, metered, todo, tasks, crashes>>

\* HSET of the finished entry: on a hash that is gone it makes a new one, without an expiry
WriteResult ==
    /\ lpc = "write"
    /\ progress' = [progress EXCEPT ![acc] = IF msg.ok THEN "ok" ELSE "failed"]
    /\ Goto("workspace")
    /\ UNCHANGED <<progressTtl, jobs, jobsTtl, jobTtl, queue, stream, metered, msg, acc, snap, todo, tasks,
                   crashes>>

\* workspace_id_from_job_id
FindWorkspace ==
    /\ lpc = "workspace"
    /\ Goto(IF jobTtl[msg.id] > 0 THEN "state" ELSE "ack")
    /\ UNCHANGED <<store, queue, stream, metered, msg, acc, snap, todo, tasks, crashes>>

\* mutant: one finished account is enough
SomeDone == \E a \in Accounts : progress[a] \in Done

\* all(job.is_done() ...) over the entries that exist
AllDone == \A a \in Accounts : progress[a] # "running"

\* all(isinstance(..., CollectionFailure)) over the entries: also true of an empty hash
AllFailed == \A a \in Accounts : progress[a] \in {"none", "failed"}

\* the second half of collect_job_finished: is this the last job of the run?
ReadState ==
    /\ lpc = "state"
    /\ snap' = progress
    /\ Goto(IF ~AllDone THEN "ack" ELSE IF AllFailed THEN "complete" ELSE "enqueuePost")
    /\ UNCHANGED <<store, queue, stream, metered, msg, acc, todo, tasks, crashes>>

\* trigger_post_collect; without database access no job is queued
EnqueuePost ==
    /\ lpc = "enqueuePost"
    /\ \/ \E p \in FreePosts : queue' = queue \cup {p}
       \/ UNCHANGED queue
    /\ Goto("ack")
    /\ UNCHANGED <<store, stream, metered, msg, acc, snap, todo, tasks, crashes>>

\* process_post_collect_done_message
PostCollectDone ==
    /\ lpc = "post"
    /\ Goto(IF AllDone /\ msg.ok THEN "complete" ELSE "ack")
    /\ UNCHANGED <<store, queue, stream, metered, msg, acc, snap, todo, tasks, crashes>>

\* complete_collect_job reads the hash once more and decides on what it finds
Complete ==
    /\ lpc = "complete"
    /\ snap' = progress
    /\ Goto(IF AllDone THEN "publish" ELSE "ack")
    /\ UNCHANGED <<store, queue, stream, metered, msg, acc, todo, tasks, crashes>>

\* send_domain_event: the event tells the entries of snap, as TenantAccountsCollected or, without a
\* success, as TenantAccountsCollectFailed; with no entry there is none
Publish ==
    /\ lpc = "publish"
    /\ Goto("delProgress")
    /\ UNCHANGED <<store, queue, stream, metered, msg, acc, snap, todo, tasks, crashes>>

\* mutant: the failed accounts are kept
FailedKept == [a \in Accounts |-> IF progress[a] = "failed" THEN "failed" ELSE "none"]

\* what is left of the progress hash when it is deleted
Deleted == Empty

\* delete_tenant_collect_state, one call to Redis after the other
DeleteProgress ==
    /\ lpc = "delProgress"
    /\ progress' = Deleted
    /\ progressTtl' = 0
    /\ Goto("listJobs")
    /\ UNCHANGED <<jobs, jobsTtl, jobTtl, queue, stream, metered, msg, acc, snap, todo, tasks,
                   crashes>>

ListJobs ==
    /\ lpc = "listJobs"
    /\ todo' = {j \in Jobs : jobs[j] # None}
    /\ Goto("delJobKeys")
    /\ UNCHANGED <<store, queue, stream, metered, msg, acc, snap, tasks, crashes>>

DeleteJobKey ==
    /\ lpc = "delJobKeys"
    /\ \E j \in todo :
        /\ jobTtl' = [jobTtl EXCEPT ![j] = 0]
        /\ todo' = todo \ {j}
    /\ UNCHANGED <<progress, progressTtl, jobs, jobsTtl, queue, stream, metered, lpc, msg, acc, snap,
                   tasks, crashes>>

JobKeysDeleted ==
    /\ lpc = "delJobKeys"
    /\ todo = {}
    /\ Goto("delJobs")
    /\ UNCHANGED <<store, queue, stream, metered, msg, acc, snap, todo, tasks, crashes>>

DeleteJobs ==
    /\ lpc = "delJobs"
    /\ jobs' = [j \in Jobs |-> None]
    /\ jobsTtl' = 0
    /\ Goto("ack")
    /\ UNCHANGED <<progress, progressTtl, jobTtl, queue, stream, metered, msg, acc, snap, todo, tasks,
                   crashes>>

\* XACK
Acknowledged == stream \ {msg}

Acknowledge ==
    /\ lpc = "ack"
    /\ stream' = Acknowledged
    /\ Goto("idle")
    /\ msg' = None /\ acc' = None /\ snap' = Empty
    /\ UNCHANGED <<store, queue, metered, todo, tasks, crashes>>

Listen ==
    \/ \E m \in stream : Receive(m)
    \/ AddMetering \/ Lookup \/ FindEntry \/ Reread \/ RereadRaises \/ WriteResult
    \/ FindWorkspace \/ ReadState \/ EnqueuePost
    \/ PostCollectDone \/ Complete \/ Publish
    \/ DeleteProgress \/ ListJobs \/ DeleteJobKey \/ JobKeysDeleted \/ DeleteJobs
    \/ Acknowledge

-----------------------------------------------------------------------------
(* The clock and the process.                                              *)

Dec(n) == IF n = 0 THEN 0 ELSE n - 1

\* Time passes for every key that has an expiry; the keys whose time is up are gone.
Tick ==
    /\ \/ progressTtl > 0
       \/ jobsTtl > 0
       \/ \E j \in Jobs : jobTtl[j] > 0
    /\ progressTtl' = Dec(progressTtl)
    /\ jobsTtl' = Dec(jobsTtl)
    /\ jobTtl' = [j \in Jobs |-> Dec(jobTtl[j])]
    /\ progress' = IF progressTtl = 1 THEN Empty ELSE progress
    /\ jobs' = IF jobsTtl = 1 THEN [j \in Jobs |-> None] ELSE jobs
    /\ UNCHANGED <<queue, stream, metered, listener, tasks, crashes>>

\* The process dies with all its tasks; Redis, the queue and the unacknowledged message stay.
Crash ==
    /\ crashes < MaxCrashes
    /\ crashes' = crashes + 1
    /\ lpc' = "idle" /\ msg' = None /\ acc' = None /\ snap' = Empty /\ todo' = {}
    /\ tpc' = [t \in Tasks |-> "idle"]
    /\ tacc' = [t \in Tasks |-> None]
    /\ tjob' = [t \in Tasks |-> None]
    /\ UNCHANGED <<store, queue, stream, metered>>

-----------------------------------------------------------------------------

\* What happens as long as no key expires and the process stays up.
Work ==
    \/ \E t \in Tasks : Trigger(t)
    \/ Worker
    \/ Listen

Next == Work \/ Tick \/ Crash

Spec == Init /\ [][Next]_vars

\* every run is over within four hours
TimelySpec == Init /\ [][Work]_vars

\* Redis expires keys by its own clock, whatever the program does.
FairSpec == Spec /\ WF_vars(Tick)

=============================================================================
