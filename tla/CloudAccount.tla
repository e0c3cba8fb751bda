---------------------------- MODULE CloudAccount ----------------------------
(***************************************************************************)
(* One row of the cloud_account table, and everything CloudAccountService  *)
(* does with it.                                                           *)
(*                                                                         *)
(* The listener of the domain events handles several messages at a time,   *)
(* requests of the API and messages of the CloudFormation queue come in    *)
(* between (all of them in the app process), and the dispatching process   *)
(* configures discovered accounts once a minute.  An operation reads the   *)
(* row, awaits, and writes it: CloudAccountRepository.update is atomic     *)
(* (version_id, retry on StaleDataError) and hands the row as it is then   *)
(* to the closure, but what the operation decided before is what it read.  *)
(***************************************************************************)
EXTENDS Integers, FiniteSets

CONSTANTS
    Roles,     \* AWS roles (role name and external id)
    Key,       \* the credentials of a GCP project or an Azure subscription
    None,
    Handlers,  \* the slots of the domain event listener
    Requests,  \* API calls and CloudFormation messages under way
    Periodic,  \* the task "configure_discovered_accounts"
    MaxFailed, \* consecutive failed scans an account survives: 3 in the code
    MaxEvents, \* bound: messages of one kind that wait in the stream
    MaxEdits,  \* bound: calls that create or delete the account
    MaxFaults  \* bound: crashes, timeouts and other exceptions in a handler

ASSUME FailedAssumption == MaxFailed \in Nat
ASSUME BoundAssumption == MaxEvents \in Nat /\ MaxEdits \in Nat /\ MaxFaults \in Nat
ASSUME NoneAssumption == None \notin Roles /\ Key \notin Roles /\ None # Key
ASSUME TaskAssumption ==
    /\ IsFiniteSet(Handlers)
    /\ Periodic \notin Handlers /\ Periodic \notin Requests /\ Handlers \cap Requests = {}

VARIABLES
    cloud,    \* "aws", or "other" for GCP and Azure
    st,       \* the state of the row; "absent": there is no row
    access,   \* the CloudAccess of the state
    enabled, scan,
    failed,   \* failed_scan_count, counted up to MaxFailed + 2
    age,      \* how long ago state_updated_at is, see Ages
    events,   \* messages of each kind in the stream that no handler has
    pc,       \* what a task does next
    arg,      \* the access it has captured, or the role it was given
    since,    \* the age of the state_updated_at it has captured
    kind,     \* the kind of message a handler works on
    edits, faults

row == <<cloud, st, access, enabled, scan, failed, age>>
tasks == <<pc, arg, since, kind>>
vars == <<row, events, tasks, edits, faults>>

Tasks == Handlers \cup Requests \cup {Periodic}
Accesses == Roles \cup {Key}

\* 0: up to a minute (fast_lane_timeout), 1: up to 15 minutes (become_degraded_timeout),
\* 2: up to 30 minutes, 3: longer
Ages == 0..3

\* CloudAccountDiscovered, and the part of TenantAccountsCollected or TenantAccountsCollectFailed
\* that is about this account
Kinds == {"discovered", "success", "failure"}

TypeOK ==
    /\ cloud \in {"aws", "other"}
    /\ st \in {"absent", "detected", "discovered", "configured", "degraded", "deleted"}
    /\ access \in Accesses \cup {None}
    /\ enabled \in BOOLEAN /\ scan \in BOOLEAN
    /\ failed \in 0..(MaxFailed + 2)
    /\ age \in Ages
    /\ events \in [Kinds -> 0..MaxEvents]
    /\ pc \in [Tasks -> {"idle", "insert", "move", "publish", "get", "book", "assume", "configure",
                         "degrade", "setDegraded", "undegrade", "setConfigured"}]
    /\ arg \in [Tasks -> Accesses \cup {None}]
    /\ \A t \in Tasks : /\ pc[t] \in {"assume", "configure", "move"} => arg[t] \in Roles
                        /\ pc[t] = "insert" => arg[t] \in Roles \cup {None}
    /\ since \in [Tasks -> Ages]
    /\ kind \in [Tasks -> Kinds \cup {None}]
    /\ edits \in 0..MaxEdits
    /\ faults \in 0..MaxFaults

Init ==
    /\ cloud \in {"aws", "other"}
    /\ st = "absent" /\ access = None /\ enabled = FALSE /\ scan = FALSE
    /\ failed = 0 /\ age = 0
    /\ events = [k \in Kinds |-> 0]
    /\ pc = [t \in Tasks |-> "idle"]
    /\ arg = [t \in Tasks |-> None]
    /\ since = [t \in Tasks |-> 0]
    /\ kind = [t \in Tasks |-> None]
    /\ edits = 0 /\ faults = 0

-----------------------------------------------------------------------------
(* Control of the tasks.                                                   *)

Goto(t, step) ==
    /\ pc' = [pc EXCEPT ![t] = step]
    /\ UNCHANGED <<arg, since, kind>>

\* the operation returns; a handler acknowledges its message
Return(t) ==
    /\ pc' = [pc EXCEPT ![t] = "idle"]
    /\ arg' = [arg EXCEPT ![t] = None]
    /\ since' = [since EXCEPT ![t] = 0]
    /\ kind' = [kind EXCEPT ![t] = None]

\* The message of a handler that raises is delivered again, or given up after some retries.
Raise(t) ==
    /\ Return(t)
    /\ IF t \in Handlers
       THEN \E again \in BOOLEAN :
              events' = [events EXCEPT ![kind[t]] = IF again /\ @ < MaxEvents THEN @ + 1 ELSE @]
       ELSE UNCHANGED events

Add(k) == events[k] < MaxEvents /\ events' = [events EXCEPT ![k] = @ + 1]

-----------------------------------------------------------------------------
(* The row.  state_updated_at matters only while the account is            *)
(* discovered, and the failed scans stay whatever happens to the state.    *)

SetRow(s, a, e, sc) ==
    /\ st' = s /\ access' = a /\ enabled' = e /\ scan' = sc
    /\ age' = 0
    /\ UNCHANGED <<cloud, failed>>

\* an account that is scanned from the start is not created
Create(s, a, e) == SetRow(s, a, e, FALSE)

\* The row is read again in the transaction that writes it; two updates at a time are repeated, one after the other.
Update(changes, s, a, e, sc) == IF changes THEN SetRow(s, a, e, sc) ELSE UNCHANGED row

-----------------------------------------------------------------------------
(* Creation, deletion and the two switches.                                *)

\* create_aws_account reads the row.  Without a role, or with the role it has, only names change.
ReadForCreate(r, role) ==
    /\ cloud = "aws"
    /\ pc[r] = "idle"
    /\ edits < MaxEdits
    /\ edits' = edits + 1
    /\ st # "absent" => role # None /\ role # access
    /\ pc' = [pc EXCEPT ![r] = IF st = "absent" THEN "insert" ELSE "move"]
    /\ arg' = [arg EXCEPT ![r] = role]
    /\ UNCHANGED <<row, events, since, kind, faults>>

\* The unique constraint on workspace and account id lets one of two concurrent inserts fail.
\* Whether the account counts as enabled is up to the limit of the workspace.
Insert(r) ==
    /\ pc[r] = "insert"
    /\ IF st # "absent"
       THEN Return(r) /\ UNCHANGED row
       ELSE IF arg[r] = None
            THEN Create("detected", None, FALSE) /\ Return(r)
            ELSE /\ \E e \in BOOLEAN : Create("discovered", arg[r], e)
                 /\ Goto(r, "publish")
    /\ UNCHANGED <<events, edits, faults>>

Move(r) ==
    /\ pc[r] = "move"
    /\ \E e \in BOOLEAN : SetRow("discovered", arg[r], e, FALSE)
    /\ Goto(r, "publish")
    /\ UNCHANGED <<events, edits, faults>>

PublishDiscovered(r) ==
    /\ pc[r] = "publish"
    /\ Add("discovered")
    /\ Return(r)
    /\ UNCHANGED <<row, edits, faults>>

\* create_gcp_account, create_azure_account: an account that exists is left as it is, deleted or not
CreateOther ==
    /\ cloud = "other"
    /\ st = "absent"
    /\ edits < MaxEdits
    /\ edits' = edits + 1
    /\ \E e \in BOOLEAN : SetRow("configured", Key, e, e)
    /\ UNCHANGED <<events, tasks, faults>>

\* delete_cloud_account, for a user or when the product tier of the workspace allows fewer accounts
Delete ==
    /\ st \notin {"absent", "deleted"}
    /\ edits < MaxEdits
    /\ edits' = edits + 1
    /\ SetRow("deleted", None, FALSE, FALSE)
    /\ UNCHANGED <<events, tasks, faults>>

\* update_cloud_account_enabled and update_cloud_account_scan_enabled raise in any other state
Toggle ==
    /\ st \in {"configured", "degraded"}
    /\ \/ enabled' = ~enabled /\ UNCHANGED scan
       \/ scan' = ~scan /\ UNCHANGED enabled
    /\ UNCHANGED <<cloud, st, access, failed, age, events, tasks, edits, faults>>

\* handle_stack_deleted: the stack must belong to the role the account has
StackDeleted(r) ==
    /\ cloud = "aws"
    /\ pc[r] = "idle"
    /\ access # None
    /\ Goto(r, "degrade")
    /\ UNCHANGED <<row, events, edits, faults>>

-----------------------------------------------------------------------------
(* __degrade_account and __undegrade_account: a look at the row, then the  *)
(* update with what the row is by then.                                    *)

Degrade(t) ==
    /\ pc[t] = "degrade"
    /\ IF st = "degraded" THEN Return(t) ELSE Goto(t, "setDegraded")
    /\ UNCHANGED <<row, events, edits, faults>>

\* mutant: any row is degraded
AnyRow == TRUE

\* only an account with access is degraded, another one stays as it is
Degradable == access # None

SetDegraded(t) ==
    /\ pc[t] = "setDegraded"
    /\ Update(Degradable, "degraded", access, enabled, scan)
    /\ Return(t)
    /\ UNCHANGED <<events, edits, faults>>

Undegrade(t) ==
    /\ pc[t] = "undegrade"
    /\ IF st # "degraded" THEN Return(t) ELSE Goto(t, "setConfigured")
    /\ UNCHANGED <<row, events, edits, faults>>

SetConfigured(t) ==
    /\ pc[t] = "setConfigured"
    /\ IF access = None
       THEN UNCHANGED row
       ELSE IF st = "degraded"
            THEN SetRow("configured", access, enabled, scan)
            ELSE SetRow("configured", access, FALSE, FALSE)
    /\ Return(t)
    /\ UNCHANGED <<events, edits, faults>>

-----------------------------------------------------------------------------
(* configure_account, called for a CloudAccountDiscovered message and, by  *)
(* the periodic task, for every account that is still discovered.          *)

\* only a discovered AWS account can be configured (GCP and Azure accounts never are discovered)
Configurable == cloud = "aws" /\ st = "discovered"

StartConfigure(t) ==
    /\ pc' = [pc EXCEPT ![t] = "assume"]
    /\ arg' = [arg EXCEPT ![t] = access]
    /\ since' = [since EXCEPT ![t] = age]
    /\ UNCHANGED kind

\* process_discovered_event
ProcessDiscovered(h) ==
    /\ pc[h] = "get"
    /\ IF Configurable THEN StartConfigure(h) ELSE Return(h)
    /\ UNCHANGED <<row, events, edits, faults>>

\* mutant: no account is discovered for too long
NotTooLong == FALSE

TooLong == age = 3

\* configure_discovered_accounts: an account that is discovered for more than 30 minutes is degraded
ListDiscovered ==
    /\ pc[Periodic] = "idle"
    /\ st = "discovered"
    /\ \/ TooLong /\ Goto(Periodic, "degrade")
       \/ ~TooLong /\ Configurable /\ StartConfigure(Periodic)
    /\ UNCHANGED <<row, events, edits, faults>>

\* can_assume_role, allowed_to_describe_regions, list_accounts: AWS decides
RoleAssumed(t) ==
    /\ pc[t] = "assume"
    /\ Goto(t, "configure")
    /\ UNCHANGED <<row, events, edits, faults>>

\* should_move_to_degraded
RoleRefusedTooLong(t) ==
    /\ pc[t] = "assume"
    /\ t = Periodic /\ since[t] > 1
    /\ Goto(t, "degrade")
    /\ UNCHANGED <<row, events, edits, faults>>

\* fast_lane_should_end: the periodic task goes on with the account
FastLaneEnds(t) ==
    /\ pc[t] = "assume"
    /\ t \in Handlers /\ since[t] > 0
    /\ Return(t)
    /\ UNCHANGED <<row, events, edits, faults>>

\* the role was refused and may be tried again
RetryRole(t) ==
    /\ pc[t] = "assume"
    /\ IF t = Periodic THEN since[t] <= 1 ELSE since[t] = 0
    /\ Raise(t)
    /\ UNCHANGED <<row, edits, faults>>

\* the role has no permission yet to describe regions
PermissionMissing(t) ==
    /\ pc[t] = "assume"
    /\ Raise(t)
    /\ UNCHANGED <<row, edits, faults>>

\* mutant: whatever the account is by now
Anyway == TRUE

StillDiscovered == st = "discovered"

\* update_to_configured: writes the access that was captured before the role was assumed
Configure(t) ==
    /\ pc[t] = "configure"
    /\ Update(StillDiscovered, "configured", arg[t], enabled, enabled)
    /\ Return(t)
    /\ UNCHANGED <<events, edits, faults>>

-----------------------------------------------------------------------------
(* process_domain_event                                                    *)

\* The dispatcher collects enabled accounts, the degraded ones too (list_degraded_for_ping); the
\* event tells how it went.  Its message may wait, so the account may have changed when it is read.
Collected(k) ==
    /\ k \in {"success", "failure"}
    /\ st \in {"configured", "degraded"} /\ enabled
    /\ Add(k)
    /\ UNCHANGED <<row, tasks, edits, faults>>

Receive(h, k) ==
    /\ pc[h] = "idle"
    /\ events[k] > 0
    /\ events' = [events EXCEPT ![k] = @ - 1]
    /\ pc' = [pc EXCEPT ![h] = IF k = "discovered" THEN "get" ELSE "book"]
    /\ kind' = [kind EXCEPT ![h] = k]
    /\ UNCHANGED <<row, arg, since, edits, faults>>

\* compute_failed_scan_count: as good as no resources count as a failure
FailedScans(k) ==
    IF k = "success" THEN 0
    ELSE IF failed < MaxFailed + 2 THEN failed + 1 ELSE failed

\* mutant: only the scan that reaches the limit counts
JustTooMany(n) == n = MaxFailed + 1

TooMany(n) == n > MaxFailed

BookScan(h) ==
    /\ pc[h] = "book"
    /\ failed' = FailedScans(kind[h])
    /\ IF TooMany(failed') THEN Goto(h, "degrade")
       ELSE IF failed' = 0 THEN Goto(h, "undegrade")
       ELSE Return(h)
    /\ UNCHANGED <<cloud, st, access, enabled, scan, age, events, edits, faults>>

\* the timeout of 10 seconds, or an exception, at any await of the handler
Abort(h) ==
    /\ pc[h] # "idle"
    /\ faults < MaxFaults /\ faults' = faults + 1
    /\ Raise(h)
    /\ UNCHANGED <<row, edits>>

-----------------------------------------------------------------------------
(* The processes and the clock.                                            *)

InHand(k) == Cardinality({h \in Handlers : kind[h] = k})

\* The app process dies: messages that are not acknowledged will be delivered again, what a request
\* was about to publish is lost.
CrashApp ==
    /\ faults < MaxFaults /\ faults' = faults + 1
    /\ \A k \in Kinds : events[k] + InHand(k) <= MaxEvents
    /\ events' = [k \in Kinds |-> events[k] + InHand(k)]
    /\ pc' = [t \in Tasks |-> IF t = Periodic THEN pc[t] ELSE "idle"]
    /\ arg' = [t \in Tasks |-> IF t = Periodic THEN arg[t] ELSE None]
    /\ since' = [t \in Tasks |-> IF t = Periodic THEN since[t] ELSE 0]
    /\ kind' = [t \in Tasks |-> None]
    /\ UNCHANGED <<row, edits>>

\* the dispatching process dies
CrashDispatching ==
    /\ pc[Periodic] # "idle"
    /\ faults < MaxFaults /\ faults' = faults + 1
    /\ Return(Periodic)
    /\ UNCHANGED <<row, events, edits>>

\* what a task has captured gets older too
Older(n) == IF n < 3 THEN n + 1 ELSE n

Tick ==
    /\ st = "discovered"
    /\ age < 3
    /\ age' = Older(age)
    /\ since' = [t \in Tasks |-> IF pc[t] = "assume" THEN Older(since[t]) ELSE since[t]]
    /\ UNCHANGED <<cloud, st, access, enabled, scan, failed, events, pc, arg, kind, edits, faults>>

-----------------------------------------------------------------------------

ConfigureSteps(t) ==
    \/ RoleAssumed(t) \/ RoleRefusedTooLong(t) \/ FastLaneEnds(t) \/ RetryRole(t)
    \/ PermissionMissing(t) \/ Configure(t)

DegradeSteps(t) == Degrade(t) \/ SetDegraded(t)

Handle(h) ==
    \/ \E k \in Kinds : Receive(h, k)
    \/ ProcessDiscovered(h) \/ BookScan(h)
    \/ Undegrade(h) \/ SetConfigured(h)
    \/ ConfigureSteps(h) \/ DegradeSteps(h)

Request(r) ==
    \/ \E role \in Roles \cup {None} : ReadForCreate(r, role)
    \/ Insert(r) \/ Move(r) \/ PublishDiscovered(r)
    \/ StackDeleted(r) \/ DegradeSteps(r)

ConfigureDiscovered == ListDiscovered \/ ConfigureSteps(Periodic) \/ DegradeSteps(Periodic)

Scanned == \E k \in Kinds : Collected(k)

Next ==
    \/ \E h \in Handlers : Handle(h) \/ Abort(h)
    \/ \E r \in Requests : Request(r)
    \/ ConfigureDiscovered
    \/ CreateOther \/ Delete \/ Toggle
    \/ Scanned
    \/ CrashApp \/ CrashDispatching
    \/ Tick

Spec == Init /\ [][Next]_vars

\* The tasks are scheduled, time passes, and the dispatcher goes on to collect enabled accounts.
Fairness ==
    /\ \A h \in Handlers : WF_vars(Handle(h))
    /\ WF_vars(ConfigureDiscovered)
    /\ WF_vars(Scanned)
    /\ WF_vars(Tick)

FairSpec == Spec /\ Fairness

=============================================================================
