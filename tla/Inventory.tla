------------------------------ MODULE Inventory ------------------------------
(***************************************************************************)
(* The graph database of one workspace, and how InventoryService makes it  *)
(* follow the tables: the names of the accounts, the accounts its reports  *)
(* ignore, how long it keeps history, and the cache of computed reports.   *)
(* A request commits its row and publishes its event afterwards; other     *)
(* changes of the tables have no event at all.  Each replica of the        *)
(* process takes the next event of the stream while the others are at      *)
(* work; collect runs write the database too, with what the tables said    *)
(* when they began.                                                        *)
(***************************************************************************)
EXTENDS Sequences, SequencesExt, FiniteSets, Absent

CONSTANTS
    CloudAccounts,
    Names,
    Replicas,          \* of the process, each with a listener of its own
    Editors,           \* requests on the tables that are handled at the same time
    TierRetention,     \* retention_period of each product tier
    MaxDisturbances    \* bound: changes of the tables and the report config, failed requests and crashes

ASSUME InventoryAssumption ==
    /\ {"Trial", "Free"} \subseteq DOMAIN TierRetention
    /\ MaxDisturbances \in Nat

VARIABLES
    accountRows,  \* cloud_accounts: [name, state, enabled, scan] of each account, None once it is deleted
    tierNow,      \* product tier of the workspace
    owed,         \* the event that a request has still to publish, after its commit
    exists,       \* the database has been created
    nodes,        \* the name of each account's node in the graph, None without a node
    ignoring,     \* ignore_accounts of fix.report.config
    keep,         \* keep_history_for_days of fix.core, None at first
    runs,         \* the name a running collect was started with; None when it does not run
    domainEvents, \* the stream
    work,         \* what each replica works on: [event, step, read]
    later,        \* names that the deferred job will write again
    cache,        \* the names in the cached reports; None when they are not cached
    computing,    \* what a report under way has read; None
    unlisted,     \* history: accounts switched on or off with no event since the list of them was last read
    untold,       \* history: the tier was changed with no event, and not changed since
    jumbled,      \* history: topics of which two events were at work, or owed, at a time, or one came late
    disturbances

tables == <<accountRows, tierNow, owed, unlisted, untold>>
graph == <<exists, nodes, ignoring, keep>>
queues == <<domainEvents, work, later>>
reports == <<cache, computing>>
inventoryVars == <<tables, graph, runs, queues, reports, jumbled, disturbances>>

DomainEvent ==
    [kind : {"created", "collected"}] \cup [kind : {"tier"}, tier : DOMAIN TierRetention]
    \cup [kind : {"renamed", "again"}, account : CloudAccounts, name : Names]
    \cup [kind : {"toggled", "deleted"}, account : CloudAccounts]
AccountRow == [name : Names, state : {"discovered", "configured", "degraded"}, enabled : BOOLEAN, scan : BOOLEAN]
Work == [event : DomainEvent, step : 1..3, read : SUBSET CloudAccounts]
NodeNames == [CloudAccounts -> Names \cup {None}]

ASSUME WorkAssumption == None \notin AccountRow /\ None \notin Work /\ None \notin DomainEvent

InventoryTypeOK ==
    /\ accountRows \in [CloudAccounts -> AccountRow \cup {None}]
    /\ tierNow \in DOMAIN TierRetention
    /\ owed \in [Editors -> DomainEvent \cup {None}]
    /\ unlisted \subseteq CloudAccounts /\ untold \in BOOLEAN
    /\ exists \in BOOLEAN /\ nodes \in NodeNames /\ ignoring \subseteq CloudAccounts
    /\ keep \in {TierRetention[t] : t \in DOMAIN TierRetention} \cup {None}
    /\ runs \in NodeNames
    /\ \A i \in DOMAIN domainEvents : domainEvents[i] \in DomainEvent
    /\ work \in [Replicas -> Work \cup {None}]
    /\ later \subseteq DomainEvent
    /\ cache \in NodeNames \cup {None} /\ computing \in NodeNames \cup {None}
    /\ jumbled \subseteq {"retention", "ignore"}
    /\ disturbances \in 0..MaxDisturbances

\* The event of the workspace may be handled late: its first accounts are connected, some of them degraded.
InventoryInit ==
    /\ \E n \in Names : accountRows \in [CloudAccounts ->
                            [name : {n}, state : {"configured", "degraded"}, enabled : {TRUE}, scan : {TRUE}]]
    /\ tierNow = "Trial"
    /\ owed = [q \in Editors |-> None] /\ unlisted = {} /\ untold = FALSE
    /\ exists = FALSE /\ nodes = [a \in CloudAccounts |-> None] /\ ignoring = {} /\ keep = None
    /\ runs = [a \in CloudAccounts |-> None]
    /\ domainEvents = <<[kind |-> "created"]>>
    /\ work = [r \in Replicas |-> None] /\ later = {}
    /\ cache = None /\ computing = None /\ jumbled = {}
    /\ disturbances = 0

Publish(e) == domainEvents' = Append(domainEvents, e)

-----------------------------------------------------------------------------
(* The tables, and the events of the requests that write them.             *)

Disturb == disturbances < MaxDisturbances /\ disturbances' = disturbances + 1

\* list_by_workspace_id(ready_for_collection=True), and those of the list that are off
ToCollect(a) == accountRows[a] # None /\ accountRows[a].state = "configured" /\ accountRows[a].enabled
Disabled == {a \in CloudAccounts : ToCollect(a) /\ ~accountRows[a].scan}
Switched == {a \in CloudAccounts : ~(a \in Disabled <=> a \in Disabled')}

\* a request commits its row, and owes the event
Commit(q, e) ==
    /\ Disturb
    /\ owed[q] = None /\ owed' = [owed EXCEPT ![q] = e]
    /\ UNCHANGED <<graph, runs, queues, reports>>

Rename(q, a, n) ==
    /\ Commit(q, [kind |-> "renamed", account |-> a, name |-> n])
    /\ accountRows[a] # None /\ accountRows[a].name # n
    /\ accountRows' = [accountRows EXCEPT ![a].name = n]
    /\ UNCHANGED <<tierNow, unlisted, untold, jumbled>>

\* update_cloud_account_scan_enabled, of a configured account
ToggleScan(q, a, on) ==
    /\ Commit(q, [kind |-> "toggled", account |-> a])
    /\ accountRows[a] # None /\ accountRows[a].state = "configured"
    /\ accountRows' = [accountRows EXCEPT ![a].scan = on]
    /\ UNCHANGED <<tierNow, unlisted, untold, jumbled>>

\* update_cloud_account_enabled, of a configured or a degraded account
ToggleActive(q, a, on) ==
    /\ Commit(q, [kind |-> "toggled", account |-> a])
    /\ accountRows[a] # None /\ accountRows[a].state # "discovered"
    /\ accountRows' = [accountRows EXCEPT ![a].enabled = on]
    /\ UNCHANGED <<tierNow, unlisted, untold, jumbled>>

\* of its event the ignored accounts hear nothing
DeleteRow(q, a) ==
    /\ Commit(q, [kind |-> "deleted", account |-> a])
    /\ accountRows[a] # None
    /\ accountRows' = [accountRows EXCEPT ![a] = None]
    /\ unlisted' = unlisted \cup Switched
    /\ UNCHANGED <<tierNow, untold, jumbled>>

Owes(q, kind) == owed[q] # None /\ owed[q].kind = kind

ChangeProductTier(q, t) ==
    /\ Commit(q, [kind |-> "tier", tier |-> t])
    /\ t # tierNow /\ tierNow' = t /\ untold' = FALSE
    /\ jumbled' = IF \E p \in Editors : Owes(p, "tier") THEN jumbled \cup {"retention"} ELSE jumbled
    /\ UNCHANGED <<accountRows, unlisted>>

Tell(q) ==
    /\ owed[q] # None
    /\ Publish(owed[q])
    /\ owed' = [owed EXCEPT ![q] = None]
    /\ UNCHANGED <<accountRows, tierNow, unlisted, untold, graph, runs, work, later, reports, jumbled, disturbances>>

\* the process dies, or redis refuses the event, after the commit
LoseEvent(q) ==
    /\ Disturb
    /\ owed[q] # None
    /\ owed' = [owed EXCEPT ![q] = None]
    /\ unlisted' = IF owed[q].kind = "toggled" THEN unlisted \cup {owed[q].account} ELSE unlisted
    /\ untold' = (untold \/ owed[q].kind = "tier")
    /\ UNCHANGED <<accountRows, tierNow, graph, runs, queues, reports, jumbled>>

-----------------------------------------------------------------------------
(* Changes that the inventory is told nothing of.                          *)

Quietly(a, row) ==
    /\ Disturb
    /\ accountRows' = [accountRows EXCEPT ![a] = row]
    /\ unlisted' = unlisted \cup Switched
    /\ UNCHANGED <<tierNow, owed, untold, graph, runs, queues, reports, jumbled>>

\* create_aws_account, for an account that is known or was deleted: there is a new role
RowDiscovered(a, n, on) == Quietly(a, [name |-> n, state |-> "discovered", enabled |-> on, scan |-> FALSE])

RowConfigured(a) ==
    /\ accountRows[a] # None /\ accountRows[a].state = "discovered"
    /\ Quietly(a, [accountRows[a] EXCEPT !.state = "configured", !.scan = accountRows[a].enabled])

RowDegraded(a) ==
    /\ accountRows[a] # None /\ accountRows[a].state # "degraded"
    /\ Quietly(a, [accountRows[a] EXCEPT !.state = "degraded"])

\* __undegrade_account has looked before: an account that is not degraded any more is switched off
RowUndegraded(a) ==
    /\ accountRows[a] # None
    /\ \/ accountRows[a].state = "degraded" /\ Quietly(a, [accountRows[a] EXCEPT !.state = "configured"])
       \/ /\ accountRows[a].state # "degraded"
          /\ Quietly(a, [accountRows[a] EXCEPT !.state = "configured", !.enabled = FALSE, !.scan = FALSE])

\* update_cloud_account_scan_enabled, of a degraded account
ToggleDegraded(a, on) ==
    /\ accountRows[a] # None /\ accountRows[a].state = "degraded"
    /\ Quietly(a, [accountRows[a] EXCEPT !.scan = on])

\* disable_cloud_account
RowDisabled(a) ==
    /\ accountRows[a] # None /\ accountRows[a].state = "configured"
    /\ Quietly(a, [accountRows[a] EXCEPT !.enabled = FALSE, !.scan = FALSE])

\* move_trials_to_free_tier: the workspace may have bought a tier since it was listed
TrialMoved ==
    /\ Disturb
    /\ tierNow # "Free" /\ tierNow' = "Free"
    /\ untold' = TRUE
    /\ UNCHANGED <<accountRows, owed, unlisted, graph, runs, queues, reports, jumbled>>

\* update_report_config replaces the configuration, and the ignored accounts are no part of what it writes
PutReportConfig ==
    /\ Disturb
    /\ exists
    /\ ignoring' = {}
    /\ unlisted' = unlisted \cup Disabled
    /\ UNCHANGED <<accountRows, tierNow, owed, untold, exists, nodes, keep, runs, queues, reports, jumbled>>

-----------------------------------------------------------------------------
(* Collect runs.                                                           *)

\* Mutant of StartRun: the job is given the name the account had at first, not the one a user has given it.
StartWithAccountName(a) ==
    /\ runs[a] = None
    /\ ToCollect(a)
    /\ runs' = [runs EXCEPT ![a] = CHOOSE n \in Names : TRUE]
    /\ UNCHANGED <<tables, graph, queues, reports, jumbled, disturbances>>

\* trigger_collect, with the final_name of the account
StartRun(a) ==
    /\ runs[a] = None
    /\ ToCollect(a)
    /\ runs' = [runs EXCEPT ![a] = accountRows[a].name]
    /\ UNCHANGED <<tables, graph, queues, reports, jumbled, disturbances>>

\* the worker writes what it has collected, and the dispatcher tells
Merge(a) ==
    /\ runs[a] # None /\ exists
    /\ nodes' = [nodes EXCEPT ![a] = runs[a]]
    /\ runs' = [runs EXCEPT ![a] = None]
    /\ IF Contains(domainEvents, [kind |-> "collected"]) THEN UNCHANGED domainEvents
       ELSE Publish([kind |-> "collected"])
    /\ UNCHANGED <<tables, exists, ignoring, keep, work, later, cache, computing, jumbled, disturbances>>

-----------------------------------------------------------------------------
(* The listener.                                                           *)

Topic(e) == IF e.kind \in {"created", "tier"} THEN {"retention"} ELSE IF e.kind = "toggled" THEN {"ignore"} ELSE {}
AtWork(r, kind, step) == work[r] # None /\ work[r].event.kind = kind /\ work[r].step = step

Begin(r, e) ==
    /\ work[r] = None
    /\ work' = [work EXCEPT ![r] = [event |-> e, step |-> 1, read |-> {}]]
    /\ jumbled' = jumbled \cup (Topic(e) \cap UNION {Topic(work[x].event) : x \in {y \in Replicas : work[y] # None}})

TakeEvent(r) ==
    /\ domainEvents # <<>>
    /\ Begin(r, Head(domainEvents))
    /\ domainEvents' = Tail(domainEvents)
    /\ UNCHANGED <<tables, graph, runs, later, reports, disturbances>>

\* the deferred job, an hour after the name was written
TakeLater(r, e) ==
    /\ e \in later
    /\ Begin(r, e)
    /\ later' = later \ {e}
    /\ UNCHANGED <<tables, graph, runs, domainEvents, reports, disturbances>>

Done(r) == work' = [work EXCEPT ![r] = None]
Step(r) == work' = [work EXCEPT ![r].step = @ + 1]

Evict == cache' = None

\* _process_workspace_created: the database ...
CreateDatabase(r) ==
    /\ AtWork(r, "created", 1)
    /\ exists' = TRUE
    /\ Step(r)
    /\ UNCHANGED <<tables, nodes, ignoring, keep, runs, domainEvents, later, reports, jumbled, disturbances>>

\* ... and the retention of the trial
KeepForTrial(r) ==
    /\ AtWork(r, "created", 2)
    /\ keep' = TierRetention["Trial"]
    /\ Done(r)
    /\ UNCHANGED <<tables, exists, nodes, ignoring, runs, domainEvents, later, reports, jumbled, disturbances>>

\* Mutant of KeepForTier: what is kept is not shortened.
KeepLonger(r) ==
    /\ AtWork(r, "tier", 1) /\ exists
    /\ keep' = IF keep \in Nat /\ keep > TierRetention[work[r].event.tier] THEN keep
               ELSE TierRetention[work[r].event.tier]
    /\ Done(r)
    /\ UNCHANGED <<tables, exists, nodes, ignoring, runs, domainEvents, later, reports, jumbled, disturbances>>

\* _process_product_tier_changed takes the tier of the event
KeepForTier(r) ==
    /\ AtWork(r, "tier", 1) /\ exists
    /\ keep' = TierRetention[work[r].event.tier]
    /\ Done(r)
    /\ UNCHANGED <<tables, exists, nodes, ignoring, runs, domainEvents, later, reports, jumbled, disturbances>>

\* _configure_disabled_accounts lists the accounts of the table ...
ListDisabled(r) ==
    /\ AtWork(r, "toggled", 1)
    /\ work' = [work EXCEPT ![r].step = 2, ![r].read = Disabled]
    /\ unlisted' = {}
    /\ UNCHANGED <<accountRows, tierNow, owed, untold, graph, runs, domainEvents, later, reports, jumbled, disturbances>>

\* ... and writes that list
WriteIgnored(r) ==
    /\ AtWork(r, "toggled", 2) /\ exists
    /\ ignoring' = work[r].read
    /\ Done(r)
    /\ UNCHANGED <<tables, exists, nodes, keep, runs, domainEvents, later, reports, jumbled, disturbances>>

\* _process_account_deleted leaves the cache as it is
DeleteNode(r) ==
    /\ AtWork(r, "deleted", 1) /\ exists
    /\ nodes' = [nodes EXCEPT ![work[r].event.account] = None]
    /\ Done(r)
    /\ UNCHANGED <<tables, exists, ignoring, keep, runs, domainEvents, later, cache, computing, jumbled, disturbances>>

\* _process_tenant_collected
EvictCollected(r) ==
    /\ AtWork(r, "collected", 1)
    /\ Evict
    /\ Done(r)
    /\ UNCHANGED <<tables, graph, runs, domainEvents, later, computing, jumbled, disturbances>>

-----------------------------------------------------------------------------
(* _update_cloud_account_name, for the event and for the deferred job.     *)

NameWork(r, step) == AtWork(r, "renamed", step) \/ AtWork(r, "again", step)

\* an account that is not in the graph is passed over
SearchNode(r) ==
    /\ NameWork(r, 1) /\ exists
    /\ IF nodes[work[r].event.account] = None THEN Done(r) ELSE Step(r)
    /\ UNCHANGED <<tables, graph, runs, domainEvents, later, reports, jumbled, disturbances>>

UpdateNode(r) ==
    /\ NameWork(r, 2)
    /\ nodes[work[r].event.account] # None
    /\ nodes' = [nodes EXCEPT ![work[r].event.account] = work[r].event.name]
    /\ Step(r)
    /\ UNCHANGED <<tables, exists, ignoring, keep, runs, domainEvents, later, cache, computing, jumbled, disturbances>>

\* the event, not the job, is written again "to capture all inflight collections"
EvictRenamed(r) ==
    /\ NameWork(r, 3)
    /\ Evict
    /\ Done(r)
    /\ later' = IF work[r].event.kind = "renamed" THEN later \cup {[work[r].event EXCEPT !.kind = "again"]} ELSE later
    /\ UNCHANGED <<tables, graph, runs, domainEvents, computing, jumbled, disturbances>>

-----------------------------------------------------------------------------
(* The cache of reports.                                                   *)

\* What a report says of the accounts in the graph: of all that it lists and counts, their names.
Report == nodes

\* RedisCache.call computes a report that it does not have ...
Compute ==
    /\ cache = None /\ computing = None /\ exists
    /\ computing' = Report
    /\ UNCHANGED <<tables, graph, runs, queues, cache, jumbled, disturbances>>

\* ... and stores it, whatever was evicted meanwhile
StoreReport ==
    /\ computing # None
    /\ cache' = computing /\ computing' = None
    /\ UNCHANGED <<tables, graph, runs, queues, jumbled, disturbances>>

\* 5 minutes in memory, 30 minutes in redis
ExpireCache ==
    /\ cache # None /\ cache' = None
    /\ UNCHANGED <<tables, graph, runs, queues, computing, jumbled, disturbances>>

-----------------------------------------------------------------------------
(* Failures.                                                               *)

\* The handler gives up after its retries, or the process dies: the message is delivered again, behind those
\* that have come in; the job of the queue is tried again.
Return(r, e) ==
    /\ IF e.kind = "again" THEN later' = later \cup {e} /\ UNCHANGED domainEvents
       ELSE Publish(e) /\ UNCHANGED later
    /\ jumbled' = jumbled \cup (Topic(e) \cap {"retention"})
    /\ Done(r)

\* no such graph, or no such node: no retry helps
Refused(r) ==
    \/ ~exists /\ work[r].event.kind # "created"
    \/ NameWork(r, 2) /\ nodes[work[r].event.account] = None

RequestFails(r) ==
    /\ work[r] # None
    /\ \/ Refused(r) /\ UNCHANGED disturbances
       \/ Disturb
    /\ Return(r, work[r].event)
    /\ UNCHANGED <<tables, graph, runs, reports>>

HandlerStep(r) ==
    \/ CreateDatabase(r) \/ KeepForTrial(r) \/ KeepForTier(r)
    \/ ListDisabled(r) \/ WriteIgnored(r)
    \/ DeleteNode(r) \/ EvictCollected(r)
    \/ SearchNode(r) \/ UpdateNode(r) \/ EvictRenamed(r)

Listen(r) == TakeEvent(r) \/ HandlerStep(r) \/ \E e \in later : TakeLater(r, e)

InventoryNext ==
    \/ \E r \in Replicas : Listen(r) \/ RequestFails(r)
    \/ \E q \in Editors, a \in CloudAccounts :
        \/ DeleteRow(q, a)
        \/ \E n \in Names : Rename(q, a, n)
        \/ \E on \in BOOLEAN : ToggleScan(q, a, on) \/ ToggleActive(q, a, on)
    \/ \E q \in Editors :
        \/ Tell(q) \/ LoseEvent(q)
        \/ \E t \in DOMAIN TierRetention : ChangeProductTier(q, t)
    \/ \E a \in CloudAccounts :
        \/ RowConfigured(a) \/ RowDegraded(a) \/ RowUndegraded(a) \/ RowDisabled(a)
        \/ \E n \in Names, on \in BOOLEAN : RowDiscovered(a, n, on)
        \/ \E on \in BOOLEAN : ToggleDegraded(a, on)
    \/ TrialMoved \/ PutReportConfig
    \/ \E a \in CloudAccounts : StartRun(a) \/ Merge(a)
    \/ Compute \/ StoreReport \/ ExpireCache

\* The listeners go on, a message that was refused is given back, enabled accounts are collected, and a cached
\* report lapses.
InventoryFairness ==
    /\ \A r \in Replicas : WF_inventoryVars(Listen(r) \/ (work[r] # None /\ Refused(r) /\ RequestFails(r)))
    /\ \A a \in CloudAccounts : WF_inventoryVars(StartRun(a)) /\ WF_inventoryVars(Merge(a))
    /\ WF_inventoryVars(StoreReport) /\ WF_inventoryVars(ExpireCache)

InventorySpec == InventoryInit /\ [][InventoryNext]_inventoryVars /\ InventoryFairness

-----------------------------------------------------------------------------
(* What the inventory promises.                                            *)

Pending(topic) ==
    \/ \E i \in DOMAIN domainEvents : topic \in Topic(domainEvents[i])
    \/ \E r \in Replicas : work[r] # None /\ topic \in Topic(work[r].event)

\* Once the events about them are handled, the retention is that of the tier and an account is ignored if and only if
\* it is collected and switched off, unless two replicas handled such events, or two requests owed them, at the same
\* time, or one of the tier was delivered late. What the code tells nobody is left out until the next event: the end
\* of a trial, the accounts that were switched without an event or lost theirs, those that a new report config dropped.
ConfigFollowsTables ==
    /\ ~Pending("retention") /\ "retention" \notin jumbled /\ ~untold =>
        (\E q \in Editors : Owes(q, "tier")) \/ keep = TierRetention[tierNow]
    /\ ~Pending("ignore") /\ "ignore" \notin jumbled =>
        \A a \in CloudAccounts \ unlisted :
            \/ \E q \in Editors : Owes(q, "toggled") /\ owed[q].account = a
            \/ a \in ignoring <=> a \in Disabled

\* A renamed account does not keep its old name, in the graph or in a cached report: neither the run that was under
\* way with the old name, nor a name that the deferred job writes late, nor a report that was being computed when the
\* cache was evicted, outlasts the next runs.
NamesCatchUp ==
    \A a \in CloudAccounts :
        <>[](ToCollect(a) /\ nodes[a] # None =>
                /\ nodes[a] = accountRows[a].name
                /\ cache # None => cache[a] = nodes[a])

=============================================================================
