# Verification of fixbackend

TLA+ models of the fixbackend service (`src/fixbackend`), the TLC
configurations that check them on small instances, and TLAPS proofs of their
main safety properties for all values of the constants. All source paths below
are relative to `src/fixbackend`.

## 1. The system

fixbackend is an asyncio program that runs in three roles with one database
(MySQL, sessions at REPEATABLE READ, `app_dependencies.py`), a few Redis
servers and several message channels:

| Process | What runs in it |
| --- | --- |
| `app` | the HTTP API; `CloudAccountService` as listener of the domain events and of the CloudFormation SQS queue; the SQS listener of the AWS Marketplace; Stripe webhooks; the consumers that notify and send mail |
| `dispatching` | `DispatcherService` (listeners of `collect-events` and of the domain events, the scheduler); the periodic half of `CloudAccountService`; trial end, free tier cleanup, scheduled and one time emails, GCP and Azure pings |
| `billing` | a cron job, once an hour: billing entries and their report |

Within a process every `await` lets other tasks run; between processes there is
no order at all. A process may die anywhere. Redis streams and SQS deliver at
least once.

### Components

For each: its state, its operations, whom it talks to, what is hard, and what
makes it correct. The status (modelled, partly, not modelled) with the reason is
in `PROJECT.json`, "components".

**Collect dispatcher** (`dispatcher/dispatcher_service.py`,
`dispatcher/collect_progress.py`, `collect/collect_queue.py`). State: three
families of Redis keys per workspace (the progress hash, the hash of jobs, a key
per job), all with an expiry of four hours. Operations: `trigger_collect` (from
the scheduler and from the `CloudAccountConfigured` handler); the handling of
`collect-done`, `job-failed` and `post-collect-done`; the completion of a run.
It talks to the collect workers over a job queue and a stream, to metering, and
to everybody else with `TenantAccountsCollected` and
`TenantAccountsCollectFailed`. Hard: nothing is atomic over two Redis calls,
keys expire in between, jobs get lost, messages come again, two tasks start
collections of one workspace. Correct when no account is blocked for ever, each
result is told once and as part of a consistent whole, and usage is not lost.

**Schedule of the collect runs** (`dispatcher/next_run_repository.py`, and its
callers). State: one row `next_tenant_run` per workspace. Five writers in three
places: workspace creation, the scheduler, the handlers of `ProductTierChanged`
and `SubscriptionCreated`, the customer support. Hard: each writer uses a tier
that it read, or was told of, some awaits earlier. Correct when the next run is
ahead and on its grid, the workspace is collected again and again, and a wrong
interval does not persist.

**Cloud accounts** (`cloud_accounts/service.py`, `repository.py`,
`models/orm.py`). State: a row per account: the state (detected, discovered,
configured, degraded, deleted), its access, two switches, the count of failed
scans, a version. Operations: creation through CloudFormation or the API,
configuration (event handler and periodic task), booking of scans, degrading and
undegrading, deletion, switches, limits of the product tier. Hard: operations
read the row, await AWS, and write; many run at once, in two processes. Correct
when the row stays readable, every step is one of the lifecycle, and no account
stays in a transient state.

**Workspace tier and trial** (`workspaces/repository.py`,
`workspaces/trial_end_service.py`, `BillingEntryService.update_billing` in
`billing/service.py`). State: selected tier, highest tier of the cycle, end of the
cycle, subscription, payment hold. Hard: the active tier is computed from three
fields which several services write. Correct when a tier that was paid for is
kept to the end of the cycle.

**Billing** (`billing/billing_job.py`, `create_billing_entry` in
`billing/service.py`, `subscription/aws_marketplace.py`,
`subscription/stripe_subscription.py`, `subscription/subscription_repository.py`).
State: subscriptions with two charge timestamps, billing entries with a reported
flag. Operations: the hourly job; cancellation at either marketplace; report and
mark. Hard: two processes make entries from timestamps they have read before;
the marketplace is a remote call between two transactions. Correct when no time
is skipped or charged twice, and every entry is reported.

**Account limits and free tier cleanup** (`workspaces/free_tier_deletion_service.py`
and the enabling and disabling of accounts in `cloud_accounts/service.py`).
State: the switches of all accounts of a workspace. Hard: the services choose by
the position in unordered lists, count first and write later, and the cleanup
looks at a workspace in one window only. Correct when the limits leave an account
on, and the cleanup has done its work when its window is over.

**AWS Marketplace and Stripe subscriptions** (`subscription/`, and the handlers
of `SubscriptionCreated` and `SubscriptionCancelled` in `cloud_accounts/service.py`).
State: customers, rows of subscriptions, the reference and the tier of each
workspace, and what exists at Stripe. Hard: a checkout is several calls and
several webhooks, which come late, in any order and again; each handler makes
several changes in transactions of their own. Correct when money that was paid is
followed up, and a subscription pays where it was bought.

**Invitations, members and roles** (`workspaces/invitation_service.py`,
`workspaces/repository.py`, `permissions/`, the half of `auth/user_manager.py`
that looks for invitations). State: invitations, members, role rows. Hard:
acceptance and registration are each a row of transactions, and each looks for
what the other does; roles are checked first and written later. Correct when an
accepted invitation is not left behind, a revoked one lets nobody in, and somebody
can administer the workspace.

**Authentication and users** (`auth/`). State: users with a secret, recovery
codes, links to accounts of providers, API tokens, a minimum time of tokens,
buckets of login attempts. Hard: a request reads the user at its start and hashes
for long before it writes; providers call back for accounts and emails another
request is signing up. Correct when a user has a workspace, old codes die with
their secret, and an account of a provider is not taken away.

**Certificates and JWT** (`certificates/`, `fix_jwt/`). State: two pairs of files
and what each server has cached of them. Hard: two reads make a pair. Correct
when a token is good until the next rotation.

**Notifications and emails** (`notification/`, consumers in
`domain_events/consumers.py`). State: settings of alerts, a second stream with a
message for each alert, rows of reminders, marks of scheduled mails, opt-outs.
Hard: read, send, mark, in this order, with a listener that may die in between
and settings that change. Correct when nothing is lost, nothing is repeated
without end, and an opt-out stands.

**Inventory** (`inventory/inventory_service.py`). State: the configuration and the
names in the graph database of a workspace, a job that writes names later, a cache
of reports. Hard: several replicas handle the events of one workspace, while
collect runs write what the tables said before. Correct when the database follows
the tables. The API in front of it (`inventory_router.py`, `inventory_client.py`,
`streaming_response.py`) keeps no state, but hands on answers line by line. Hard: the
inventory may fail before the first line or after it, when the status has been sent.
Correct when an answer that ends is a whole one or an error, and nothing in between.

**GCP and Azure onboarding** (`cloud_accounts/gcp_service_account_service.py`,
`azure_subscription_service.py`, their repositories and routes). State: credentials
with the outcome of the last import. Hard: periodic imports against requests that
replace the key. Correct when the status belongs to the key.

**Analytics** (`analytics/`). State: two senders with records in memory. Hard: the
batches are sent while records come in, and the process may stop. Correct when a
record goes out once.

**Domain events** (`domain_events/`). Publishing into a Redis stream and a
dispatching listener of the library fixcloudutils, at least once. Each module
models the delivery of the messages it needs, with loss of what was not published,
repetition and reordering.

Mostly libraries and I/O: **metering** (an append-only table), **graph database
access**, the **event web socket**, and the **wiring** of the application.

## 2. The modules

Each family has the model `X`, its properties `XProps`, its proofs `X_proofs`, and
`MCX`, which gives TLC a symmetry set or a function for a constant. The short modules
(from `RateLimit` on) end with their properties. `Auth_proofs` holds the proofs of
`Auth`, `RateLimit`, `Keys`, `Onboarding` and `Analytics`, and `Followers_proofs` those of
`AccountLimits`, `Alerts`, `Reminders`, `ScheduledEmails`, `Inventory` and `Answers`:
parts that share no variable, each with a specification of its own. Definitions
that begin with "mutant:" in their comment are not used by a model; they are
plausible bugs which the properties have been seen to catch (`PROJECT.json`,
"mutants").

| Module | Models |
| --- | --- |
| `Dispatcher` | one workspace's collect run, every Redis call a step |
| `CollectRun` | what a run promises: the abstract specification of `Dispatcher` |
| `CloudAccount` | one row of `cloud_account` and every task on it |
| `AccountLifecycle` | the states an account may go through: abstract specification of `CloudAccount` |
| `NextRun` | `next_run_for`, as an operator |
| `Workspace` | tier, billing cycle, trial end and schedule of one workspace; extends `NextRun` |
| `Billing` | one subscription, its entries, the job and the cancellation |
| `AccountLimits` | the switches of all accounts of one workspace and who turns them |
| `Subscriptions` | customers, checkouts, webhooks, the marketplace, the choice of a method and of a tier |
| `Members` | invitations, acceptance, registration, members and roles |
| `Auth` | users, second factor, providers, tokens |
| `RateLimit` | the script that limits logins |
| `Keys` | the two pairs of keys, and the servers that cache them |
| `Onboarding` | the credentials of one workspace at a cloud, and the jobs that try them |
| `Analytics` | records from the event to the two senders |
| `Alerts` | settings, the second stream, the providers |
| `Reminders` | the reminders of the end of the trial |
| `ScheduledEmails` | the three batches, their marks, the opt-outs |
| `Inventory` | what `InventoryService` writes about one workspace |
| `Answers` | one request of the inventory API: its calls, their errors, the streamed answer |
| `Absent` | the constant `None` of the modules that are extended together |

The families meet in events. `Dispatcher` ends a run with a report; `CloudAccount`
takes reports as messages of kind "success" and "failure" (`Collected`), which may
wait and be stale. `Workspace` has the collections as one step (`Collect`).
`Billing` shares with `Workspace` the assignment of a subscription, whose way to
the workspace is `Subscriptions`; `AccountLimits` has its handlers, and the end of
the trial, as far as they turn switches. `Members` and `Auth` meet in the
registration: `Auth` ends with a workspace for the user (`home`), `Members` looks at
whether that is one's own or the one of an invitation.

`MCAuth` and `MCFollowers` put parts side by side that share no variable: `Auth`,
`Onboarding`, `Analytics`, `Keys` and `RateLimit` in one, `Alerts`, `Reminders`,
`ScheduledEmails`, `Inventory` and `Answers` in the other. A behaviour of all of them is an
interleaving of one of each, and no property looks at two, so a violation would be
one of a part alone. The variable `part` picks one at the beginning, the others stay
as they are, and TLC explores the sum of the state spaces instead of their product.
The fairness of a part is stated for the steps of that part.

### Dispatcher

`progress`, `jobs` and `jobTtl` are the three key families; `progressTtl`,
`jobsTtl` their expiry, where 0 is "no expiry". `Track` is the MULTI/EXEC that
writes and renews all three. The listener (`lpc`) takes one message (batch size 1)
and makes one step per Redis call or publication. `mark_job_as_failed` and
`mark_account_as_collected` read the hash and then `HSET`, so `WriteResult` may
meet a hash that is gone and make one without an expiry. `Tick` is the clock of
Redis, `Lose` a worker that dies, `Crash` the death of the process. Job ids are a
finite set: an id that nothing in the system holds counts as new. The uuid makes
equal ids impossible, so that is sound, but the number of ids bounds how many jobs
are held at once.

`TimelySpec` leaves out `Tick` and `Crash`. It is for the promises the code can
keep only if a run is over within four hours: with an expiry or a crash in the
middle, results may be dropped or told twice, and the code does not claim else.

### CloudAccount

One AWS account (or one of GCP or Azure, `cloud`) of one workspace. `pc[t]` is what
a task does next between two awaits: slots of the event listener (`Handlers`),
requests and CloudFormation messages (`Requests`), the periodic task. `arg` and
`since` are what it has captured. `CloudAccountRepository.update` checks the
version and calls its closure again on a conflict, so that it is one step, which
sees the row as it is then. Time is in the four ages the code tells apart (one, 15
and 30 minutes). AWS may refuse the role or a permission at any time. The limit of
the workspace is a free choice (`e \in BOOLEAN`), as it depends on other accounts.

### Workspace

`selected`, `highest` and `held` are the three fields behind
`current_product_tier`; `due` is `next_tenant_run.at` minus the current time, so
the model has no clock that grows. Trial end lists, disables accounts, and then
writes Free, whatever the tier is by then. The row of the workspace has no version,
so what is written depends on what the session still holds: the row as it is
(`EndTrial`), or, for the first workspace of the list, the row as it was listed, over
a cycle that has begun since (`EndTrialAsListed`). When the database fails nothing is
written and the trial is listed again in an hour (`TrialNotMoved`).

### Billing

`create_billing_entry` is run by the job and by the listener of the marketplace
queue: `pc`, `from`, `to`, `ws` and `entry` hold its locals for each of the two. It
reads the workspaces, then the metering summaries, and writes the entry with the
timestamps in one transaction; the free tier and a usage of zero write only the
timestamps. `charged` counts how often a tick of a workspace is charged, `settled`
collects what was charged or found without usage for the workspace that was looked
at. The loop over the workspaces returns in its first turn, and so does the model.
`update_subscription` (`Attach`) and the `SubscriptionCancelled` handler (`Detach`)
run in between. The subscription stays active, since
`mark_aws_marketplace_subscriptions` does not commit.

### AccountLimits

An account is a position in the list that `list_by_workspace_id` returns, whose
order follows random ids; a new account may take any free position. `ToDisable`
slices that list as the code does. Trial end, the handlers and the cleanup read
first (`todo`, `mayEnable`) and then write account by account. The cleanup is due
every hour; `late` says for how long it did not run, up to `MaxLate`, which is less than
the window of a day (`LateAssumption`), and `overdue` remembers what was there when the
timeout was over. The code keeps the last of the
list at the end of the trial and the first in the cleanup, so the cleanup may delete
the one account that is on. `add_account` and the switch count before they write, so
two requests may exceed the limit. Both are behaviours of the model, and no property
forbids them.

### Subscriptions

Stripe is a set of customers (`customers`), payments (`payer`, `refunded`),
subscriptions (`buyer`, `alive`) and events still to deliver (`hooks`); an event is
taken away by the step that answers it. A task is one request, webhook or domain
event, and each of its steps one call or one transaction. A crash ends all tasks
(`Cut`), and what was not answered is delivered again. The webhook's check for an
existing subscription looks at the workspace, whose reference is written later, so a
webhook that comes again after a crash may make a second subscription at Stripe. All
rows are active, since what would end them does not commit.

### Members

The tasks are `Requests` and one registration for each user. Between the mark of an
invitation and the membership lie three transactions (`update`, `user`, `read` and
`join`, `delete`), between the user and the look at the invitations one. `seen` is
the role row a task has read, `stale` whether any has been written since: add_roles
reads and updates one row, so the later of two writers does not know of the other.
`broken` holds the accepted invitations whose acceptance or registration has ended in
an error or a crash. Seats are counted before they are taken, and a member who is
removed keeps the role row; both are in the model as they are.

### Auth and the parts beside it

A task of `Auth` keeps what it has read (`seen`), and the slow hash is a step
(`hash`). A user who is verified gets a workspace in three steps. `FindInvitation` looks
for an invitation of the email, accepted or not, and raises when two workspaces have
invited it; `JoinWorkspace` is the one of an invitation that was accepted;
`CreateDefaultWorkspace` and `InsertWorkspace` look for the slug and insert the row, an
error when the slug was taken in between. Nothing tries again after an error, so such a
user stays without a workspace (`cut`). `invites` and `slugs` are what other workspaces
and users do meanwhile; acceptance itself is in `Members`. `account_id` of a link is not unique, so two users may associate one
account; `AddLink` and `Associate` write what the look before has decided. `RateLimit`
is the script line by line: one step of Redis, a count that goes below zero, tokens
that are refilled but never stored. A server of `Keys` reads the certificate and then
the key, and both may be replaced in between. `Onboarding` lists with a secret, writes
the status to the row, whichever secret that has by then, and creates the accounts. The
pinger takes up what is younger than half an hour: if the process dies in each of its
attempts in that time the status stays open. For Google the healthcheck takes up such a
row later, for Azure nobody does, so `StatusIsOfTheKey` is about credentials that were
new for longer than there were such crashes (`importFaults < NewFor`). In `RateLimit`
the history `granted` keeps when each attempt was let through, and the tokens it found:
`AtMostPerWindow` speaks of the distance of two of them.
`Analytics` cuts the batches of a user from the list of all users' records, as the
code does; what is `mixed` this way is exempt from the promise.

### Alerts, Reminders, ScheduledEmails, Inventory, Answers

Every delivery is at least once: an event stays in its set until its handler has
ended. The handler of `TenantAccountsCollected` publishes one message after another
into the second stream (`handler`), whose listener reads the configuration and calls
the provider (`sender`). A call may fail before the provider has taken the message
(`ServerError`) or after it, when its answer does not come in time or one of several
addresses is refused (`FailsThoughTaken`); the listener cannot tell, and the message is
sent again. `unsure` counts the second kind. `unschedule_one_time_email` compares both ids with OR, so a
workspace that leaves its trial removes the reminders of all; those are in `wiped`. A
batch of `ScheduledEmails` commits all its marks at the end (`notes`). 
In `Inventory` a request commits its row and owes its event (`owed`) until it publishes it
(`Tell`) or dies (`LoseEvent`). Other changes have no event that `InventoryService` listens
to: an account becomes discovered, configured, degraded or undegraded, is switched while it
is degraded, or is disabled (`service.disable_cloud_account`, which nobody calls at
present); and the end of the trial writes the tier without `ProductTierChanged`
(`TrialMoved`), so that the retention stays the one of the trial. `PUT /report/config`
replaces `fix.report.config` without the ignored accounts (`PutReportConfig`). `unlisted`
and `untold` remember what was changed so, until an event comes along. The list of
ignored accounts has only those that are configured and enabled (`ToCollect`, `Disabled`).
The replicas each take the next event; a collect run writes the name it was started
with, a deferred job writes a name an hour later, and a report that was being computed
enters the cache after it was evicted.

`Answers` is one request. A route is the sequence of the calls it makes (`Routes`), a
call a method of the client (`Client`), with the errors that make it raise. The handler
returns a result or a stream; a stream opens the list before it reads the first line
(`OpenStream`), and an exception either becomes the answer or, once the status is out,
breaks it off (`RaiseInStream`). Two things of the code are in the model as they are: a
stream turns every exception of the client into 400, while the handlers of the
application know the status of each; and `InventoryClient.resource` raises only for the
code it is told to allow, so that the text of any other error is shown as the node
(`ErrorForResult`), which the property leaves out.

## 3. The runs

All runs take `tlc -workers 2 -config <run>.cfg <module>`; the times are from a
small machine.

| Run | Bounds | Shows |
| --- | --- | --- |
| `Dispatcher` | 2 accounts, 2 jobs, ttl 2, 1 crash; fair clock | an account that is being collected is in a hash that expires; usage is metered before it is visible; an account in a hash with an expiry is released |
| `DispatcherTimely` | 2 accounts, 3 jobs, 2 triggering tasks; 2.1M states, 1 min | `CollectRun` is implemented |
| `CloudAccountSafety` | 2 roles, 2 handlers, 1 request, periodic task, 2 edits; 4.5M states, 2 min | the row is readable; `AccountLifecycle` is implemented |
| `CloudAccountLiveness` | 1 role, 1 handler, 1 fault | discovered accounts settle; failing scans are noticed |
| `Workspace` | 4 tiers, intervals 1, 2 and 4, 3 changes, 1 crash; 1.1M states, 1.5 min | no downgrade within the cycle; next run ahead and on grid; runs go on; the schedule heals |
| `WorkspaceTier` | 4 tiers, 3 changes, no crash; violation | once the first cycle is over no change between paid tiers starts another, and a downgrade is effective at once |
| `Billing` | 1 workspace, 2 entries, period 2, time 4, 1 cancellation, 1 fault; 0.6M states, 1 min | nothing skipped, nothing charged twice without a cancellation, entries get reported, what is due is charged |
| `AccountLimits` | 3 accounts, limit 1, 1 handler, window of 2 ticks, 1 request, 1 change of tier, 1 crash | the limits leave an account on; the cleanup does its work in its window |
| `Members` | 1 user beside the owner, 2 requests, 3 seats, 2 invitations, 1 change, 1 crash; 2.4M states, 1 min | acceptance and registration meet; revoked is revoked; an administrator stays |
| `Subscriptions` | 2 workspaces, 2 tasks, 1 user, 2 rows, customers, payments and subscriptions, 1 repeated event, 1 crash; 3.5M states, 1.5 min | Stripe pays at home; who pays is found; a payment is not forgotten |
| `Auth` | 2 users with one slug, 1 account of a provider, 2 requests at a time, 6 in all, 2 secrets, 2 invitations, 1 crash; credentials: 2 secrets, 3 requests; analytics: 3 facts of 2 users, batches of 2; keys: 2 servers, 2 rotations; limit 4, window 4, 9 s; 3.4M states, 2 min | the six promises of sign-up, second factor, credentials, records, tokens and logins |
| `Followers` | alerts: 1 benchmark, 2 channels, 1 run; reminders: 1 workspace, 2 reminders; mails: 2 users, 2 workspaces; inventory: 1 account, 2 names, 2 requests, 2 replicas, 2 changes or faults; answers: every route, 2 lines; a fault each; 1.1M states, 3 min | alerts not lost and not repeated, reminders complete, ended and sent, marks mean mails, opt-outs stay, database and reports follow the tables, an answer that ends is whole or an error |

The violation is a finding: a test says that a downgrade keeps the tier to the end of
the billing cycle, the code does so in the first cycle only (`PROJECT.json`,
"findings"). The run's behaviour: a workspace chooses its highest tier, which starts a
cycle; the month ends; it changes to a lower paid tier, and has it at once, since the
highest tier stored was never reset and no cycle starts. The properties and what each is about are stated in the comments above
them; "hazards" in `PROJECT.json` says which line of the code each is for.

What the code does and a property has to leave out is said in the property:

- a finished entry of a run that has lost its expiry stays (`Released`);
- charging twice when the customer cancels (`ChargedOnce`);
- stale role rows (`KeepsAdmin`);
- rows stored under an import (`StatusIsOfTheKey`);
- mixed batches (`EachRecordOnce`);
- a sign up that ended with an error: a crash, an account somebody else has linked,
  invitations of two workspaces, a slug taken in between (`NobodyHomeless`, `cut`);
- messages the provider took although the call failed (`NotSentAgain`, `unsure`);
- reminders that the support or another workspace has removed (`RemindersComplete`,
  `wiped`);
- overlapping replicas or requests, and changes that had no event or lost it
  (`ConfigFollowsTables`: `jumbled`, `unlisted`, `untold`);
- errors shown as a node (`EndMeansComplete`).

Each of these is a history variable or a condition that the run reaches, with one
exception: `Reminders` has one workspace in the run, so that of `wiped` only the half
about the support is reached. A second workspace multiplies the states beyond what a run
can explore, and nothing is claimed of the reminders another workspace removes; the proof
of `RemindersAreComplete` is for any number of workspaces, with the same exemption.

Why the bounds are enough. Two accounts are the least with which a run is partly
done, and with which one renews the expiry of the other; in `DispatcherTimely` a third
job id lets one account be collected twice while the other runs. A ttl of 2 lets a key
be renewed between two ticks. Two roles and two handlers with a request give every
pair of writers of a row a third one in between; `MaxFailed` is 1 instead of 3, so a
second failed scan degrades. Four tiers have two paid ones to go up and down between,
and different intervals. In `Billing` the time covers two charges of period 2, the
second of which may meet a late first one, and two entries let a retry overtake; a
second workspace changes nothing of what one is charged, and the proofs are for any
number. Three accounts with a limit of one let two tasks with different lists switch
off all that a wrong slice would, and let a request add one to what a task has listed;
two ticks of the window are one the job may miss and one it may not. Two invitations
are the ones of a user that the registration cannot tell apart, and let one be revoked
while a task works on the other. Two workspaces and two customers are the least for a
payment to end up in the wrong place; two tasks are a redirect and a webhook, or a
webhook and its repetition after a crash. Two users and one account of a provider
meet in one link; three facts of two users with batches of two are a batch that is full,
one that is not, and one of another user. Two rotations replace both pairs. A limit of
4 tokens in 4 s with 9 s has more than two windows and refills of one token per second.
Two channels are one with one address and one with several. Two replicas are the least
that overlap, and two requests the least whose events can change places; two changes or
faults are a change under an event that is on its way, or a lost event after a change
without one. Two invitations and one slug for two users are the errors of a sign up.
Where the model is not bounded by nature (crashes, edits, changes of tier,
cancellations, messages waiting in a stream) the bound is a constant of its own in
the guard of the action, named `Max...`.

`CHECK_DEADLOCK FALSE` is set where the system may really rest: an account that is
deleted, with no edits left; a run under `TimelySpec` whose entries nobody will
expire; and the runs in which requests and events are used up and nothing periodic
goes on.

### Fairness

- `Dispatcher!FairSpec`: only `Tick`. Redis expires keys whatever the program does;
  nothing is assumed of workers, listener or triggers.
- `CloudAccount!FairSpec`: the handlers, the periodic task, time, and that enabled
  accounts go on to be collected. asyncio runs a task that is ready, the stream
  delivers what was not acknowledged, and `Periodic` calls its function every minute.
  Requests are not fair: a user may stop anywhere. The outcome of AWS is not fair
  either: it may refuse for ever.
- `Workspace!FairSpec`: scheduler, event handlers and time. Users, the customer
  support and the end of the trial are not fair.
- `MCFollowers!FollowersSpec`: the steps of the job that mails reminders and its
  listing of what is due, which `Periodic` runs every minute; the listeners of the
  replicas, and a refused request, which ends with an error; that collect runs are
  started and merged; that a report is stored and the cache expires. Requests,
  providers, the support and crashes are not fair.
- `Billing!FairSpec`: only the job, which cron starts every hour. Neither the
  listener, nor a cancellation, nor time is.

Faults are bounded in the runs that check liveness: a process that dies every time
gets nothing done.

## 4. What is proved

`tlapm` checks every proof to the last leaf. The assumptions are those the modules
name (`...Assumption`): positive periods and lifetimes, bounds in Nat, "None" being
no value (of a row, a record or a message), disjoint sets of tasks, a cleanup that is
late for less than its window; TLC evaluates them in the runs. Every invariant that a
run checks is also proved, for all values of the constants, and so are the action
properties and the refinements of the passing runs; only liveness is not.

| Theorem | Argument |
| --- | --- |
| `Dispatcher_proofs!TypeCorrect` | one case per action; an active program counter comes with the locals that step needs, which is part of `TypeOK` |
| `RunningAlwaysExpires`, `JobsAlwaysExpire` | only `Track` writes "running" and it renews the expiry; expiry and deletion empty the hash. Inductive on top of `TypeOK` |
| `MeteredFirst` | the listener reaches the progress entry of a success only through `AddMetering`; the invariant says so of every step in between, and a job id in a message is not fresh, so its count is not reset |
| `PostCollectNeverEmpty` | `snap` is what `ReadState` decided on, and no step before `EnqueuePost` changes it |
| `CollectRunRefined` | under `TimelySpec`: the deletion of a run is mapped to the moment its report is taken (`Completing`), the report to `outbox`. Each action is a step of `CollectRun` or a stutter; entries that appear between taking and deleting are started collections, which the abstract run may abandon |
| `MeteredAtMostOnce` | under `TimelySpec`. `OnceInv`: a job is held in one place, by the task that has tracked it, in the queue or in one message; once metered, only in the message the listener works on. Uses that the listener never has to give a message back (`CutInv`) |
| `CloudAccount_proofs!TypeCorrect`, `RowStaysReadable`, `LifecycleRefined` | `TypeOK /\ AccessMatchesState` is inductive: every write takes state and access from the row or both anew. With it each action maps to a step of `AccountLifecycle` |
| `Workspace_proofs!NextRunInFuture`, `ScheduleAhead` | division with remainder, for any interval and any delay; `sat < 0` while the scheduler works, from `TypeOK` |
| `Workspace_proofs!CycleKeepsTier` | `CycleInv`: a running cycle has a highest tier, and no tier is selected without raising it |
| `Billing_proofs!TypeCorrect` | needs `QueueInv`: a message that is handled is still queued |
| `NoTimeSkipped` | `SettledInv`: everything before any captured start of a period is settled, not only what lies before the timestamp. Needed because the two writers may set the timestamp back |
| `NoMoneyLost` | between report and mark the entry is already taken |
| `NothingChargedTwice` | `OnceInv`, until a cancellation: the job's captured start is the timestamp of the row, and nothing from there on is charged. Once the row is deleted that is true only until the job has written, and it cannot list it again |
| `Followers_proofs!TypeCorrect`, `LastAccountStaysOn` | `KeepInv`: after whatever a task is about to switch off there is an account in the list that is on. Every list spares its end, and the account that is spared by one task has, in the list of another, one after it that is on |
| `CleanupInTime` | `CleanInv`: while an account too many is overdue, the job is at work or due before the window ends (`StillDue`): the longer the window has been open the longer the job has not run, and it is late for less than a window. What it has listed spares no more accounts than the limit (`CutLeavesLimit`, by the pigeonhole principle on their positions) |
| `Subscriptions_proofs!TypeCorrect` | `Locals`: what the step of a task needs of its locals |
| `StripePaysAtHome` | `HomeInv`: a row is made once and never becomes another (ids are used once), and what a task is about to write to a workspace was of that workspace when it was chosen (`FitsTo`) |
| `PayerIsCustomer` | `CustomerMade`, `CustomersKnown`: a customer is in the table before somebody is sent to the checkout with it, and no customer there is replaced |
| `PaymentRemembered` | `MessageInHand`, `HooksMeant`: an event is taken from `hooks` only by the step that has done what it asks for, so either it is still there or the money is back and the subscription made |
| `Members_proofs!TypeCorrect` | a task that has begun has the invitation and the locals its step needs (`Locals`); who has a membership has a role row |
| `StrandsNobody` | `Registered`, `ForItsUser`: the registration begins with the user's row and looks before it gives up, the acceptance marks before it looks for the user it was made for. Of the two the later one finds the other |
| `RevokedStaysOut` | `UsedOnce`, `Pursued`: a task that goes on has marked the row while it was there, and from then on it is not counted as revoked; ids do not come back |
| `AdminStays` | `RolesKnown`: as long as no row was written since, who asked for a change of somebody else's role still has the role, and a task that adds a user knows the roles the user has |
| `Auth_proofs!AuthTypeCorrect` | `TasksOK`: a step that writes a row has a user with a row, one about a link has an account. Rows are never deleted |
| `EverybodyAtHome` | on top of it `NobodyHomeless` is inductive: the email is verified only by a step that goes on to the workspace, and that task ends only there or with an error, which `cut` remembers: a crash, an account somebody else has linked, two invitations, a slug that is taken |
| `CodesAreOfSecret` | `CodesInv`: codes are made, replaced and used up only together with the row's secret (`SecretsKeep`), whatever a request has read before |
| `LoginsAreLimited` | `Spread`: of two attempts let through within a window the later one has found as many tokens less as there are attempts between them, and the waits between add up to a quadratic function of the tokens (`Waits`). k more than the limit need (k + 1)(k + 2) / 2 refills of 1 / Limit of a window. `Renewed`: only an attempt that is let through renews the expiry, and nobody is refused without a key |
| `TokensOutliveRotations` | `PairsKnown`, `HalvesKnown`: what a server has read since the last rotation, a pair or half of one, is in the files or was replaced by that rotation; the files hold the two latest pairs |
| `StatusIsFound` | `FoundWithSecret`: an import that is under way, and the status, belong to the secret in the row unless something was stored under an import; `Timely`: until there is a status the pinger is at work or about to be, and a crash costs it one of its turns |
| `RecordsOnce` | `PostHogHasIt`, `GoogleHasIt`: a fact that has passed a sender is in its memory, gone out, or accounted for; `WaitsOnce`, `PostsFit`: it waits in one place, and batches cut from the records of one user cover each once (`BatchRange`), so that it is reported once for each process (`ReportedInTime`) |
| `Followers_proofs!AlertsArrive`, `AlertsOnce` | `HandledIsSafe`: what a handler has published or passed over is safe while it goes on; `Accounted`: what was sent, is in the stream or is in the hand of a handler adds up to at most what errors and crashes allow, and a call that failed although the message was taken adds one to both sides |
| `RemindersAreComplete` | `StoredSoFar`: the handler has stored the reminders it no longer lists, or another handler did; a marked row was mailed (`MarkedWasMailed`) |
| `RemindersEnd` | `NoneLeft`: a workspace that left the trial in the right order has no row, so the job can list none |
| `ReportsCovered` | `BatchCovers`: for each user noted in the running batch every report is sent, given up or in the queue, and marks are only taken from the notes when the queue is empty |
| `OptOutsStay` | `SettingsTyped`: a row is never deleted, so a request that has read one finds one when it writes, and changes only its own field of it |
| `ConfigurationFollows` | `RetentionFollows`, `IgnoredFollow`: while at most one request owes an event of the tier and events of one replica at a time are under way, the last one in the queue tells the current tier, and the database has what the last handled one told. What a replica has listed is right for every account whose toggle is not owed and that was not switched silently since (`Lists`): each change of the tables keeps that, by having an event or by being remembered in `unlisted`. "Alone" and "jumbled" separate what overlapping replicas do |
| `AnswersEndComplete` | `SoFar`: what has been said is what belongs to the lines told so far, with the status of the first chunk; over the calls of every route |

The proofs hold for any number of everything that the runs bound, the bounds of the
counters included. `JobsAlwaysExpire`, `PostCollectNeverEmpty`, `MeteredAtMostOnce`,
`NoMoneyLost`, `NextRunInFuture` and the types are proved and not run, each being
checked by TLC before it was proved. `AuthProps`, `Keys` and the other parts of `MCAuth`
and `MCFollowers` are proved part by part, about `Spec`, `KeysSpec` and so on, of which
the runs check the interleaving (section 2).

Only model-checked: all liveness (`Released`, `Settles`, `FailureNoticed`,
`RunsAgain`, `ScheduleHeals`, `Reported`, `DueIsCharged`, `DueIsMailed`,
`NamesCatchUp`), which is out of the prover's reach, as is `ENABLED`. What a proof needed
of a sum or of the greatest element of a set, which would be induction over data, is
stated without: `AtMostPerWindow` quantifies over pairs of attempts instead of adding them
up, and over every k for which the limit holds instead of choosing the least.

## 5. What is not modelled

- Several workspaces in `Dispatcher` and `CloudAccount`: `list_degraded_for_ping`
  ignores its workspace argument, which no model of one workspace can show.
- In `Billing`: the amount of an entry (a function of the metering summaries), the
  report of "no usage" to AWS (no state of ours), an SQS message that is given up after
  too many receives, and entries of several subscriptions. Usage is reported to Stripe
  with `action=set`; what Stripe makes of two reports within one of its periods is
  Stripe's.
- In `Auth`: what fastapi-users does on its own (the reset of a password, cookies), and
  the strength of what is hashed and signed.
- In `Inventory` and `Answers`: the text of queries and the rendering of results, and
  the parameters of a request, which are handed on.
- In `Onboarding`: what is left behind at Azure when one of the calls that register an
  application fails.
- Names, slugs, templates, texts, and what is shown.
- The domain event library, metering, the graph database access, the event web socket
  and the wiring: they keep no state that the code of this repository changes in more
  than one step. The models take from them the delivery of events, the processes and
  the isolation level.

## 6. Plan

1. The safety half of the liveness properties (who may still release an account, settle
   it, report an entry or mail a reminder in every state where it waits), as invariants
   with proofs.
2. Types of the modules whose invariants contain them only in part (`Alerts`,
   `Reminders`, `ScheduledEmails`, `Inventory`, `Answers`, `Analytics`).
3. Abstract specifications: an alert or a reminder is sent once or its loss is
   explained, as a refinement of `Alerts` and `Reminders`; membership as a set that
   `Members` refines.
4. Larger instances of `Members` (two users with one email each and two workspaces) and
   of `Subscriptions` (a second user) where the time allows.
