------------------------------ MODULE Reminders ------------------------------
(***************************************************************************)
(* The mails that remind a workspace of the end of its trial.  The handler *)
(* of WorkspaceCreated stores a row for each mail, the handler of          *)
(* ProductTierChanged removes them, the customer support does either by    *)
(* hand, and a job, every minute, mails what is due and marks it.  An      *)
(* event is delivered again until its handler has ended; the handlers of   *)
(* the two events do not wait for each other.                              *)
(***************************************************************************)
EXTENDS FiniteSets, Absent

CONSTANTS
    Spaces,
    TrialDays,
    DaysBefore,     \* a reminder for each of these days before the end of the trial
    KeepDays,       \* after which a mailed row is cleaned up
    MaxDays,        \* bound: days
    MaxBySupport,   \* bound: what the customer support schedules and removes
    MaxReminderFaults \* bound: errors of the database while a mail is sent, and crashes of the process

ASSUME RemindersAssumption ==
    /\ TrialDays \in Nat /\ KeepDays \in Nat /\ MaxDays \in Nat
    /\ DaysBefore \subseteq 0..TrialDays
    /\ MaxBySupport \in Nat /\ MaxReminderFaults \in Nat

\* A row of fire_and_forget_email: whose, which, and the how manieth of its kind.
Reminder == Spaces \X DaysBefore \X (1..MaxReminderFaults + 1)

VARIABLES
    space,       \* "new", "trial" or "left": the tier of each workspace
    created,     \* WorkspaceCreated events that are not acknowledged
    changed,     \* ProductTierChanged events that are not acknowledged
    toStore,     \* [days, at]: what is left to store for a workspace, and the end of its trial; None without a task
    stored,      \* for each reminder [due, sent]: sent is the day it was marked or None; None without a row
    today,
    pending,     \* what the job has listed and not reached
    mailing,     \* [row, mailed]: the reminder the job has read again; None
    mailed,      \* history: how often each reminder was mailed
    belated,     \* history: workspaces whose reminders were stored after they had been removed
    wiped,       \* history: workspaces that lost reminders to the support, or when another one left the trial
    bySupport, reminderFaults

reminderEvents == <<space, created, changed>>
reminderJob == <<pending, mailing, mailed>>
reminderHistory == <<belated, wiped>>
reminderVars == <<reminderEvents, toStore, stored, today, reminderJob, reminderHistory, bySupport, reminderFaults>>

Row == [due : Int, sent : Nat \cup {None}]

ASSUME ReminderAssumption == None \notin Row

RemindersTypeOK ==
    /\ space \in [Spaces -> {"new", "trial", "left"}]
    /\ created \subseteq Spaces /\ changed \subseteq Spaces /\ belated \subseteq Spaces /\ wiped \subseteq Spaces
    /\ toStore \in [Spaces -> [days : SUBSET DaysBefore, at : Nat] \cup {None}]
    /\ stored \in [Reminder -> Row \cup {None}]
    /\ today \in 0..MaxDays
    /\ pending \subseteq Reminder
    /\ mailing \in [row : Reminder, mailed : BOOLEAN] \cup {None}
    /\ mailed \in [Reminder -> Nat]
    /\ bySupport \in 0..MaxBySupport /\ reminderFaults \in 0..MaxReminderFaults

RemindersInit ==
    /\ space = [w \in Spaces |-> "new"]
    /\ created = {} /\ changed = {} /\ belated = {} /\ wiped = {}
    /\ toStore = [w \in Spaces |-> None]
    /\ stored = [r \in Reminder |-> None]
    /\ today = 0
    /\ pending = {} /\ mailing = None
    /\ mailed = [r \in Reminder |-> 0]
    /\ bySupport = 0 /\ reminderFaults = 0

Free(r) == stored[r] = None /\ mailed[r] = 0
Due(r) == stored[r] # None /\ stored[r].sent = None /\ stored[r].due <= today

-----------------------------------------------------------------------------
(* The workspace, as far as the events tell it.                            *)

SpaceCreated(w) ==
    /\ space[w] = "new"
    /\ space' = [space EXCEPT ![w] = "trial"]
    /\ created' = created \cup {w}
    /\ UNCHANGED <<changed, toStore, stored, today, reminderJob, reminderHistory, bySupport, reminderFaults>>

LeaveTrial(w) ==
    /\ space[w] = "trial"
    /\ space' = [space EXCEPT ![w] = "left"]
    /\ changed' = changed \cup {w}
    /\ UNCHANGED <<created, toStore, stored, today, reminderJob, reminderHistory, bySupport, reminderFaults>>

-----------------------------------------------------------------------------
(* ScheduleTrialEndReminder and UnscheduleTrialEndReminder.                *)

\* Mutant of StartStoring: the event is acknowledged before its handler has ended.
AcknowledgeFirst(w) ==
    /\ w \in created /\ toStore[w] = None
    /\ toStore' = [toStore EXCEPT ![w] = [days |-> DaysBefore, at |-> today + TrialDays]]
    /\ created' = created \ {w}
    /\ UNCHANGED <<space, changed, stored, today, reminderJob, reminderHistory, bySupport, reminderFaults>>

StartStoring(w) ==
    /\ w \in created /\ toStore[w] = None
    /\ toStore' = [toStore EXCEPT ![w] = [days |-> DaysBefore, at |-> today + TrialDays]]
    /\ UNCHANGED <<reminderEvents, stored, today, reminderJob, reminderHistory, bySupport, reminderFaults>>

\* schedule_one_time_email: a transaction of its own
Store(w, r) ==
    /\ toStore[w] # None /\ r[1] = w
    /\ r[2] \in toStore[w].days /\ \A d \in toStore[w].days : d <= r[2]
    /\ Free(r) /\ \A n \in 1..(r[3] - 1) : ~Free(<<w, r[2], n>>)
    /\ stored' = [stored EXCEPT ![r] = [due |-> toStore[w].at - r[2], sent |-> None]]
    /\ toStore' = [toStore EXCEPT ![w].days = @ \ {r[2]}]
    /\ belated' = IF space[w] = "left" /\ w \notin changed THEN belated \cup {w} ELSE belated
    /\ UNCHANGED <<reminderEvents, today, reminderJob, wiped, bySupport, reminderFaults>>

EndStoring(w) ==
    /\ toStore[w] # None /\ toStore[w].days = {}
    /\ toStore' = [toStore EXCEPT ![w] = None]
    /\ created' = created \ {w}
    /\ UNCHANGED <<space, changed, stored, today, reminderJob, reminderHistory, bySupport, reminderFaults>>

\* unschedule_one_time_email.  The query asks for rows without a user or of the workspace; no reminder has a
\* user, so that it finds those of every workspace, the mailed ones too.
RemoveReminders == stored' = [r \in Reminder |-> None]

HaveReminders == {r[1] : r \in {x \in Reminder : stored[x] # None}}

\* _product_tier_changed_handler
Unschedule(w) ==
    /\ w \in changed
    /\ RemoveReminders
    /\ wiped' = wiped \cup (HaveReminders \ {w})
    /\ changed' = changed \ {w}
    /\ UNCHANGED <<space, created, toStore, today, reminderJob, belated, bySupport, reminderFaults>>

\* the customer support lists the trials that are over and schedules their mails for a day of its choice ...
ScheduleBySupport(w) ==
    /\ bySupport < MaxBySupport /\ bySupport' = bySupport + 1
    /\ space[w] = "trial" /\ w \notin created /\ toStore[w] = None
    /\ \E day \in 0..MaxDays : toStore' = [toStore EXCEPT ![w] = [days |-> DaysBefore, at |-> day]]
    /\ UNCHANGED <<reminderEvents, stored, today, reminderJob, reminderHistory, reminderFaults>>

\* ... or removes them
UnscheduleBySupport ==
    /\ bySupport < MaxBySupport /\ bySupport' = bySupport + 1
    /\ RemoveReminders
    /\ wiped' = wiped \cup HaveReminders
    /\ UNCHANGED <<reminderEvents, toStore, today, reminderJob, belated, reminderFaults>>

-----------------------------------------------------------------------------
(* The jobs of OneTimeEmailService.                                        *)

\* Mutant of ListPending: of today only.
ListToday ==
    /\ pending = {} /\ mailing = None
    /\ pending' = {r \in Reminder : Due(r) /\ stored[r].due = today}
    /\ UNCHANGED <<reminderEvents, toStore, stored, today, mailing, mailed, reminderHistory, bySupport, reminderFaults>>

ListPending ==
    /\ pending = {} /\ mailing = None
    /\ pending' = {r \in Reminder : Due(r)}
    /\ UNCHANGED <<reminderEvents, toStore, stored, today, mailing, mailed, reminderHistory, bySupport, reminderFaults>>

\* Mutant of ReadReminder: the row is not read again.
MailListed(r) ==
    /\ r \in pending /\ mailing = None
    /\ pending' = pending \ {r}
    /\ mailing' = [row |-> r, mailed |-> FALSE]
    /\ UNCHANGED <<reminderEvents, toStore, stored, today, mailed, reminderHistory, bySupport, reminderFaults>>

\* _send_pending_email reads the row again, and passes over one that is gone
ReadReminder(r) ==
    /\ r \in pending /\ mailing = None
    /\ pending' = pending \ {r}
    /\ mailing' = IF stored[r] = None THEN None ELSE [row |-> r, mailed |-> FALSE]
    /\ UNCHANGED <<reminderEvents, toStore, stored, today, mailed, reminderHistory, bySupport, reminderFaults>>

\* send_email_to_workspace: what goes wrong with a single mail is logged only
Mail ==
    /\ mailing # None /\ ~mailing.mailed
    /\ mailing' = [mailing EXCEPT !.mailed = TRUE]
    /\ mailed' = [mailed EXCEPT ![mailing.row] = @ + 1]
    /\ UNCHANGED <<reminderEvents, toStore, stored, today, pending, reminderHistory, bySupport, reminderFaults>>

\* the update finds its row, or fails because the row was deleted meanwhile: then it is rolled back
MarkMailed ==
    /\ mailing # None /\ mailing.mailed
    /\ mailing' = None
    /\ LET r == mailing.row
       IN  stored' = IF stored[r] = None THEN stored ELSE [stored EXCEPT ![r].sent = today]
    /\ UNCHANGED <<reminderEvents, toStore, today, pending, mailed, reminderHistory, bySupport, reminderFaults>>

\* the workspace cannot be loaded, or the update is refused: rolled back, and tried again in a minute
SendFails ==
    /\ mailing # None
    /\ reminderFaults < MaxReminderFaults /\ reminderFaults' = reminderFaults + 1
    /\ mailing' = None
    /\ UNCHANGED <<reminderEvents, toStore, stored, today, pending, mailed, reminderHistory, bySupport>>

\* _cleanup_old_emails_job
Old(r) == stored[r] # None /\ stored[r].sent # None /\ stored[r].sent + KeepDays < today

CleanupOldEmails ==
    /\ \E r \in Reminder : Old(r)
    /\ stored' = [r \in Reminder |-> IF Old(r) THEN None ELSE stored[r]]
    /\ UNCHANGED <<reminderEvents, toStore, today, reminderJob, reminderHistory, bySupport, reminderFaults>>

NextDay ==
    /\ today < MaxDays /\ today' = today + 1
    /\ UNCHANGED <<reminderEvents, toStore, stored, reminderJob, reminderHistory, bySupport, reminderFaults>>

CrashReminders ==
    /\ reminderFaults < MaxReminderFaults /\ reminderFaults' = reminderFaults + 1
    /\ toStore' = [w \in Spaces |-> None]
    /\ pending' = {} /\ mailing' = None
    /\ UNCHANGED <<reminderEvents, stored, today, mailed, reminderHistory, bySupport>>

\* what the listeners and the jobs go on to do
ReminderStep ==
    \/ \E w \in Spaces :
        \/ StartStoring(w) \/ EndStoring(w) \/ Unschedule(w)
        \/ \E r \in Reminder : Store(w, r)
    \/ \E r \in Reminder : ReadReminder(r)
    \/ Mail \/ MarkMailed

RemindersNext ==
    \/ ReminderStep \/ ListPending \/ SendFails \/ CleanupOldEmails \/ NextDay \/ CrashReminders
    \/ \E w \in Spaces : SpaceCreated(w) \/ LeaveTrial(w) \/ ScheduleBySupport(w)
    \/ UnscheduleBySupport

RemindersFairness == WF_reminderVars(ReminderStep) /\ WF_reminderVars(ListPending)

RemindersSpec == RemindersInit /\ [][RemindersNext]_reminderVars /\ RemindersFairness

-----------------------------------------------------------------------------
(* What the reminders promise.                                             *)

\* A handler of WorkspaceCreated that dies between two of its transactions loses no reminder: when the event
\* is acknowledged and the workspace is still in its trial, each reminder has a row or was mailed.  The promise
\* ends when another workspace leaves its trial, which takes the reminders of all.
RemindersComplete ==
    \A w \in Spaces : space[w] = "trial" /\ w \notin created \cup wiped =>
        \A d \in DaysBefore : \E n \in 1..(MaxReminderFaults + 1) :
            stored[<<w, d, n>>] # None \/ mailed[<<w, d, n>>] > 0

\* A workspace that has left the trial is not reminded again once its rows are removed, unless WorkspaceCreated
\* was handled after ProductTierChanged; a mail the job had in its hands may still go out.
RemindersStop ==
    [][\A r \in Reminder :
        space[r[1]] = "left" /\ r[1] \notin changed \cup belated /\ (mailing = None \/ mailing.row # r)
            => mailed'[r] = mailed[r] /\ (mailing' = None \/ mailing'.row # r)]_reminderVars

\* The job catches up: what is due is mailed and marked, or its row is removed, whatever errors and crashes there
\* are, so that again and again nothing that is due is left.
DueIsMailed == []<>(\A r \in Reminder : ~Due(r))

=============================================================================
