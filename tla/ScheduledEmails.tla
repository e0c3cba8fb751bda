--------------------------- MODULE ScheduledEmails ---------------------------
(***************************************************************************)
(* Mails to users: of a workspace without an account, the weekly report    *)
(* and the tutorial, sent by one job in three batches, and the settings    *)
(* with which a user opts out.  A batch selects who has not had its mail,  *)
(* sends them one after the other and marks them all in one commit at the  *)
(* end.  A setting is changed by a request that reads the row first.       *)
(***************************************************************************)
EXTENDS FiniteSets, Absent

CONSTANTS
    People,
    Teams,         \* workspaces, of an age and a tier that get the reports
    MemberOf,      \* the users of each workspace
    Edits,         \* requests on the settings that are handled at the same time
    MaxMailAsks,   \* bound: requests on the settings, and workspaces that connect an account
    MaxMailFaults  \* bound: mails that cannot be sent, and crashes

ASSUME ScheduledEmailsAssumption ==
    /\ MemberOf \in [Teams -> SUBSET People]
    /\ MaxMailAsks \in Nat /\ MaxMailFaults \in Nat

Batches == <<"no_cloud_account", "weekly_report", "tutorial">>
Kinds == {"no_cloud_account", "weekly_report", "tutorial"}
Options == {"weekly_report", "tutorial"}    \* the fields of the settings that these mails ask for
Opts == [Options -> BOOLEAN]

\* A mail, with the workspace a report is about.
Letter == People \X Kinds \X (Teams \cup {None})

VARIABLES
    connected,   \* workspaces with a cloud account
    opts,        \* user_notification_settings: the row of each user or None
    editing,     \* a request on the settings: [user, option, value, read]
    batch,       \* the number of the batch the job works on, 0 between two runs
    queue,       \* the mails the batch has selected and not sent
    notes,       \* marks that are not committed
    marked,      \* scheduled_email_sent: <<user, kind>>
    got,         \* history: how often each mail was sent
    given,       \* history: reports that failed and were only logged
    mailAsks, mailFaults

mailJob == <<batch, queue, notes>>
mailHistory == <<got, given>>
mailVars == <<connected, opts, editing, mailJob, marked, mailHistory, mailAsks, mailFaults>>

Edit == [user : People, option : Options, value : BOOLEAN, read : Opts \cup {None}]

ScheduledEmailsTypeOK ==
    /\ connected \subseteq Teams
    /\ opts \in [People -> Opts \cup {None}]
    /\ editing \in [Edits -> Edit \cup {None}]
    /\ batch \in 0..3 /\ queue \subseteq Letter
    /\ notes \subseteq People \X Kinds /\ marked \subseteq People \X Kinds
    /\ got \in [Letter -> Nat] /\ given \subseteq Letter
    /\ mailAsks \in 0..MaxMailAsks /\ mailFaults \in 0..MaxMailFaults

ScheduledEmailsInit ==
    /\ connected = {}
    /\ opts \in [People -> {None, [o \in Options |-> TRUE]}]   \* some have asked before
    /\ editing = [e \in Edits |-> None]
    /\ batch = 0 /\ queue = {} /\ notes = {} /\ marked = {}
    /\ got = [l \in Letter |-> 0] /\ given = {}
    /\ mailAsks = 0 /\ mailFaults = 0

-----------------------------------------------------------------------------
(* The job.                                                                *)

\* without a row a user has opted out of nothing
Wants(u, option) == opts[u] = None \/ opts[u][option]

Selected(kind) ==
    CASE kind = "no_cloud_account" ->
            {<<u, kind, None>> : u \in UNION {MemberOf[w] : w \in Teams \ connected}}
      [] kind = "weekly_report" ->
            {<<u, kind, w>> : u \in {x \in People : Wants(x, "weekly_report")}, w \in Teams}
      [] kind = "tutorial" ->
            {<<u, kind, None>> : u \in {x \in People : Wants(x, "tutorial")}}

Member(l) == l[3] \in Teams => l[1] \in MemberOf[l[3]]
Unmarked(l) == <<l[1], l[2]>> \notin marked

Select(n) ==
    /\ batch' = n
    /\ queue' = {l \in Selected(Batches[n]) : Member(l) /\ <<l[1], l[2]>> \notin marked'}
    /\ notes' = {}

StartBatches ==
    /\ batch = 0
    /\ marked' = marked
    /\ Select(1)
    /\ UNCHANGED <<connected, opts, editing, mailHistory, mailAsks, mailFaults>>

\* the user is marked once, also when several reports are for the user
Note(l) == notes' = notes \cup {<<l[1], l[2]>>}

\* Mutant of Send: a user gets one report, of the first of the workspaces.
SendOne(l) ==
    /\ l \in queue
    /\ queue' = {x \in queue : x[1] # l[1]}
    /\ got' = [got EXCEPT ![l] = @ + 1]
    /\ Note(l)
    /\ UNCHANGED <<connected, opts, editing, batch, marked, given, mailAsks, mailFaults>>

Send(l) ==
    /\ l \in queue
    /\ queue' = queue \ {l}
    /\ got' = [got EXCEPT ![l] = @ + 1]
    /\ Note(l)
    /\ UNCHANGED <<connected, opts, editing, batch, marked, given, mailAsks, mailFaults>>

\* A report that fails is logged and passed over; any other failure ends the run of the job, which has
\* marked nobody of this batch.
SendingFails(l) ==
    /\ l \in queue
    /\ mailFaults < MaxMailFaults /\ mailFaults' = mailFaults + 1
    /\ IF l[2] = "weekly_report"
       THEN queue' = queue \ {l} /\ given' = given \cup {l} /\ UNCHANGED <<batch, notes>>
       ELSE batch' = 0 /\ queue' = {} /\ notes' = {} /\ UNCHANGED given
    /\ UNCHANGED <<connected, opts, editing, marked, got, mailAsks>>

CommitBatch ==
    /\ batch # 0 /\ queue = {}
    /\ marked' = marked \cup notes
    /\ IF batch < 3 THEN Select(batch + 1) ELSE batch' = 0 /\ queue' = {} /\ notes' = {}
    /\ UNCHANGED <<connected, opts, editing, mailHistory, mailAsks, mailFaults>>

ConnectAccount(w) ==
    /\ mailAsks < MaxMailAsks /\ mailAsks' = mailAsks + 1
    /\ w \notin connected
    /\ connected' = connected \cup {w}
    /\ UNCHANGED <<opts, editing, mailJob, marked, mailHistory, mailFaults>>

-----------------------------------------------------------------------------
(* The settings: by the user, or by the link in a mail, for one field.     *)

\* update_notification_settings reads the row ...
ReadSettings(e, u, option, value) ==
    /\ mailAsks < MaxMailAsks /\ mailAsks' = mailAsks + 1
    /\ editing[e] = None
    /\ editing' = [editing EXCEPT ![e] = [user |-> u, option |-> option, value |-> value, read |-> opts[u]]]
    /\ UNCHANGED <<connected, opts, mailJob, marked, mailHistory, mailFaults>>

\* Mutant of Written: the row is written as it was read.
WriteAll(row, edit) ==
    IF edit.read = None THEN [[o \in Options |-> TRUE] EXCEPT ![edit.option] = edit.value]
    ELSE [edit.read EXCEPT ![edit.option] = edit.value]

\* ... and commits: a new row is refused if there is one by now, of an old row the fields that differ from what
\* was read are written
Written(row, edit) ==
    IF edit.read = None THEN [[o \in Options |-> TRUE] EXCEPT ![edit.option] = edit.value]
    ELSE IF edit.read[edit.option] = edit.value THEN row
    ELSE [row EXCEPT ![edit.option] = edit.value]

WriteSettings(e) ==
    /\ editing[e] # None
    /\ editing' = [editing EXCEPT ![e] = None]
    /\ LET edit == editing[e]
           u == edit.user
       IN  opts' = IF edit.read = None /\ opts[u] # None THEN opts
                   ELSE [opts EXCEPT ![u] = Written(opts[u], edit)]
    /\ UNCHANGED <<connected, mailJob, marked, mailHistory, mailAsks, mailFaults>>

CrashMails ==
    /\ mailFaults < MaxMailFaults /\ mailFaults' = mailFaults + 1
    /\ batch' = 0 /\ queue' = {} /\ notes' = {}
    /\ editing' = [e \in Edits |-> None]
    /\ UNCHANGED <<connected, opts, marked, mailHistory, mailAsks>>

\* the run of the job goes on, and there is another in ten minutes
MailStep == StartBatches \/ CommitBatch \/ \E l \in Letter : Send(l)

ScheduledEmailsNext ==
    \/ MailStep \/ CrashMails
    \/ \E l \in Letter : SendingFails(l)
    \/ \E w \in Teams : ConnectAccount(w)
    \/ \E e \in Edits :
        \/ WriteSettings(e)
        \/ \E u \in People, option \in Options, value \in BOOLEAN : ReadSettings(e, u, option, value)

ScheduledEmailsSpec == ScheduledEmailsInit /\ [][ScheduledEmailsNext]_mailVars /\ WF_mailVars(MailStep)

-----------------------------------------------------------------------------
(* What the mails promise.                                                 *)

\* Marks are committed at the end of a batch, and one mark stands for the reports of all workspaces: who is marked
\* had the report of every workspace, or it failed and was logged.
MarkedMeansMailed ==
    \A u \in People : <<u, "weekly_report">> \in marked =>
        \A w \in Teams : u \in MemberOf[w] =>
            got[<<u, "weekly_report", w>>] > 0 \/ <<u, "weekly_report", w>> \in given

\* An opt-out stands until a request that asks for the opposite: one that changes another field at the same
\* time does not undo it.
OptOutStays ==
    [][\A u \in People, o \in Options :
        opts[u] # None /\ ~opts[u][o] /\ opts'[u] # None /\ opts'[u][o] =>
            \E e \in Edits : editing[e] # None /\ editing[e].user = u /\ editing[e].option = o
                            /\ editing[e].value]_mailVars

=============================================================================
