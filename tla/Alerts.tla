------------------------------- MODULE Alerts -------------------------------
(***************************************************************************)
(* Alerts on failing benchmarks.  When the accounts of a workspace have    *)
(* been collected, the settings of the workspace say for which benchmarks  *)
(* and to which channels an alert is sent; each is a message of its own in *)
(* a second stream, whose listener calls the provider of the channel.      *)
(* Both streams deliver a message again until its handler has ended well.  *)
(***************************************************************************)
EXTENDS Absent

CONSTANTS
    Benchmarks,
    Channels,      \* notification providers, one configuration each
    Emails,        \* the channels that have several addresses, mailed one after the other
    Collects,      \* collect runs of the workspace
    Requests,      \* requests on the settings that are handled at the same time
    MaxAlertAsks,  \* bound: requests
    MaxDown,       \* bound: calls of a provider that fail
    MaxAlertFaults \* bound: crashes of the process, and errors of the inventory

ASSUME AlertsAssumption == Emails \subseteq Channels /\ MaxAlertAsks \in Nat /\ MaxDown \in Nat /\ MaxAlertFaults \in Nat

Alert == Collects \X Benchmarks     \* its id is the hash of the benchmark and the tasks of the collect run
Message == Alert \X Channels

ASSUME MessageAssumption == \A M \in SUBSET Message : M # None

VARIABLES
    hooks,      \* notification_provider_config: the channels that are set up
    alerting,   \* workspace_alert_config: the channels of each benchmark; None without a row
    failing,    \* the alerts there is a reason for
    collected,  \* TenantAccountsCollected that are not acknowledged
    handler,    \* what alert_on_changed has left to do for an event: None when it is not at work
    stream,     \* copies of each message of fix_alerts that are not acknowledged
    sender,     \* the message _send_alert works on, after it has read the configuration of the channel
    sent,       \* how often each message reached the provider, or the first address of an email channel
    ended,      \* history: messages that were dropped, for the reason the code has
    unsure,     \* history: calls that failed although the provider had taken the message
    due,        \* history: messages that the settings asked for when the event was last handled
    flows,      \* channels a user adds at the page of the provider
    edit,       \* the settings that a request has read
    alertAsks, down, alertFaults

settings == <<hooks, alerting>>
alertStreams == <<collected, handler, stream, sender>>
alertHistory == <<sent, ended, due, unsure>>
alertVars == <<settings, failing, alertStreams, alertHistory, flows, edit, alertAsks, down, alertFaults>>

Setting == [Benchmarks -> SUBSET Channels]
MaxSent == 1 + 2 * MaxAlertFaults + MaxDown

AlertsTypeOK ==
    /\ hooks \subseteq Channels
    /\ alerting \in Setting \cup {None}
    /\ failing \subseteq Alert
    /\ collected \subseteq Collects
    /\ handler \in [Collects -> (SUBSET Message) \cup {None}]
    /\ stream \in [Message -> 0..1 + MaxAlertFaults] /\ sender \in Message \cup {None}
    /\ sent \in [Message -> 0..MaxSent]
    /\ ended \subseteq Message /\ due \subseteq Message /\ unsure \in 0..MaxDown
    /\ flows \subseteq Channels
    /\ edit \in [Requests -> [channel : Channels, read : Setting \cup {None}] \cup {None}]
    /\ alertAsks \in 0..MaxAlertAsks /\ down \in 0..MaxDown /\ alertFaults \in 0..MaxAlertFaults

AlertsInit ==
    /\ hooks = {} /\ alerting = None
    /\ failing = {} /\ collected = {}
    /\ handler = [c \in Collects |-> None]
    /\ stream = [m \in Message |-> 0] /\ sender = None
    /\ sent = [m \in Message |-> 0]
    /\ ended = {} /\ due = {} /\ unsure = 0
    /\ flows = {} /\ edit = [r \in Requests |-> None]
    /\ alertAsks = 0 /\ down = 0 /\ alertFaults = 0

AlertAsk == alertAsks < MaxAlertAsks /\ alertAsks' = alertAsks + 1 /\ UNCHANGED <<down, alertFaults>>

-----------------------------------------------------------------------------
(* Settings.                                                               *)

\* update_notification_provider_config: an event, then the row
SetHook(ch) == hooks' = hooks \cup {ch}

\* add_pagerduty, add_opsgenie, add_teams, add_email
AddChannel(ch) ==
    /\ AlertAsk
    /\ SetHook(ch)
    /\ UNCHANGED <<alerting, failing, alertStreams, alertHistory, flows, edit>>

\* add_slack and add_discord send the user to the provider with a token for the way back ...
GoToChannel(ch) ==
    /\ AlertAsk
    /\ flows' = flows \cup {ch}
    /\ UNCHANGED <<settings, failing, alertStreams, alertHistory, edit>>

\* ... where the provider confirms ...
ConfirmChannel(ch) ==
    /\ ch \in flows
    /\ flows' = flows \ {ch}
    /\ SetHook(ch)
    /\ UNCHANGED <<alerting, failing, alertStreams, alertHistory, edit, alertAsks, down, alertFaults>>

\* ... or returns an error, or the token has lapsed, or the provider does not take the code
RefuseChannel(ch) ==
    /\ ch \in flows
    /\ flows' = flows \ {ch}
    /\ UNCHANGED <<settings, failing, alertStreams, alertHistory, edit, alertAsks, down, alertFaults>>

\* update_alerting_for replaces the settings; it does not ask whether a channel is set up
UpdateAlerting(s) ==
    /\ AlertAsk
    /\ alerting' = s
    /\ UNCHANGED <<hooks, failing, alertStreams, alertHistory, flows, edit>>

\* delete_notification_provider_config reads the settings ...
AskDelete(r, ch) ==
    /\ AlertAsk
    /\ edit[r] = None
    /\ edit' = [edit EXCEPT ![r] = [channel |-> ch, read |-> alerting]]
    /\ UNCHANGED <<settings, failing, alertStreams, alertHistory, flows>>

\* ... writes them without the channel, if it is there ...
WithoutChannel(s, ch) == [b \in Benchmarks |-> s[b] \ {ch}]

DropChannel(r) ==
    /\ edit[r] # None /\ edit[r].read # None
    /\ edit' = [edit EXCEPT ![r].read = None]
    /\ LET s == WithoutChannel(edit[r].read, edit[r].channel)
       IN  alerting' = IF s = edit[r].read THEN alerting ELSE s
    /\ UNCHANGED <<hooks, failing, alertStreams, alertHistory, flows, alertAsks, down, alertFaults>>

\* ... and deletes its configuration
DeleteHook(r) ==
    /\ edit[r] # None /\ edit[r].read = None
    /\ edit' = [edit EXCEPT ![r] = None]
    /\ hooks' = hooks \ {edit[r].channel}
    /\ UNCHANGED <<alerting, failing, alertStreams, alertHistory, flows, alertAsks, down, alertFaults>>

-----------------------------------------------------------------------------
(* From a collect run to the messages.                                     *)

\* The dispatcher has published TenantAccountsCollected; _load_alert will find these benchmarks failing.
Collected(c, found) ==
    /\ c \notin collected /\ handler[c] = None
    /\ \A a \in failing : a[1] # c
    /\ collected' = collected \cup {c}
    /\ failing' = failing \cup ({c} \X found)
    /\ UNCHANGED <<settings, handler, stream, sender, alertHistory, flows, edit, alertAsks, down, alertFaults>>

\* alert_on_changed reads the settings once, and has an alert for each benchmark with channels
HandleCollected(c) ==
    /\ c \in collected /\ handler[c] = None
    /\ LET todo == IF alerting = None THEN {}
                   ELSE {m \in failing \X Channels : m[1][1] = c /\ m[2] \in alerting[m[1][2]]}
       IN  handler' = [handler EXCEPT ![c] = todo] /\ due' = {m \in due : m[1][1] # c} \cup todo
    /\ UNCHANGED <<settings, failing, collected, stream, sender, sent, ended, unsure, flows, edit, alertAsks, down, alertFaults>>

PublishAlert(c, m) ==
    /\ handler[c] # None /\ m \in handler[c]
    /\ stream' = [stream EXCEPT ![m] = @ + 1]
    /\ handler' = [handler EXCEPT ![c] = @ \ {m}]
    /\ UNCHANGED <<settings, failing, collected, sender, alertHistory, flows, edit, alertAsks, down, alertFaults>>

\* the history of the graph cannot be searched, or redis refuses the message: the event is handled again
CollectedFails(c) ==
    /\ handler[c] # None
    /\ alertFaults < MaxAlertFaults /\ alertFaults' = alertFaults + 1
    /\ handler' = [handler EXCEPT ![c] = None]
    /\ UNCHANGED <<settings, failing, collected, stream, sender, alertHistory, flows, edit, alertAsks, down>>

\* Mutant of EndCollected: the event is not acknowledged.
KeepEvent(c) ==
    /\ handler[c] = {}
    /\ handler' = [handler EXCEPT ![c] = None]
    /\ UNCHANGED <<settings, failing, collected, stream, sender, alertHistory, flows, edit, alertAsks, down>>
    /\ UNCHANGED alertFaults

\* all published: the listener acknowledges the event
EndCollected(c) ==
    /\ handler[c] = {}
    /\ handler' = [handler EXCEPT ![c] = None]
    /\ collected' = collected \ {c}
    /\ UNCHANGED <<settings, failing, stream, sender, alertHistory, flows, edit, alertAsks, down, alertFaults>>

-----------------------------------------------------------------------------
(* From a message to the provider.                                         *)

Drop(m) == stream' = [stream EXCEPT ![m] = @ - 1] /\ ended' = ended \cup {m} /\ sender' = None

\* _send_alert: a channel that is not set up is passed over
SendAlert(m) ==
    /\ stream[m] > 0 /\ sender = None
    /\ IF m[2] \in hooks THEN sender' = m /\ UNCHANGED <<stream, ended>> ELSE Drop(m)
    /\ UNCHANGED <<settings, failing, collected, handler, sent, due, unsure, flows, edit, alertAsks, down, alertFaults>>

\* the provider takes the message
Deliver ==
    /\ sender # None
    /\ sent' = [sent EXCEPT ![sender] = @ + 1]
    /\ stream' = [stream EXCEPT ![sender] = @ - 1] /\ sender' = None
    /\ UNCHANGED <<settings, failing, collected, handler, ended, due, unsure, flows, edit, alertAsks, down, alertFaults>>

\* a call that fails raises: the message stays in the stream
Raise ==
    /\ sender # None
    /\ down < MaxDown /\ down' = down + 1
    /\ sender' = None
    /\ UNCHANGED <<settings, failing, collected, handler, stream, ended, due, flows, edit, alertAsks, alertFaults>>

\* Mutant of ServerError: a message whose handler raised is acknowledged.
ForgetMessage ==
    /\ sender # None /\ sender' = None
    /\ down < MaxDown /\ down' = down + 1
    /\ stream' = [stream EXCEPT ![sender] = @ - 1]
    /\ UNCHANGED <<settings, failing, collected, handler, alertHistory, flows, edit, alertAsks, alertFaults>>

\* a server error, or no connection
ServerError == Raise /\ UNCHANGED <<sent, unsure>>

\* the answer does not come in time, or the mail to one address is refused after others had theirs
FailsThoughTaken ==
    /\ Raise
    /\ sent' = [sent EXCEPT ![sender] = @ + 1] /\ unsure' = unsure + 1

\* any other answer of a web hook is logged, and the message given up
GiveUp ==
    /\ sender # None /\ sender[2] \notin Emails
    /\ Drop(sender)
    /\ UNCHANGED <<settings, failing, collected, handler, sent, due, unsure, flows, edit, alertAsks, down, alertFaults>>

\* The process dies: what was not acknowledged is delivered again, also when the provider has been called.
CrashAlerts ==
    /\ alertFaults < MaxAlertFaults /\ alertFaults' = alertFaults + 1
    /\ handler' = [c \in Collects |-> None]
    /\ \/ UNCHANGED sent
       \/ sender # None /\ sent' = [sent EXCEPT ![sender] = @ + 1]
    /\ sender' = None
    /\ edit' = [r \in Requests |-> None]
    /\ UNCHANGED <<settings, failing, collected, stream, ended, due, unsure, flows, alertAsks, down>>

AlertStep ==
    \/ \E c \in Collects :
        \/ HandleCollected(c) \/ EndCollected(c)
        \/ \E m \in Message : PublishAlert(c, m)
    \/ \E m \in Message : SendAlert(m)
    \/ Deliver \/ GiveUp

AlertsNext ==
    \/ AlertStep \/ ServerError \/ FailsThoughTaken \/ CrashAlerts
    \/ \E ch \in Channels : AddChannel(ch) \/ GoToChannel(ch) \/ ConfirmChannel(ch) \/ RefuseChannel(ch)
    \/ \E s \in Setting : UpdateAlerting(s)
    \/ \E r \in Requests :
        \/ DropChannel(r) \/ DeleteHook(r)
        \/ \E ch \in Channels : AskDelete(r, ch)
    \/ \E c \in Collects, found \in SUBSET Benchmarks : Collected(c, found)
    \/ \E c \in Collects : CollectedFails(c)

AlertsSpec == AlertsInit /\ [][AlertsNext]_alertVars

-----------------------------------------------------------------------------
(* What the alerts of a workspace promise.                                 *)

\* An alert that the settings ask for is not lost: until the provider has taken it, or its channel is not set
\* up, or the provider refuses it for good, the event or the message is still there to be handled, whatever
\* crashes and whichever settings change meanwhile.
NoAlertLost ==
    \A m \in due : sent[m] > 0 \/ m \in ended \/ stream[m] > 0 \/ m[1][1] \in collected

\* The settings may change and a provider may answer with errors as they will: an alert goes out again only where
\* nobody can know that it went out. A crash or an error of its event costs at most two messages more, one because the
\* run is handled again and one because the provider was called before the message was acknowledged; a call that failed
\* though the provider had taken the message costs one.
NotSentAgain == \A m \in Message : sent[m] <= 1 + 2 * alertFaults + unsure

=============================================================================
