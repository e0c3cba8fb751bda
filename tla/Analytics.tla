------------------------------- MODULE Analytics -------------------------------
(***************************************************************************)
(* Analytics: a handler of the domain events, and the request for the      *)
(* pixel of a mail, give a record to two senders, one after the other.     *)
(* Each keeps the records in memory.  The one for Google posts them every  *)
(* half minute, in requests of one user and a limited length; the one for  *)
(* PostHog hands them to its client every minute, or when there are many.  *)
(* The process may stop in order or die.                                   *)
(***************************************************************************)
EXTENDS Absent, FiniteSets, SequencesExt

CONSTANTS
    Facts,             \* what happened: domain events, and mails that were opened
    Opened,            \* the facts that are mails opened: no stream delivers them again
    Visitors,          \* users
    Batch,             \* records in a request to Google: 25 in the code
    FlushAt,           \* records that PostHog gets at once: 100 in the code
    MaxAnalyticsFaults \* bound: processes that stop or die, and requests to Google that fail

ASSUME AnalyticsAssumption ==
    /\ Opened \subseteq Facts /\ Batch \in Nat \ {0} /\ FlushAt \in Nat \ {0} /\ MaxAnalyticsFaults \in Nat

Hands == {"handler", "request"}
Handling == [fact : Facts, at : {"google", "posthog", "full", "end"}]

ASSUME HandlingAssumption == None \notin Handling

VARIABLES
    author,       \* the user of each fact
    unread,       \* facts that are not handled, or not acknowledged
    hand,         \* for each hand [fact, at]: the fact it works on and what it does next
    googleEvents, \* the records that wait for Google
    posts,        \* the requests to Google that are still to be made
    posthogEvents,        \* the records that wait for PostHog
    process,      \* "up", "last" when the periodic tasks are stopped, "draining" in the last send_events
    reported,          \* how often Google reported each record as one of its author
    captured,     \* the records the client of PostHog took
    dropped,      \* history: records that were lost on the way to Google with a request or with the memory
    lost,         \* history: records that were lost on the way to PostHog with the memory
    mixed,        \* history: records that send_events took together with those of another author
    analyticsFaults

analyticsHistory == <<reported, captured, dropped, lost, mixed>>
memory == <<hand, googleEvents, posts, posthogEvents, process>>
analyticsVars == <<author, unread, memory, analyticsHistory, analyticsFaults>>

RecordsOf(P) == UNION {Range(p.records) : p \in P}

AnalyticsTypeOK ==
    /\ author \in [Facts -> Visitors] /\ unread \subseteq Facts
    /\ hand \in [Hands -> Handling \cup {None}]
    /\ googleEvents \in Seq(Facts) /\ posthogEvents \in Seq(Facts)
    /\ posts \subseteq [client : Visitors, records : Seq(Facts)]
    /\ process \in {"up", "last", "draining"}
    /\ reported \in [Facts -> 0..(1 + MaxAnalyticsFaults)]
    /\ captured \subseteq Facts /\ dropped \subseteq Facts /\ lost \subseteq Facts /\ mixed \subseteq Facts
    /\ analyticsFaults \in 0..MaxAnalyticsFaults

\* The user a record is for: the one the event names, or else the owner of its workspace.
Attributions == [Facts -> Visitors]

AnalyticsInit ==
    /\ author \in Attributions
    /\ unread = Facts
    /\ hand = [h \in Hands |-> None]
    /\ googleEvents = <<>> /\ posts = {} /\ posthogEvents = <<>> /\ process = "up"
    /\ reported = [f \in Facts |-> 0]
    /\ captured = {} /\ dropped = {} /\ lost = {} /\ mixed = {}
    /\ analyticsFaults = 0

-----------------------------------------------------------------------------
(* A record is sent to both.                                               *)

Report(f, h) ==
    /\ f \in unread /\ hand[h] = None
    /\ hand' = [hand EXCEPT ![h] = [fact |-> f, at |-> "google"]]
    /\ UNCHANGED <<author, unread, googleEvents, posts, posthogEvents, process, analyticsHistory, analyticsFaults>>

\* the events that the handler subscribes to
HandleFact(f) == f \notin Opened /\ Report(f, "handler")

\* the request for the pixel of a mail
OpenMail(f) == f \in Opened /\ Report(f, "request")

GoOn(h, step) == hand' = [hand EXCEPT ![h].at = step]
AtStep(h, step) == hand[h] # None /\ hand[h].at = step

SendToGoogle(h) ==
    /\ AtStep(h, "google")
    /\ googleEvents' = Append(googleEvents, hand[h].fact)
    /\ GoOn(h, "posthog")
    /\ UNCHANGED <<author, unread, posts, posthogEvents, process, analyticsHistory, analyticsFaults>>

SendToPostHog(h) ==
    /\ AtStep(h, "posthog")
    /\ posthogEvents' = Append(posthogEvents, hand[h].fact)
    /\ GoOn(h, "full")
    /\ UNCHANGED <<author, unread, googleEvents, posts, process, analyticsHistory, analyticsFaults>>

Flush == captured' = captured \cup Range(posthogEvents) /\ posthogEvents' = <<>>

\* the length is read when the lock is free again
FlushIfFull(h) ==
    /\ AtStep(h, "full")
    /\ IF Len(posthogEvents) >= FlushAt THEN Flush ELSE UNCHANGED <<captured, posthogEvents>>
    /\ GoOn(h, "end")
    /\ UNCHANGED <<author, unread, googleEvents, posts, process, reported, dropped, lost, mixed, analyticsFaults>>

EndSend(h) ==
    /\ AtStep(h, "end")
    /\ unread' = unread \ {hand[h].fact}
    /\ hand' = [hand EXCEPT ![h] = None]
    /\ UNCHANGED <<author, googleEvents, posts, posthogEvents, process, analyticsHistory, analyticsFaults>>

FlushPeriodically ==
    /\ process = "up" /\ posthogEvents # <<>>
    /\ Flush
    /\ UNCHANGED <<author, unread, hand, googleEvents, posts, process, reported, dropped, lost, mixed, analyticsFaults>>

-----------------------------------------------------------------------------
(* GoogleAnalyticsEventSender.send_events.                                 *)

Least(a, b) == IF a < b THEN a ELSE b

\* mutant: a batch is one record short
ShortBatch(events, i) == SubSeq(events, i + 1, Least(i + Batch - 1, Len(events)))

\* events[i : i + 25]: of all events, not of those of the user
BatchFrom(events, i) == SubSeq(events, i + 1, Least(i + Batch, Len(events)))

Authors(events) == {author[f] : f \in Range(events)}

\* as many requests for each user as the records of the user call for
PostsOf(events) ==
    UNION {LET n == Cardinality({i \in DOMAIN events : author[events[i]] = u})
           IN  {[client |-> u, records |-> BatchFrom(events, k * Batch)] : k \in 0..((n - 1) \div Batch)}
           : u \in Authors(events)}

\* the list is swapped out under the lock; what comes now waits for the next time
SwapOut ==
    /\ posts = {}
    /\ posts' = PostsOf(googleEvents)
    /\ googleEvents' = <<>>
    /\ mixed' = mixed \cup (IF Cardinality(Authors(googleEvents)) > 1 THEN Range(googleEvents) ELSE {})
    /\ UNCHANGED <<author, unread, hand, posthogEvents, reported, captured, dropped, lost, analyticsFaults>>

SendEvents == process = "up" /\ googleEvents # <<>> /\ SwapOut /\ UNCHANGED process

PostBatch(p) ==
    /\ p \in posts
    /\ posts' = posts \ {p}
    /\ reported' = [f \in Facts |->
                    reported[f] + IF f \in Range(p.records) /\ author[f] = p.client THEN 1 ELSE 0]
    /\ UNCHANGED <<author, unread, hand, googleEvents, posthogEvents, process, captured, dropped, lost, mixed,
                   analyticsFaults>>

\* an error is logged and the next batch is posted
PostFails(p) ==
    /\ p \in posts
    /\ analyticsFaults < MaxAnalyticsFaults /\ analyticsFaults' = analyticsFaults + 1
    /\ posts' = posts \ {p}
    /\ dropped' = dropped \cup Range(p.records)
    /\ UNCHANGED <<author, unread, hand, googleEvents, posthogEvents, process, reported, captured, lost, mixed>>

-----------------------------------------------------------------------------
(* The process stops, in order or not, and another one starts.             *)

\* the periodic task is cancelled in whatever it awaits
StopPeriodic ==
    /\ process = "up"
    /\ analyticsFaults < MaxAnalyticsFaults /\ analyticsFaults' = analyticsFaults + 1
    /\ process' = "last"
    /\ dropped' = dropped \cup RecordsOf(posts) /\ posts' = {}
    /\ UNCHANGED <<author, unread, hand, googleEvents, posthogEvents, reported, captured, lost, mixed>>

LastSend == process = "last" /\ SwapOut /\ process' = "draining"

\* a request that is cut off is not made again, unlike the handling of an event
NewProcess ==
    /\ hand' = [h \in Hands |-> None]
    /\ unread' = unread \ (IF hand["request"] = None THEN {} ELSE {hand["request"].fact})
    /\ googleEvents' = <<>> /\ posts' = {} /\ posthogEvents' = <<>> /\ process' = "up"
    /\ dropped' = dropped \cup Range(googleEvents) \cup RecordsOf(posts) \cup (unread \ unread')
    /\ UNCHANGED <<author, reported, mixed>>

\* Google has had what it gets, PostHog gets the rest
StopPostHog ==
    /\ process = "draining" /\ posts = {}
    /\ captured' = captured \cup Range(posthogEvents)
    /\ NewProcess
    /\ UNCHANGED analyticsFaults
    /\ lost' = lost \cup (unread \ unread')

Die ==
    /\ analyticsFaults < MaxAnalyticsFaults /\ analyticsFaults' = analyticsFaults + 1
    /\ NewProcess
    /\ lost' = lost \cup Range(posthogEvents) \cup (unread \ unread')
    /\ UNCHANGED captured

AnalyticsNext ==
    \/ \E f \in Facts : HandleFact(f) \/ OpenMail(f)
    \/ \E h \in Hands : SendToGoogle(h) \/ SendToPostHog(h) \/ FlushIfFull(h) \/ EndSend(h)
    \/ FlushPeriodically
    \/ SendEvents
    \/ \E p \in posts : PostBatch(p) \/ PostFails(p)
    \/ StopPeriodic \/ LastSend \/ StopPostHog
    \/ Die

AnalyticsSpec == AnalyticsInit /\ [][AnalyticsNext]_analyticsVars

-----------------------------------------------------------------------------
(* What analytics promise.                                                 *)

\* A fact that is done with is a record that waits in the memory of a sender or has gone out, once for each process
\* that had it, whatever is sent and flushed meanwhile. Only a request that failed, or the end of a process, loses a
\* record, and send_events, when it takes records of several users at once.
EachRecordOnce ==
    \A f \in Facts :
        /\ f \notin unread => f \in captured \cup Range(posthogEvents) \cup lost
        /\ f \notin unread \cup dropped \cup mixed => reported[f] > 0 \/ f \in Range(googleEvents) \cup RecordsOf(posts)
        /\ reported[f] <= 1 + analyticsFaults

=============================================================================
