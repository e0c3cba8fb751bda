----------------------------- MODULE CollectRun -----------------------------
(***************************************************************************)
(* What a collect run promises to those who listen to its events.          *)
(*                                                                         *)
(* A result comes only from an account whose collection was started in     *)
(* this run.  A report is a consistent cut: it is taken at a moment at     *)
(* which no account is being collected, it holds every result there is,    *)
(* and it takes these results with it, so none of them is told twice.  A   *)
(* collection may be given up, but a result never disappears unreported,   *)
(* except that another job for the same account (the check for an ongoing  *)
(* collection and the start of a new one are two steps) supersedes it.     *)
(***************************************************************************)
CONSTANT Accounts

VARIABLES
    phase,   \* account -> none, running, or its result
    outbox   \* the report that is taken and not yet delivered

vars == <<phase, outbox>>

Result == {"ok", "failed"}
Nothing == [a \in Accounts |-> "none"]

TypeOK ==
    /\ phase \in [Accounts -> Result \cup {"none", "running"}]
    /\ outbox \in [Accounts -> Result \cup {"none"}]

Init == phase = Nothing /\ outbox = Nothing

Start(a) ==
    /\ phase' = [phase EXCEPT ![a] = "running"]
    /\ UNCHANGED outbox

Finish(a) ==
    /\ phase[a] # "none"
    /\ \E r \in Result : phase' = [phase EXCEPT ![a] = r]
    /\ UNCHANGED outbox

Report ==
    /\ outbox = Nothing
    /\ \A a \in Accounts : phase[a] # "running"
    /\ outbox' = phase
    /\ phase' = Nothing

Deliver ==
    /\ outbox # Nothing
    /\ outbox' = Nothing
    /\ UNCHANGED phase

Abandon ==
    /\ \E S \in SUBSET {a \in Accounts : phase[a] = "running"} :
        phase' = [a \in Accounts |-> IF a \in S THEN "none" ELSE phase[a]]
    /\ UNCHANGED outbox

Next ==
    \/ \E a \in Accounts : Start(a) \/ Finish(a)
    \/ Report
    \/ Deliver
    \/ Abandon

Spec == Init /\ [][Next]_vars

=============================================================================
