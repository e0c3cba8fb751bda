------------------------- MODULE AccountLifecycle -------------------------
(***************************************************************************)
(* What a cloud account may go through, whoever works on it: the states of *)
(* CloudAccountStates, the access (an AWS role, a GCP key, Azure           *)
(* credentials) the account is collected with, and the switch that takes   *)
(* part in the account limit of the workspace.                             *)
(***************************************************************************)

CONSTANTS Roles, Key, None

VARIABLES state, access, active

Accesses == Roles \cup {Key}

Init == state = "absent" /\ access = None /\ active = FALSE

\* found through the organization of another account: no access
Detect ==
    /\ state = "absent" /\ state' = "detected"
    /\ UNCHANGED <<access, active>>

\* A user names a role.  This is the only way back for an account that was deleted.
Discover ==
    /\ state' = "discovered"
    /\ access' \in Roles
    /\ active' \in BOOLEAN

\* GCP and Azure: the credentials were tried before the account was made.
Connect ==
    /\ state = "absent" /\ state' = "configured"
    /\ access' = Key
    /\ active' \in BOOLEAN

\* The role could be assumed.
Configure ==
    /\ state = "discovered" /\ state' = "configured"
    /\ access' \in Roles
    /\ active' = active

\* An account without access never becomes degraded.  The switch is kept for later.
Degrade ==
    /\ state \in {"discovered", "configured"} /\ state' = "degraded"
    /\ UNCHANGED <<access, active>>

\* A scan succeeded: the access is the one it was, and nothing is switched on.
Recover ==
    /\ state \in {"discovered", "configured", "degraded"} /\ state' = "configured"
    /\ active' \in {active, FALSE}
    /\ UNCHANGED access

Switch ==
    /\ state \in {"configured", "degraded"}
    /\ active' = ~active
    /\ UNCHANGED <<state, access>>

Remove ==
    /\ state # "absent" /\ state' = "deleted"
    /\ access' = None
    /\ active' = FALSE

Next ==
    \/ Detect \/ Discover \/ Connect \/ Configure
    \/ Degrade \/ Recover \/ Switch \/ Remove

Spec == Init /\ [][Next]_<<state, access, active>>

=============================================================================
