---------------------------- MODULE MembersProps ----------------------------
(* What invitations, registration and roles promise. *)
EXTENDS Members

\* Acceptance and registration meet: an invitation that somebody accepted before, while or after the user
\* registers is never left behind.  Either there is no user yet, or the registration has not looked, or a
\* task goes on with it, unless an error or a crash has ended one.
NoneStranded ==
    \A i \in Accepted \ broken :
        LET u == invites[i].user
        IN  \/ users[u] \in {"none", "unverified"} \/ pc[u] = "lookup"
            \/ \E t \in Tasks : inv[t] = i /\ pc[t] \in {"user", "read", "join", "delete"}

\* An invitation that is revoked before it is accepted lets nobody in, also when a request has already
\* found it and counted the seats.
RevokedLetsNobodyIn ==
    [][\A t \in Tasks : Join(t) /\ members' # members => inv[t] \notin revoked]_vars

\* As long as no role is written by a request that has read the roles before somebody else changed them,
\* a workspace has someone with the role of an administrator: administrators can take the role from each
\* other, and from the owner, but never from themselves.
KeepsAdmin ==
    raced \/ \A w \in Workspaces : \E p \in People : Permitted(p, w, "update_roles")

=============================================================================
