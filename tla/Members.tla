------------------------------ MODULE Members ------------------------------
(***************************************************************************)
(* Who belongs to a workspace and with which roles: invitations, their     *)
(* acceptance by a link in a mail, the registration of users, removal and  *)
(* changes of roles.  Invitations, memberships and role rows are in tables *)
(* of their own, and a request works on them in several transactions.  A   *)
(* user may be invited, and may accept, before there is a user at all: the *)
(* acceptance and the registration then have to meet.                      *)
(***************************************************************************)
EXTENDS Integers, FiniteSets

CONSTANTS
    Workspaces,
    Users,      \* those who are invited
    Owner,      \* the owner of the workspaces
    Requests,   \* requests that are handled at the same time
    None,
    Seats,      \* seats_max of the tier
    MaxInvites, \* bound: rows of organization_invite ever made
    MaxChanges, \* bound: changes of a role, removals of a member and users the customer support adds
    MaxCrashes  \* bound: crashes of the process

People == Users \cup {Owner}
Tasks == Requests \cup Users    \* the registration of a user is a task of its own
Invites == 1..MaxInvites
\* The roles that give the permissions asked for here; a member has a row with or without them.
Roles == {"admin"}

ASSUME NameAssumption == Owner \notin Users /\ Requests \cap Users = {} /\ None \notin Invites
ASSUME BoundAssumption == Seats \in Nat \ {0} /\ MaxInvites \in Nat /\ MaxChanges \in Nat /\ MaxCrashes \in Nat

VARIABLES
    users,      \* the row of each user: "none", "unverified" or "verified"
    home,       \* the users with a workspace of their own
    members,    \* organization_members of the workspaces
    roles,      \* user_role_assignment: None without a row
    invites,    \* organization_invite: None for a row that is not there
    sent,       \* rows of organization_invite that were ever made
    links,      \* the invitations with a link in somebody's mail
    pc,         \* what each task does next
    inv,        \* the invitation a task works on
    arg,        \* the workspace, user and roles a task works on
    seen,       \* the role row a task has read
    stale,      \* history: role rows were written since the task has read its own
    raced,      \* history: a task that was stale has written a role row
    revoked,    \* history: invitations revoked before they were accepted
    broken,     \* history: accepted invitations whose acceptance or registration has failed
    changes, crashes

table == <<users, home, members, roles>>
invitation == <<invites, sent, links>>
task == <<pc, inv, arg, seen>>
history == <<stale, raced, revoked, broken>>
bounds == <<changes, crashes>>
vars == <<table, invitation, task, history, bounds>>

Arg == [ws : Workspaces, user : People, roles : SUBSET Roles]
Invite == [ws : Workspaces, user : Users, roles : SUBSET Roles, accepted : BOOLEAN]
Steps == {"idle", "find", "create", "send", "update", "user", "read", "join", "delete", "role", "lookup",
          "default"}

ASSUME NoneAssumption == None \notin Invite \cup Arg /\ \A R \in SUBSET Roles : R # None

TypeOK ==
    /\ users \in [Users -> {"none", "unverified", "verified"}]
    /\ home \subseteq Users
    /\ members \subseteq Workspaces \X Users
    /\ \A wp \in members : users[wp[2]] # "none" /\ roles[wp] # None
    /\ roles \in [Workspaces \X People -> (SUBSET Roles) \cup {None}]
    /\ invites \in [Invites -> Invite \cup {None}]
    /\ sent \in 0..MaxInvites /\ links \subseteq Invites
    /\ pc \in [Tasks -> Steps]
    /\ inv \in [Tasks -> Invites \cup {None}]
    /\ arg \in [Tasks -> Arg \cup {None}]
    /\ seen \in [Tasks -> (SUBSET Roles) \cup {None}]
    /\ stale \in [Tasks -> BOOLEAN] /\ raced \in BOOLEAN
    /\ revoked \subseteq Invites /\ broken \subseteq Invites
    /\ changes \in 0..MaxChanges /\ crashes \in 0..MaxCrashes

\* The owner has made the workspaces, which gave the owner a role in each.
Init ==
    /\ users = [u \in Users |-> "none"]
    /\ home = {} /\ members = {}
    /\ roles = [wp \in Workspaces \X People |-> IF wp[2] = Owner THEN Roles ELSE None]
    /\ invites = [i \in Invites |-> None] /\ sent = 0 /\ links = {}
    /\ pc = [t \in Tasks |-> "idle"]
    /\ inv = [t \in Tasks |-> None]
    /\ arg = [t \in Tasks |-> None]
    /\ seen = [t \in Tasks |-> None]
    /\ stale = [t \in Tasks |-> FALSE] /\ raced = FALSE
    /\ revoked = {} /\ broken = {}
    /\ changes = 0 /\ crashes = 0

Open == {i \in Invites : invites[i] # None}
Accepted == {i \in Open : invites[i].accepted}
InvitesOf(u) == {i \in Open : invites[i].user = u}

-----------------------------------------------------------------------------
(* Who may do what.                                                        *)

AllUsers(w) == {Owner} \cup {u \in Users : <<w, u>> \in members}

\* get_user_workspace; a payment on hold (see AccountLimits) refuses requests, which then change nothing
LetIn(p, w) == p \in AllUsers(w)

\* roles_to_permissions, for the permissions the requests here ask for
Permissions(r) == IF r = "admin" THEN {"invite_to", "remove_from", "update", "update_roles"} ELSE {}

Permitted(p, w, permission) ==
    roles[<<w, p>>] # None /\ \E r \in roles[<<w, p>>] : permission \in Permissions(r)

May(p, w, permission) ==
    /\ p \in Users => users[p] = "verified"
    /\ LetIn(p, w) /\ Permitted(p, w, permission)

FreeSeat(w) == Cardinality(AllUsers(w)) < Seats

-----------------------------------------------------------------------------
(* Tasks.                                                                  *)

Goto(t, step) == pc' = [pc EXCEPT ![t] = step]

Forget(t) ==
    /\ Goto(t, "idle")
    /\ inv' = [inv EXCEPT ![t] = None] /\ arg' = [arg EXCEPT ![t] = None] /\ seen' = [seen EXCEPT ![t] = None]

\* A task ends, with a result or an error.
End(t) == Forget(t) /\ stale' = [stale EXCEPT ![t] = FALSE]

\* Someone writes a role row: what the other tasks have read is old.
RolesWritten(t) ==
    /\ stale' = [k \in Tasks |-> k # t /\ pc[k] # "idle"]
    /\ raced' = (raced \/ stale[t])

-----------------------------------------------------------------------------
(* Invitations.                                                            *)

\* the repository's delete_invitation: nothing to do when the row is gone
DeleteRow(i) == invites' = [invites EXCEPT ![i] = None] /\ broken' = broken \ {i}

\* invite_user: the seats are counted first
AskInvite(t, w, u, R) ==
    /\ pc[t] = "idle"
    /\ \E p \in People : May(p, w, "invite_to")
    /\ FreeSeat(w)
    /\ arg' = [arg EXCEPT ![t] = [ws |-> w, user |-> u, roles |-> R]]
    /\ stale' = [stale EXCEPT ![t] = FALSE]
    /\ Goto(t, "find")
    /\ UNCHANGED <<table, invitation, inv, seen, raced, revoked, broken, bounds>>

\* create_invitation reads before it writes: an invitation that is there is sent again, two of them raise,
\* and so does a member
FindInvite(t) ==
    /\ pc[t] = "find"
    /\ LET w == arg[t].ws
           u == arg[t].user
           same == {i \in InvitesOf(u) : invites[i].ws = w}
       IN  \/ /\ Cardinality(same) = 1
              /\ inv' = [inv EXCEPT ![t] = CHOOSE i \in same : TRUE]
              /\ Goto(t, "send")
              /\ UNCHANGED <<arg, seen, stale>>
           \/ same = {} /\ <<w, u>> \notin members /\ Goto(t, "create") /\ UNCHANGED <<inv, arg, seen, stale>>
           \/ Cardinality(same) > 1 /\ End(t)
           \/ same = {} /\ <<w, u>> \in members /\ End(t)
    /\ UNCHANGED <<table, invitation, raced, revoked, broken, bounds>>

CreateInvite(t) ==
    /\ pc[t] = "create"
    /\ sent < MaxInvites /\ sent' = sent + 1
    /\ invites' = [invites EXCEPT ![sent'] =
                    [ws |-> arg[t].ws, user |-> arg[t].user, roles |-> arg[t].roles, accepted |-> FALSE]]
    /\ inv' = [inv EXCEPT ![t] = sent']
    /\ Goto(t, "send")
    /\ UNCHANGED <<table, links, arg, seen, history, bounds>>

\* send_message: the mail with the link
SendLink(t) ==
    /\ pc[t] = "send"
    /\ links' = links \cup {inv[t]}
    /\ End(t)
    /\ UNCHANGED <<table, invites, sent, raced, revoked, broken, bounds>>

\* revoke_invitation
Revoke(i) ==
    /\ i \in Open
    /\ \E p \in People : May(p, invites[i].ws, "update")
    /\ DeleteRow(i)
    /\ revoked' = IF i \in Accepted THEN revoked ELSE revoked \cup {i}
    /\ UNCHANGED <<table, sent, links, task, stale, raced, bounds>>

-----------------------------------------------------------------------------
(* Roles.                                                                  *)

\* add_roles: the new roles replace the ones it has read, or come to them
NewRoles(old, R, replace) == IF replace \/ old = None THEN R ELSE old \cup R

-----------------------------------------------------------------------------
(* The acceptance of an invitation.                                        *)

\* accept_invitation, for a link that may be old and may be opened twice: the invitation and the seats
\* (a payment on hold refuses as well)
Accept(t, i) ==
    /\ pc[t] = "idle"
    /\ i \in links \cap Open
    /\ FreeSeat(invites[i].ws)
    /\ inv' = [inv EXCEPT ![t] = i]
    /\ arg' = [arg EXCEPT ![t] = [ws |-> invites[i].ws, user |-> invites[i].user, roles |-> invites[i].roles]]
    /\ stale' = [stale EXCEPT ![t] = FALSE]
    /\ Goto(t, "update")
    /\ UNCHANGED <<table, invitation, seen, raced, revoked, broken, bounds>>

\* mutant: the update writes the row whether it is there or not
AcceptBlindly(t) ==
    /\ pc[t] = "update"
    /\ LET i == inv[t]
       IN  /\ invites' = [invites EXCEPT ![i] = [ws |-> arg[t].ws, user |-> arg[t].user, roles |-> arg[t].roles,
                                               accepted |-> TRUE]]
           /\ Goto(t, "user")
           /\ UNCHANGED <<inv, arg, seen>>
    /\ UNCHANGED <<table, sent, links, history, bounds>>

\* update_invitation: an invitation that is gone raises
RecordAcceptance(t) ==
    /\ pc[t] = "update"
    /\ LET i == inv[t]
       IN  \/ /\ i \in Open
              /\ invites' = [invites EXCEPT ![i].accepted = TRUE]
              /\ Goto(t, "user")
              /\ UNCHANGED <<inv, arg, seen, stale>>
           \/ i \notin Open /\ End(t) /\ UNCHANGED invites
    /\ UNCHANGED <<table, sent, links, raced, revoked, broken, bounds>>

\* get_by_email: without a user the registration will find the invitation
FindUser(t) ==
    /\ pc[t] = "user"
    /\ \/ users[arg[t].user] # "none" /\ Goto(t, "read") /\ UNCHANGED <<inv, arg, seen, stale>>
       \/ users[arg[t].user] = "none" /\ End(t)
    /\ UNCHANGED <<table, invitation, raced, revoked, broken, bounds>>

\* The customer support adds a user to a workspace, whether there is a seat or not.
AddBySupport(t, w, u, R) ==
    /\ pc[t] = "idle"
    /\ users[u] # "none"
    /\ changes < MaxChanges /\ changes' = changes + 1
    /\ arg' = [arg EXCEPT ![t] = [ws |-> w, user |-> u, roles |-> R]]
    /\ Goto(t, "read")
    /\ UNCHANGED <<table, invitation, inv, seen, history, crashes>>

\* The user is in: what came with an invitation deletes it.
Added(t) == IF inv[t] = None THEN Forget(t) ELSE Goto(t, "delete") /\ UNCHANGED <<inv, arg, seen>>

\* add_to_workspace, with add_roles in the same transaction: the rows it reads.  Nothing is done for a member.
ReadMembership(t) ==
    /\ pc[t] = "read"
    /\ stale' = [stale EXCEPT ![t] = FALSE]
    /\ LET wp == <<arg[t].ws, arg[t].user>>
       IN  \/ wp \in members /\ Added(t)
           \/ /\ wp \notin members
              /\ seen' = [seen EXCEPT ![t] = roles[wp]]
              /\ Goto(t, "join")
              /\ UNCHANGED <<inv, arg>>
    /\ UNCHANGED <<table, invitation, raced, revoked, broken, bounds>>

\* The rows it writes: the roles are the ones of the row it has read and the new ones.  A membership, or a
\* role row, that was not there before raises.
Join(t) ==
    /\ pc[t] = "join"
    /\ LET wp == <<arg[t].ws, arg[t].user>>
           raises == wp \in members \/ (seen[t] = None /\ roles[wp] # None)
       IN  \/ /\ ~raises
              /\ members' = members \cup {wp}
              /\ roles' = [roles EXCEPT ![wp] = NewRoles(seen[t], arg[t].roles, FALSE)]
              /\ RolesWritten(t)
              /\ Added(t)
              /\ UNCHANGED broken
           \/ /\ raises
              /\ broken' = broken \cup ({inv[t]} \cap Open)
              /\ End(t)
              /\ UNCHANGED <<members, roles, raced>>
    /\ UNCHANGED <<users, home, invitation, revoked, bounds>>

\* the last step of the acceptance and of the registration
DeleteInvite(t) ==
    /\ pc[t] = "delete"
    /\ DeleteRow(inv[t])
    /\ End(t)
    /\ UNCHANGED <<table, sent, links, raced, revoked, bounds>>

-----------------------------------------------------------------------------
(* Registration.                                                           *)

\* on_after_register: a user who comes with a verified identity is added at once, another one has to verify
\* the address first
Register(u) ==
    /\ users[u] = "none"
    /\ \/ users' = [users EXCEPT ![u] = "verified"] /\ Goto(u, "lookup")
       \/ users' = [users EXCEPT ![u] = "unverified"] /\ UNCHANGED pc
    /\ UNCHANGED <<home, members, roles, invitation, inv, arg, seen, history, bounds>>

\* on_after_verify
Verify(u) ==
    /\ users[u] = "unverified"
    /\ users' = [users EXCEPT ![u] = "verified"]
    /\ Goto(u, "lookup")
    /\ UNCHANGED <<home, members, roles, invitation, inv, arg, seen, history, bounds>>

\* mutant: an invitation is only looked for when the user is new
LookupNothing(u) ==
    /\ pc[u] = "lookup"
    /\ Goto(u, "default")
    /\ UNCHANGED <<table, invitation, inv, arg, seen, history, bounds>>

\* add_to_workspace of the user manager: get_invitation_by_email looks at all workspaces and raises when it
\* finds two
Lookup(u) ==
    /\ pc[u] = "lookup"
    /\ LET own == InvitesOf(u)
       IN  \/ /\ Cardinality(own) > 1
              /\ broken' = broken \cup (own \cap Accepted)
              /\ End(u)
           \/ /\ Cardinality(own) = 1 /\ own \subseteq Accepted
              /\ LET i == CHOOSE i \in own : TRUE
                 IN  /\ inv' = [inv EXCEPT ![u] = i]
                     /\ arg' = [arg EXCEPT ![u] =
                                 [ws |-> invites[i].ws, user |-> u, roles |-> invites[i].roles]]
              /\ Goto(u, "read")
              /\ UNCHANGED <<seen, stale, broken>>
           \/ /\ Cardinality(own) < 2 /\ own \cap Accepted = {}
              /\ Goto(u, "default")
              /\ UNCHANGED <<inv, arg, seen, stale, broken>>
    /\ UNCHANGED <<table, invitation, raced, revoked, bounds>>

\* create_default_workspace
CreateDefault(u) ==
    /\ pc[u] = "default"
    /\ home' = home \cup {u}
    /\ End(u)
    /\ UNCHANGED <<users, members, roles, invitation, raced, revoked, broken, bounds>>

-----------------------------------------------------------------------------
(* Members and roles.                                                      *)

\* remove_from_workspace: the role row stays
RemoveRow(w, u) == members' = members \ {<<w, u>>}

\* remove_user: everyone but the owner
Remove(w, u) ==
    /\ <<w, u>> \in members
    /\ \E p \in People : May(p, w, "remove_from")
    /\ changes < MaxChanges /\ changes' = changes + 1
    /\ RemoveRow(w, u)
    /\ UNCHANGED <<users, home, roles, invitation, task, history, crashes>>

\* mutant: everyone may change the own role
AskRoleOfAnyone(t, p, w, q, R) ==
    /\ pc[t] = "idle"
    /\ May(p, w, "update_roles")
    /\ q \in Users => users[q] # "none"
    /\ changes < MaxChanges /\ changes' = changes + 1
    /\ arg' = [arg EXCEPT ![t] = [ws |-> w, user |-> q, roles |-> R]]
    /\ stale' = [stale EXCEPT ![t] = FALSE]
    /\ Goto(t, "role")
    /\ UNCHANGED <<table, invitation, inv, seen, raced, revoked, broken, crashes>>

\* update_user_role: the permission comes with the user of the request; nobody changes the own role
AskRole(t, p, w, q, R) ==
    /\ pc[t] = "idle"
    /\ May(p, w, "update_roles") /\ p # q
    /\ q \in Users => users[q] # "none"
    /\ changes < MaxChanges /\ changes' = changes + 1
    /\ arg' = [arg EXCEPT ![t] = [ws |-> w, user |-> q, roles |-> R]]
    /\ stale' = [stale EXCEPT ![t] = FALSE]
    /\ Goto(t, "role")
    /\ UNCHANGED <<table, invitation, inv, seen, raced, revoked, broken, crashes>>

\* add_roles(replace_existing = True), for a member or not
WriteRole(t) ==
    /\ pc[t] = "role"
    /\ roles' = [roles EXCEPT ![<<arg[t].ws, arg[t].user>>] = NewRoles(@, arg[t].roles, TRUE)]
    /\ RolesWritten(t)
    /\ Forget(t)
    /\ UNCHANGED <<users, home, members, invitation, revoked, broken, bounds>>

-----------------------------------------------------------------------------

\* The process dies with its tasks: what they have accepted, for users who are registered, is left behind.
Crash ==
    /\ crashes < MaxCrashes /\ crashes' = crashes + 1
    /\ pc' = [t \in Tasks |-> "idle"]
    /\ inv' = [t \in Tasks |-> None] /\ arg' = [t \in Tasks |-> None] /\ seen' = [t \in Tasks |-> None]
    /\ stale' = [t \in Tasks |-> FALSE]
    /\ broken' = broken \cup {i \in Accepted : users[invites[i].user] # "none"}
    /\ UNCHANGED <<table, invitation, raced, revoked, changes>>

\* The steps of a task that has begun.
Step(t) ==
    \/ FindInvite(t) \/ CreateInvite(t) \/ SendLink(t)
    \/ RecordAcceptance(t) \/ FindUser(t) \/ ReadMembership(t) \/ Join(t) \/ DeleteInvite(t)
    \/ WriteRole(t)

Next ==
    \/ \E t \in Tasks : Step(t)
    \/ \E t \in Requests :
        \/ \E w \in Workspaces, u \in Users, R \in SUBSET Roles : AskInvite(t, w, u, R) \/ AddBySupport(t, w, u, R)
        \/ \E i \in Invites : Accept(t, i)
        \/ \E p, q \in People, w \in Workspaces, R \in SUBSET Roles : AskRole(t, p, w, q, R)
    \/ \E i \in Invites : Revoke(i)
    \/ \E u \in Users : Register(u) \/ Verify(u) \/ Lookup(u) \/ CreateDefault(u)
    \/ \E w \in Workspaces, u \in Users : Remove(w, u)
    \/ Crash

Spec == Init /\ [][Next]_vars

=============================================================================
