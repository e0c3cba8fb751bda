--------------------------- MODULE Members_proofs ---------------------------
(***************************************************************************)
(* What invitations, registration and roles promise, for any number of     *)
(* workspaces, users, requests, invitations and crashes.                   *)
(***************************************************************************)
EXTENDS MembersProps, FiniteSetTheorems, TLAPS

USE NameAssumption, BoundAssumption, NoneAssumption

\* What the step p of a task needs of its invitation i and of its locals a.
LocalsAt(p, i, a) ==
    /\ p = "idle" => i = None
    /\ p \in {"find", "create", "update", "user", "read", "join", "role"} => a \in Arg
    /\ p \in {"find", "create", "update", "user", "read", "join"} => a.user \in Users
    /\ p \in {"read", "join"} => users[a.user] # "none"
    /\ p \in {"send", "update", "user", "delete"} => i \in Invites

Locals == \A t \in Tasks : LocalsAt(pc[t], inv[t], arg[t])

\* The task of a user begins with the registration.
Registered ==
    \A u \in Users :
        /\ users[u] \in {"none", "unverified"} => pc[u] = "idle"
        /\ pc[u] \in {"lookup", "default"} => users[u] = "verified"

\* The ids of invitations are used once.
UsedOnce ==
    /\ \A i \in Invites : invites[i] # None \/ i \in revoked => i <= sent
    /\ \A t \in Tasks : inv[t] # None => inv[t] <= sent

\* An invitation that somebody goes on with was accepted and not revoked before that.
Pursued ==
    /\ \A i \in revoked : invites[i] = None
    /\ \A t \in Tasks : pc[t] \in {"user", "read", "join", "delete"} =>
        inv[t] \notin revoked /\ (inv[t] \in Open => inv[t] \in Accepted)

\* The acceptance looks for the user of its invitation.
ForItsUser ==
    \A t \in Tasks : pc[t] \in {"update", "user"} /\ inv[t] \in Open => arg[t].user = invites[inv[t]].user

\* Unless a role row was written since, the one who asked for a change of somebody else's role still has the role
\* for it, and a task that adds a user knows the roles the user has.
RolesKnown ==
    \A t \in Tasks : ~ stale[t] =>
        /\ pc[t] = "role" => \E p \in People : p # arg[t].user /\ Permitted(p, arg[t].ws, "update_roles")
        /\ pc[t] = "join" => seen[t] = roles[<<arg[t].ws, arg[t].user>>]

Inv ==
    /\ TypeOK /\ Locals /\ Registered /\ UsedOnce /\ Pursued /\ ForItsUser /\ NoneStranded
    /\ RolesKnown /\ KeepsAdmin

-----------------------------------------------------------------------------
(* Types.                                                                  *)

TablesTyped ==
    /\ users \in [Users -> {"none", "unverified", "verified"}]
    /\ home \subseteq Users
    /\ members \subseteq Workspaces \X Users
    /\ \A wp \in members : users[wp[2]] # "none" /\ roles[wp] # None
    /\ roles \in [Workspaces \X People -> (SUBSET Roles) \cup {None}]

InvitesTyped ==
    /\ invites \in [Invites -> Invite \cup {None}]
    /\ sent \in 0..MaxInvites /\ links \subseteq Invites
    /\ revoked \subseteq Invites /\ broken \subseteq Invites
    /\ changes \in 0..MaxChanges /\ crashes \in 0..MaxCrashes

TasksTyped ==
    /\ pc \in [Tasks -> Steps]
    /\ inv \in [Tasks -> Invites \cup {None}]
    /\ arg \in [Tasks -> Arg \cup {None}]
    /\ seen \in [Tasks -> (SUBSET Roles) \cup {None}]
    /\ stale \in [Tasks -> BOOLEAN] /\ raced \in BOOLEAN

LEMMA SomeOne == ASSUME NEW S, Cardinality(S) = 1 PROVE S # {}
<1>1. Cardinality({}) = 0 BY FS_EmptySet
<1>. QED BY <1>1

LEMMA SomeOnly == ASSUME NEW S \in SUBSET Invites, Cardinality(S) = 1 PROVE \A x \in S : x = CHOOSE y \in S : TRUE
<1>1. IsFiniteSet(Invites) BY BoundAssumption, FS_Interval DEF Invites
<1>2. IsFiniteSet(S) BY <1>1, FS_Subset
<1>3. \E x : S = {x} BY <1>2, FS_Singleton
<1>. QED BY <1>3

LEMMA TypeParts == TypeOK <=> TablesTyped /\ InvitesTyped /\ TasksTyped
BY DEF TypeOK, TablesTyped, InvitesTyped, TasksTyped

LEMMA InitInv == Init => Inv
<1>. SUFFICES ASSUME Init PROVE Inv OBVIOUS
<1>1. TypeOK
  <2>1. roles \in [Workspaces \X People -> (SUBSET Roles) \cup {None}]
    <3>1. \A wp \in Workspaces \X People : (IF wp[2] = Owner THEN Roles ELSE None) \in (SUBSET Roles) \cup {None}
      OBVIOUS
    <3>. QED BY <3>1 DEF Init
  <2>2. TablesTyped BY <2>1 DEF Init, TablesTyped
  <2>3. InvitesTyped BY DEF Init, InvitesTyped
  <2>4. TasksTyped BY DEF Init, TasksTyped, Steps
  <2>. QED BY <2>2, <2>3, <2>4, TypeParts
<1>2. Locals BY DEF Init, Locals, LocalsAt
<1>3. Registered BY DEF Init, Registered, Tasks
<1>4. UsedOnce BY DEF Init, UsedOnce
<1>5. Pursued /\ ForItsUser BY DEF Init, Pursued, ForItsUser
<1>6. NoneStranded BY DEF Init, NoneStranded, Accepted, Open
<1>7. RolesKnown BY DEF Init, RolesKnown
<1>8. KeepsAdmin
  <2>1. \A w \in Workspaces : roles[<<w, Owner>>] = Roles BY DEF Init, People
  <2>2. "admin" \in Roles /\ "update_roles" \in Permissions("admin") BY DEF Roles, Permissions
  <2>3. Roles # None OBVIOUS
  <2>4. ASSUME NEW w \in Workspaces PROVE Permitted(Owner, w, "update_roles") BY <2>1, <2>2, <2>3 DEF Permitted
  <2>. QED BY <2>4 DEF KeepsAdmin, People
<1>. QED BY <1>1, <1>2, <1>3, <1>4, <1>5, <1>6, <1>7, <1>8 DEF Inv

\* A task goes on to a step with what is fit for it.
LEMMA TaskMoves ==
    ASSUME TypeOK, Locals, NEW t \in Tasks, NEW p \in Steps, NEW i \in Invites \cup {None}, NEW a \in Arg \cup {None},
           NEW s \in (SUBSET Roles) \cup {None}, LocalsAt(p, i, a),
           pc' = [pc EXCEPT ![t] = p], inv' = [inv EXCEPT ![t] = i], arg' = [arg EXCEPT ![t] = a],
           seen' = [seen EXCEPT ![t] = s], UNCHANGED users
    PROVE  /\ pc' \in [Tasks -> Steps] /\ inv' \in [Tasks -> Invites \cup {None}] /\ arg' \in [Tasks -> Arg \cup {None}]
           /\ seen' \in [Tasks -> (SUBSET Roles) \cup {None}] /\ Locals'
<1>. USE DEF TypeOK
<1>1. Locals'
  <2>. SUFFICES ASSUME NEW k \in Tasks PROVE LocalsAt(pc[k], inv[k], arg[k])' BY DEF Locals
  <2>1. CASE k = t
    <3>1. pc'[k] = p /\ inv'[k] = i /\ arg'[k] = a BY <2>1
    <3>. QED BY <3>1 DEF LocalsAt
  <2>2. CASE k # t
    <3>1. pc'[k] = pc[k] /\ inv'[k] = inv[k] /\ arg'[k] = arg[k] BY <2>2
    <3>. QED BY <3>1 DEF Locals, LocalsAt
  <2>. QED BY <2>1, <2>2
<1>. QED BY <1>1

\* What a task may do, and what changes without one.
Begins(t) ==
    \/ \E w \in Workspaces, u \in Users, R \in SUBSET Roles : AskInvite(t, w, u, R) \/ AddBySupport(t, w, u, R)
    \/ \E i \in Invites : Accept(t, i)
    \/ \E p, q \in People, w \in Workspaces, R \in SUBSET Roles : AskRole(t, p, w, q, R)

Registers(u) == Register(u) \/ Verify(u) \/ Lookup(u) \/ CreateDefault(u)

Otherwise ==
    \/ \E i \in Invites : Revoke(i)
    \/ \E w \in Workspaces, u \in Users : Remove(w, u)
    \/ Crash

LEMMA NextSplit ==
    Next <=> \/ \E t \in Tasks : Step(t)
             \/ \E t \in Requests : Begins(t)
             \/ \E u \in Users : Registers(u)
             \/ Otherwise
BY Zenon DEF Next, Begins, Registers, Otherwise

LEMMA TasksStep == ASSUME TypeOK, Locals, Registered, Next PROVE TasksTyped' /\ Locals'
<1>. USE DEF TypeOK
<1>t. Requests \subseteq Tasks /\ Users \subseteq Tasks BY DEF Tasks
<1>s. \A t \in Tasks : Steps # {} /\ "idle" \in Steps /\ LocalsAt("idle", None, None) BY DEF Steps, LocalsAt
<1>f. ASSUME NEW t \in Tasks, Forget(t), UNCHANGED users, stale' \in [Tasks -> BOOLEAN], raced' \in BOOLEAN
      PROVE  TasksTyped' /\ Locals'
  BY <1>f, <1>s, TaskMoves DEF Forget, Goto, TasksTyped
<1>e. ASSUME NEW t \in Tasks, End(t), UNCHANGED <<users, raced>> PROVE TasksTyped' /\ Locals'
  BY <1>e, <1>f DEF End
<1>g. ASSUME NEW t \in Tasks, NEW p \in Steps, LocalsAt(p, inv[t], arg[t]), Goto(t, p),
             UNCHANGED <<inv, arg, seen, users>>, stale' \in [Tasks -> BOOLEAN], raced' \in BOOLEAN
      PROVE  TasksTyped' /\ Locals'
  <2>1. inv' = [inv EXCEPT ![t] = inv[t]] /\ arg' = [arg EXCEPT ![t] = arg[t]] /\ seen' = [seen EXCEPT ![t] = seen[t]]
    BY <1>g
  <2>2. inv[t] \in Invites \cup {None} /\ arg[t] \in Arg \cup {None} /\ seen[t] \in (SUBSET Roles) \cup {None} OBVIOUS
  <2>3. pc' = [pc EXCEPT ![t] = p] /\ UNCHANGED users BY <1>g DEF Goto
  <2>4. /\ pc' \in [Tasks -> Steps] /\ inv' \in [Tasks -> Invites \cup {None}] /\ arg' \in [Tasks -> Arg \cup {None}]
        /\ seen' \in [Tasks -> (SUBSET Roles) \cup {None}] /\ Locals'
    <3>. DEFINE i == inv[t]
                a == arg[t]
                s == seen[t]
    <3>1. LocalsAt(p, i, a) BY <1>g
    <3>2. inv' = [inv EXCEPT ![t] = i] /\ arg' = [arg EXCEPT ![t] = a] /\ seen' = [seen EXCEPT ![t] = s] BY <2>1
    <3>3. i \in Invites \cup {None} /\ a \in Arg \cup {None} /\ s \in (SUBSET Roles) \cup {None} BY <2>2
    <3>. HIDE DEF i, a, s
    <3>. QED BY <2>3, <3>1, <3>2, <3>3, TaskMoves
  <2>. QED BY <1>g, <2>4 DEF TasksTyped
<1>l. \A t \in Tasks : LocalsAt(pc[t], inv[t], arg[t]) BY DEF Locals
<1>r. ASSUME NEW t \in Tasks, RolesWritten(t) PROVE stale' \in [Tasks -> BOOLEAN] /\ raced' \in BOOLEAN
  BY <1>r DEF RolesWritten
<1>d. ASSUME NEW t \in Tasks, Added(t), pc[t] \in {"read", "join"}, UNCHANGED users,
             stale' \in [Tasks -> BOOLEAN], raced' \in BOOLEAN
      PROVE  TasksTyped' /\ Locals'
  <2>1. CASE inv[t] = None BY <1>d, <1>f, <2>1 DEF Added
  <2>2. CASE inv[t] # None
    <3>1. Goto(t, "delete") /\ UNCHANGED <<inv, arg, seen>> BY <1>d, <2>2 DEF Added
    <3>2. LocalsAt("delete", inv[t], arg[t]) /\ "delete" \in Steps BY <1>l, <2>2 DEF LocalsAt, Steps
    <3>. QED BY <1>d, <1>g, <3>1, <3>2
  <2>. QED BY <2>1, <2>2
<1>1. ASSUME NEW t \in Tasks, Step(t) PROVE TasksTyped' /\ Locals'
  <2>1. CASE FindInvite(t)
    <3>1. CASE End(t) BY <1>e, <2>1, <3>1 DEF FindInvite, table
    <3>2. CASE Goto(t, "create") /\ UNCHANGED <<inv, arg, seen, stale>>
      <4>1. LocalsAt("create", inv[t], arg[t]) /\ "create" \in Steps BY <1>l, <2>1 DEF FindInvite, LocalsAt, Steps
      <4>. QED BY <1>g, <2>1, <3>2, <4>1 DEF FindInvite, table
    <3>3. CASE ~ End(t) /\ ~ (Goto(t, "create") /\ UNCHANGED <<inv, arg, seen, stale>>)
      <4>. DEFINE same == {i \in InvitesOf(arg[t].user) : invites[i].ws = arg[t].ws}
                  i == CHOOSE j \in same : TRUE
      <4>1. /\ Cardinality(same) = 1 /\ inv' = [inv EXCEPT ![t] = i] /\ Goto(t, "send")
            /\ UNCHANGED <<arg, seen, stale, users, raced>>
        BY <2>1, <3>3 DEF FindInvite, table
      <4>2. same # {} BY <4>1, SomeOne
      <4>3. i \in Invites BY <4>2 DEF InvitesOf, Open
      <4>4. LocalsAt("send", i, arg[t]) /\ "send" \in Steps BY <4>3 DEF LocalsAt, Steps
      <4>5. arg' = [arg EXCEPT ![t] = arg[t]] /\ seen' = [seen EXCEPT ![t] = seen[t]] BY <4>1
      <4>6. arg[t] \in Arg \cup {None} /\ seen[t] \in (SUBSET Roles) \cup {None} OBVIOUS
      <4>. HIDE DEF i, same
      <4>. QED BY <4>1, <4>3, <4>4, <4>5, <4>6, TaskMoves DEF Goto, TasksTyped
    <3>. QED BY <3>1, <3>2, <3>3
  <2>2. CASE CreateInvite(t)
    <3>1. sent' \in Invites BY <2>2 DEF CreateInvite, Invites
    <3>2. LocalsAt("send", sent', arg[t]) /\ "send" \in Steps BY <3>1 DEF LocalsAt, Steps
    <3>3. /\ inv' = [inv EXCEPT ![t] = sent'] /\ Goto(t, "send")
          /\ UNCHANGED <<arg, seen, stale, users, raced>>
      BY <2>2 DEF CreateInvite, table, history
    <3>4. arg' = [arg EXCEPT ![t] = arg[t]] /\ seen' = [seen EXCEPT ![t] = seen[t]] BY <3>3
    <3>5. arg[t] \in Arg \cup {None} /\ seen[t] \in (SUBSET Roles) \cup {None} OBVIOUS
    <3>. QED BY <3>1, <3>2, <3>3, <3>4, <3>5, TaskMoves DEF Goto, TasksTyped
  <2>3. CASE SendLink(t) BY <1>e, <2>3 DEF SendLink, table
  <2>4. CASE RecordAcceptance(t)
    <3>1. CASE End(t) BY <1>e, <2>4, <3>1 DEF RecordAcceptance, table
    <3>2. CASE ~ End(t)
      <4>1. LocalsAt("user", inv[t], arg[t]) /\ "user" \in Steps BY <1>l, <2>4 DEF RecordAcceptance, LocalsAt, Steps
      <4>. QED BY <1>g, <2>4, <3>2, <4>1 DEF RecordAcceptance, table
    <3>. QED BY <3>1, <3>2
  <2>5. CASE FindUser(t)
    <3>1. CASE End(t) BY <1>e, <2>5, <3>1 DEF FindUser, table
    <3>2. CASE ~ End(t)
      <4>1. LocalsAt("read", inv[t], arg[t]) /\ "read" \in Steps BY <1>l, <2>5, <3>2 DEF FindUser, LocalsAt, Steps
      <4>. QED BY <1>g, <2>5, <3>2, <4>1 DEF FindUser, table
    <3>. QED BY <3>1, <3>2
  <2>6. CASE ReadMembership(t)
    <3>0. stale' \in [Tasks -> BOOLEAN] /\ raced' \in BOOLEAN BY <2>6 DEF ReadMembership
    <3>1. CASE Added(t) BY <1>d, <2>6, <3>0, <3>1 DEF ReadMembership, table
    <3>2. CASE ~ Added(t)
      <4>. DEFINE s == roles[<<arg[t].ws, arg[t].user>>]
      <4>1. Goto(t, "join") /\ seen' = [seen EXCEPT ![t] = s] /\ UNCHANGED <<inv, arg, users>>
        BY <2>6, <3>2 DEF ReadMembership, table
      <4>2. arg[t].ws \in Workspaces /\ arg[t].user \in People
        BY <1>l, <2>6 DEF ReadMembership, LocalsAt, Arg, People
      <4>3. s \in (SUBSET Roles) \cup {None} BY <4>2
      <4>4. LocalsAt("join", inv[t], arg[t]) /\ "join" \in Steps BY <1>l, <2>6 DEF ReadMembership, LocalsAt, Steps
      <4>5. inv' = [inv EXCEPT ![t] = inv[t]] /\ arg' = [arg EXCEPT ![t] = arg[t]] BY <4>1
      <4>6. inv[t] \in Invites \cup {None} /\ arg[t] \in Arg \cup {None} OBVIOUS
      <4>. HIDE DEF s
      <4>. QED BY <3>0, <4>1, <4>3, <4>4, <4>5, <4>6, TaskMoves DEF Goto, TasksTyped
    <3>. QED BY <3>1, <3>2
  <2>7. CASE Join(t)
    <3>1. CASE End(t) /\ UNCHANGED raced BY <1>e, <2>7, <3>1 DEF Join
    <3>2. CASE ~ (End(t) /\ UNCHANGED raced) BY <1>d, <1>r, <2>7, <3>2 DEF Join
    <3>. QED BY <3>1, <3>2
  <2>8. CASE DeleteInvite(t) BY <1>e, <2>8 DEF DeleteInvite, table
  <2>9. CASE WriteRole(t) BY <1>f, <1>r, <2>9 DEF WriteRole
  <2>. QED BY <1>1, <2>1, <2>2, <2>3, <2>4, <2>5, <2>6, <2>7, <2>8, <2>9, Zenon DEF Step
<1>2. ASSUME NEW t \in Requests, Begins(t) PROVE TasksTyped' /\ Locals'
  <2>. t \in Tasks BY <1>t
  <2>b. ASSUME NEW p \in Steps, NEW a \in Arg, NEW i \in Invites \cup {None}, LocalsAt(p, i, a), Goto(t, p),
               inv' = [inv EXCEPT ![t] = i], arg' = [arg EXCEPT ![t] = a],
               UNCHANGED <<seen, users, raced>>, stale' \in [Tasks -> BOOLEAN]
        PROVE  TasksTyped' /\ Locals'
    <3>1. seen' = [seen EXCEPT ![t] = seen[t]] /\ seen[t] \in (SUBSET Roles) \cup {None} BY <2>b
    <3>. QED BY <2>b, <3>1, TaskMoves DEF Goto, TasksTyped
  <2>i. inv[t] \in Invites \cup {None} /\ inv = [inv EXCEPT ![t] = inv[t]] OBVIOUS
  <2>1. ASSUME NEW w \in Workspaces, NEW u \in Users, NEW R \in SUBSET Roles,
               AskInvite(t, w, u, R) \/ AddBySupport(t, w, u, R)
        PROVE  TasksTyped' /\ Locals'
    <3>. DEFINE a == [ws |-> w, user |-> u, roles |-> R]
    <3>1. a \in Arg /\ a.user = u BY DEF Arg, People
    <3>2. LocalsAt("find", inv[t], a) /\ "find" \in Steps BY <3>1 DEF LocalsAt, Steps
    <3>3. "read" \in Steps /\ (users[u] # "none" => LocalsAt("read", inv[t], a)) BY <3>1 DEF LocalsAt, Steps
    <3>4. CASE AskInvite(t, w, u, R)
      <4>1. arg' = [arg EXCEPT ![t] = a] /\ Goto(t, "find") /\ UNCHANGED <<inv, seen, users, raced>>
            /\ stale' \in [Tasks -> BOOLEAN]
        BY <3>4 DEF AskInvite, table
      <4>. HIDE DEF a
      <4>. QED BY <2>b, <2>i, <3>1, <3>2, <4>1
    <3>5. CASE AddBySupport(t, w, u, R)
      <4>1. arg' = [arg EXCEPT ![t] = a] /\ Goto(t, "read") /\ UNCHANGED <<inv, seen, users, raced>>
            /\ stale' \in [Tasks -> BOOLEAN] /\ users[u] # "none"
        BY <3>5 DEF AddBySupport, table, history
      <4>. HIDE DEF a
      <4>. QED BY <2>b, <2>i, <3>1, <3>3, <4>1
    <3>. QED BY <2>1, <3>4, <3>5
  <2>2. ASSUME NEW i \in Invites, Accept(t, i) PROVE TasksTyped' /\ Locals'
    <3>. DEFINE a == [ws |-> invites[i].ws, user |-> invites[i].user, roles |-> invites[i].roles]
    <3>1. invites[i] \in Invite BY <2>2 DEF Accept, Open
    <3>2. a \in Arg /\ a.user \in Users BY <3>1 DEF Arg, Invite, People
    <3>3. LocalsAt("update", i, a) /\ "update" \in Steps BY <3>2 DEF LocalsAt, Steps
    <3>4. /\ arg' = [arg EXCEPT ![t] = a] /\ inv' = [inv EXCEPT ![t] = i] /\ Goto(t, "update")
          /\ UNCHANGED <<seen, users, raced>> /\ stale' \in [Tasks -> BOOLEAN]
      BY <2>2 DEF Accept, table
    <3>. HIDE DEF a
    <3>. QED BY <2>b, <3>2, <3>3, <3>4
  <2>3. ASSUME NEW p \in People, NEW q \in People, NEW w \in Workspaces, NEW R \in SUBSET Roles, AskRole(t, p, w, q, R)
        PROVE  TasksTyped' /\ Locals'
    <3>. DEFINE a == [ws |-> w, user |-> q, roles |-> R]
    <3>1. a \in Arg BY DEF Arg
    <3>2. LocalsAt("role", inv[t], a) /\ "role" \in Steps BY <3>1 DEF LocalsAt, Steps
    <3>3. arg' = [arg EXCEPT ![t] = a] /\ Goto(t, "role") /\ UNCHANGED <<inv, seen, users, raced>>
          /\ stale' \in [Tasks -> BOOLEAN]
      BY <2>3 DEF AskRole, table
    <3>. HIDE DEF a
    <3>. QED BY <2>b, <2>i, <3>1, <3>2, <3>3
  <2>. QED BY <1>2, <2>1, <2>2, <2>3 DEF Begins
<1>3. ASSUME NEW u \in Users, Registers(u) PROVE TasksTyped' /\ Locals'
  <2>. u \in Tasks BY <1>t
  <2>1. CASE Register(u) \/ Verify(u)
    <3>1. \A x \in Users : users[x] # "none" => users'[x] # "none" BY <2>1 DEF Register, Verify
    <3>2. pc' = pc \/ pc' = [pc EXCEPT ![u] = "lookup"] BY <2>1 DEF Register, Verify, Goto
    <3>3. UNCHANGED <<inv, arg, seen, stale, raced>> BY <2>1 DEF Register, Verify, history
    <3>4. TasksTyped' BY <3>2, <3>3 DEF TasksTyped, Steps
    <3>5. ASSUME NEW k \in Tasks PROVE LocalsAt(pc[k], inv[k], arg[k])'
      BY <1>l, <3>1, <3>2, <3>3 DEF LocalsAt
    <3>. QED BY <3>4, <3>5 DEF Locals
  <2>2. CASE Lookup(u)
    <3>1. CASE End(u) BY <1>e, <2>2, <3>1 DEF Lookup, table
    <3>2. CASE Goto(u, "default") /\ UNCHANGED <<inv, arg, seen, stale>>
      <4>1. LocalsAt("default", inv[u], arg[u]) /\ "default" \in Steps BY DEF LocalsAt, Steps
      <4>. QED BY <1>g, <2>2, <3>2, <4>1 DEF Lookup, table
    <3>3. CASE ~ End(u) /\ ~ (Goto(u, "default") /\ UNCHANGED <<inv, arg, seen, stale>>)
      <4>. DEFINE own == InvitesOf(u)
                  i == CHOOSE j \in own : TRUE
                  a == [ws |-> invites[i].ws, user |-> u, roles |-> invites[i].roles]
      <4>1. /\ Cardinality(own) = 1 /\ inv' = [inv EXCEPT ![u] = i] /\ arg' = [arg EXCEPT ![u] = a]
            /\ Goto(u, "read") /\ UNCHANGED <<seen, stale, users, raced>> /\ pc[u] = "lookup"
        BY <2>2, <3>3 DEF Lookup, table
      <4>2. own # {} BY <4>1, SomeOne
      <4>3. i \in Invites /\ invites[i] \in Invite BY <4>2 DEF InvitesOf, Open
      <4>4. a \in Arg /\ a.user = u BY <4>3 DEF Arg, Invite, People
      <4>5. users[u] = "verified" BY <4>1 DEF Registered
      <4>6. LocalsAt("read", i, a) /\ "read" \in Steps BY <4>4, <4>5 DEF LocalsAt, Steps
      <4>7. seen' = [seen EXCEPT ![u] = seen[u]] /\ seen[u] \in (SUBSET Roles) \cup {None} BY <4>1
      <4>. HIDE DEF own, i, a
      <4>. QED BY <4>1, <4>3, <4>4, <4>6, <4>7, TaskMoves DEF Goto, TasksTyped
    <3>. QED BY <3>1, <3>2, <3>3
  <2>3. CASE CreateDefault(u) BY <1>e, <2>3 DEF CreateDefault
  <2>. QED BY <1>3, <2>1, <2>2, <2>3 DEF Registers
<1>4. CASE Otherwise
  <2>1. CASE Crash BY <2>1 DEF Crash, TasksTyped, Locals, LocalsAt, Steps, table
  <2>2. CASE \E w \in Workspaces, u \in Users : Remove(w, u)
    BY <2>2, <1>l DEF Remove, task, history, TasksTyped, Locals, LocalsAt
  <2>3. CASE \E i \in Invites : Revoke(i)
    BY <2>3, <1>l DEF Revoke, task, table, TasksTyped, Locals, LocalsAt
  <2>. QED BY <1>4, <2>1, <2>2, <2>3 DEF Otherwise
<1>. QED BY <1>1, <1>2, <1>3, <1>4, NextSplit

-----------------------------------------------------------------------------
(* The tables.                                                             *)

LEMMA TablesStep == ASSUME TypeOK, Locals, Registered, Next PROVE TablesTyped'
<1>. USE DEF TypeOK, TablesTyped, table
<1>0. ASSUME UNCHANGED table PROVE TablesTyped' BY <1>0
<1>p. \A w \in Workspaces, p \in People : <<w, p>> \in Workspaces \X People OBVIOUS
<1>1. ASSUME NEW t \in Tasks, Step(t) PROVE TablesTyped'
  <2>1. CASE Join(t)
    <3>. DEFINE wp == <<arg[t].ws, arg[t].user>>
    <3>1. CASE UNCHANGED <<members, roles>> BY <1>0, <2>1, <3>1 DEF Join
    <3>2. CASE ~ UNCHANGED <<members, roles>>
      <4>1. /\ members' = members \cup {wp} /\ UNCHANGED <<users, home>>
            /\ roles' = [roles EXCEPT ![wp] = NewRoles(seen[t], arg[t].roles, FALSE)]
        BY <2>1, <3>2 DEF Join
      <4>2. arg[t] \in Arg /\ arg[t].user \in Users /\ users[arg[t].user] # "none"
        BY <2>1 DEF Join, Locals, LocalsAt
      <4>3. wp \in Workspaces \X Users /\ wp \in Workspaces \X People BY <4>2 DEF Arg, People
      <4>4. NewRoles(seen[t], arg[t].roles, FALSE) \in SUBSET Roles
        <5>1. arg[t].roles \in SUBSET Roles BY <4>2 DEF Arg
        <5>. QED BY <5>1 DEF NewRoles
      <4>5. roles' \in [Workspaces \X People -> (SUBSET Roles) \cup {None}] BY <4>1, <4>4
      <4>6. roles'[wp] # None BY <4>1, <4>3, <4>4
      <4>7. \A mp \in members : roles'[mp] # None
        <5>1. \A mp \in members : mp \in Workspaces \X People BY DEF People
        <5>. DEFINE R == NewRoles(seen[t], arg[t].roles, FALSE)
        <5>2. roles' = [roles EXCEPT ![wp] = R] BY <4>1
        <5>. HIDE DEF wp, R
        <5>. QED BY <4>6, <5>1, <5>2
      <4>8. \A mp \in members' : users'[mp[2]] # "none"
        <5>. DEFINE u == arg[t].user
        <5>1. wp[2] = u /\ users'[u] # "none" BY <4>1, <4>2
        <5>. HIDE DEF wp, u
        <5>. QED BY <4>1, <5>1
      <4>. HIDE DEF wp
      <4>. QED BY <4>1, <4>3, <4>5, <4>6, <4>7, <4>8
    <3>. QED BY <3>1, <3>2
  <2>2. CASE WriteRole(t)
    <3>. DEFINE wp == <<arg[t].ws, arg[t].user>>
                R == NewRoles(roles[wp], arg[t].roles, TRUE)
    <3>1. roles' = [roles EXCEPT ![wp] = R] /\ UNCHANGED <<users, home, members>> BY <2>2 DEF WriteRole
    <3>2. R \in SUBSET Roles BY <2>2 DEF WriteRole, Locals, LocalsAt, Arg, NewRoles
    <3>3. R # None BY <3>2
    <3>. HIDE DEF R, wp
    <3>4. roles' \in [Workspaces \X People -> (SUBSET Roles) \cup {None}] BY <3>1, <3>2
    <3>5. \A mp \in members : mp \in Workspaces \X People BY DEF People
    <3>6. \A mp \in members : roles'[mp] # None BY <3>1, <3>3, <3>5
    <3>. QED BY <3>1, <3>4, <3>6
  <2>3. CASE ~ Join(t) /\ ~ WriteRole(t)
    BY <1>0, <1>1, <2>3
    DEF Step, FindInvite, CreateInvite, SendLink, RecordAcceptance, FindUser, ReadMembership, DeleteInvite
  <2>. QED BY <2>1, <2>2, <2>3
<1>2. ASSUME NEW t \in Requests, Begins(t) PROVE TablesTyped'
  BY <1>0, <1>2 DEF Begins, AskInvite, AddBySupport, Accept, AskRole
<1>3. ASSUME NEW u \in Users, Registers(u) PROVE TablesTyped'
  <2>1. CASE Register(u) \/ Verify(u)
    <3>1. \A x \in Users : users[x] # "none" => users'[x] # "none" BY <2>1 DEF Register, Verify
    <3>2. users' \in [Users -> {"none", "unverified", "verified"}] BY <2>1 DEF Register, Verify
    <3>3. UNCHANGED <<home, members, roles>> BY <2>1 DEF Register, Verify
    <3>4. \A wp \in members : wp[2] \in Users OBVIOUS
    <3>. QED BY <3>1, <3>2, <3>3, <3>4
  <2>2. CASE Lookup(u) BY <1>0, <2>2 DEF Lookup
  <2>3. CASE CreateDefault(u) BY <2>3 DEF CreateDefault
  <2>. QED BY <1>3, <2>1, <2>2, <2>3 DEF Registers
<1>4. CASE Otherwise
  <2>1. CASE \E w \in Workspaces, u \in Users : Remove(w, u) BY <2>1 DEF Remove, RemoveRow
  <2>2. CASE Crash \/ \E i \in Invites : Revoke(i) BY <1>0, <2>2 DEF Crash, Revoke
  <2>. QED BY <1>4, <2>1, <2>2 DEF Otherwise
<1>. QED BY <1>1, <1>2, <1>3, <1>4, NextSplit

LEMMA InvitesStep == ASSUME TypeOK, Locals, Next PROVE InvitesTyped'
<1>. USE DEF TypeOK, InvitesTyped, invitation, bounds, history
<1>d. ASSUME NEW i \in Invites, DeleteRow(i)
      PROVE  invites' \in [Invites -> Invite \cup {None}] /\ broken' \subseteq Invites
  BY <1>d DEF DeleteRow
<1>o. Open \subseteq Invites /\ Accepted \subseteq Invites BY DEF Open, Accepted
<1>1. ASSUME NEW t \in Tasks, Step(t) PROVE InvitesTyped'
  <2>l. LocalsAt(pc[t], inv[t], arg[t]) BY DEF Locals
  <2>1. CASE CreateInvite(t)
    <3>. DEFINE row == [ws |-> arg[t].ws, user |-> arg[t].user, roles |-> arg[t].roles, accepted |-> FALSE]
    <3>1. row \in Invite BY <2>1, <2>l DEF CreateInvite, LocalsAt, Arg, Invite
    <3>2. invites' = [invites EXCEPT ![sent'] = row] BY <2>1 DEF CreateInvite
    <3>3. sent' \in Invites /\ sent' \in 0..MaxInvites BY <2>1 DEF CreateInvite, Invites
    <3>4. UNCHANGED <<links, history, bounds>> BY <2>1 DEF CreateInvite
    <3>. HIDE DEF row
    <3>. QED BY <3>1, <3>2, <3>3, <3>4
  <2>2. CASE RecordAcceptance(t)
    <3>1. CASE UNCHANGED invites BY <2>2, <3>1 DEF RecordAcceptance
    <3>2. CASE ~ UNCHANGED invites
      <4>. DEFINE i == inv[t]
      <4>1. i \in Open /\ invites' = [invites EXCEPT ![i] = [invites[i] EXCEPT !.accepted = TRUE]]
        BY <2>2, <3>2 DEF RecordAcceptance
      <4>2. invites[i] \in Invite BY <4>1 DEF Open
      <4>3. [invites[i] EXCEPT !.accepted = TRUE] \in Invite BY <4>2 DEF Invite
      <4>. HIDE DEF i
      <4>4. invites' \in [Invites -> Invite \cup {None}] BY <4>1, <4>3
      <4>5. UNCHANGED <<sent, links, revoked, broken, bounds>> BY <2>2 DEF RecordAcceptance
      <4>. QED BY <4>4, <4>5
    <3>. QED BY <3>1, <3>2
  <2>3. CASE DeleteInvite(t) BY <1>d, <2>3, <2>l DEF DeleteInvite, LocalsAt
  <2>4. CASE SendLink(t) BY <2>4, <2>l DEF SendLink, LocalsAt
  <2>5. CASE Join(t) BY <1>o, <2>5 DEF Join
  <2>6. CASE FindInvite(t) \/ FindUser(t) \/ ReadMembership(t) \/ WriteRole(t)
    BY <2>6 DEF FindInvite, FindUser, ReadMembership, WriteRole
  <2>. QED BY <1>1, <2>1, <2>2, <2>3, <2>4, <2>5, <2>6 DEF Step
<1>2. ASSUME NEW t \in Requests, Begins(t) PROVE InvitesTyped'
  <2>1. UNCHANGED <<invitation, revoked, broken, crashes>> BY <1>2 DEF Begins, AskInvite, AddBySupport, Accept, AskRole
  <2>2. changes' \in 0..MaxChanges BY <1>2 DEF Begins, AskInvite, AddBySupport, Accept, AskRole
  <2>. QED BY <2>1, <2>2
<1>3. ASSUME NEW u \in Users, Registers(u) PROVE InvitesTyped'
  <2>1. UNCHANGED <<invitation, revoked, bounds>> BY <1>3 DEF Registers, Register, Verify, Lookup, CreateDefault
  <2>2. broken' \subseteq Invites BY <1>3, <1>o DEF Registers, Register, Verify, Lookup, CreateDefault
  <2>. QED BY <2>1, <2>2
<1>4. CASE Otherwise
  <2>1. CASE Crash BY <1>o, <2>1 DEF Crash
  <2>2. CASE \E w \in Workspaces, u \in Users : Remove(w, u) BY <2>2 DEF Remove
  <2>3. ASSUME NEW i \in Invites, Revoke(i) PROVE InvitesTyped'
    <3>1. DeleteRow(i) /\ revoked' \subseteq revoked \cup {i} /\ UNCHANGED <<sent, links, bounds>>
      BY <2>3 DEF Revoke
    <3>. QED BY <1>d, <3>1
  <2>. QED BY <1>4, <2>1, <2>2, <2>3 DEF Otherwise
<1>. QED BY <1>1, <1>2, <1>3, <1>4, NextSplit

LEMMA TypeStep == ASSUME TypeOK, Locals, Registered, Next PROVE TypeOK' /\ Locals'
<1>1. TablesTyped' /\ InvitesTyped' /\ TasksTyped' /\ Locals' BY TablesStep, InvitesStep, TasksStep
<1>. QED BY <1>1, TypeParts, PTL

-----------------------------------------------------------------------------
(* The registration, the ids, and what is gone on with.                    *)

LEMMA RegisteredStep == ASSUME TypeOK, Locals, Registered, Next PROVE Registered'
<1>. USE DEF TypeOK, Registered, Goto, Forget, End, Added, table
<1>t. Requests \subseteq Tasks /\ Users \subseteq Tasks /\ Requests \cap Users = {} BY NameAssumption DEF Tasks
<1>g. ASSUME NEW t \in Tasks, NEW p \in Steps, p \notin {"lookup", "default"}, pc' = [pc EXCEPT ![t] = p],
             UNCHANGED users, pc[t] # "idle" \/ t \notin Users
      PROVE  Registered'
  BY <1>g
<1>k. \A p \in {"idle", "find", "create", "send", "update", "user", "read", "join", "delete", "role"} :
        p \in Steps /\ p \notin {"lookup", "default"}
  BY DEF Steps
<1>1. ASSUME NEW t \in Tasks, Step(t) PROVE Registered'
  <2>1. UNCHANGED users /\ pc[t] # "idle"
    BY <1>1 DEF Step, FindInvite, CreateInvite, SendLink, RecordAcceptance, FindUser, ReadMembership, Join,
                DeleteInvite, WriteRole
  <2>2. \E p \in {"idle", "create", "send", "user", "read", "join", "delete"} : pc' = [pc EXCEPT ![t] = p]
    BY <1>1 DEF Step, FindInvite, CreateInvite, SendLink, RecordAcceptance, FindUser, ReadMembership, Join,
                DeleteInvite, WriteRole
  <2>. QED BY <1>g, <1>k, <2>1, <2>2
<1>2. ASSUME NEW t \in Requests, Begins(t) PROVE Registered'
  <2>1. UNCHANGED users BY <1>2 DEF Begins, AskInvite, AddBySupport, Accept, AskRole
  <2>2. \E p \in {"find", "read", "update", "role"} : pc' = [pc EXCEPT ![t] = p]
    BY <1>2 DEF Begins, AskInvite, AddBySupport, Accept, AskRole
  <2>. QED BY <1>g, <1>k, <1>t, <2>1, <2>2
<1>3. ASSUME NEW u \in Users, Registers(u) PROVE Registered'
  BY <1>3, <1>t DEF Registers, Register, Verify, Lookup, CreateDefault
<1>4. CASE Otherwise
  <2>1. CASE Crash BY <2>1, <1>t DEF Crash
  <2>2. CASE ~ Crash BY <1>4, <2>2 DEF Otherwise, Revoke, Remove, task
  <2>. QED BY <2>1, <2>2
<1>. QED BY <1>1, <1>2, <1>3, <1>4, NextSplit

LEMMA UsedOnceStep == ASSUME TypeOK, Locals, UsedOnce, Next PROVE UsedOnce'
<1>. USE DEF TypeOK, UsedOnce, invitation, history, DeleteRow
<1>o. \A i \in Open : i \in Invites /\ i <= sent BY DEF Open
<1>i. Invites \subseteq Int /\ sent \in Int BY DEF Invites
<1>1. ASSUME NEW t \in Tasks, Step(t) PROVE UsedOnce'
  <2>1. CASE CreateInvite(t)
    <3>1. sent' = sent + 1 /\ inv' = [inv EXCEPT ![t] = sent'] /\ UNCHANGED revoked BY <2>1 DEF CreateInvite
    <3>2. \A i \in Invites : i # sent' => invites'[i] = invites[i] BY <2>1 DEF CreateInvite
    <3>. QED BY <1>i, <3>1, <3>2
  <2>2. CASE FindInvite(t)
    <3>1. UNCHANGED <<invitation, revoked>> BY <2>2 DEF FindInvite
    <3>2. CASE inv' = inv \/ inv' = [inv EXCEPT ![t] = None] BY <3>1, <3>2
    <3>3. CASE ~ (inv' = inv \/ inv' = [inv EXCEPT ![t] = None])
      <4>. DEFINE same == {i \in InvitesOf(arg[t].user) : invites[i].ws = arg[t].ws}
                  i == CHOOSE j \in same : TRUE
      <4>1. Cardinality(same) = 1 /\ inv' = [inv EXCEPT ![t] = i] BY <2>2, <3>3 DEF FindInvite, End, Forget
      <4>2. same # {} BY <4>1, SomeOne
      <4>3. i \in Open BY <4>2 DEF InvitesOf
      <4>. HIDE DEF same, i
      <4>. QED BY <1>o, <3>1, <4>1, <4>3
    <3>. QED BY <3>2, <3>3
  <2>3. CASE ~ CreateInvite(t) /\ ~ FindInvite(t)
    <3>1. inv' = inv \/ inv' = [inv EXCEPT ![t] = None]
      BY <1>1, <2>3 DEF Step, SendLink, RecordAcceptance, FindUser, ReadMembership, Join, DeleteInvite, WriteRole,
                        Added, End, Forget
    <3>2. sent' = sent /\ revoked' = revoked
      BY <1>1, <2>3 DEF Step, SendLink, RecordAcceptance, FindUser, ReadMembership, Join, DeleteInvite, WriteRole
    <3>3. \A i \in Invites : invites'[i] # None => invites[i] # None
      <4>1. CASE RecordAcceptance(t) BY <4>1 DEF RecordAcceptance, Open
      <4>2. CASE DeleteInvite(t) BY <4>2 DEF DeleteInvite
      <4>3. CASE ~ RecordAcceptance(t) /\ ~ DeleteInvite(t)
        BY <1>1, <2>3, <4>3 DEF Step, SendLink, FindUser, ReadMembership, Join, WriteRole
      <4>. QED BY <4>1, <4>2, <4>3
    <3>. QED BY <3>1, <3>2, <3>3
  <2>. QED BY <2>1, <2>2, <2>3
<1>2. ASSUME NEW t \in Requests, Begins(t) PROVE UsedOnce'
  <2>1. UNCHANGED <<invites, sent, revoked>> BY <1>2 DEF Begins, AskInvite, AddBySupport, Accept, AskRole
  <2>2. inv' = inv \/ \E i \in Open : inv' = [inv EXCEPT ![t] = i]
    BY <1>2 DEF Begins, AskInvite, AddBySupport, Accept, AskRole
  <2>. QED BY <1>o, <2>1, <2>2
<1>3. ASSUME NEW u \in Users, Registers(u) PROVE UsedOnce'
  <2>1. UNCHANGED <<invites, sent, revoked>> BY <1>3 DEF Registers, Register, Verify, Lookup, CreateDefault
  <2>2. inv' = inv \/ \E i \in Open \cup {None} : inv' = [inv EXCEPT ![u] = i]
    <3>1. CASE inv' = inv \/ inv' = [inv EXCEPT ![u] = None] BY <3>1
    <3>2. CASE ~ (inv' = inv \/ inv' = [inv EXCEPT ![u] = None])
      <4>. DEFINE own == InvitesOf(u)
                  i == CHOOSE j \in own : TRUE
      <4>1. Cardinality(own) = 1 /\ inv' = [inv EXCEPT ![u] = i]
        BY <1>3, <3>2 DEF Registers, Register, Verify, Lookup, CreateDefault, End, Forget
      <4>2. own # {} BY <4>1, SomeOne
      <4>3. i \in Open BY <4>2 DEF InvitesOf
      <4>. HIDE DEF own, i
      <4>. QED BY <4>1, <4>3
    <3>. QED BY <3>1, <3>2
  <2>. QED BY <1>o, <2>1, <2>2
<1>4. CASE Otherwise
  <2>1. CASE Crash BY <2>1 DEF Crash
  <2>2. CASE \E w \in Workspaces, u \in Users : Remove(w, u) BY <2>2 DEF Remove, task
  <2>3. ASSUME NEW i \in Invites, Revoke(i) PROVE UsedOnce'
    BY <2>3, <1>o DEF Revoke, task
  <2>. QED BY <1>4, <2>1, <2>2, <2>3 DEF Otherwise
<1>. QED BY <1>1, <1>2, <1>3, <1>4, NextSplit

LEMMA PursuedStep == ASSUME TypeOK, Locals, UsedOnce, Pursued, Next PROVE Pursued'
<1>. USE DEF TypeOK, Pursued, invitation, history, DeleteRow
<1>. DEFINE Going == {"user", "read", "join", "delete"}
<1>n. None \notin Invites /\ revoked \subseteq Invites BY NameAssumption
<1>a. \A i \in Open : (i \in Accepted <=> invites[i].accepted) /\ i \notin revoked /\ i \in Invites BY DEF Open, Accepted
<1>s. \A i \in Invites : invites'[i] = invites[i] => (i \in Open' <=> i \in Open) /\ (i \in Accepted' <=> i \in Accepted)
  BY DEF Open, Accepted
\* Nothing begins to be gone on with that was not.
<1>g. ASSUME NEW t \in Tasks, UNCHANGED revoked, \A k \in Tasks \ {t} : pc'[k] = pc[k] /\ inv'[k] = inv[k],
             pc'[t] \in Going => pc[t] \in Going /\ inv'[t] = inv[t],
             \A i \in Invites : invites'[i] = invites[i] \/ (invites'[i] = None)
      PROVE  Pursued'
  <2>1. \A i \in revoked' : invites'[i] = None BY <1>g
  <2>2. ASSUME NEW k \in Tasks, pc'[k] \in Going
        PROVE  inv'[k] \notin revoked' /\ (inv'[k] \in Open' => inv'[k] \in Accepted')
    <3>1. pc[k] \in Going /\ inv'[k] = inv[k] BY <1>g, <2>2
    <3>2. inv'[k] \in Open' => inv'[k] \in Accepted' BY <1>g, <1>s, <3>1 DEF Open
    <3>. QED BY <1>g, <3>1, <3>2
  <2>. QED BY <2>1, <2>2
<1>1. ASSUME NEW t \in Tasks, Step(t) PROVE Pursued'
  <2>1. CASE CreateInvite(t)
    <3>1. sent' = sent + 1 /\ inv' = [inv EXCEPT ![t] = sent'] /\ pc' = [pc EXCEPT ![t] = "send"] /\ UNCHANGED revoked
      BY <2>1 DEF CreateInvite, Goto
    <3>2. \A i \in Invites : i # sent' => invites'[i] = invites[i] BY <2>1 DEF CreateInvite
    <3>3. sent' \notin revoked /\ \A k \in Tasks : inv[k] # sent'
      <4>1. sent' \in Invites BY <2>1 DEF CreateInvite, Invites
      <4>2. sent \in Int /\ revoked \subseteq Int BY <1>n DEF Invites
      <4>3. \A i \in revoked : i <= sent BY <1>n DEF UsedOnce
      <4>4. sent' \notin revoked BY <3>1, <4>2, <4>3
      <4>5. ASSUME NEW k \in Tasks, inv[k] = sent' PROVE FALSE
        <5>1. inv[k] # None BY <1>n, <4>1, <4>5
        <5>2. inv[k] <= sent BY <5>1 DEF UsedOnce
        <5>. QED BY <3>1, <4>2, <4>5, <5>2
      <4>. QED BY <4>4, <4>5
    <3>4. \A i \in revoked' : invites'[i] = None BY <1>n, <3>1, <3>2, <3>3
    <3>5. ASSUME NEW k \in Tasks, pc'[k] \in Going
          PROVE  inv'[k] \notin revoked' /\ (inv'[k] \in Open' => inv'[k] \in Accepted')
      <4>1. pc[k] \in Going /\ inv'[k] = inv[k] /\ inv[k] # sent' BY <3>1, <3>3, <3>5
      <4>2. inv'[k] \in Open' => inv'[k] \in Accepted' BY <1>s, <3>2, <4>1 DEF Open
      <4>. QED BY <3>1, <4>1, <4>2
    <3>. QED BY <3>4, <3>5
  <2>2. CASE RecordAcceptance(t)
    <3>1. CASE pc'[t] = "idle"
      <4>1. UNCHANGED <<invites, revoked>> BY <2>2, <3>1 DEF RecordAcceptance, Goto
      <4>2. \A k \in Tasks \ {t} : pc'[k] = pc[k] /\ inv'[k] = inv[k] BY <2>2 DEF RecordAcceptance, End, Forget, Goto
      <4>. QED BY <1>g, <3>1, <4>1, <4>2
    <3>2. CASE pc'[t] # "idle"
      <4>. DEFINE i == inv[t]
      <4>1. /\ i \in Open /\ invites' = [invites EXCEPT ![i].accepted = TRUE] /\ UNCHANGED <<inv, revoked>>
            /\ pc' = [pc EXCEPT ![t] = "user"]
        BY <2>2, <3>2 DEF RecordAcceptance, End, Forget, Goto
      <4>2. i \in Invites /\ invites[i] \in Invite BY <4>1 DEF Open
      <4>3. invites'[i].accepted /\ invites'[i] # None BY <4>1, <4>2 DEF Invite
      <4>4. i \in Accepted' BY <4>2, <4>3 DEF Accepted, Open
      <4>5. \A j \in Invites : j # i => invites'[j] = invites[j] BY <4>1
      <4>6. \A j \in revoked' : invites'[j] = None BY <1>a, <1>n, <4>1, <4>5
      <4>7. ASSUME NEW k \in Tasks, pc'[k] \in Going
            PROVE  inv'[k] \notin revoked' /\ (inv'[k] \in Open' => inv'[k] \in Accepted')
        <5>1. CASE inv[k] = i BY <1>a, <4>1, <4>4, <5>1
        <5>2. CASE inv[k] # i
          <6>1. pc[k] \in Going BY <4>1, <4>7, <5>2
          <6>2. inv[k] \in Open' => inv[k] \in Accepted' BY <1>s, <4>5, <5>2, <6>1 DEF Open
          <6>. QED BY <4>1, <6>1, <6>2
        <5>. QED BY <5>1, <5>2
      <4>. QED BY <4>6, <4>7
    <3>. QED BY <3>1, <3>2
  <2>3. CASE ~ CreateInvite(t) /\ ~ RecordAcceptance(t)
    <3>1. UNCHANGED revoked /\ \A k \in Tasks \ {t} : pc'[k] = pc[k] /\ inv'[k] = inv[k]
      BY <1>1, <2>3 DEF Step, FindInvite, SendLink, FindUser, ReadMembership, Join, DeleteInvite, WriteRole,
                        Added, End, Forget, Goto
    <3>2. pc'[t] \in Going => pc[t] \in Going /\ inv'[t] = inv[t]
      BY <1>1, <2>3 DEF Step, FindInvite, SendLink, FindUser, ReadMembership, Join, DeleteInvite, WriteRole,
                        Added, End, Forget, Goto
    <3>3. \A i \in Invites : invites'[i] = invites[i] \/ (invites'[i] = None)
      BY <1>1, <2>3 DEF Step, FindInvite, SendLink, FindUser, ReadMembership, Join, DeleteInvite, WriteRole
    <3>. QED BY <1>g, <3>1, <3>2, <3>3
  <2>. QED BY <2>1, <2>2, <2>3
<1>2. ASSUME NEW t \in Requests, Begins(t) PROVE Pursued'
  <2>. t \in Tasks BY DEF Tasks
  <2>1. UNCHANGED <<invites, revoked>> BY <1>2 DEF Begins, AskInvite, AddBySupport, Accept, AskRole
  <2>2. \A k \in Tasks \ {t} : pc'[k] = pc[k] /\ inv'[k] = inv[k]
    BY <1>2 DEF Begins, AskInvite, AddBySupport, Accept, AskRole, Goto
  <2>3. pc'[t] \in Going => inv'[t] = None
    <3>1. pc[t] = "idle" /\ inv[t] = None BY <1>2 DEF Begins, AskInvite, AddBySupport, Accept, AskRole, Locals, LocalsAt
    <3>2. CASE \E i \in Invites : Accept(t, i) BY <3>2 DEF Accept, Goto
    <3>3. CASE ~ \E i \in Invites : Accept(t, i)
      <4>1. inv' = inv BY <1>2, <3>3 DEF Begins, AskInvite, AddBySupport, AskRole
      <4>. QED BY <3>1, <4>1
    <3>. QED BY <3>2, <3>3
  <2>4. Open' = Open /\ Accepted' = Accepted BY <2>1 DEF Open, Accepted
  <2>5. None \notin Open BY <1>n DEF Open
  <2>6. ASSUME NEW k \in Tasks, pc'[k] \in Going
        PROVE  inv'[k] \notin revoked' /\ (inv'[k] \in Open' => inv'[k] \in Accepted')
    <3>1. CASE k = t BY <1>n, <2>1, <2>3, <2>4, <2>5, <2>6, <3>1
    <3>2. CASE k # t BY <2>1, <2>2, <2>4, <2>6, <3>2
    <3>. QED BY <3>1, <3>2
  <2>. QED BY <2>1, <2>6
<1>3. ASSUME NEW u \in Users, Registers(u) PROVE Pursued'
  <2>. u \in Tasks BY DEF Tasks
  <2>1. UNCHANGED <<invites, revoked>> BY <1>3 DEF Registers, Register, Verify, Lookup, CreateDefault
  <2>2. \A k \in Tasks \ {u} : pc'[k] = pc[k] /\ inv'[k] = inv[k]
    BY <1>3 DEF Registers, Register, Verify, Lookup, CreateDefault, Goto, End, Forget
  <2>3. CASE pc'[u] \in Going /\ pc[u] \notin Going
    <3>. DEFINE own == InvitesOf(u)
                i == CHOOSE j \in own : TRUE
    <3>1. Cardinality(own) = 1 /\ own \subseteq Accepted /\ inv' = [inv EXCEPT ![u] = i]
      BY <1>3, <2>3 DEF Registers, Register, Verify, Lookup, CreateDefault, End, Forget, Goto
    <3>2. own # {} BY <3>1, SomeOne
    <3>3. i \in own BY <3>2
    <3>. HIDE DEF own, i
    <3>4. i \in Accepted /\ i \in Open /\ i \notin revoked BY <1>a, <3>1, <3>3 DEF Accepted
    <3>5. Open' = Open /\ Accepted' = Accepted BY <2>1 DEF Open, Accepted
    <3>6. ASSUME NEW k \in Tasks, pc'[k] \in Going
          PROVE  inv'[k] \notin revoked' /\ (inv'[k] \in Open' => inv'[k] \in Accepted')
      <4>1. CASE k = u BY <2>1, <3>1, <3>4, <3>5, <4>1
      <4>2. CASE k # u BY <2>1, <2>2, <3>5, <3>6, <4>2
      <4>. QED BY <4>1, <4>2
    <3>. QED BY <2>1, <3>6
  <2>4. CASE ~ (pc'[u] \in Going /\ pc[u] \notin Going)
    <3>1. pc'[u] \in Going => inv'[u] = inv[u]
      BY <1>3, <2>4 DEF Registers, Register, Verify, Lookup, CreateDefault, End, Forget, Goto
    <3>. QED BY <1>g, <2>1, <2>2, <2>4, <3>1
  <2>. QED BY <2>3, <2>4
<1>4. CASE Otherwise
  <2>1. CASE Crash
    <3>1. UNCHANGED <<invites, revoked>> /\ \A k \in Tasks : pc'[k] = "idle" BY <2>1 DEF Crash
    <3>. QED BY <3>1
  <2>2. CASE \E w \in Workspaces, u \in Users : Remove(w, u)
    <3>1. UNCHANGED <<invites, revoked, pc, inv>> BY <2>2 DEF Remove, task
    <3>2. Open' = Open /\ Accepted' = Accepted BY <3>1 DEF Open, Accepted
    <3>. QED BY <3>1, <3>2
  <2>3. ASSUME NEW i \in Invites, Revoke(i) PROVE Pursued'
    <3>1. /\ i \in Open /\ invites' = [invites EXCEPT ![i] = None] /\ UNCHANGED <<pc, inv>>
          /\ revoked' = IF i \in Accepted THEN revoked ELSE revoked \cup {i}
      BY <2>3 DEF Revoke, task
    <3>2. \A j \in revoked' : invites'[j] = None BY <1>n, <3>1
    <3>3. ASSUME NEW k \in Tasks, pc'[k] \in Going
          PROVE  inv'[k] \notin revoked' /\ (inv'[k] \in Open' => inv'[k] \in Accepted')
      <4>1. inv[k] \notin revoked' BY <3>1, <3>3
      <4>2. CASE inv[k] = i BY <3>1, <4>1, <4>2 DEF Open
      <4>3. CASE inv[k] # i
        <5>1. inv[k] \in Open' => inv[k] \in Accepted' BY <1>s, <3>1, <3>3, <4>3 DEF Open
        <5>. QED BY <3>1, <4>1, <5>1
      <4>. QED BY <4>2, <4>3
    <3>. QED BY <3>2, <3>3
  <2>. QED BY <1>4, <2>1, <2>2, <2>3 DEF Otherwise
<1>. QED BY <1>1, <1>2, <1>3, <1>4, NextSplit

LEMMA ForItsUserStep == ASSUME TypeOK, Locals, UsedOnce, ForItsUser, Next PROVE ForItsUser'
<1>. USE DEF TypeOK, ForItsUser, invitation, history, DeleteRow
<1>. DEFINE Early == {"update", "user"}
<1>o. \A i \in Open : i \in Invites /\ invites[i] \in Invite BY DEF Open
\* An invitation that is there is not made anew, and its user stays.
<1>u. \A i \in Invites : i <= sent /\ i \in Open' => i \in Open /\ invites'[i].user = invites[i].user
  <2>1. ASSUME NEW t \in Tasks, Step(t), NEW i \in Invites, i <= sent, i \in Open'
        PROVE  i \in Open /\ invites'[i].user = invites[i].user
    <3>1. CASE CreateInvite(t)
      <4>1. sent' = sent + 1 /\ \A j \in Invites : j # sent' => invites'[j] = invites[j] BY <3>1 DEF CreateInvite
      <4>2. i # sent' BY <2>1, <4>1 DEF Invites
      <4>. QED BY <2>1, <4>1, <4>2 DEF Open
    <3>2. CASE RecordAcceptance(t)
      <4>1. CASE invites'[i] = invites[i] BY <2>1, <4>1 DEF Open
      <4>2. CASE invites'[i] # invites[i]
        <5>1. inv[t] \in Open /\ invites' = [invites EXCEPT ![inv[t]].accepted = TRUE] BY <3>2, <4>2 DEF RecordAcceptance
        <5>2. i = inv[t] BY <4>2, <5>1
        <5>3. i \in Open /\ invites'[i] = [invites[i] EXCEPT !.accepted = TRUE] BY <5>1, <5>2
        <5>. QED BY <1>o, <5>3 DEF Invite
      <4>. QED BY <4>1, <4>2
    <3>3. CASE ~ CreateInvite(t) /\ ~ RecordAcceptance(t)
      <4>1. invites'[i] = invites[i] \/ invites'[i] = None
        BY <2>1, <3>3 DEF Step, FindInvite, SendLink, FindUser, ReadMembership, Join, DeleteInvite, WriteRole
      <4>. QED BY <2>1, <4>1 DEF Open
    <3>. QED BY <3>1, <3>2, <3>3
  <2>2. ASSUME ~ \E t \in Tasks : Step(t), NEW i \in Invites, i \in Open'
        PROVE  i \in Open /\ invites'[i].user = invites[i].user
    <3>1. invites'[i] = invites[i] \/ invites'[i] = None
      <4>1. CASE \E t \in Requests : Begins(t) BY <4>1 DEF Begins, AskInvite, AddBySupport, Accept, AskRole
      <4>2. CASE \E x \in Users : Registers(x) BY <4>2 DEF Registers, Register, Verify, Lookup, CreateDefault
      <4>3. CASE Otherwise BY <4>3 DEF Otherwise, Crash, Remove, Revoke
      <4>. QED BY <2>2, <4>1, <4>2, <4>3, NextSplit
    <3>. QED BY <2>2, <3>1 DEF Open
  <2>. QED BY <2>1, <2>2
<1>g. ASSUME \A k \in Tasks : pc'[k] \in Early => /\ pc[k] \in Early /\ inv'[k] = inv[k] /\ arg'[k] = arg[k]
      PROVE  ForItsUser'
  <2>. SUFFICES ASSUME NEW k \in Tasks, pc'[k] \in Early, inv'[k] \in Open' PROVE arg'[k].user = invites'[inv'[k]].user
    OBVIOUS
  <2>1. pc[k] \in Early /\ inv'[k] = inv[k] /\ arg'[k] = arg[k] BY <1>g
  <2>2. inv[k] \in Invites /\ inv[k] <= sent BY <2>1, NameAssumption DEF Locals, LocalsAt, UsedOnce
  <2>3. inv[k] \in Open /\ invites'[inv[k]].user = invites[inv[k]].user BY <1>u, <2>1, <2>2
  <2>. QED BY <2>1, <2>3
<1>1. ASSUME NEW t \in Tasks, Step(t) PROVE ForItsUser'
  <2>1. \A k \in Tasks \ {t} : pc'[k] = pc[k] /\ inv'[k] = inv[k] /\ arg'[k] = arg[k]
    BY <1>1 DEF Step, FindInvite, CreateInvite, SendLink, RecordAcceptance, FindUser, ReadMembership, Join, DeleteInvite,
                WriteRole, Added, End, Forget, Goto
  <2>2. pc'[t] \in Early => pc[t] \in Early /\ inv'[t] = inv[t] /\ arg'[t] = arg[t]
    BY <1>1 DEF Step, FindInvite, CreateInvite, SendLink, RecordAcceptance, FindUser, ReadMembership, Join, DeleteInvite,
                WriteRole, Added, End, Forget, Goto
  <2>. QED BY <1>g, <2>1, <2>2
<1>2. ASSUME NEW t \in Requests, Begins(t) PROVE ForItsUser'
  <2>. t \in Tasks BY DEF Tasks
  <2>1. \A k \in Tasks \ {t} : pc'[k] = pc[k] /\ inv'[k] = inv[k] /\ arg'[k] = arg[k]
    BY <1>2 DEF Begins, AskInvite, AddBySupport, Accept, AskRole, Goto
  <2>2. CASE pc'[t] \in Early
    <3>1. PICK i \in Invites : Accept(t, i) BY <1>2, <2>2 DEF Begins, AskInvite, AddBySupport, AskRole, Goto
    <3>2. inv'[t] = i /\ arg'[t].user = invites[i].user /\ invites' = invites BY <3>1 DEF Accept
    <3>3. Open' = Open BY <3>2 DEF Open
    <3>4. ASSUME NEW k \in Tasks, pc'[k] \in Early, inv'[k] \in Open' PROVE arg'[k].user = invites'[inv'[k]].user
      <4>1. CASE k = t BY <3>2, <4>1
      <4>2. CASE k # t BY <2>1, <3>2, <3>3, <3>4, <4>2
      <4>. QED BY <4>1, <4>2
    <3>. QED BY <3>4
  <2>3. CASE pc'[t] \notin Early BY <1>g, <2>1, <2>3
  <2>. QED BY <2>2, <2>3
<1>3. ASSUME NEW u \in Users, Registers(u) PROVE ForItsUser'
  <2>1. \A k \in Tasks \ {u} : pc'[k] = pc[k] /\ inv'[k] = inv[k] /\ arg'[k] = arg[k]
    BY <1>3 DEF Registers, Register, Verify, Lookup, CreateDefault, Goto, End, Forget
  <2>2. pc'[u] \in Early => pc'[u] = pc[u] /\ inv'[u] = inv[u] /\ arg'[u] = arg[u]
    BY <1>3 DEF Registers, Register, Verify, Lookup, CreateDefault, Goto, End, Forget, Tasks
  <2>. QED BY <1>g, <2>1, <2>2
<1>4. CASE Otherwise
  <2>1. \A k \in Tasks : pc'[k] \in Early => pc'[k] = pc[k] /\ inv'[k] = inv[k] /\ arg'[k] = arg[k]
    BY <1>4 DEF Otherwise, Crash, Remove, Revoke, task
  <2>. QED BY <1>g, <2>1
<1>. QED BY <1>1, <1>2, <1>3, <1>4, NextSplit

-----------------------------------------------------------------------------
(* Nobody is left behind.                                                  *)

Going == {"user", "read", "join", "delete"}

\* The user of the invitation i will look for it, or somebody sees to it.
SeenTo(i) ==
    \/ users[invites[i].user] \in {"none", "unverified"}
    \/ pc[invites[i].user] = "lookup"
    \/ \E t \in Tasks : inv[t] = i /\ pc[t] \in Going

LEMMA StrandedStep ==
    ASSUME TypeOK, Locals, Registered, UsedOnce, ForItsUser, NoneStranded, Next PROVE NoneStranded'
<1>. USE DEF TypeOK, invitation, history, DeleteRow
<1>d. NoneStranded <=> \A i \in Accepted \ broken : SeenTo(i) BY DEF NoneStranded, SeenTo, Going
<1>e. NoneStranded' <=> \A i \in Accepted' \ broken' : SeenTo(i)' BY DEF NoneStranded, SeenTo, Going
<1>a. \A i \in Accepted : i \in Invites /\ invites[i] \in Invite /\ invites[i].user \in Users
                         /\ invites[i].user \in Tasks
  BY DEF Accepted, Open, Invite, Tasks
<1>t. Requests \cap Users = {} /\ Requests \subseteq Tasks /\ Users \subseteq Tasks BY NameAssumption DEF Tasks
\* The task t goes on, and takes nothing away from those it saw to.
<1>g. ASSUME NEW t \in Tasks, \A k \in Tasks \ {t} : pc'[k] = pc[k] /\ inv'[k] = inv[k],
             UNCHANGED users, pc[t] # "lookup",
             \A i \in Accepted' \ broken' : /\ i \in Accepted \ broken /\ invites'[i].user = invites[i].user
                                            /\ pc[t] \in Going /\ inv[t] = i => \/ pc'[t] \in Going /\ inv'[t] = i
                                                                               \/ users[invites[i].user] = "none"
      PROVE  NoneStranded'
  <2>. SUFFICES ASSUME NEW i \in Accepted' \ broken' PROVE SeenTo(i)' BY <1>e
  <2>. DEFINE u == invites[i].user
  <2>1. i \in Accepted \ broken /\ invites'[i].user = u BY <1>g
  <2>2. SeenTo(i) /\ u \in Tasks BY <1>a, <1>d, <2>1
  <2>3. CASE users[u] \in {"none", "unverified"} BY <1>g, <2>1, <2>3 DEF SeenTo
  <2>4. CASE pc[u] = "lookup" BY <1>g, <2>1, <2>2, <2>4 DEF SeenTo
  <2>5. CASE \E k \in Tasks : inv[k] = i /\ pc[k] \in Going
    <3>1. PICK k \in Tasks : inv[k] = i /\ pc[k] \in Going BY <2>5
    <3>2. (pc'[k] \in Going /\ inv'[k] = i) \/ users[u] = "none"
      <4>1. CASE k = t BY <1>g, <3>1, <4>1
      <4>2. CASE k # t BY <1>g, <3>1, <4>2
      <4>. QED BY <4>1, <4>2
    <3>. QED BY <1>g, <2>1, <3>2 DEF SeenTo
  <2>. QED BY <2>2, <2>3, <2>4, <2>5 DEF SeenTo
<1>1. ASSUME NEW t \in Tasks, Step(t) PROVE NoneStranded'
  <2>0. UNCHANGED users /\ pc[t] # "lookup" /\ \A k \in Tasks \ {t} : pc'[k] = pc[k] /\ inv'[k] = inv[k]
    BY <1>1 DEF Step, FindInvite, CreateInvite, SendLink, RecordAcceptance, FindUser, ReadMembership, Join, DeleteInvite,
                WriteRole, Added, End, Forget, Goto, table
  <2>s. ASSUME UNCHANGED invites PROVE Accepted' = Accepted BY <2>s DEF Accepted, Open
  <2>1. CASE FindInvite(t) \/ SendLink(t) \/ WriteRole(t)
    <3>1. UNCHANGED <<invites, broken>> /\ pc[t] \notin Going BY <2>1 DEF FindInvite, SendLink, WriteRole, Going
    <3>. QED BY <1>g, <2>0, <2>s, <3>1
  <2>2. CASE CreateInvite(t)
    <3>1. pc[t] \notin Going /\ UNCHANGED broken BY <2>2 DEF CreateInvite, Going
    <3>2. \A i \in Accepted' : i \in Accepted /\ invites'[i].user = invites[i].user
      <4>1. \A i \in Invites : invites'[i] = invites[i] \/ ~ invites'[i].accepted BY <2>2 DEF CreateInvite
      <4>. QED BY <4>1 DEF Accepted, Open
    <3>. QED BY <1>g, <2>0, <3>1, <3>2
  <2>3. CASE RecordAcceptance(t)
    <3>1. CASE UNCHANGED invites
      <4>1. pc[t] \notin Going /\ UNCHANGED broken BY <2>3 DEF RecordAcceptance, Going
      <4>. QED BY <1>g, <2>0, <2>s, <3>1, <4>1
    <3>2. CASE ~ UNCHANGED invites
      <4>. DEFINE i == inv[t]
      <4>1. /\ i \in Open /\ invites' = [invites EXCEPT ![i].accepted = TRUE] /\ UNCHANGED <<inv, broken>>
            /\ pc' = [pc EXCEPT ![t] = "user"] /\ pc[t] = "update"
        BY <2>3, <3>2 DEF RecordAcceptance, Goto
      <4>2. \A j \in Invites : j # i => (j \in Accepted' <=> j \in Accepted) /\ invites'[j] = invites[j]
        BY <4>1 DEF Accepted, Open
      <4>3. ASSUME NEW j \in Accepted' \ broken' PROVE SeenTo(j)'
        <5>1. CASE j = i BY <4>1, <5>1 DEF SeenTo, Going
        <5>2. CASE j # i
          <6>. DEFINE u == invites[j].user
          <6>1. j \in Accepted \ broken /\ invites'[j].user = u BY <4>1, <4>2, <4>3, <5>2 DEF Accepted, Open
          <6>2. SeenTo(j) /\ u \in Tasks BY <1>a, <1>d, <6>1
          <6>3. pc[u] = "lookup" => pc'[u] = "lookup" BY <4>1, <6>2
          <6>4. \A k \in Tasks : pc[k] \in Going => pc'[k] \in Going /\ inv'[k] = inv[k] BY <4>1 DEF Going
          <6>5. u = invites[j].user OBVIOUS
          <6>. HIDE DEF u
          <6>. QED BY <2>0, <6>1, <6>2, <6>3, <6>4, <6>5 DEF SeenTo
        <5>. QED BY <5>1, <5>2
      <4>. QED BY <1>e, <4>3
    <3>. QED BY <3>1, <3>2
  <2>4. CASE FindUser(t)
    <3>1. UNCHANGED <<invites, broken, inv>> \/ End(t) BY <2>4 DEF FindUser
    <3>2. UNCHANGED <<invites, broken>> BY <2>4 DEF FindUser
    <3>3. ASSUME NEW i \in Accepted', inv[t] = i
          PROVE  (pc'[t] \in Going /\ inv'[t] = i) \/ users[invites[i].user] = "none"
      <4>1. arg[t].user = invites[i].user
        BY <2>4, <3>2, <3>3 DEF FindUser, ForItsUser, Accepted, Open
      <4>. QED BY <2>4, <3>3, <4>1 DEF FindUser, Goto, Going
    <3>. QED BY <1>g, <2>0, <2>s, <3>2, <3>3
  <2>5. CASE ReadMembership(t)
    <3>1. UNCHANGED <<invites, broken>> BY <2>5 DEF ReadMembership
    <3>2. inv[t] # None => pc'[t] \in Going /\ inv'[t] = inv[t]
      BY <2>5 DEF ReadMembership, Added, Goto, Going
    <3>3. None \notin Accepted BY NameAssumption, <1>a
    <3>. QED BY <1>g, <2>0, <2>s, <3>1, <3>2, <3>3
  <2>6. CASE Join(t)
    <3>1. UNCHANGED invites /\ broken \subseteq broken' BY <2>6 DEF Join
    <3>2. inv[t] \in Accepted \ broken' => pc'[t] \in Going /\ inv'[t] = inv[t]
      <4>1. inv[t] \in Accepted => inv[t] # None /\ inv[t] \in Open BY NameAssumption, <1>a DEF Accepted
      <4>. QED BY <2>6, <4>1 DEF Join, Added, Goto, Going
    <3>. QED BY <1>g, <2>0, <2>s, <3>1, <3>2
  <2>7. CASE DeleteInvite(t)
    <3>1. inv[t] \in Invites BY <2>7 DEF DeleteInvite, Locals, LocalsAt
    <3>2. \A i \in Accepted' \ broken' : i # inv[t] /\ i \in Accepted \ broken /\ invites'[i] = invites[i]
      BY <2>7, <3>1 DEF DeleteInvite, Accepted, Open
    <3>. QED BY <1>g, <2>0, <3>2
  <2>. QED BY <1>1, <2>1, <2>2, <2>3, <2>4, <2>5, <2>6, <2>7 DEF Step
<1>2. ASSUME NEW t \in Requests, Begins(t) PROVE NoneStranded'
  <2>1. UNCHANGED <<users, invites, broken>> /\ pc[t] = "idle"
    BY <1>2 DEF Begins, AskInvite, AddBySupport, Accept, AskRole, table
  <2>2. \A k \in Tasks \ {t} : pc'[k] = pc[k] /\ inv'[k] = inv[k]
    BY <1>2 DEF Begins, AskInvite, AddBySupport, Accept, AskRole, Goto
  <2>3. Accepted' = Accepted BY <2>1 DEF Accepted, Open
  <2>. QED BY <1>g, <1>t, <2>1, <2>2, <2>3 DEF Going
<1>3. ASSUME NEW u \in Users, Registers(u) PROVE NoneStranded'
  <2>0. Accepted' = Accepted /\ invites' = invites
    BY <1>3 DEF Registers, Register, Verify, Lookup, CreateDefault, Accepted, Open
  <2>1. CASE Register(u) \/ Verify(u)
    <3>1. pc[u] = "idle" /\ UNCHANGED <<inv, broken>> BY <2>1 DEF Register, Verify, Registered
    <3>2. users'[u] = "unverified" \/ pc'[u] = "lookup" BY <1>t, <2>1 DEF Register, Verify, Goto
    <3>3. \A x \in Users \ {u} : users'[x] = users[x] BY <2>1 DEF Register, Verify
    <3>4. \A k \in Tasks \ {u} : pc'[k] = pc[k] BY <2>1 DEF Register, Verify, Goto
    <3>5. ASSUME NEW i \in Accepted' \ broken' PROVE SeenTo(i)'
      <4>. DEFINE x == invites[i].user
      <4>0. x = invites[i].user OBVIOUS
      <4>1. i \in Accepted \ broken /\ invites'[i].user = x /\ x \in Users BY <1>a, <2>0, <3>1
      <4>2. SeenTo(i) BY <1>d, <4>1
      <4>. HIDE DEF x
      <4>3. CASE x = u BY <3>2, <4>1, <4>3 DEF SeenTo
      <4>4. CASE x # u
        <5>1. \A k \in Tasks : pc[k] \in Going => pc'[k] \in Going /\ inv'[k] = inv[k] BY <3>1, <3>4 DEF Going
        <5>. QED BY <1>t, <3>3, <3>4, <4>0, <4>1, <4>2, <4>4, <5>1 DEF SeenTo
      <4>. QED BY <4>3, <4>4
    <3>. QED BY <1>e, <3>5
  <2>2. CASE Lookup(u)
    <3>. DEFINE own == InvitesOf(u)
    <3>1. pc[u] = "lookup" /\ UNCHANGED users /\ \A k \in Tasks \ {u} : pc'[k] = pc[k] /\ inv'[k] = inv[k]
      BY <2>2 DEF Lookup, table, End, Forget, Goto
    <3>2. \A i \in own \cap Accepted : i \in broken' \/ (pc'[u] \in Going /\ inv'[u] = i)
      <4>1. CASE Cardinality(own) = 1 /\ own \subseteq Accepted
        <5>. DEFINE j == CHOOSE j \in own : TRUE
        <5>1. \A i \in own : i = j BY <4>1, SomeOnly
        <5>2. (inv' = [inv EXCEPT ![u] = j] /\ pc' = [pc EXCEPT ![u] = "read"]) \/ own \cap Accepted \subseteq broken'
          BY <2>2 DEF Lookup, Goto
        <5>. HIDE DEF own, j
        <5>. QED BY <1>t, <5>1, <5>2 DEF Going
      <4>2. CASE ~ (Cardinality(own) = 1 /\ own \subseteq Accepted) BY <2>2, <4>2 DEF Lookup
      <4>. QED BY <4>1, <4>2
    <3>3. broken \subseteq broken' BY <2>2 DEF Lookup
    <3>4. \A i \in Accepted : invites[i].user = u => i \in own BY DEF Accepted, InvitesOf
    <3>5. ASSUME NEW i \in Accepted' \ broken' PROVE SeenTo(i)'
      <4>. DEFINE x == invites[i].user
      <4>0. x = invites[i].user OBVIOUS
      <4>1. i \in Accepted \ broken /\ invites'[i].user = x /\ x \in Users BY <1>a, <2>0, <3>3
      <4>2. SeenTo(i) BY <1>d, <4>1
      <4>3. CASE x = u
        <5>1. pc'[u] \in Going /\ inv'[u] = i BY <3>2, <3>4, <3>5, <4>1, <4>3
        <5>. QED BY <1>t, <5>1 DEF SeenTo
      <4>4. CASE x # u
        <5>1. \A k \in Tasks : pc[k] \in Going => pc'[k] \in Going /\ inv'[k] = inv[k] BY <3>1 DEF Going
        <5>. HIDE DEF x
        <5>. QED BY <1>t, <3>1, <4>0, <4>1, <4>2, <4>4, <5>1 DEF SeenTo
      <4>. QED BY <4>3, <4>4
    <3>. QED BY <1>e, <3>5
  <2>3. CASE CreateDefault(u)
    <3>1. UNCHANGED <<users, broken>> /\ pc[u] = "default" /\ \A k \in Tasks \ {u} : pc'[k] = pc[k] /\ inv'[k] = inv[k]
      BY <2>3 DEF CreateDefault, End, Forget, Goto
    <3>. QED BY <1>g, <1>t, <2>0, <3>1 DEF Going
  <2>. QED BY <1>3, <2>1, <2>2, <2>3 DEF Registers
<1>4. CASE Otherwise
  <2>1. CASE Crash
    <3>1. Accepted' = Accepted /\ UNCHANGED <<users, invites>> BY <2>1 DEF Crash, Accepted, Open, table
    <3>2. \A i \in Accepted' \ broken' : users'[invites'[i].user] = "none" BY <2>1, <3>1 DEF Crash
    <3>. QED BY <1>e, <3>2 DEF SeenTo
  <2>2. CASE \E w \in Workspaces, u \in Users : Remove(w, u)
    <3>1. UNCHANGED <<users, invites, broken, pc, inv>> BY <2>2 DEF Remove, task
    <3>2. Accepted' = Accepted BY <3>1 DEF Accepted, Open
    <3>. QED BY <1>d, <1>e, <3>1, <3>2 DEF SeenTo
  <2>3. ASSUME NEW i \in Invites, Revoke(i) PROVE NoneStranded'
    <3>1. \A j \in Accepted' \ broken' : j \in Accepted \ broken /\ invites'[j] = invites[j]
      BY <2>3 DEF Revoke, Accepted, Open
    <3>2. UNCHANGED <<users, pc, inv>> BY <2>3 DEF Revoke, task, table
    <3>. QED BY <1>d, <1>e, <3>1, <3>2 DEF SeenTo
  <2>. QED BY <1>4, <2>1, <2>2, <2>3 DEF Otherwise
<1>. QED BY <1>1, <1>2, <1>3, <1>4, NextSplit

-----------------------------------------------------------------------------
(* Roles.                                                                  *)

HasAdmin(w) == \E p \in People : Permitted(p, w, "update_roles")


LEMMA RolesStep ==
    ASSUME TypeOK, Locals, RolesKnown, KeepsAdmin, Next PROVE RolesKnown' /\ KeepsAdmin'
<1>. USE DEF TypeOK, table, history
<1>. DEFINE Old(k) == \/ stale'[k]
                      \/ ~ stale[k] /\ pc'[k] = pc[k] /\ arg'[k] = arg[k] /\ seen'[k] = seen[k]
            Row(k) == roles[<<arg[k].ws, arg[k].user>>]
\* Roles stay as they are; only the task t moves.
<1>k. KeepsAdmin' <=> raced' \/ \A w \in Workspaces : HasAdmin(w)' BY DEF KeepsAdmin, HasAdmin
<1>h. KeepsAdmin <=> raced \/ \A w \in Workspaces : HasAdmin(w) BY DEF KeepsAdmin, HasAdmin
<1>s. ASSUME UNCHANGED <<roles, raced>> PROVE KeepsAdmin' BY <1>s DEF KeepsAdmin, Permitted
<1>g. ASSUME UNCHANGED roles,
             \A k \in Tasks : /\ pc'[k] = "role" /\ ~ stale'[k] => Old(k)
                              /\ pc'[k] = "join" /\ ~ stale'[k] => Old(k)
      PROVE  RolesKnown'
  <2>. SUFFICES ASSUME NEW k \in Tasks, ~ stale'[k]
                PROVE  /\ pc'[k] = "role" =>
                            \E p \in People : p # arg'[k].user /\ Permitted(p, arg[k].ws, "update_roles")'
                       /\ pc'[k] = "join" => seen'[k] = roles'[<<arg'[k].ws, arg'[k].user>>]
    BY DEF RolesKnown
  <2>1. CASE pc'[k] = "role"
    <3>1. ~ stale[k] /\ pc[k] = "role" /\ arg'[k] = arg[k] BY <1>g, <2>1
    <3>2. \E p \in People : p # arg[k].user /\ Permitted(p, arg[k].ws, "update_roles") BY <3>1 DEF RolesKnown
    <3>. QED BY <1>g, <2>1, <3>1, <3>2 DEF Permitted
  <2>2. CASE pc'[k] = "join"
    <3>1. ~ stale[k] /\ pc[k] = "join" /\ arg'[k] = arg[k] /\ seen'[k] = seen[k] BY <1>g, <2>2
    <3>. QED BY <1>g, <2>2, <3>1 DEF RolesKnown
  <2>3. CASE pc'[k] \notin {"role", "join"} BY <2>3
  <2>. QED BY <2>1, <2>2, <2>3
<1>w. ASSUME NEW t \in Tasks, RolesWritten(t), \A k \in Tasks \ {t} : pc'[k] = pc[k], pc'[t] \notin {"role", "join"}
      PROVE  RolesKnown'
  BY <1>w DEF RolesWritten, RolesKnown
<1>1. ASSUME NEW t \in Tasks, Step(t) PROVE RolesKnown' /\ KeepsAdmin'
  <2>0. \A k \in Tasks \ {t} : pc'[k] = pc[k] /\ arg'[k] = arg[k] /\ seen'[k] = seen[k]
    BY <1>1 DEF Step, FindInvite, CreateInvite, SendLink, RecordAcceptance, FindUser, ReadMembership, Join, DeleteInvite,
                WriteRole, Added, End, Forget, Goto
  <2>1. CASE Join(t)
    <3>. DEFINE wp == <<arg[t].ws, arg[t].user>>
    <3>1. CASE UNCHANGED <<roles, raced>>
      <4>1. CASE End(t)
        <5>1. pc'[t] = "idle" /\ \A k \in Tasks \ {t} : stale'[k] = stale[k] BY <4>1 DEF End, Forget, Goto
        <5>. QED BY <1>g, <1>s, <2>0, <3>1, <5>1
      <4>2. CASE ~ End(t)
        <5>1. RolesWritten(t) /\ pc'[t] \notin {"role", "join"} BY <2>1, <4>2 DEF Join, Added, Forget, Goto
        <5>. QED BY <1>s, <1>w, <2>0, <3>1, <5>1
      <4>. QED BY <4>1, <4>2
    <3>2. CASE ~ UNCHANGED <<roles, raced>>
      <4>1. RolesWritten(t) /\ pc'[t] \notin {"role", "join"} /\ pc[t] = "join"
            /\ roles' = [roles EXCEPT ![wp] = NewRoles(seen[t], arg[t].roles, FALSE)]
        BY <2>1, <3>2 DEF Join, Added, Forget, Goto
      <4>2. RolesKnown' BY <1>w, <2>0, <4>1
      <4>3. ASSUME ~ raced', NEW w \in Workspaces PROVE HasAdmin(w)'
        <5>1. ~ raced /\ ~ stale[t] BY <4>1, <4>3 DEF RolesWritten
        <5>2. seen[t] = roles[wp] BY <4>1, <5>1 DEF RolesKnown
        <5>3. PICK p \in People : Permitted(p, w, "update_roles") BY <5>1 DEF KeepsAdmin
        <5>4. \A q \in People :
                roles[<<w, q>>] # None => roles[<<w, q>>] \subseteq roles'[<<w, q>>] /\ roles'[<<w, q>>] # None
          <6>1. ASSUME NEW q \in People, roles[<<w, q>>] # None
                PROVE  roles[<<w, q>>] \subseteq roles'[<<w, q>>] /\ roles'[<<w, q>>] # None
            <7>1. <<w, q>> \in Workspaces \X People OBVIOUS
            <7>2. CASE <<w, q>> = wp
              <8>1. roles'[<<w, q>>] = seen[t] \cup arg[t].roles BY <4>1, <5>2, <6>1, <7>1, <7>2 DEF NewRoles
              <8>2. arg[t].roles \in SUBSET Roles /\ seen[t] \in SUBSET Roles
                BY <4>1, <5>2, <6>1, <7>1, <7>2 DEF Locals, LocalsAt, Arg
              <8>3. seen[t] \cup arg[t].roles # None BY <8>2, NoneAssumption
              <8>. QED BY <5>2, <7>2, <8>1, <8>3
            <7>3. CASE <<w, q>> # wp BY <4>1, <6>1, <7>1, <7>3
            <7>. QED BY <7>2, <7>3
          <6>. QED BY <6>1
        <5>. QED BY <5>3, <5>4 DEF HasAdmin, Permitted
      <4>. QED BY <1>k, <4>2, <4>3
    <3>. QED BY <3>1, <3>2
  <2>2. CASE WriteRole(t)
    <3>. DEFINE wp == <<arg[t].ws, arg[t].user>>
    <3>1. /\ RolesWritten(t) /\ pc'[t] = "idle" /\ pc[t] = "role"
          /\ \A q \in Workspaces \X People : q # wp => roles'[q] = roles[q]
      BY <2>2 DEF WriteRole, Forget, Goto
    <3>2. RolesKnown' BY <1>w, <2>0, <3>1
    <3>3. ASSUME ~ raced', NEW w \in Workspaces PROVE HasAdmin(w)'
      <4>1. ~ raced /\ ~ stale[t] BY <3>1, <3>3 DEF RolesWritten
      <4>2. PICK p \in People : Permitted(p, w, "update_roles") /\ (w = arg[t].ws => p # arg[t].user)
        <5>1. CASE w = arg[t].ws BY <3>1, <4>1, <5>1 DEF RolesKnown
        <5>2. CASE w # arg[t].ws BY <4>1, <5>2 DEF KeepsAdmin
        <5>. QED BY <5>1, <5>2
      <4>3. <<w, p>> # wp BY <4>2
      <4>4. roles'[<<w, p>>] = roles[<<w, p>>] BY <3>1, <4>3
      <4>. QED BY <4>2, <4>4 DEF HasAdmin, Permitted
    <3>. QED BY <1>k, <3>2, <3>3
  <2>3. CASE ReadMembership(t)
    <3>1. UNCHANGED <<roles, raced>> /\ stale' = [stale EXCEPT ![t] = FALSE] BY <2>3 DEF ReadMembership
    <3>2. pc'[t] = "join" => seen'[t] = roles'[<<arg'[t].ws, arg'[t].user>>]
      BY <2>3 DEF ReadMembership, Added, Forget, Goto
    <3>3. pc'[t] # "role" BY <2>3 DEF ReadMembership, Added, Forget, Goto
    <3>4. RolesKnown'
      <4>. SUFFICES ASSUME NEW k \in Tasks, ~ stale'[k]
                    PROVE  /\ pc'[k] = "role" =>
                                \E p \in People : p # arg'[k].user /\ Permitted(p, arg[k].ws, "update_roles")'
                           /\ pc'[k] = "join" => seen'[k] = roles'[<<arg'[k].ws, arg'[k].user>>]
        BY DEF RolesKnown
      <4>1. CASE k = t BY <3>2, <3>3, <4>1
      <4>2. CASE k # t
        <5>1. ~ stale[k] /\ pc'[k] = pc[k] /\ arg'[k] = arg[k] /\ seen'[k] = seen[k] BY <2>0, <3>1, <4>2
        <5>. QED BY <3>1, <5>1 DEF RolesKnown, Permitted
      <4>. QED BY <4>1, <4>2
    <3>. QED BY <1>s, <3>1, <3>4
  <2>4. CASE ~ Join(t) /\ ~ WriteRole(t) /\ ~ ReadMembership(t)
    <3>1. /\ UNCHANGED <<roles, raced>> /\ \A k \in Tasks \ {t} : stale'[k] = stale[k]
          /\ pc'[t] \notin {"role", "join"}
      BY <1>1, <2>4 DEF Step, FindInvite, CreateInvite, SendLink, RecordAcceptance, FindUser, DeleteInvite,
                        End, Forget, Goto
    <3>. QED BY <1>g, <1>s, <2>0, <3>1
  <2>. QED BY <2>1, <2>2, <2>3, <2>4
<1>2. ASSUME NEW t \in Requests, Begins(t) PROVE RolesKnown' /\ KeepsAdmin'
  <2>. t \in Tasks BY DEF Tasks
  <2>0. /\ UNCHANGED <<roles, raced>>
        /\ \A k \in Tasks \ {t} : pc'[k] = pc[k] /\ arg'[k] = arg[k] /\ seen'[k] = seen[k] /\ stale'[k] = stale[k]
    BY <1>2 DEF Begins, AskInvite, AddBySupport, Accept, AskRole, Goto
  <2>1. CASE pc'[t] = "role"
    <3>1. PICK p \in People, q \in People, w \in Workspaces, R \in SUBSET Roles : AskRole(t, p, w, q, R)
      BY <1>2, <2>1 DEF Begins, AskInvite, AddBySupport, Accept, Goto
    <3>2. p # q /\ Permitted(p, w, "update_roles") /\ arg'[t].user = q /\ arg'[t].ws = w BY <3>1 DEF AskRole, May
    <3>3. Permitted(p, arg[t].ws, "update_roles")' BY <2>0, <3>2 DEF Permitted
    <3>4. RolesKnown'
      <4>. SUFFICES ASSUME NEW k \in Tasks, ~ stale'[k]
                    PROVE  /\ pc'[k] = "role" =>
                                \E r \in People : r # arg'[k].user /\ Permitted(r, arg[k].ws, "update_roles")'
                           /\ pc'[k] = "join" => seen'[k] = roles'[<<arg'[k].ws, arg'[k].user>>]
        BY DEF RolesKnown
      <4>1. CASE k = t BY <2>1, <3>2, <3>3, <4>1
      <4>2. CASE k # t
        <5>1. ~ stale[k] /\ pc'[k] = pc[k] /\ arg'[k] = arg[k] /\ seen'[k] = seen[k] BY <2>0, <4>2
        <5>. QED BY <2>0, <5>1 DEF RolesKnown, Permitted
      <4>. QED BY <4>1, <4>2
    <3>. QED BY <1>s, <2>0, <3>4
  <2>2. CASE pc'[t] # "role"
    <3>1. pc'[t] # "join" BY <1>2 DEF Begins, AskInvite, AddBySupport, Accept, AskRole, Goto
    <3>. QED BY <1>g, <1>s, <2>0, <2>2, <3>1
  <2>. QED BY <2>1, <2>2
<1>3. ASSUME NEW u \in Users, Registers(u) PROVE RolesKnown' /\ KeepsAdmin'
  <2>. u \in Tasks BY DEF Tasks
  <2>1. /\ UNCHANGED <<roles, raced>>
        /\ \A k \in Tasks \ {u} : pc'[k] = pc[k] /\ arg'[k] = arg[k] /\ seen'[k] = seen[k] /\ stale'[k] = stale[k]
    BY <1>3 DEF Registers, Register, Verify, Lookup, CreateDefault, End, Forget, Goto
  <2>2. pc'[u] \in {"role", "join"} => pc'[u] = pc[u] /\ arg'[u] = arg[u] /\ seen'[u] = seen[u] /\ stale'[u] = stale[u]
    BY <1>3 DEF Registers, Register, Verify, Lookup, CreateDefault, End, Forget, Goto
  <2>. QED BY <1>g, <1>s, <2>1, <2>2
<1>4. CASE Otherwise
  <2>1. UNCHANGED <<roles, raced>> BY <1>4 DEF Otherwise, Crash, Remove, Revoke
  <2>2. \A k \in Tasks : pc'[k] \in {"role", "join"} =>
            pc'[k] = pc[k] /\ arg'[k] = arg[k] /\ seen'[k] = seen[k] /\ stale'[k] = stale[k]
    BY <1>4 DEF Otherwise, Crash, Remove, Revoke, task
  <2>. QED BY <1>g, <1>s, <2>1, <2>2
<1>. QED BY <1>1, <1>2, <1>3, <1>4, NextSplit

-----------------------------------------------------------------------------

LEMMA InvStep == Inv /\ [Next]_vars => Inv'
<1>. SUFFICES ASSUME Inv, [Next]_vars PROVE Inv' OBVIOUS
<1>1. CASE Next
  <2>1. TypeOK /\ Locals /\ Registered /\ UsedOnce /\ Pursued /\ ForItsUser /\ NoneStranded /\ RolesKnown /\ KeepsAdmin
    BY DEF Inv
  <2>2. TypeOK' /\ Locals' BY <1>1, <2>1, TypeStep
  <2>3. Registered' BY <1>1, <2>1, RegisteredStep
  <2>4. UsedOnce' BY <1>1, <2>1, UsedOnceStep
  <2>5. Pursued' BY <1>1, <2>1, PursuedStep
  <2>6. ForItsUser' BY <1>1, <2>1, ForItsUserStep
  <2>7. NoneStranded' BY <1>1, <2>1, StrandedStep
  <2>8. RolesKnown' /\ KeepsAdmin' BY <1>1, <2>1, RolesStep
  <2>. QED BY <2>2, <2>3, <2>4, <2>5, <2>6, <2>7, <2>8 DEF Inv
<1>2. CASE UNCHANGED vars
  <2>. USE <1>2 DEF vars, table, invitation, task, history, bounds
  <2>1. TypeOK' BY DEF Inv, TypeOK
  <2>2. Locals' /\ Registered' BY DEF Inv, Locals, LocalsAt, Registered
  <2>3. UsedOnce' /\ Pursued' /\ ForItsUser' BY DEF Inv, UsedOnce, Pursued, ForItsUser, Open, Accepted
  <2>4. NoneStranded' BY DEF Inv, NoneStranded, Open, Accepted
  <2>5. RolesKnown' /\ KeepsAdmin' BY DEF Inv, RolesKnown, KeepsAdmin, Permitted
  <2>. QED BY <2>1, <2>2, <2>3, <2>4, <2>5 DEF Inv
<1>. QED BY <1>1, <1>2

\* The invariant that all of the theorems follow from.
THEOREM Invariant == Spec => []Inv
BY InitInv, InvStep, PTL DEF Spec

\* The types.
THEOREM TypeCorrect == Spec => []TypeOK
<1>1. Inv => TypeOK BY DEF Inv
<1>. QED BY Invariant, <1>1, PTL

\* Acceptance and registration meet, whatever else goes on.
THEOREM StrandsNobody == Spec => []NoneStranded
<1>1. Inv => NoneStranded BY DEF Inv
<1>. QED BY Invariant, <1>1, PTL

\* There is an administrator unless two changes of roles have met.
THEOREM AdminStays == Spec => []KeepsAdmin
<1>1. Inv => KeepsAdmin BY DEF Inv
<1>. QED BY Invariant, <1>1, PTL

\* Nobody joins with an invitation that was revoked before it was accepted.
THEOREM RevokedStaysOut == Spec => RevokedLetsNobodyIn
<1>1. Inv => \A t \in Tasks : Join(t) /\ members' # members => inv[t] \notin revoked BY DEF Inv, Pursued, Join
<1>. QED BY Invariant, <1>1, PTL DEF RevokedLetsNobodyIn

=============================================================================
