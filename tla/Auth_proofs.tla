----------------------------- MODULE Auth_proofs -----------------------------
(***************************************************************************)
(* What is proved of signing in, of the limit on its attempts, of the keys *)
(* the tokens are signed with, of the credentials an onboarding leaves and *)
(* of the analytics events that all of them cause.  No step of one of them *)
(* is a step of another, each part is about the specification of its own.  *)
(***************************************************************************)
EXTENDS AuthProps, Onboarding, Analytics, Keys, RateLimit, FiniteSetTheorems, SequenceTheorems, TLAPS

-----------------------------------------------------------------------------
(* Signing up and in: users, credentials and second factors.               *)

USE DEF homes, Homing

\* The steps that have no user yet, and those that are about an account.
Anonymous == {"idle", "find account", "find email"}
Linking == {"find account", "find email", "create", "find link", "link", "find own", "own"}

\* The steps that write the row of their user, or lead there.
Rewriting == {"verify", "hash", "enable", "otp to disable", "use code to disable", "disable"}

TaskOK(t) ==
    /\ pc[t] \notin Anonymous => who[t] \in Users
    /\ pc[t] \in Linking => acc[t] \in Accounts
    /\ pc[t] \in Rewriting => row[who[t]] # None
    /\ t \in fresh => pc[t] \in {"find link", "link"} \cup Homing

Seen == User \cup RecoveryCode \cup Link \cup ApiTokens \cup {None}

TablesTyped ==
    /\ row \in [Users -> User \cup {None}] /\ home \subseteq Users
    /\ slugs \subseteq Slugs /\ invites \in [Users -> 0..MaxInvites]
    /\ codes \in [Users -> SUBSET RecoveryCode]
    /\ links \subseteq Link
    /\ keys \in [ApiTokens -> Users \cup {None}] /\ revoked \subseteq ApiTokens
    /\ minTime \in [Users -> 0..MaxTime]

HandsTyped == jwts \subseteq Jwt /\ flows \subseteq Flow

TasksTyped ==
    /\ pc \in [Tasks -> Steps]
    /\ who \in [Tasks -> Users \cup {None}]
    /\ seen \in [Tasks -> Seen]
    /\ acc \in [Tasks -> Accounts \cup {None}]
    /\ fresh \subseteq Tasks

CountersTyped ==
    /\ cut \subseteq Users
    /\ secrets \in 0..MaxSecrets /\ made \in 0..MaxLinks /\ now \in Times

BoundsTyped == asks \in 0..MaxAsks /\ crashes \in 0..MaxCrashes

LEMMA AuthTypes == TypeOK <=> TablesTyped /\ HandsTyped /\ TasksTyped /\ CountersTyped /\ BoundsTyped
BY DEF TypeOK, TablesTyped, HandsTyped, TasksTyped, CountersTyped, BoundsTyped, Seen

LEMMA AuthTypesNext == TypeOK' <=> TablesTyped' /\ HandsTyped' /\ TasksTyped' /\ CountersTyped' /\ BoundsTyped'
BY DEF TypeOK, TablesTyped, HandsTyped, TasksTyped, CountersTyped, BoundsTyped, Seen

TasksOK == \A t \in Tasks : TaskOK(t)

AuthInv == TypeOK /\ TasksOK

LEMMA AuthStart == Init => AuthInv
<1> SUFFICES ASSUME Init
             PROVE  AuthInv
    OBVIOUS
<1>1. TablesTyped
    BY BoundAssumption DEF Init, TablesTyped
<1>2. HandsTyped /\ BoundsTyped
    BY BoundAssumption DEF Init, HandsTyped, BoundsTyped
<1>3. TasksTyped
    BY DEF Init, TasksTyped, Steps, Seen
<1>4. CountersTyped
    BY BoundAssumption DEF Init, CountersTyped, Times
<1>5. TasksOK
    BY DEF Init, TasksOK, TaskOK, Anonymous, Linking, Rewriting
<1> QED BY <1>1, <1>2, <1>3, <1>4, <1>5, AuthTypes DEF AuthInv

-----------------------------------------------------------------------------
(* What a step does to its task.                                           *)

\* Rows are never deleted.
RowsStay == \A u \in Users : row[u] # None => row'[u] # None

\* Nothing but task t has changed, which now stands at step with what it has read.
Moves(t, step, w, r, a) ==
    /\ pc' = [pc EXCEPT ![t] = step] /\ who' = [who EXCEPT ![t] = w]
    /\ seen' = [seen EXCEPT ![t] = r] /\ acc' = [acc EXCEPT ![t] = a]
    /\ step \in Steps /\ w \in Users \cup {None} /\ r \in Seen /\ a \in Accounts \cup {None}
    /\ step \notin Anonymous => w \in Users
    /\ step \in Linking => a \in Accounts
    /\ step \in Rewriting => row'[w] # None

LEMMA MoveOK ==
    ASSUME TasksTyped, TasksOK, RowsStay, NEW t \in Tasks, NEW step, NEW w, NEW r, NEW a, Moves(t, step, w, r, a),
           fresh' \subseteq Tasks, fresh' \subseteq fresh \cup {t},
           t \in fresh' => step \in {"find link", "link"} \cup Homing
    PROVE  TasksTyped' /\ TasksOK'
<1>1. /\ pc' \in [Tasks -> Steps] /\ pc'[t] = step /\ \A i \in Tasks : i # t => pc'[i] = pc[i]
      /\ who' \in [Tasks -> Users \cup {None}] /\ who'[t] = w /\ \A i \in Tasks : i # t => who'[i] = who[i]
      /\ seen' \in [Tasks -> Seen]
      /\ acc' \in [Tasks -> Accounts \cup {None}] /\ acc'[t] = a /\ \A i \in Tasks : i # t => acc'[i] = acc[i]
    BY DEF Moves, TasksTyped
<1>2. TasksTyped'
    BY <1>1 DEF TasksTyped
<1>3. TaskOK(t)'
    BY <1>1 DEF TaskOK, Moves
<1>4. ASSUME NEW i \in Tasks, i # t
      PROVE  TaskOK(i)'
    <2>1. TaskOK(i) /\ pc'[i] = pc[i] /\ who'[i] = who[i] /\ acc'[i] = acc[i] /\ (i \in fresh' => i \in fresh)
        BY <1>1, <1>4 DEF TasksOK
    <2>2. pc[i] \in Rewriting => who[i] \in Users
        BY <2>1 DEF TaskOK, Anonymous, Rewriting
    <2> QED BY <2>1, <2>2 DEF TaskOK, RowsStay
<1> QED BY <1>2, <1>3, <1>4 DEF TasksOK

LEMMA BeginOK ==
    ASSUME TasksTyped, TasksOK, RowsStay, NEW t \in Tasks, NEW step \in Steps, NEW w \in Users \cup {None},
           NEW r \in Seen, NEW a \in Accounts \cup {None},
           Begin(t, step, w, r), acc' = [acc EXCEPT ![t] = a], fresh' = fresh,
           step \notin Anonymous => w \in Users,
           step \in Linking => a \in Accounts,
           step \in Rewriting => row'[w] # None
    PROVE  TasksTyped' /\ TasksOK'
<1>1. Moves(t, step, w, r, a)
    BY DEF Begin, Goto, Moves
<1>2. t \notin fresh
    BY DEF TasksOK, TaskOK, Begin
<1> QED BY <1>1, <1>2, MoveOK DEF TasksTyped

LEMMA KeepAcc ==
    ASSUME TasksTyped, NEW t \in Tasks, UNCHANGED acc
    PROVE  acc[t] \in Accounts \cup {None} /\ acc' = [acc EXCEPT ![t] = acc[t]]
BY DEF TasksTyped

LEMMA EndOK ==
    ASSUME TasksTyped, TasksOK, RowsStay, NEW t \in Tasks, End(t)
    PROVE  TasksTyped' /\ TasksOK'
<1>1. Moves(t, "idle", None, None, None)
    BY DEF End, Goto, Moves, Steps, Seen, Anonymous, Linking, Rewriting
<1>2. fresh' = fresh \ {t}
    BY DEF End
<1> QED BY <1>1, <1>2, MoveOK DEF TasksTyped

LEMMA GotoOK ==
    ASSUME TasksTyped, TasksOK, RowsStay, NEW t \in Tasks, NEW step \in Steps, Goto(t, step),
           UNCHANGED <<who, acc>>, NEW r \in Seen, seen' = [seen EXCEPT ![t] = r],
           fresh' \subseteq Tasks, fresh' \subseteq fresh \cup {t},
           step \notin Anonymous => who[t] \in Users,
           step \in Linking => acc[t] \in Accounts,
           step \in Rewriting => row'[who[t]] # None,
           t \in fresh' => step \in {"find link", "link"} \cup Homing
    PROVE  TasksTyped' /\ TasksOK'
<1>1. /\ who' = [who EXCEPT ![t] = who[t]] /\ who[t] \in Users \cup {None}
      /\ acc' = [acc EXCEPT ![t] = acc[t]] /\ acc[t] \in Accounts \cup {None}
    BY DEF TasksTyped
<1>2. Moves(t, step, who[t], r, acc[t])
    BY <1>1 DEF Goto, Moves
<1> QED BY <1>2, MoveOK

LEMMA KeepSeen ==
    ASSUME TasksTyped, NEW t \in Tasks, UNCHANGED seen
    PROVE  seen[t] \in Seen /\ seen' = [seen EXCEPT ![t] = seen[t]]
BY DEF TasksTyped

\* What is not about a task leaves all of them alone.
LEMMA TasksKeep ==
    ASSUME TasksTyped, TasksOK, RowsStay, UNCHANGED task
    PROVE  TasksTyped' /\ TasksOK'
<1>1. TasksTyped'
    BY DEF TasksTyped, task
<1>2. ASSUME NEW i \in Tasks
      PROVE  TaskOK(i)'
    <2>1. TaskOK(i) /\ UNCHANGED <<pc, who, acc, fresh>>
        BY <1>2 DEF TasksOK, task
    <2>2. pc[i] \in Rewriting => who[i] \in Users
        BY <2>1 DEF TaskOK, Anonymous, Rewriting
    <2> QED BY <2>1, <2>2 DEF TaskOK, RowsStay
<1> QED BY <1>1, <1>2 DEF TasksOK

\* The other tasks stand where they stood.
OthersStay(t) == \A i \in Tasks : i # t => pc'[i] = pc[i] /\ who'[i] = who[i] /\ (i \in fresh => i \in fresh')

\* A task that is about to give its user a workspace.
AboutHome(t) == pc[t] \in Homing \/ t \in fresh

\* No user is verified that was not, but the user of task t.
NewlyVerified(t) ==
    \A u \in Users : row'[u] # None /\ row'[u].verified =>
        (row[u] # None /\ row[u].verified) \/ (who'[t] = u /\ AboutHome(t)')

LEMMA HomesStay ==
    ASSUME NobodyHomeless, NEW t \in Tasks, OthersStay(t), NewlyVerified(t), home \subseteq home', cut \subseteq cut',
           AboutHome(t) => who[t] \in home' \cup cut' \/ (who'[t] = who[t] /\ AboutHome(t)')
    PROVE  NobodyHomeless'
<1> SUFFICES ASSUME NEW u \in Users, row'[u] # None, row'[u].verified, u \notin home', u \notin cut'
             PROVE  \E i \in Tasks : who'[i] = u /\ AboutHome(i)'
    BY DEF NobodyHomeless, AboutHome
<1>1. CASE who'[t] = u /\ AboutHome(t)'
    BY <1>1
<1>2. CASE row[u] # None /\ row[u].verified
    <2>1. PICK i \in Tasks : who[i] = u /\ AboutHome(i)
        BY <1>2 DEF NobodyHomeless, AboutHome
    <2>2. CASE i # t
        BY <2>1, <2>2 DEF OthersStay, AboutHome
    <2>3. CASE i = t
        BY <2>1, <2>3
    <2> QED BY <2>2, <2>3
<1> QED BY <1>1, <1>2 DEF NewlyVerified

LEMMA HomesKeep ==
    ASSUME NobodyHomeless, UNCHANGED <<row, task>>, home \subseteq home', cut \subseteq cut'
    PROVE  NobodyHomeless'
BY DEF NobodyHomeless, task

LEMMA TablesKeep ==
    ASSUME TablesTyped, UNCHANGED tables
    PROVE  TablesTyped' /\ RowsStay
BY DEF TablesTyped, tables, RowsStay

HomeInv == AuthInv /\ NobodyHomeless

\* A request that begins is not about to give anybody a workspace.
LEMMA BeginHomes ==
    ASSUME TasksTyped, TasksOK, NobodyHomeless, NEW t \in Tasks, NEW step, NEW w, NEW r, Begin(t, step, w, r),
           UNCHANGED <<row, home, fresh, cut>>
    PROVE  NobodyHomeless'
<1>1. OthersStay(t)
    BY DEF OthersStay, Begin, Goto, TasksTyped
<1>2. ~AboutHome(t)
    BY DEF AboutHome, Begin, TasksOK, TaskOK
<1>3. NewlyVerified(t)
    BY DEF NewlyVerified
<1> QED BY <1>1, <1>2, <1>3, HomesStay

LEMMA EndHomes ==
    ASSUME TasksTyped, TasksOK, NobodyHomeless, NEW t \in Tasks, End(t), home \subseteq home', cut \subseteq cut',
           \A u \in Users : row'[u] # None /\ row'[u].verified => row[u] # None /\ row[u].verified,
           AboutHome(t) => who[t] \in home' \cup cut'
    PROVE  NobodyHomeless'
<1>1. OthersStay(t)
    BY DEF OthersStay, End, Goto, TasksTyped
<1>2. NewlyVerified(t)
    BY DEF NewlyVerified
<1> QED BY <1>1, <1>2, HomesStay

-----------------------------------------------------------------------------
(* Requests begin.                                                         *)

LEMMA AskKeeps ==
    ASSUME BoundsTyped, Ask
    PROVE  BoundsTyped'
BY BoundAssumption DEF BoundsTyped, Ask

LEMMA AskInv ==
    ASSUME HomeInv, Ask, NEW t \in Tasks, NEW step \in Steps, NEW u \in Users, NEW r \in Seen, Begin(t, step, u, r),
           UNCHANGED <<tables, hands, acc, fresh, counters>>,
           step \notin Linking, step \in Rewriting => row[u] # None
    PROVE  HomeInv'
<1>1. TablesTyped /\ HandsTyped /\ TasksTyped /\ CountersTyped /\ BoundsTyped /\ TasksOK /\ NobodyHomeless
    BY AuthTypes DEF HomeInv, AuthInv
<1>2. TablesTyped' /\ RowsStay /\ BoundsTyped'
    BY <1>1, TablesKeep, AskKeeps
<1>3. HandsTyped' /\ CountersTyped'
    BY <1>1 DEF HandsTyped, hands, CountersTyped, counters
<1>4. TasksTyped' /\ TasksOK'
    <2>1. acc[t] \in Accounts \cup {None} /\ acc' = [acc EXCEPT ![t] = acc[t]]
        BY <1>1, KeepAcc
    <2>2. step \in Rewriting => row'[u] # None
        BY DEF tables
    <2> QED BY <1>1, <1>2, <2>1, <2>2, BeginOK
<1>5. NobodyHomeless'
    BY <1>1, BeginHomes DEF tables, counters
<1> QED BY <1>2, <1>3, <1>4, <1>5, AuthTypesNext DEF HomeInv, AuthInv

LEMMA ReadsRow ==
    ASSUME TypeOK, NEW u \in Users, row[u] # None
    PROVE  row[u] \in Seen
BY DEF TypeOK, Seen

LEMMA AskingInv ==
    ASSUME HomeInv, NEW t \in Tasks, NEW u \in Users,
           \/ AskVerify(t, u) \/ AskLogin(t, u) \/ AskRefresh(t, u) \/ AskMfa(t, u) \/ AskEnable(t, u)
           \/ AskDisable(t, u)
    PROVE  HomeInv'
<1>1. PICK step \in {"verify", "otp", "token", "refresh", "hash", "enable", "otp to disable"} :
        Ask /\ row[u] # None /\ Begin(t, step, u, row[u]) /\ UNCHANGED <<tables, hands, acc, fresh, counters>>
    <2>1. CASE AskLogin(t, u)
        <3>1. CASE row[u].mfa BY <2>1, <3>1 DEF AskLogin
        <3>2. CASE ~row[u].mfa BY <2>1, <3>2 DEF AskLogin
        <3> QED BY <3>1, <3>2
    <2>2. CASE AskVerify(t, u) BY <2>2 DEF AskVerify
    <2>3. CASE AskRefresh(t, u) BY <2>3 DEF AskRefresh, SignedIn
    <2>4. CASE AskMfa(t, u) BY <2>4 DEF AskMfa, SignedIn
    <2>5. CASE AskEnable(t, u) BY <2>5 DEF AskEnable, SignedIn
    <2>6. CASE AskDisable(t, u) BY <2>6 DEF AskDisable, SignedIn
    <2> QED BY <2>1, <2>2, <2>3, <2>4, <2>5, <2>6
<1>2. row[u] \in Seen
    BY <1>1, ReadsRow DEF HomeInv, AuthInv
<1>3. step \in Steps /\ step \notin Linking
    BY <1>1 DEF Steps, Linking
<1> QED BY <1>1, <1>2, <1>3, AskInv

LEMMA AskAccessInv ==
    ASSUME HomeInv, NEW t \in Tasks, NEW k \in ApiTokens, AskAccess(t, k)
    PROVE  HomeInv'
<1>1. keys[k] \in Users
    BY DEF AskAccess, Held, HomeInv, AuthInv, TypeOK
<1>2. "key" \in Steps /\ "key" \notin Linking /\ "key" \notin Rewriting /\ k \in Seen
    BY DEF Steps, Linking, Rewriting, Seen
<1> QED BY <1>1, <1>2, AskInv DEF AskAccess

\* A request that comes back from a provider.
LEMMA BackInv ==
    ASSUME HomeInv, NEW t \in Tasks, NEW f \in flows, Callback(t, f) \/ CallbackAssociate(t, f)
    PROVE  HomeInv'
<1>1. TablesTyped /\ HandsTyped /\ TasksTyped /\ CountersTyped /\ BoundsTyped /\ TasksOK /\ NobodyHomeless
    BY AuthTypes DEF HomeInv, AuthInv
<1>2. PICK step \in {"find account", "find own"}, w \in Users \cup {None} :
        /\ Begin(t, step, w, None) /\ (step = "find own" => w \in Users)
        /\ acc' = [acc EXCEPT ![t] = f.account]
        /\ flows' = flows \ {f} /\ UNCHANGED <<tables, jwts, fresh, counters, bounds>>
    BY DEF Callback, CallbackAssociate
<1>3. f.account \in Accounts
    BY <1>1 DEF HandsTyped, Flow
<1>4. TablesTyped' /\ RowsStay /\ BoundsTyped' /\ HandsTyped' /\ CountersTyped'
    BY <1>1, <1>2, TablesKeep DEF HandsTyped, CountersTyped, BoundsTyped, counters, bounds
<1>5. TasksTyped' /\ TasksOK'
    <2>1. /\ step \in Steps /\ step \notin Rewriting /\ (step \notin Anonymous => step = "find own")
          /\ None \in Seen /\ f.account \in Accounts \cup {None}
        BY <1>2, <1>3 DEF Steps, Rewriting, Anonymous, Seen
    <2> QED BY <1>1, <1>2, <1>3, <1>4, <2>1, BeginOK
<1>6. NobodyHomeless'
    BY <1>1, <1>2, BeginHomes DEF tables, counters
<1> QED BY <1>4, <1>5, <1>6, AuthTypesNext DEF HomeInv, AuthInv

-----------------------------------------------------------------------------
(* What is done at once.                                                   *)

LEMMA AtOnceInv ==
    ASSUME HomeInv, UNCHANGED <<task, cut>>, RowsStay, home \subseteq home',
           TablesTyped', HandsTyped', CountersTyped', BoundsTyped',
           \A u \in Users : row'[u] # None /\ row'[u].verified => row[u] # None /\ row[u].verified
    PROVE  HomeInv'
<1>1. TasksTyped' /\ TasksOK'
    BY AuthTypes, TasksKeep DEF HomeInv, AuthInv
<1>2. NobodyHomeless'
    BY DEF HomeInv, NobodyHomeless, task
<1> QED BY <1>1, <1>2, AuthTypesNext DEF HomeInv, AuthInv

LEMMA RegisterInv ==
    ASSUME HomeInv, NEW u \in Users, Register(u)
    PROVE  HomeInv'
<1>1. TablesTyped /\ HandsTyped /\ CountersTyped /\ BoundsTyped
    BY AuthTypes DEF HomeInv, AuthInv
<1> DEFINE new == NewUser(FALSE)
<1>2. new \in User /\ ~new.verified
    BY DEF NewUser, User
<1>3. row' = [row EXCEPT ![u] = new] /\ row[u] = None
    BY DEF Register
<1> HIDE DEF new
<1>4. row' \in [Users -> User \cup {None}] /\ row'[u] = new /\ \A v \in Users : v # u => row'[v] = row[v]
    BY <1>1, <1>2, <1>3 DEF TablesTyped
<1>5. TablesTyped'
    BY <1>1, <1>4 DEF TablesTyped, Register
<1>6. RowsStay /\ \A v \in Users : row'[v] # None /\ row'[v].verified => row[v] # None /\ row[v].verified
    BY <1>2, <1>3, <1>4 DEF RowsStay
<1>7. HandsTyped' /\ CountersTyped' /\ BoundsTyped'
    BY <1>1, AskKeeps DEF Register, HandsTyped, hands, CountersTyped, counters
<1> QED BY <1>5, <1>6, <1>7, AtOnceInv DEF Register, counters

\* Invitations and slugs come and go; a user that accepts an invitation has a workspace.
LEMMA InvitingInv ==
    ASSUME HomeInv, NEW u \in Users, Invite(u) \/ CloseInvitation(u) \/ TakeSlug(SlugOf[u])
    PROVE  HomeInv'
<1>1. TablesTyped /\ HandsTyped /\ CountersTyped /\ BoundsTyped
    BY AuthTypes DEF HomeInv, AuthInv
<1>2. UNCHANGED <<row, task, cut>> /\ home \subseteq home' /\ home' \subseteq home \cup {u}
    BY DEF Invite, CloseInvitation, TakeSlug, counters
<1>3. invites' \in [Users -> 0..MaxInvites] /\ slugs' \subseteq Slugs
    BY <1>1, BoundAssumption DEF TablesTyped, Invite, CloseInvitation, Uninvite, TakeSlug, Slugs
<1>4. TablesTyped'
    BY <1>1, <1>2, <1>3 DEF TablesTyped, Invite, CloseInvitation, TakeSlug
<1>5. HandsTyped' /\ CountersTyped' /\ BoundsTyped'
    BY <1>1, AskKeeps
       DEF Invite, CloseInvitation, TakeSlug, HandsTyped, hands, CountersTyped, counters, BoundsTyped, bounds
<1>6. RowsStay /\ \A v \in Users : row'[v] # None /\ row'[v].verified => row[v] # None /\ row[v].verified
    BY <1>2 DEF RowsStay
<1> QED BY <1>2, <1>4, <1>5, <1>6, AtOnceInv

LEMMA AtOnceTyped ==
    ASSUME HomeInv,
           \/ Tick
           \/ \E f \in flows : Lapse(f)
           \/ \E l \in links : Unlink(l)
           \/ \E u \in Users : \/ \E time \in Times : Expire(u, time)
                               \/ \E k \in ApiTokens : CreateKey(k, u)
                               \/ \E a \in Accounts : GoToAssociate(a, u)
           \/ \E k \in ApiTokens : DeleteKey(k)
           \/ \E a \in Accounts : GoToProvider(a)
    PROVE  HomeInv'
<1>1. TablesTyped /\ HandsTyped /\ CountersTyped /\ BoundsTyped
    BY AuthTypes DEF HomeInv, AuthInv
<1>2. UNCHANGED <<task, cut, row, home>>
    BY DEF Tick, Lapse, Unlink, Expire, CreateKey, GoToAssociate, DeleteKey, GoToProvider, tables, counters
<1>3. BoundsTyped'
    BY <1>1, AskKeeps
       DEF Tick, Lapse, Unlink, Expire, CreateKey, GoToAssociate, DeleteKey, GoToProvider, bounds, BoundsTyped
<1>4. CountersTyped'
    BY <1>1, BoundAssumption
       DEF Tick, Lapse, Unlink, Expire, CreateKey, GoToAssociate, DeleteKey, GoToProvider, counters, CountersTyped, Times
<1>5. TablesTyped'
    <2>1. CASE \E u \in Users, time \in Times : Expire(u, time)
        BY <1>1, <2>1, BoundAssumption DEF Expire, TablesTyped, Times
    <2>2. CASE \E u \in Users, k \in ApiTokens : CreateKey(k, u)
        BY <1>1, <2>2 DEF CreateKey, TablesTyped
    <2>3. CASE \E l \in links : Unlink(l)
        BY <1>1, <2>3 DEF Unlink, TablesTyped
    <2>4. CASE \E k \in ApiTokens : DeleteKey(k)
        BY <1>1, <2>4 DEF DeleteKey, TablesTyped
    <2>5. CASE UNCHANGED tables
        BY <1>1, <2>5, TablesKeep
    <2> QED BY <2>1, <2>2, <2>3, <2>4, <2>5 DEF Tick, Lapse, GoToAssociate, GoToProvider
<1>6. HandsTyped'
    <2>1. CASE \E a \in Accounts, u \in Users : GoToAssociate(a, u)
        BY <1>1, <2>1 DEF GoToAssociate, HandsTyped, Flow
    <2>2. CASE \E a \in Accounts : GoToProvider(a)
        BY <1>1, <2>2 DEF GoToProvider, HandsTyped, Flow
    <2>3. CASE \E f \in flows : Lapse(f)
        BY <1>1, <2>3 DEF Lapse, HandsTyped
    <2>4. CASE UNCHANGED hands
        BY <1>1, <2>4 DEF HandsTyped, hands
    <2> QED BY <2>1, <2>2, <2>3, <2>4 DEF Tick, Unlink, Expire, CreateKey, DeleteKey
<1>7. RowsStay /\ \A u \in Users : row'[u] # None /\ row'[u].verified => row[u] # None /\ row[u].verified
    BY <1>2 DEF RowsStay
<1> QED BY <1>2, <1>3, <1>4, <1>5, <1>6, <1>7, AtOnceInv

-----------------------------------------------------------------------------
(* The steps of a request.                                                 *)

\* The parts of the invariant.
LEMMA HomeParts ==
    ASSUME HomeInv
    PROVE  TablesTyped /\ HandsTyped /\ TasksTyped /\ CountersTyped /\ BoundsTyped /\ TasksOK /\ NobodyHomeless
BY AuthTypes DEF HomeInv, AuthInv

\* A request goes on, and is not about to give a workspace to anybody.
LEMMA GoesOn ==
    ASSUME HomeInv, NEW t \in Tasks, pc[t] \notin Anonymous, ~AboutHome(t), NEW step \in Steps, Goto(t, step),
           NEW r \in Seen, seen' = [seen EXCEPT ![t] = r],
           UNCHANGED <<row, home, who, acc, fresh, counters>>,
           step \in Linking => pc[t] \in Linking,
           step \in Rewriting => pc[t] \in Rewriting,
           TablesTyped', HandsTyped', BoundsTyped'
    PROVE  HomeInv'
<1>1. TasksTyped /\ CountersTyped /\ TasksOK /\ NobodyHomeless
    BY HomeParts
<1>2. TasksTyped' /\ TasksOK'
    <2>1. TaskOK(t) /\ t \notin fresh
        BY <1>1 DEF TasksOK, AboutHome
    <2>2. /\ who[t] \in Users /\ (step \in Linking => acc[t] \in Accounts)
          /\ step \in Rewriting => row'[who[t]] # None
        BY <2>1 DEF TaskOK
    <2>3. RowsStay /\ fresh' \subseteq Tasks
        BY <1>1 DEF RowsStay, TasksTyped
    <2> QED BY <1>1, <2>1, <2>2, <2>3, GotoOK
<1>3. CountersTyped'
    BY <1>1 DEF CountersTyped, counters
<1>4. NobodyHomeless'
    <2>1. OthersStay(t)
        BY <1>1 DEF OthersStay, Goto, TasksTyped
    <2>2. NewlyVerified(t)
        BY DEF NewlyVerified
    <2> QED BY <1>1, <2>1, <2>2, HomesStay DEF counters
<1> QED BY <1>2, <1>3, <1>4, AuthTypesNext DEF HomeInv, AuthInv

\* A request ends, and was not about to give a workspace to anybody.
LEMMA Ends ==
    ASSUME HomeInv, NEW t \in Tasks, ~AboutHome(t), End(t), home' = home, cut \subseteq cut', RowsStay,
           \A u \in Users : row'[u] # None /\ row'[u].verified => row[u] # None /\ row[u].verified,
           TablesTyped', HandsTyped', CountersTyped', BoundsTyped'
    PROVE  HomeInv'
<1>1. TasksTyped /\ TasksOK /\ NobodyHomeless
    BY HomeParts
<1> QED BY <1>1, EndOK, EndHomes, AuthTypesNext DEF HomeInv, AuthInv

\* Which steps are about a workspace, and what else is known of a task by its step.
LEMMA StepAt ==
    ASSUME HomeInv, NEW t \in Tasks
    PROVE  /\ TaskOK(t) /\ pc[t] \in Steps /\ seen[t] \in Seen
           /\ pc[t] \notin {"find link", "link"} \cup Homing => ~AboutHome(t)
BY HomeParts DEF TasksOK, TaskOK, TasksTyped, AboutHome

LEMMA OnlyHandsOrBounds ==
    ASSUME HomeInv, UNCHANGED <<tables, hands, counters, bounds>>
    PROVE  TablesTyped' /\ HandsTyped' /\ CountersTyped' /\ BoundsTyped' /\ RowsStay
BY HomeParts, TablesKeep DEF HandsTyped, hands, CountersTyped, counters, BoundsTyped, bounds

LEMMA VerifyInv ==
    ASSUME HomeInv, NEW t \in Tasks, Verify(t)
    PROVE  HomeInv'
<1>1. /\ TablesTyped /\ HandsTyped /\ TasksTyped /\ CountersTyped /\ BoundsTyped /\ TasksOK /\ NobodyHomeless
      /\ TaskOK(t) /\ ~AboutHome(t)
    BY HomeParts, StepAt DEF Verify
<1>2. who[t] \in Users /\ row[who[t]] # None /\ t \notin fresh
    BY <1>1 DEF TaskOK, Verify, Anonymous, Rewriting
<1>3. row[who[t]] \in User
    BY <1>1, <1>2 DEF TablesTyped
<1> DEFINE new == [row[who[t]] EXCEPT !.verified = TRUE]
<1>4. new \in User
    BY <1>3 DEF User
<1>5. row' = [row EXCEPT ![who[t]] = new]
    BY DEF Verify
<1> HIDE DEF new
<1>6. row' \in [Users -> User \cup {None}] /\ row'[who[t]] = new /\ \A v \in Users : v # who[t] => row'[v] = row[v]
    BY <1>1, <1>2, <1>4, <1>5 DEF TablesTyped
<1>7. new # None
    BY <1>4, RowAssumption
<1>8. TablesTyped' /\ HandsTyped' /\ CountersTyped' /\ BoundsTyped'
    BY <1>1, <1>6
       DEF Verify, TablesTyped, HandsTyped, hands, CountersTyped, counters, BoundsTyped, bounds
<1>9. RowsStay
    BY <1>6, <1>7 DEF RowsStay
<1>10. Goto(t, "home") /\ UNCHANGED <<who, acc, seen, fresh, home, cut>>
    BY DEF Verify, counters
<1>11. TasksTyped' /\ TasksOK'
    <2>1. "home" \in Steps /\ "home" \notin Linking /\ "home" \notin Rewriting /\ fresh' \subseteq Tasks
        BY <1>1, <1>10 DEF Steps, Linking, Rewriting, TasksTyped
    <2>2. seen[t] \in Seen /\ seen' = [seen EXCEPT ![t] = seen[t]]
        BY <1>1, <1>10, KeepSeen
    <2> QED BY <1>1, <1>2, <1>9, <1>10, <2>1, <2>2, GotoOK
<1>12. NobodyHomeless'
    <2>1. OthersStay(t) /\ who'[t] = who[t] /\ pc'[t] = "home"
        BY <1>1, <1>10 DEF OthersStay, Goto, TasksTyped
    <2>2. NewlyVerified(t)
        BY <1>6, <2>1 DEF NewlyVerified, AboutHome
    <2> QED BY <1>1, <1>10, <2>1, <2>2, HomesStay
<1> QED BY <1>8, <1>11, <1>12, AuthTypesNext DEF HomeInv, AuthInv

\* A user that has been given a workspace is signed in, or its request ends.
LEMMA RegisteredInv ==
    ASSUME HomeInv, NEW t \in Tasks, pc[t] \in Homing, home' = home \cup {who[t]}, row' = row, cut' = cut,
           Registered(t) \/ End(t), TablesTyped', HandsTyped', CountersTyped', BoundsTyped'
    PROVE  HomeInv'
<1>1. TasksTyped /\ TasksOK /\ NobodyHomeless /\ who[t] \in Users /\ RowsStay
    BY HomeParts, StepAt DEF TaskOK, Anonymous, RowsStay
<1>2. CASE End(t)
    BY <1>1, <1>2, EndOK, EndHomes, AuthTypesNext DEF HomeInv, AuthInv
<1>3. CASE Goto(t, "token") /\ fresh' = fresh \ {t} /\ UNCHANGED <<who, seen, acc>>
    <2>1. TasksTyped' /\ TasksOK'
        <3>1. "token" \in Steps /\ "token" \notin Linking /\ "token" \notin Rewriting /\ fresh' \subseteq Tasks
            BY <1>1, <1>3 DEF Steps, Linking, Rewriting, TasksTyped
        <3>2. seen[t] \in Seen /\ seen' = [seen EXCEPT ![t] = seen[t]]
            BY <1>1, <1>3, KeepSeen
        <3> QED BY <1>1, <1>3, <3>1, <3>2, GotoOK
    <2>2. OthersStay(t) /\ who'[t] = who[t] /\ NewlyVerified(t)
        BY <1>1, <1>3 DEF OthersStay, Goto, TasksTyped, NewlyVerified
    <2>3. NobodyHomeless'
        BY <1>1, <2>2, HomesStay
    <2> QED BY <2>1, <2>3, AuthTypesNext DEF HomeInv, AuthInv
<1> QED BY <1>2, <1>3 DEF Registered

\* A request goes on to give its user a workspace.
LEMMA NextHoming ==
    ASSUME HomeInv, NEW t \in Tasks, pc[t] \in Homing, NEW step \in Homing, Goto(t, step),
           UNCHANGED <<tables, who, seen, acc, fresh, cut>>, HandsTyped', CountersTyped', BoundsTyped'
    PROVE  HomeInv'
<1>1. TablesTyped /\ TasksTyped /\ TasksOK /\ NobodyHomeless /\ who[t] \in Users
    BY HomeParts, StepAt DEF TaskOK, Anonymous
<1>2. TablesTyped' /\ RowsStay
    BY <1>1, TablesKeep
<1>3. TasksTyped' /\ TasksOK'
    <2>1. step \in Steps /\ step \notin Linking /\ step \notin Rewriting /\ fresh' \subseteq Tasks
        BY <1>1 DEF Steps, Linking, Rewriting, TasksTyped
    <2>2. seen[t] \in Seen /\ seen' = [seen EXCEPT ![t] = seen[t]]
        BY <1>1, KeepSeen
    <2> QED BY <1>1, <1>2, <2>1, <2>2, GotoOK
<1>4. OthersStay(t) /\ who'[t] = who[t] /\ pc'[t] \in Homing /\ NewlyVerified(t)
    BY <1>1 DEF OthersStay, Goto, TasksTyped, NewlyVerified, tables
<1>5. NobodyHomeless'
    BY <1>1, <1>4, HomesStay DEF AboutHome, tables
<1> QED BY <1>2, <1>3, <1>5, AuthTypesNext DEF HomeInv, AuthInv

\* An error leaves the user out, and the history says so.
LEMMA LeaveOutInv ==
    ASSUME HomeInv, NEW t \in Tasks, pc[t] \in Homing, LeaveOut(t),
           UNCHANGED <<tables, hands, secrets, made, now, bounds>>
    PROVE  HomeInv'
<1>1. /\ TasksTyped /\ CountersTyped /\ TasksOK /\ NobodyHomeless /\ who[t] \in Users
    BY HomeParts, StepAt DEF TaskOK, Anonymous
<1>2. TablesTyped' /\ HandsTyped' /\ BoundsTyped' /\ RowsStay
    BY HomeParts, TablesKeep DEF HandsTyped, hands, BoundsTyped, bounds
<1>3. CountersTyped' /\ cut \subseteq cut' /\ who[t] \in cut' /\ End(t)
    BY <1>1 DEF CountersTyped, LeaveOut
<1>4. NobodyHomeless'
    BY <1>1, <1>3, EndHomes DEF tables
<1> QED BY <1>1, <1>2, <1>3, <1>4, EndOK, AuthTypesNext DEF HomeInv, AuthInv

LEMMA FindInvitationInv ==
    ASSUME HomeInv, NEW t \in Tasks, FindInvitation(t)
    PROVE  HomeInv'
<1>1. CASE LeaveOut(t)
    BY <1>1, LeaveOutInv DEF FindInvitation
<1>2. ASSUME NEW step \in {"join", "default"}, Goto(t, step), UNCHANGED <<who, seen, acc, fresh, cut>>
      PROVE  HomeInv'
    <2>1. HandsTyped' /\ CountersTyped' /\ BoundsTyped'
        BY <1>2, HomeParts DEF FindInvitation, HandsTyped, hands, CountersTyped, BoundsTyped, bounds
    <2> QED BY <1>2, <2>1, NextHoming DEF FindInvitation
<1> QED BY <1>1, <1>2 DEF FindInvitation

LEMMA UninviteOK ==
    ASSUME TablesTyped, NEW u \in Users, Uninvite(u) \/ UNCHANGED invites
    PROVE  invites' \in [Users -> 0..MaxInvites]
BY BoundAssumption DEF TablesTyped, Uninvite

LEMMA JoinWorkspaceInv ==
    ASSUME HomeInv, NEW t \in Tasks, JoinWorkspace(t)
    PROVE  HomeInv'
<1>1. TablesTyped /\ who[t] \in Users
    BY HomeParts, StepAt DEF JoinWorkspace, TaskOK, Anonymous
<1>2. invites' \in [Users -> 0..MaxInvites]
    BY <1>1, UninviteOK DEF JoinWorkspace
<1>3. TablesTyped' /\ HandsTyped' /\ CountersTyped' /\ BoundsTyped'
    BY <1>1, <1>2, HomeParts
       DEF JoinWorkspace, TablesTyped, HandsTyped, hands, CountersTyped, counters, BoundsTyped, bounds
<1> QED BY <1>3, RegisteredInv DEF JoinWorkspace, counters

LEMMA CreateDefaultWorkspaceInv ==
    ASSUME HomeInv, NEW t \in Tasks, CreateDefaultWorkspace(t)
    PROVE  HomeInv'
<1>1. TablesTyped /\ who[t] \in Users
    BY HomeParts, StepAt DEF CreateDefaultWorkspace, TaskOK, Anonymous
<1>2. TablesTyped' /\ HandsTyped' /\ CountersTyped' /\ BoundsTyped'
    BY <1>1, HomeParts
       DEF CreateDefaultWorkspace, TablesTyped, HandsTyped, hands, CountersTyped, counters, BoundsTyped, bounds
<1>3. CASE SlugOf[who[t]] \in slugs
    BY <1>2, <1>3, RegisteredInv DEF CreateDefaultWorkspace, counters
<1>4. CASE SlugOf[who[t]] \notin slugs
    BY <1>2, <1>4, NextHoming DEF CreateDefaultWorkspace, counters, tables
<1> QED BY <1>3, <1>4

LEMMA InsertWorkspaceInv ==
    ASSUME HomeInv, NEW t \in Tasks, InsertWorkspace(t)
    PROVE  HomeInv'
<1>1. TablesTyped /\ who[t] \in Users
    BY HomeParts, StepAt DEF InsertWorkspace, TaskOK, Anonymous
<1>2. CASE SlugOf[who[t]] \in slugs
    BY <1>2, LeaveOutInv DEF InsertWorkspace, tables
<1>3. CASE SlugOf[who[t]] \notin slugs
    <2>1. TablesTyped' /\ HandsTyped' /\ CountersTyped' /\ BoundsTyped'
        BY <1>1, <1>3, HomeParts
           DEF InsertWorkspace, Slugs, TablesTyped, HandsTyped, hands, CountersTyped, BoundsTyped, bounds
    <2> QED BY <1>3, <2>1, RegisteredInv DEF InsertWorkspace
<1> QED BY <1>2, <1>3

LEMMA CheckOtpInv ==
    ASSUME HomeInv, NEW t \in Tasks, CheckOtp(t)
    PROVE  HomeInv'
<1>1. /\ Then(t) \in {"token", "disable"} /\ Then(t) \in Steps /\ Then(t) \notin Linking
      /\ Then(t) \in Rewriting => pc[t] \in Rewriting
      /\ pc[t] \notin Anonymous /\ ~AboutHome(t)
    BY StepAt DEF CheckOtp, Then, Steps, Linking, Rewriting, Anonymous
<1>2. Goto(t, Then(t)) /\ UNCHANGED <<tables, hands, who, seen, acc, fresh, counters, bounds>>
    BY DEF CheckOtp
<1>3. seen[t] \in Seen /\ seen' = [seen EXCEPT ![t] = seen[t]]
    BY <1>2, HomeParts, KeepSeen
<1> QED BY <1>1, <1>2, <1>3, OnlyHandsOrBounds, GoesOn DEF tables

LEMMA FindCodeInv ==
    ASSUME HomeInv, NEW t \in Tasks, NEW c \in RecoveryCode, FindCode(t, c)
    PROVE  HomeInv'
<1>1. /\ CodeStep(t) \in Steps /\ CodeStep(t) \notin Linking
      /\ CodeStep(t) \in Rewriting => pc[t] \in Rewriting
      /\ pc[t] \notin Anonymous /\ ~AboutHome(t)
    BY StepAt DEF FindCode, CodeStep, Steps, Linking, Rewriting, Anonymous
<1>2. /\ Goto(t, CodeStep(t)) /\ UNCHANGED <<tables, hands, who, acc, fresh, counters, bounds>>
      /\ seen' = [seen EXCEPT ![t] = c] /\ c \in Seen
    BY DEF FindCode, Seen
<1> QED BY <1>1, <1>2, OnlyHandsOrBounds, GoesOn DEF tables

LEMMA UseCodeInv ==
    ASSUME HomeInv, NEW t \in Tasks, UseCode(t)
    PROVE  HomeInv'
<1>1. /\ Then(t) \in Steps /\ Then(t) \notin Linking
      /\ Then(t) \in Rewriting => pc[t] \in Rewriting
      /\ pc[t] \notin Anonymous /\ ~AboutHome(t)
    BY StepAt DEF UseCode, Then, Steps, Linking, Rewriting, Anonymous
<1>2. /\ Goto(t, Then(t))
      /\ UNCHANGED <<row, homes, links, keys, revoked, minTime, hands, who, seen, acc, fresh, counters, bounds>>
      /\ codes' = [codes EXCEPT ![who[t]] = @ \ {seen[t]}]
    BY DEF UseCode
<1>3. TablesTyped' /\ HandsTyped' /\ BoundsTyped'
    BY <1>2, HomeParts DEF TablesTyped, HandsTyped, hands, BoundsTyped, bounds
<1>4. seen[t] \in Seen /\ seen' = [seen EXCEPT ![t] = seen[t]]
    BY <1>2, HomeParts, KeepSeen
<1> QED BY <1>1, <1>2, <1>3, <1>4, GoesOn

LEMMA EndsAsItIs ==
    ASSUME HomeInv, NEW t \in Tasks, ~AboutHome(t), End(t), UNCHANGED <<tables, counters, bounds>>, HandsTyped'
    PROVE  HomeInv'
<1>1. TablesTyped' /\ CountersTyped' /\ BoundsTyped' /\ RowsStay
    BY HomeParts, TablesKeep DEF CountersTyped, counters, BoundsTyped, bounds
<1> QED BY <1>1, Ends DEF tables, counters

LEMMA RefuseInv ==
    ASSUME HomeInv, NEW t \in Tasks, Refuse(t)
    PROVE  HomeInv'
<1>1. ~AboutHome(t) /\ HandsTyped'
    BY StepAt, HomeParts DEF Refuse, HandsTyped, hands
<1> QED BY <1>1, EndsAsItIs DEF Refuse

\* A token is issued at the end.
LEMMA IssueInv ==
    ASSUME HomeInv, NEW t \in Tasks, SignIn(t) \/ Access(t)
    PROVE  HomeInv'
<1>1. ~AboutHome(t) /\ who[t] \in Users
    BY StepAt DEF SignIn, Access, TaskOK, Anonymous
<1>2. HandsTyped'
    <2>1. now \in Times /\ jwts \subseteq Jwt /\ flows \subseteq Flow
        BY HomeParts DEF HandsTyped, CountersTyped
    <2>2. [user |-> who[t], at |-> now] \in Jwt
        BY <1>1, <2>1 DEF Jwt
    <2> QED BY <2>1, <2>2 DEF SignIn, Access, Issue, HandsTyped
<1> QED BY <1>1, <1>2, EndsAsItIs DEF SignIn, Access

\* A row is written that is as verified as it was.
LEMMA RewriteOK ==
    ASSUME TablesTyped, NEW u \in Users, row[u] # None, NEW new \in User, new.verified = row[u].verified,
           row' = [row EXCEPT ![u] = new]
    PROVE  /\ row' \in [Users -> User \cup {None}] /\ RowsStay
           /\ \A v \in Users : row'[v] # None /\ row'[v].verified => row[v] # None /\ row[v].verified
<1>1. row' \in [Users -> User \cup {None}] /\ row'[u] = new /\ \A v \in Users : v # u => row'[v] = row[v]
    BY DEF TablesTyped
<1> QED BY <1>1, RowAssumption DEF RowsStay

LEMMA MfaRow ==
    ASSUME HomeInv, NEW t \in Tasks, pc[t] \in Rewriting
    PROVE  /\ who[t] \in Users /\ row[who[t]] # None /\ row[who[t]] \in User
BY HomeParts, StepAt DEF TaskOK, Anonymous, Rewriting, TablesTyped

LEMMA RecreateMfaInv ==
    ASSUME HomeInv, NEW t \in Tasks, RecreateMfa(t)
    PROVE  HomeInv'
<1>1. /\ TablesTyped /\ CountersTyped /\ ~AboutHome(t)
      /\ who[t] \in Users /\ row[who[t]] # None /\ row[who[t]] \in User
    BY HomeParts, StepAt, MfaRow DEF RecreateMfa, Rewriting
<1>2. secrets' = secrets + 1 /\ secrets' \in 0..MaxSecrets /\ secrets + 1 \in Secrets
    BY <1>1, BoundAssumption DEF RecreateMfa, CountersTyped, Secrets
<1> DEFINE new == [row[who[t]] EXCEPT !.secret = secrets + 1, !.mfa = FALSE]
<1>3. new \in User /\ new.verified = row[who[t]].verified
    BY <1>1, <1>2 DEF User
<1>4. row' = [row EXCEPT ![who[t]] = new]
    BY DEF RecreateMfa
<1> HIDE DEF new
<1>5. /\ row' \in [Users -> User \cup {None}] /\ RowsStay
      /\ \A v \in Users : row'[v] # None /\ row'[v].verified => row[v] # None /\ row[v].verified
    BY <1>1, <1>3, <1>4, RewriteOK
<1>6. TablesTyped'
    <2>1. RecoveryCodes(secrets + 1) \subseteq RecoveryCode
        BY <1>2 DEF RecoveryCodes, RecoveryCode
    <2>2. codes' \in [Users -> SUBSET RecoveryCode]
        BY <1>1, <2>1 DEF RecreateMfa, TablesTyped
    <2> QED BY <1>1, <1>5, <2>2 DEF RecreateMfa, TablesTyped
<1>7. HandsTyped' /\ CountersTyped' /\ BoundsTyped'
    BY <1>2, HomeParts DEF RecreateMfa, HandsTyped, hands, CountersTyped, BoundsTyped, bounds
<1>8. End(t) /\ home' = home /\ cut' = cut
    BY DEF RecreateMfa
<1> QED BY <1>1, <1>5, <1>6, <1>7, <1>8, Ends

LEMMA SwitchMfaInv ==
    ASSUME HomeInv, NEW t \in Tasks, EnableMfa(t) \/ DisableMfa(t)
    PROVE  HomeInv'
<1>1. TablesTyped /\ ~AboutHome(t) /\ who[t] \in Users /\ row[who[t]] # None /\ row[who[t]] \in User
    BY HomeParts, StepAt, MfaRow DEF EnableMfa, DisableMfa, Rewriting
<1>2. PICK new \in User : new.verified = row[who[t]].verified /\ row' = [row EXCEPT ![who[t]] = new]
    <2>1. CASE EnableMfa(t)
        <3> DEFINE new == [row[who[t]] EXCEPT !.mfa = TRUE]
        <3>1. new \in User /\ new.verified = row[who[t]].verified
            BY <1>1 DEF User
        <3>2. row' = [row EXCEPT ![who[t]] = new]
            BY <2>1 DEF EnableMfa
        <3> QED BY <3>1, <3>2
    <2>2. CASE DisableMfa(t)
        <3> DEFINE new == [row[who[t]] EXCEPT !.mfa = FALSE, !.secret = None]
        <3>1. new \in User /\ new.verified = row[who[t]].verified
            BY <1>1 DEF User
        <3>2. row' = [row EXCEPT ![who[t]] = new]
            BY <2>2 DEF DisableMfa
        <3> QED BY <3>1, <3>2
    <2> QED BY <2>1, <2>2
<1>3. /\ row' \in [Users -> User \cup {None}] /\ RowsStay
      /\ \A v \in Users : row'[v] # None /\ row'[v].verified => row[v] # None /\ row[v].verified
    BY <1>1, <1>2, RewriteOK
<1>4. End(t) /\ UNCHANGED <<homes, codes, links, keys, revoked, minTime, hands, counters, bounds>>
    BY DEF EnableMfa, DisableMfa
<1>5. TablesTyped' /\ HandsTyped' /\ CountersTyped' /\ BoundsTyped'
    BY <1>1, <1>3, <1>4, HomeParts
       DEF TablesTyped, HandsTyped, hands, CountersTyped, counters, BoundsTyped, bounds
<1> QED BY <1>1, <1>3, <1>4, <1>5, Ends DEF counters

\* A request of an account goes on with a user, or ends.
LEMMA FindAccountInv ==
    ASSUME HomeInv, NEW t \in Tasks, FindAccount(t)
    PROVE  HomeInv'
<1>1. TablesTyped /\ TasksTyped /\ TasksOK /\ NobodyHomeless /\ ~AboutHome(t) /\ acc[t] \in Accounts /\ t \notin fresh
    BY HomeParts, StepAt DEF FindAccount, TaskOK, Linking, AboutHome
<1>2. TablesTyped' /\ HandsTyped' /\ CountersTyped' /\ BoundsTyped' /\ RowsStay
      /\ UNCHANGED <<tables, hands, counters, bounds>>
    BY OnlyHandsOrBounds DEF FindAccount
<1>3. CASE End(t)
    BY <1>1, <1>2, <1>3, EndsAsItIs
<1>4. CASE Goto(t, "find email") /\ UNCHANGED <<who, seen, acc, fresh>>
    <2>1. "find email" \in Steps /\ "find email" \in Anonymous /\ "find email" \notin Rewriting /\ fresh' \subseteq Tasks
        BY <1>1, <1>4 DEF Steps, Anonymous, Rewriting, TasksTyped
    <2>2. TasksTyped' /\ TasksOK'
        BY <1>1, <1>2, <1>4, <2>1, KeepSeen, GotoOK
    <2>3. OthersStay(t) /\ NewlyVerified(t)
        BY <1>1, <1>2, <1>4 DEF OthersStay, Goto, TasksTyped, NewlyVerified, tables
    <2>4. NobodyHomeless'
        BY <1>1, <1>2, <2>3, HomesStay DEF tables, counters
    <2> QED BY <1>2, <2>2, <2>4, AuthTypesNext DEF HomeInv, AuthInv
<1>5. ASSUME NEW l \in LinksOf(acc[t]), Goto(t, "update link"), who' = [who EXCEPT ![t] = l.user],
             seen' = [seen EXCEPT ![t] = l], UNCHANGED <<acc, fresh>>
      PROVE  HomeInv'
    <2>1. l.user \in Users /\ l \in Seen
        BY <1>1 DEF LinksOf, TablesTyped, Link, Seen
    <2>2. Moves(t, "update link", l.user, l, acc[t])
        BY <1>1, <1>5, <2>1 DEF Moves, Goto, Steps, Linking, Rewriting, TasksTyped
    <2>3. TasksTyped' /\ TasksOK'
        BY <1>1, <1>2, <1>5, <2>2, MoveOK DEF TasksTyped
    <2>4. OthersStay(t) /\ NewlyVerified(t)
        BY <1>1, <1>2, <1>5 DEF OthersStay, Goto, TasksTyped, NewlyVerified, tables
    <2>5. NobodyHomeless'
        BY <1>1, <1>2, <2>4, HomesStay DEF tables, counters
    <2> QED BY <1>2, <2>3, <2>5, AuthTypesNext DEF HomeInv, AuthInv
<1> QED BY <1>3, <1>4, <1>5 DEF FindAccount

LEMMA FindEmailInv ==
    ASSUME HomeInv, NEW t \in Tasks, FindEmail(t)
    PROVE  HomeInv'
<1>1. TablesTyped /\ TasksTyped /\ TasksOK /\ NobodyHomeless /\ ~AboutHome(t) /\ acc[t] \in Accounts /\ t \notin fresh
    BY HomeParts, StepAt DEF FindEmail, TaskOK, Linking, AboutHome
<1>2. TablesTyped' /\ HandsTyped' /\ CountersTyped' /\ BoundsTyped' /\ RowsStay
      /\ UNCHANGED <<tables, hands, counters, bounds, seen, acc, fresh>>
    BY OnlyHandsOrBounds DEF FindEmail
<1>3. PICK u \in Users, step \in {"create", "find link"} : who' = [who EXCEPT ![t] = u] /\ Goto(t, step)
    <2>1. EmailOf[acc[t]] \in Users
        BY <1>1, NameAssumption
    <2> QED BY <2>1 DEF FindEmail
<1>4. Moves(t, step, u, seen[t], acc[t])
    BY <1>1, <1>2, <1>3 DEF Moves, Goto, Steps, Linking, Rewriting, TasksTyped
<1>5. TasksTyped' /\ TasksOK'
    BY <1>1, <1>2, <1>4, MoveOK DEF TasksTyped
<1>6. OthersStay(t) /\ NewlyVerified(t)
    BY <1>1, <1>2, <1>3 DEF OthersStay, Goto, TasksTyped, NewlyVerified, tables
<1>7. NobodyHomeless'
    BY <1>1, <1>2, <1>6, HomesStay DEF tables, counters
<1> QED BY <1>2, <1>5, <1>7, AuthTypesNext DEF HomeInv, AuthInv

\* What goes on when its row is still there, and ends otherwise.
LEMMA StillThereInv ==
    ASSUME HomeInv, NEW t \in Tasks, UpdateLink(t) \/ UseKey(t)
    PROVE  HomeInv'
<1>1. ~AboutHome(t) /\ pc[t] \notin Anonymous
    BY StepAt DEF UpdateLink, UseKey, Anonymous
<1>2. TablesTyped' /\ HandsTyped' /\ CountersTyped' /\ BoundsTyped'
      /\ UNCHANGED <<tables, hands, counters, bounds>>
    BY OnlyHandsOrBounds DEF UpdateLink, UseKey
<1>3. CASE End(t)
    BY <1>1, <1>2, <1>3, EndsAsItIs
<1>4. ASSUME NEW step \in {"token", "key user"}, Goto(t, step), UNCHANGED <<who, seen, acc, fresh>>
      PROVE  HomeInv'
    <2>1. step \in Steps /\ step \notin Linking /\ step \notin Rewriting
        BY <1>4 DEF Steps, Linking, Rewriting
    <2>2. seen[t] \in Seen /\ seen' = [seen EXCEPT ![t] = seen[t]]
        BY <1>4, HomeParts, KeepSeen
    <2> QED BY <1>1, <1>2, <1>4, <2>1, <2>2, GoesOn DEF tables
<1> QED BY <1>3, <1>4 DEF UpdateLink, UseKey

LEMMA CreateUserInv ==
    ASSUME HomeInv, NEW t \in Tasks, CreateUser(t)
    PROVE  HomeInv'
<1>1. /\ TablesTyped /\ TasksTyped /\ TasksOK /\ NobodyHomeless
      /\ ~AboutHome(t) /\ acc[t] \in Accounts /\ who[t] \in Users
    BY HomeParts, StepAt DEF CreateUser, TaskOK, Linking, Anonymous
<1>2. UNCHANGED <<homes, codes, links, keys, revoked, minTime, hands, counters, bounds>>
    BY DEF CreateUser
<1>3. HandsTyped' /\ CountersTyped' /\ BoundsTyped'
    BY <1>2, HomeParts DEF HandsTyped, hands, CountersTyped, counters, BoundsTyped, bounds
<1>4. CASE End(t) /\ UNCHANGED row
    BY <1>1, <1>2, <1>4, EndsAsItIs, HomeParts DEF tables, HandsTyped, hands
<1>5. CASE /\ row[who[t]] = None
           /\ row' = [row EXCEPT ![who[t]] = NewUser(TRUE)]
           /\ fresh' = fresh \cup {t} /\ Goto(t, "find link") /\ UNCHANGED <<who, seen, acc>>
    <2> DEFINE new == NewUser(TRUE)
    <2>1. new \in User
        BY DEF NewUser, User
    <2>2. row' = [row EXCEPT ![who[t]] = new]
        BY <1>5
    <2> HIDE DEF new
    <2>3. /\ row' \in [Users -> User \cup {None}] /\ row'[who[t]] = new
          /\ \A v \in Users : v # who[t] => row'[v] = row[v]
        BY <1>1, <2>1, <2>2 DEF TablesTyped
    <2>4. TablesTyped' /\ RowsStay
        BY <1>1, <1>2, <2>1, <2>3, RowAssumption DEF TablesTyped, RowsStay
    <2>5. TasksTyped' /\ TasksOK'
        <3>1. /\ "find link" \in Steps /\ "find link" \notin Rewriting
              /\ fresh' \subseteq Tasks /\ fresh' \subseteq fresh \cup {t}
            BY <1>1, <1>5 DEF Steps, Rewriting, TasksTyped
        <3>2. seen[t] \in Seen /\ seen' = [seen EXCEPT ![t] = seen[t]]
            BY <1>1, <1>5, KeepSeen
        <3> QED BY <1>1, <1>5, <2>4, <3>1, <3>2, GotoOK
    <2>6. OthersStay(t) /\ who'[t] = who[t] /\ t \in fresh'
        BY <1>1, <1>5 DEF OthersStay, Goto, TasksTyped
    <2>7. NewlyVerified(t)
        BY <2>3, <2>6 DEF NewlyVerified, AboutHome
    <2>8. NobodyHomeless'
        BY <1>1, <1>2, <2>6, <2>7, HomesStay DEF counters
    <2> QED BY <1>3, <2>4, <2>5, <2>8, AuthTypesNext DEF HomeInv, AuthInv
<1> QED BY <1>4, <1>5 DEF CreateUser

\* A sign up that is refused its link is cut.
LEMMA FindLinkInv ==
    ASSUME HomeInv, NEW t \in Tasks, FindLink(t)
    PROVE  HomeInv'
<1>1. /\ TablesTyped /\ TasksTyped /\ CountersTyped /\ TasksOK /\ NobodyHomeless
      /\ acc[t] \in Accounts /\ who[t] \in Users
      /\ pc[t] \notin Homing
    BY HomeParts, StepAt DEF FindLink, TaskOK, Linking, Anonymous
<1>2. UNCHANGED <<tables, hands, secrets, made, now, bounds>>
    BY DEF FindLink
<1>3. TablesTyped' /\ HandsTyped' /\ BoundsTyped' /\ RowsStay
    BY <1>2, HomeParts, TablesKeep DEF HandsTyped, hands, BoundsTyped, bounds
<1>4. CASE IF t \in fresh THEN LeaveOut(t) ELSE End(t) /\ UNCHANGED cut
    <2>1. CountersTyped' /\ cut \subseteq cut' /\ (AboutHome(t) => who[t] \in cut') /\ End(t)
        BY <1>1, <1>2, <1>4 DEF CountersTyped, AboutHome, LeaveOut
    <2>2. NobodyHomeless'
        BY <1>1, <1>2, <2>1, EndHomes DEF tables
    <2> QED BY <1>1, <1>3, <2>1, <2>2, EndOK, AuthTypesNext DEF HomeInv, AuthInv
<1>5. ASSUME NEW r \in Seen, seen' = [seen EXCEPT ![t] = r],
             Goto(t, IF pc[t] = "find link" THEN "link" ELSE "own"), UNCHANGED <<who, acc, fresh, cut>>
      PROVE  HomeInv'
    <2>1. PICK step \in {"link", "own"} : Goto(t, step) /\ (t \in fresh => step = "link")
        BY <1>1, <1>5 DEF FindLink, TasksOK, TaskOK
    <2>2. step \in Steps /\ step \notin Rewriting /\ fresh' \subseteq Tasks
        BY <1>1, <1>5 DEF Steps, Rewriting, TasksTyped
    <2>3. TasksTyped' /\ TasksOK'
        BY <1>1, <1>3, <1>5, <2>1, <2>2, GotoOK
    <2>4. OthersStay(t) /\ who'[t] = who[t]
        BY <1>1, <1>5, <2>1 DEF OthersStay, Goto, TasksTyped
    <2>5. NewlyVerified(t)
        BY <1>2 DEF NewlyVerified, tables
    <2>6. NobodyHomeless'
        BY <1>1, <1>2, <1>5, <2>4, <2>5, HomesStay DEF tables, AboutHome
    <2>7. CountersTyped'
        BY <1>1, <1>2, <1>5 DEF CountersTyped
    <2> QED BY <1>3, <2>3, <2>6, <2>7, AuthTypesNext DEF HomeInv, AuthInv
<1>6. CASE UNCHANGED seen /\ Goto(t, IF pc[t] = "find link" THEN "link" ELSE "own") /\ UNCHANGED <<who, acc, fresh, cut>>
    BY <1>1, <1>5, <1>6, KeepSeen
<1>7. \A l \in LinksOf(acc[t]) : l \in Seen
    BY <1>1 DEF LinksOf, TablesTyped, Seen
<1> QED BY <1>4, <1>5, <1>6, <1>7 DEF FindLink

LEMMA PutLinkOK ==
    ASSUME HomeInv, NEW t \in Tasks, PutLink(t), who[t] \in Users, acc[t] \in Accounts
    PROVE  /\ TablesTyped' /\ HandsTyped' /\ CountersTyped' /\ BoundsTyped' /\ RowsStay
           /\ UNCHANGED <<row, home, cut>>
<1>1. TablesTyped /\ HandsTyped /\ CountersTyped /\ BoundsTyped
    BY HomeParts
<1>2. made' = made + 1 /\ made' \in 0..MaxLinks /\ made + 1 \in LinkIds
    BY <1>1, BoundAssumption DEF PutLink, CountersTyped, LinkIds
<1>3. [id |-> made + 1, account |-> acc[t], user |-> who[t]] \in Link
    BY <1>2 DEF Link
<1>4. TablesTyped' /\ RowsStay
    BY <1>1, <1>3 DEF PutLink, TablesTyped, RowsStay
<1>5. HandsTyped' /\ CountersTyped' /\ BoundsTyped'
    BY <1>1, <1>2 DEF PutLink, HandsTyped, hands, CountersTyped, BoundsTyped, bounds
<1> QED BY <1>4, <1>5 DEF PutLink

LEMMA AddLinkInv ==
    ASSUME HomeInv, NEW t \in Tasks, AddLink(t)
    PROVE  HomeInv'
<1>1. /\ TasksTyped /\ TasksOK /\ NobodyHomeless /\ acc[t] \in Accounts /\ who[t] \in Users
      /\ pc[t] \notin Homing /\ PutLink(t) /\ UNCHANGED <<who, seen, acc, fresh>>
    BY HomeParts, StepAt DEF AddLink, TaskOK, Linking, Anonymous
<1>2. /\ TablesTyped' /\ HandsTyped' /\ CountersTyped' /\ BoundsTyped' /\ RowsStay
      /\ UNCHANGED <<row, home, cut>>
    BY <1>1, PutLinkOK
<1>3. PICK step \in {"home", "token"} : Goto(t, step) /\ (t \in fresh => step = "home")
    BY DEF AddLink
<1>4. step \in Steps /\ step \notin Linking /\ step \notin Rewriting /\ fresh' \subseteq Tasks
    BY <1>1 DEF Steps, Linking, Rewriting, TasksTyped
<1>5. TasksTyped' /\ TasksOK'
    BY <1>1, <1>2, <1>3, <1>4, KeepSeen, GotoOK
<1>6. OthersStay(t) /\ who'[t] = who[t] /\ NewlyVerified(t)
    BY <1>1, <1>2, <1>3 DEF OthersStay, Goto, TasksTyped, NewlyVerified
<1>7. NobodyHomeless'
    BY <1>1, <1>2, <1>6, HomesStay DEF AboutHome
<1> QED BY <1>2, <1>5, <1>7, AuthTypesNext DEF HomeInv, AuthInv

LEMMA AssociateInv ==
    ASSUME HomeInv, NEW t \in Tasks, Associate(t)
    PROVE  HomeInv'
<1>1. acc[t] \in Accounts /\ who[t] \in Users /\ ~AboutHome(t) /\ PutLink(t) /\ End(t)
    BY StepAt DEF Associate, TaskOK, Linking, Anonymous
<1> QED BY <1>1, PutLinkOK, Ends

LEMMA CrashInv ==
    ASSUME HomeInv, NEW t \in Tasks, Crash(t)
    PROVE  HomeInv'
<1>1. /\ TasksTyped /\ TasksOK /\ NobodyHomeless /\ CountersTyped /\ BoundsTyped
      /\ AboutHome(t) => who[t] \in Users
    BY HomeParts, StepAt DEF TaskOK, Anonymous, AboutHome
<1>2. UNCHANGED <<tables, hands, secrets, made, now, asks>> /\ End(t)
      /\ cut' = IF AboutHome(t) THEN cut \cup {who[t]} ELSE cut
    BY DEF Crash, AboutHome, LeaveOut
<1>3. crashes' \in 0..MaxCrashes
    BY <1>1, BoundAssumption DEF Crash, BoundsTyped
<1>4. TablesTyped' /\ HandsTyped' /\ BoundsTyped' /\ RowsStay
    BY <1>2, <1>3, HomeParts, TablesKeep DEF HandsTyped, hands, BoundsTyped
<1>5. CountersTyped' /\ cut \subseteq cut' /\ (AboutHome(t) => who[t] \in cut')
    BY <1>1, <1>2 DEF CountersTyped
<1>6. NobodyHomeless'
    BY <1>1, <1>2, <1>5, EndHomes DEF tables
<1> QED BY <1>1, <1>2, <1>4, <1>5, <1>6, EndOK, AuthTypesNext DEF HomeInv, AuthInv

LEMMA RequestsOK ==
    ASSUME HomeInv, NEW t \in Tasks, Request(t)
    PROVE  HomeInv'
BY VerifyInv, FindInvitationInv, JoinWorkspaceInv, CreateDefaultWorkspaceInv, InsertWorkspaceInv, CheckOtpInv, UseCodeInv, RefuseInv, IssueInv, RecreateMfaInv, SwitchMfaInv,
   FindAccountInv, StillThereInv, FindEmailInv, CreateUserInv, FindLinkInv, AddLinkInv, AssociateInv
   DEF Request

LEMMA AuthStep == HomeInv /\ [Next]_vars => HomeInv'
<1> SUFFICES ASSUME HomeInv, [Next]_vars
             PROVE  HomeInv'
    OBVIOUS
<1>1. ASSUME NEW t \in Tasks,
             \/ Request(t) \/ Crash(t)
             \/ \E c \in RecoveryCode : FindCode(t, c)
             \/ \E f \in flows : Callback(t, f) \/ CallbackAssociate(t, f)
             \/ \E k \in ApiTokens : AskAccess(t, k)
             \/ \E u \in Users : \/ AskVerify(t, u) \/ AskLogin(t, u) \/ AskRefresh(t, u)
                                 \/ AskMfa(t, u) \/ AskEnable(t, u) \/ AskDisable(t, u)
      PROVE  HomeInv'
    BY <1>1, RequestsOK, CrashInv, FindCodeInv, BackInv, AskAccessInv, AskingInv
<1>2. CASE \E u \in Users : Register(u) \/ Invite(u) \/ CloseInvitation(u) \/ TakeSlug(SlugOf[u])
    BY <1>2, RegisterInv, InvitingInv
<1>3. CASE UNCHANGED vars
    <2>1. UNCHANGED <<tables, hands, task, counters, bounds>>
        BY <1>3 DEF vars
    <2> QED BY <2>1, OnlyHandsOrBounds, AtOnceInv DEF tables, counters
<1> QED BY <1>1, <1>2, <1>3, AtOnceTyped DEF Next

\* For any number of users, requests, accounts of providers, tokens and crashes: the tables of users, API tokens and
\* OAuth accounts and the locals of each request of auth/ keep their types; a request that reads a row has one to read.
THEOREM AuthTypeCorrect == Spec => []TypeOK
<1>1. Init => HomeInv
    BY AuthStart DEF HomeInv, NobodyHomeless, Init
<1>2. HomeInv => TypeOK
    BY DEF HomeInv, AuthInv
<1> QED BY <1>1, <1>2, AuthStep, PTL DEF Spec

\* A user whose email is verified has been given a workspace, or a request is in on_after_register or on_after_verify
\* about to give it one, whichever registrations, verifications, OAuth callbacks and invitations overlap. Only a sign up
\* that ended with an error leaves one without: a crash between two commits, an account of a provider that somebody else
\* has linked in between, invitations by two workspaces, or a slug that was taken after it was looked for.
THEOREM EverybodyAtHome == Spec => []NobodyHomeless
<1>1. Init => HomeInv
    BY AuthStart DEF HomeInv, NobodyHomeless, Init
<1>2. HomeInv => NobodyHomeless
    BY DEF HomeInv
<1> QED BY <1>1, <1>2, AuthStep, PTL DEF Spec

-----------------------------------------------------------------------------
(* Recovery codes.                                                         *)

\* Only who has a row has recovery codes.
CodesHaveRow == \A u \in Users : codes[u] # {} => row[u] # None

CodesInv == CodesHaveRow /\ CodesOfSecret

\* No row gets another secret, and nobody more codes.
SecretsKeep ==
    \A u \in Users :
        /\ codes'[u] \subseteq codes[u]
        /\ row[u] # None => row'[u] # None /\ row'[u].secret \in {row[u].secret, None}

LEMMA CodesKeep ==
    ASSUME CodesInv, SecretsKeep
    PROVE  CodesInv'
<1>1. CodesHaveRow'
    BY DEF CodesInv, CodesHaveRow, SecretsKeep
<1>2. ASSUME NEW u \in Users, NEW c \in codes'[u], NEW d \in codes'[u]
      PROVE  c.secret = d.secret /\ row'[u].secret \in {c.secret, None}
    <2>1. c \in codes[u] /\ d \in codes[u] /\ row[u] # None
        BY <1>2 DEF SecretsKeep, CodesInv, CodesHaveRow
    <2> QED BY <2>1 DEF SecretsKeep, CodesInv, CodesOfSecret
<1> QED BY <1>1, <1>2 DEF CodesInv, CodesOfSecret

LEMMA RecreateCodes ==
    ASSUME HomeInv, CodesInv, NEW t \in Tasks, RecreateMfa(t)
    PROVE  CodesInv'
<1>1. TablesTyped /\ who[t] \in Users /\ row[who[t]] # None /\ row[who[t]] \in User
    BY HomeParts, MfaRow DEF RecreateMfa, Rewriting
<1> DEFINE new == [row[who[t]] EXCEPT !.secret = secrets + 1, !.mfa = FALSE]
<1>2. secrets + 1 \in Secrets
    BY HomeParts, BoundAssumption DEF RecreateMfa, CountersTyped, Secrets
<1>3. new.secret = secrets + 1 /\ new \in User
    BY <1>1, <1>2 DEF User
<1>4. row' = [row EXCEPT ![who[t]] = new] /\ codes' = [codes EXCEPT ![who[t]] = RecoveryCodes(secrets + 1)]
    BY DEF RecreateMfa
<1> HIDE DEF new
<1>5. /\ row'[who[t]] = new /\ \A v \in Users : v # who[t] => row'[v] = row[v]
      /\ codes'[who[t]] = RecoveryCodes(secrets + 1) /\ \A v \in Users : v # who[t] => codes'[v] = codes[v]
    BY <1>1, <1>4 DEF TablesTyped
<1>6. \A c \in RecoveryCodes(secrets + 1) : c.secret = secrets + 1
    BY DEF RecoveryCodes
<1>7. new # None
    BY <1>3, RowAssumption
<1>8. CodesHaveRow'
    BY <1>5, <1>7 DEF CodesInv, CodesHaveRow
<1>9. CodesOfSecret'
    <2> SUFFICES ASSUME NEW u \in Users, NEW c \in codes'[u], NEW d \in codes'[u]
                 PROVE  c.secret = d.secret /\ row'[u].secret \in {c.secret, None}
        BY DEF CodesOfSecret
    <2>1. CASE u = who[t]
        BY <1>3, <1>5, <1>6, <2>1
    <2>2. CASE u # who[t]
        BY <1>5, <2>2 DEF CodesInv, CodesOfSecret
    <2> QED BY <2>1, <2>2
<1> QED BY <1>8, <1>9 DEF CodesInv

LEMMA NewRowHasNoCodes ==
    ASSUME TablesTyped, NEW u \in Users, NEW v, row[u] = None, row' = [row EXCEPT ![u] = v], codes' = codes
    PROVE  SecretsKeep
<1>1. \A w \in Users : w # u => row'[w] = row[w]
    BY DEF TablesTyped
<1> QED BY <1>1 DEF SecretsKeep

\* The steps that write a row or take a code.
LEMMA SecretsStay ==
    ASSUME HomeInv, CodesInv, NEW t \in Tasks,
           Verify(t) \/ UseCode(t) \/ EnableMfa(t) \/ DisableMfa(t) \/ CreateUser(t)
    PROVE  SecretsKeep
<1>1. TablesTyped
    BY HomeParts
<1>2. CASE Verify(t) \/ EnableMfa(t) \/ DisableMfa(t)
    <2>1. who[t] \in Users /\ row[who[t]] # None /\ row[who[t]] \in User /\ codes' = codes
        BY <1>2, MfaRow DEF Verify, EnableMfa, DisableMfa, Rewriting
    <2>2. PICK new \in User : new.secret \in {row[who[t]].secret, None} /\ row' = [row EXCEPT ![who[t]] = new]
        <3>1. CASE Verify(t)
            <4> DEFINE new == [row[who[t]] EXCEPT !.verified = TRUE]
            <4>1. new \in User /\ new.secret = row[who[t]].secret
                BY <2>1 DEF User
            <4>2. row' = [row EXCEPT ![who[t]] = new]
                BY <3>1 DEF Verify
            <4> QED BY <4>1, <4>2
        <3>2. CASE EnableMfa(t)
            <4> DEFINE new == [row[who[t]] EXCEPT !.mfa = TRUE]
            <4>1. new \in User /\ new.secret = row[who[t]].secret
                BY <2>1 DEF User
            <4>2. row' = [row EXCEPT ![who[t]] = new]
                BY <3>2 DEF EnableMfa
            <4> QED BY <4>1, <4>2
        <3>3. CASE DisableMfa(t)
            <4> DEFINE new == [row[who[t]] EXCEPT !.mfa = FALSE, !.secret = None]
            <4>1. new \in User /\ new.secret = None
                BY <2>1 DEF User
            <4>2. row' = [row EXCEPT ![who[t]] = new]
                BY <3>3 DEF DisableMfa
            <4> QED BY <4>1, <4>2
        <3> QED BY <1>2, <3>1, <3>2, <3>3
    <2>3. row'[who[t]] = new /\ \A v \in Users : v # who[t] => row'[v] = row[v]
        BY <1>1, <2>1, <2>2 DEF TablesTyped
    <2> QED BY <2>1, <2>2, <2>3, RowAssumption DEF SecretsKeep
<1>3. CASE UseCode(t)
    <2>1. row' = row /\ codes' = [codes EXCEPT ![who[t]] = @ \ {seen[t]}]
        BY <1>3 DEF UseCode
    <2>2. \A u \in Users : codes'[u] \subseteq codes[u]
        BY <1>1, <2>1 DEF TablesTyped
    <2> QED BY <2>1, <2>2 DEF SecretsKeep
<1>4. CASE CreateUser(t)
    <2>1. who[t] \in Users /\ codes' = codes
        BY <1>4, StepAt DEF CreateUser, TaskOK, Anonymous
    <2>2. CASE UNCHANGED row
        BY <2>1, <2>2 DEF SecretsKeep
    <2> QED BY <1>1, <1>4, <2>1, <2>2, NewRowHasNoCodes DEF CreateUser
<1> QED BY <1>2, <1>3, <1>4

LEMMA CodesStep == HomeInv /\ CodesInv /\ [Next]_vars => CodesInv'
<1> SUFFICES ASSUME HomeInv, CodesInv, [Next]_vars
             PROVE  CodesInv'
    OBVIOUS
<1>1. CASE UNCHANGED <<row, codes>>
    BY <1>1 DEF CodesInv, CodesHaveRow, CodesOfSecret
<1>2. ASSUME NEW u \in Users, Register(u)
      PROVE  CodesInv'
    <2>1. SecretsKeep
        BY <1>2, HomeParts, NewRowHasNoCodes DEF Register
    <2> QED BY <2>1, CodesKeep
<1>3. ASSUME NEW t \in Tasks, Request(t)
      PROVE  CodesInv'
    <2>1. CASE Verify(t) \/ UseCode(t) \/ EnableMfa(t) \/ DisableMfa(t) \/ CreateUser(t)
        BY <2>1, SecretsStay, CodesKeep
    <2>2. CASE RecreateMfa(t)
        BY <2>2, RecreateCodes
    <2>3. CASE \/ FindInvitation(t) \/ JoinWorkspace(t) \/ CreateDefaultWorkspace(t) \/ InsertWorkspace(t)
        BY <1>1, <2>3 DEF FindInvitation, JoinWorkspace, CreateDefaultWorkspace, InsertWorkspace, tables
    <2>4. CASE \/ CheckOtp(t) \/ Refuse(t) \/ SignIn(t) \/ FindAccount(t) \/ UpdateLink(t)
               \/ FindEmail(t) \/ FindLink(t) \/ AddLink(t) \/ Associate(t) \/ UseKey(t) \/ Access(t)
        BY <1>1, <2>4
           DEF CheckOtp, Refuse, SignIn, FindAccount, UpdateLink, FindEmail, FindLink, AddLink,
               Associate, PutLink, UseKey, Access, tables
    <2> QED BY <1>3, <2>1, <2>2, <2>3, <2>4 DEF Request
<1>4. CASE \E t \in Tasks :
             \/ Crash(t)
             \/ \E c \in RecoveryCode : FindCode(t, c)
             \/ \E f \in flows : Callback(t, f) \/ CallbackAssociate(t, f)
             \/ \E k \in ApiTokens : AskAccess(t, k)
             \/ \E u \in Users : \/ AskVerify(t, u) \/ AskLogin(t, u) \/ AskRefresh(t, u)
                                 \/ AskMfa(t, u) \/ AskEnable(t, u) \/ AskDisable(t, u)
    BY <1>1, <1>4
       DEF Crash, FindCode, Callback, CallbackAssociate, AskAccess, AskVerify, AskLogin, AskRefresh, AskMfa, AskEnable,
           AskDisable, tables
<1>5. CASE \/ Tick
           \/ \E f \in flows : Lapse(f)
           \/ \E l \in links : Unlink(l)
           \/ \E u \in Users : \/ \E time \in Times : Expire(u, time)
                               \/ \E k \in ApiTokens : CreateKey(k, u)
                               \/ \E a \in Accounts : GoToAssociate(a, u)
                               \/ Invite(u) \/ CloseInvitation(u) \/ TakeSlug(SlugOf[u])
           \/ \E k \in ApiTokens : DeleteKey(k)
           \/ \E a \in Accounts : GoToProvider(a)
    BY <1>1, <1>5 DEF Invite, CloseInvitation, TakeSlug, Tick, Lapse, Unlink, Expire, CreateKey, GoToAssociate, DeleteKey, GoToProvider, tables
<1>6. CASE UNCHANGED vars
    BY <1>1, <1>6 DEF vars, tables
<1> QED BY <1>2, <1>3, <1>4, <1>5, <1>6 DEF Next

\* recreate_mfa stores the secret and the hashes of the codes in one transaction and removes the old codes in it: of
\* any number of requests that set up, enable or disable the second factor, or use up a code, none leaves codes of two
\* secrets, nor codes beside a secret that they were not made with.
THEOREM CodesAreOfSecret == Spec => []CodesOfSecret
<1>1. Init => HomeInv /\ CodesInv
    BY AuthStart DEF HomeInv, NobodyHomeless, Init, CodesInv, CodesHaveRow, CodesOfSecret
<1>2. HomeInv /\ CodesInv /\ [Next]_vars => (HomeInv /\ CodesInv)'
    BY AuthStep, CodesStep
<1>3. HomeInv /\ CodesInv => CodesOfSecret
    BY DEF CodesInv
<1> QED BY <1>1, <1>2, <1>3, PTL DEF Spec

-----------------------------------------------------------------------------
(* The limit on the attempts to log in.                                    *)

\* Twice the waits of x attempts that find no token of the limit left, in 1 / Limit of a window.
Waits(x) == IF x > 0 THEN x * (x + 1) ELSE 0

\* The key expires a window after the last attempt that was let through, which took one of the tokens it found.
Renewed ==
    IF bucket = None
    THEN \A i \in DOMAIN granted : granted[i].at + Window <= second
    ELSE /\ Len(granted) > 0 /\ expiry = granted[Len(granted)].at + Window /\ second < expiry
         /\ bucket = granted[Len(granted)].tokens - 1

PastGrants ==
    \A i \in DOMAIN granted :
        /\ granted[i].at <= second /\ granted[i].tokens <= Limit
        /\ bucket # None => granted[i].at + Window <= expiry

\* Of two attempts that were let through within a window each has counted down one key, and waited for what was refilled.
SpreadOut(first, last, n) ==
    \/ last.at - first.at >= Window
    \/ /\ last.tokens = first.tokens - n
       /\ 2 * Limit * (last.at - first.at) >= Window * (Waits(1 - last.tokens) - Waits(1 - first.tokens))

Spread == \A i, j \in DOMAIN granted : i < j => SpreadOut(granted[i], granted[j], j - i)

BucketInv == RateLimitTypeOK /\ Renewed /\ PastGrants /\ Spread /\ RefusedForAWhile

LEMMA BucketNumbers ==
    ASSUME RateLimitTypeOK
    PROVE  /\ Tokens \in Int /\ Ttl \in Int /\ (bucket # None => Tokens = bucket /\ Ttl = expiry - second)
           /\ Limit \in Nat \ {0} /\ Window \in Nat \ {0} /\ MaxSeconds \in Nat
           /\ second \in Nat /\ expiry \in Nat /\ Seconds \subseteq Nat
           /\ Len(granted) \in Nat /\ DOMAIN granted = 1..Len(granted)
           /\ \A i \in DOMAIN granted : granted[i] \in [at : Seconds, tokens : Int]
<1>1. Limit \in Nat \ {0} /\ Window \in Nat \ {0} /\ MaxSeconds \in Nat
    BY RateLimitAssumption
<1>2. second \in Nat /\ expiry \in Nat /\ Seconds \subseteq Nat /\ second \in Seconds
    BY <1>1 DEF RateLimitTypeOK, Seconds
<1>3. bucket # None => bucket \in Int
    BY DEF RateLimitTypeOK
<1>4. granted \in Seq([at : Seconds, tokens : Int])
    BY DEF RateLimitTypeOK
<1>5. Tokens \in Int /\ Ttl \in Int /\ (bucket # None => Tokens = bucket /\ Ttl = expiry - second)
    BY <1>1, <1>2, <1>3 DEF Tokens, Ttl
<1>6. Len(granted) \in Nat /\ DOMAIN granted = 1..Len(granted)
    BY <1>4
<1>7. \A i \in DOMAIN granted : granted[i] \in [at : Seconds, tokens : Int]
    <2> DEFINE R == [at : Seconds, tokens : Int]
    <2>1. granted \in Seq(R)
        BY <1>4
    <2> HIDE DEF R
    <2>2. \A i \in DOMAIN granted : granted[i] \in R
        BY <2>1
    <2> QED BY <2>2 DEF R
<1> QED BY <1>1, <1>2, <1>5, <1>6, <1>7

LEMMA WaitsIsInt ==
    ASSUME NEW x \in Int
    PROVE  Waits(x) \in Int
BY DEF Waits

LEMMA NewBuckets == RateLimitInit => BucketInv
BY RateLimitAssumption
   DEF RateLimitInit, BucketInv, RateLimitTypeOK, Renewed, PastGrants, Spread, RefusedForAWhile, Seconds

\* Below its limit a bucket lets in at once, and otherwise when the token has been refilled.
LEMMA GrantWaits ==
    ASSUME RateLimitTypeOK, Renewed, PastGrants, Grant, bucket # None,
           NEW last, last = granted[Len(granted)]
    PROVE  /\ last \in [at : Seconds, tokens : Int] /\ second >= last.at
           /\ Tokens = last.tokens - 1
           /\ 2 * Limit * (second - last.at) >= Window * (Waits(1 - Tokens) - Waits(1 - last.tokens))
<1> DEFINE wait == second - last.at
           b == Tokens
<1>1. /\ b \in Int /\ Ttl = expiry - second /\ b = bucket
      /\ Limit \in Nat \ {0} /\ Window \in Nat \ {0} /\ second \in Nat /\ Seconds \subseteq Nat
    BY BucketNumbers
<1>2. /\ Len(granted) \in DOMAIN granted /\ last \in [at : Seconds, tokens : Int]
      /\ expiry = last.at + Window /\ b = last.tokens - 1
    BY <1>1, BucketNumbers DEF Renewed
<1>3. second >= last.at /\ last.at \in Nat /\ last.tokens \in Int
    BY <1>1, <1>2 DEF PastGrants
<1>4. wait \in Nat /\ Window - Ttl = wait
    BY <1>1, <1>2, <1>3
<1> HIDE DEF wait, b
<1>5. b * Window + wait * Limit >= Window
    <2>1. Refilled >= Window
        BY DEF Grant, OneToken
    <2>2. b * Window \in Int /\ wait * Limit \in Int /\ Limit * Window \in Int
        BY <1>1, <1>4
    <2>3. Refilled = IF b * Window + wait * Limit < Limit * Window THEN b * Window + wait * Limit ELSE Limit * Window
        BY <1>4 DEF Refilled, b
    <2>4. Limit * Window >= Window
        BY <1>1
    <2> QED BY <1>1, <2>1, <2>2, <2>3, <2>4
<1>6. Window * (1 - b) <= Limit * wait
    BY <1>1, <1>4, <1>5
<1>7. Waits(1 - b) - Waits(1 - last.tokens) = IF b > 0 THEN 0 ELSE 2 * (1 - b)
    <2>1. 1 - last.tokens = -b /\ 1 - last.tokens \in Int
        BY <1>1, <1>2, <1>3 DEF b
    <2>2. CASE b > 0
        BY <1>1, <2>1, <2>2 DEF Waits
    <2>3. CASE b = 0
        BY <1>1, <2>1, <2>3 DEF Waits
    <2>4. CASE b < 0
        <3>1. Waits(1 - b) = (1 - b) * ((1 - b) + 1) /\ Waits(-b) = (-b) * ((-b) + 1)
            BY <1>1, <2>4 DEF Waits
        <3>2. (1 - b) * ((1 - b) + 1) - (-b) * ((-b) + 1) = 2 * (1 - b)
            BY <1>1
        <3>3. Waits(1 - last.tokens) = Waits(-b)
            BY <2>1
        <3> QED BY <1>1, <2>4, <3>1, <3>2, <3>3
    <2> QED BY <1>1, <2>2, <2>3, <2>4
<1>8. 2 * Limit * wait >= Window * (Waits(1 - b) - Waits(1 - last.tokens))
    <2>1. CASE b > 0
        <3>1. 2 * Limit * wait >= 0 /\ Window * 0 = 0
            BY <1>1, <1>4
        <3> QED BY <1>7, <2>1, <3>1
    <2>2. CASE ~(b > 0)
        <3>1. Window * (2 * (1 - b)) <= 2 * Limit * wait
            BY <1>1, <1>4, <1>6
        <3> QED BY <1>7, <2>2, <3>1
    <2> QED BY <2>1, <2>2
<1> QED BY <1>2, <1>3, <1>8 DEF wait, b

\* What two waits are worth together.
LEMMA SpreadAdds ==
    ASSUME NEW x \in [at : Nat, tokens : Int], NEW y \in [at : Nat, tokens : Int], NEW z \in [at : Nat, tokens : Int],
           NEW n \in Int, SpreadOut(x, y, n), z.tokens = y.tokens - 1, z.at >= y.at,
           2 * Limit * (z.at - y.at) >= Window * (Waits(1 - z.tokens) - Waits(1 - y.tokens))
    PROVE  SpreadOut(x, z, n + 1)
<1>1. Limit \in Nat /\ Window \in Nat
    BY RateLimitAssumption
<1>2. x.at \in Nat /\ y.at \in Nat /\ z.at \in Nat /\ x.tokens \in Int /\ y.tokens \in Int /\ z.tokens \in Int
    OBVIOUS
<1>3. CASE y.at - x.at >= Window
    BY <1>1, <1>2, <1>3 DEF SpreadOut
<1>4. CASE ~(y.at - x.at >= Window)
    <2> DEFINE wx == Waits(1 - x.tokens)
               wy == Waits(1 - y.tokens)
               wz == Waits(1 - z.tokens)
    <2>1. wx \in Int /\ wy \in Int /\ wz \in Int
        BY <1>2, WaitsIsInt
    <2>2. y.tokens = x.tokens - n /\ 2 * Limit * (y.at - x.at) >= Window * (wy - wx)
        BY <1>4 DEF SpreadOut
    <2>3. 2 * Limit * (z.at - y.at) >= Window * (wz - wy)
        OBVIOUS
    <2> HIDE DEF wx, wy, wz
    <2>4. 2 * Limit * (z.at - x.at) = 2 * Limit * (z.at - y.at) + 2 * Limit * (y.at - x.at)
        BY <1>1, <1>2
    <2>5. Window * (wz - wx) = Window * (wz - wy) + Window * (wy - wx)
        BY <1>1, <2>1
    <2>6. 2 * Limit * (z.at - x.at) >= Window * (wz - wx)
        <3>1. /\ 2 * Limit * (z.at - y.at) \in Int /\ 2 * Limit * (y.at - x.at) \in Int
              /\ Window * (wz - wy) \in Int /\ Window * (wy - wx) \in Int
            BY <1>1, <1>2, <2>1
        <3> QED BY <2>2, <2>3, <2>4, <2>5, <3>1
    <2>7. z.tokens = x.tokens - (n + 1)
        BY <1>2, <2>2
    <2> QED BY <2>6, <2>7 DEF SpreadOut, wx, wz
<1> QED BY <1>3, <1>4

LEMMA GrantInv ==
    ASSUME BucketInv, Grant
    PROVE  BucketInv'
<1> USE DEF BucketInv
<1> DEFINE n == Len(granted)
           new == [at |-> second, tokens |-> Tokens]
<1>1. /\ Tokens \in Int /\ Limit \in Nat \ {0} /\ Window \in Nat \ {0} /\ second \in Nat /\ expiry \in Nat
      /\ Seconds \subseteq Nat /\ n \in Nat /\ DOMAIN granted = 1..n
      /\ \A i \in 1..n : granted[i] \in [at : Seconds, tokens : Int]
    BY BucketNumbers
<1>2. /\ bucket' = Tokens - 1 /\ expiry' = second + Window /\ granted' = Append(granted, new)
      /\ second' = second /\ refused' = refused /\ bucket' # None
    BY <1>1, AbsentAssumption DEF Grant
<1>3. new \in [at : Seconds, tokens : Int]
    BY <1>1 DEF RateLimitTypeOK
<1>4. /\ granted' \in Seq([at : Seconds, tokens : Int]) /\ Len(granted') = n + 1 /\ DOMAIN granted' = 1..(n + 1)
      /\ granted'[n + 1] = new /\ \A i \in 1..n : granted'[i] = granted[i]
    BY <1>2, <1>3 DEF RateLimitTypeOK
<1> HIDE DEF n
<1>5. RateLimitTypeOK'
    BY <1>1, <1>2, <1>4 DEF RateLimitTypeOK
<1>6. Renewed'
    BY <1>1, <1>2, <1>3, <1>4 DEF Renewed
<1>7. Tokens <= Limit
    <2>1. CASE bucket = None
        BY <1>1, <2>1 DEF Tokens
    <2>2. CASE bucket # None
        <3>1. n \in 1..n /\ bucket = granted[n].tokens - 1
            BY <1>1, <2>2 DEF Renewed, n
        <3> QED BY <1>1, <2>2, <3>1 DEF PastGrants, Tokens
    <2> QED BY <2>1, <2>2
<1>8. PastGrants'
    <2> SUFFICES ASSUME NEW i \in 1..(n + 1)
                 PROVE  granted'[i].at <= second /\ granted'[i].tokens <= Limit /\ granted'[i].at + Window <= second + Window
        BY <1>2, <1>4 DEF PastGrants
    <2>1. CASE i \in 1..n
        <3>1. granted[i].at <= second /\ granted[i].tokens <= Limit /\ granted[i].at \in Nat
            BY <1>1, <2>1 DEF PastGrants
        <3> QED BY <1>1, <1>4, <2>1, <3>1
    <2>2. CASE i = n + 1
        BY <1>1, <1>4, <1>7, <2>2
    <2> QED BY <1>1, <2>1, <2>2
<1>9. Spread'
    <2>1. ASSUME NEW i \in 1..n
          PROVE  SpreadOut(granted[i], new, n + 1 - i)
        <3>1. granted[i].at \in Nat /\ granted[i].at <= second
            BY <1>1 DEF PastGrants
        <3>2. CASE bucket = None
            <4>1. granted[i].at + Window <= second
                BY <1>1, <3>2 DEF Renewed
            <4> QED BY <1>1, <3>1, <4>1 DEF SpreadOut
        <3>3. CASE bucket # None
            <4>1. PICK last : last = granted[n]
                OBVIOUS
            <4>2. /\ last \in [at : Seconds, tokens : Int] /\ second >= last.at /\ Tokens = last.tokens - 1
                  /\ 2 * Limit * (second - last.at) >= Window * (Waits(1 - Tokens) - Waits(1 - last.tokens))
                BY <3>3, <4>1, GrantWaits DEF n
            <4>3. CASE i = n
                <5>1. n + 1 - i = 1 /\ granted[i] = last
                    BY <1>1, <4>1, <4>3
                <5>2. SpreadOut(last, new, 1)
                    BY <4>2 DEF SpreadOut
                <5> QED BY <5>1, <5>2
            <4>4. CASE i # n
                <5>1. i < n /\ n \in 1..n /\ n - i \in Int /\ n + 1 - i = (n - i) + 1
                    BY <1>1, <4>4
                <5>2. SpreadOut(granted[i], last, n - i)
                    BY <1>1, <4>1, <5>1 DEF Spread
                <5>3. /\ granted[i] \in [at : Nat, tokens : Int] /\ last \in [at : Nat, tokens : Int]
                      /\ new \in [at : Nat, tokens : Int]
                    BY <1>1, <1>3, <4>2
                <5>4. PICK m \in Int : m = n - i
                    BY <5>1
                <5>5. PICK z \in [at : Nat, tokens : Int] : z = new
                    BY <5>3
                <5>6. SpreadOut(granted[i], z, m + 1)
                    BY <4>2, <5>2, <5>3, <5>4, <5>5, SpreadAdds
                <5> QED BY <5>1, <5>4, <5>5, <5>6
            <4> QED BY <4>3, <4>4
        <3> QED BY <3>2, <3>3
    <2> HIDE DEF new
    <2> SUFFICES ASSUME NEW i \in 1..(n + 1), NEW j \in 1..(n + 1), i < j
                 PROVE  SpreadOut(granted'[i], granted'[j], j - i)
        BY <1>4 DEF Spread, SpreadOut
    <2>2. i \in 1..n
        BY <1>1
    <2>3. CASE j = n + 1
        <3>1. granted'[i] = granted[i] /\ granted'[j] = new
            BY <1>4, <2>2, <2>3
        <3>2. PICK e : e = n + 1 - i /\ SpreadOut(granted[i], new, e)
            BY <2>1, <2>2
        <3>3. e = j - i
            BY <1>1, <2>3, <3>2
        <3> QED BY <3>1, <3>2, <3>3
    <2>4. CASE j \in 1..n
        <3>1. SpreadOut(granted[i], granted[j], j - i)
            BY <1>1, <2>2, <2>4 DEF Spread
        <3>2. granted'[i] = granted[i] /\ granted'[j] = granted[j]
            BY <1>4, <2>2, <2>4
        <3> QED BY <3>1, <3>2
    <2> QED BY <1>1, <2>3, <2>4
<1>10. RefusedForAWhile'
    <2> SUFFICES ASSUME refused # None
                 PROVE  \E i \in 1..(n + 1) : refused - Window < granted'[i].at /\ granted'[i].at <= refused
        BY <1>2, <1>4 DEF RefusedForAWhile
    <2>1. PICK i \in 1..n : refused - Window < granted[i].at /\ granted[i].at <= refused
        BY <1>1 DEF RefusedForAWhile
    <2>2. i \in 1..(n + 1) /\ granted'[i] = granted[i]
        BY <1>1, <1>4
    <2> QED BY <2>1, <2>2
<1> QED BY <1>5, <1>6, <1>8, <1>9, <1>10

LEMMA NewBucketLetsIn ==
    ASSUME RateLimitTypeOK, bucket = None
    PROVE  Refilled >= OneToken
<1>1. Limit \in Nat /\ Window \in Nat /\ Limit >= 1
    BY RateLimitAssumption
<1>2. Limit * Window >= Window /\ Limit * Window \in Nat
    BY <1>1
<1>3. Refilled = Limit * Window
    BY <1>1, <1>2 DEF Refilled, Tokens, Ttl
<1> QED BY <1>2, <1>3 DEF OneToken

LEMMA RefuseAttemptInv ==
    ASSUME BucketInv, TooManyAttempts
    PROVE  BucketInv'
<1> USE DEF BucketInv
<1>1. bucket # None
    <2>1. SUFFICES ASSUME bucket = None PROVE FALSE
        OBVIOUS
    <2>2. Refilled >= OneToken
        BY <2>1, NewBucketLetsIn
    <2>3. Refilled \in Int /\ OneToken \in Int
        BY <2>1, RateLimitAssumption DEF Refilled, OneToken, Tokens, Ttl
    <2> QED BY <2>2, <2>3 DEF TooManyAttempts
<1>2. /\ bucket' = bucket /\ expiry' = expiry /\ second' = second /\ granted' = granted
      /\ refused' = second
    BY <1>1, BucketNumbers DEF TooManyAttempts, ExpiresWhenRefused
<1>3. RateLimitTypeOK' /\ Renewed' /\ PastGrants' /\ Spread'
    BY <1>2 DEF RateLimitTypeOK, Renewed, PastGrants, Spread, SpreadOut
<1>4. RefusedForAWhile'
    <2>1. /\ Len(granted) \in DOMAIN granted /\ granted[Len(granted)].at \in Nat /\ second \in Nat /\ Window \in Nat
          /\ expiry = granted[Len(granted)].at + Window /\ second < expiry
        BY <1>1, BucketNumbers DEF Renewed
    <2>2. granted[Len(granted)].at <= second
        BY <2>1 DEF PastGrants
    <2>3. second - Window < granted[Len(granted)].at
        BY <2>1
    <2> QED BY <1>2, <2>1, <2>2, <2>3 DEF RefusedForAWhile
<1> QED BY <1>3, <1>4

LEMMA SecondInv ==
    ASSUME BucketInv, SecondPasses
    PROVE  BucketInv'
<1> USE DEF BucketInv
<1>1. /\ second' = second + 1 /\ second' \in Seconds /\ expiry' = expiry /\ granted' = granted /\ refused' = refused
      /\ second \in Nat /\ expiry \in Nat /\ Window \in Nat /\ Limit \in Nat
      /\ \A i \in DOMAIN granted : granted[i].at \in Nat
    BY BucketNumbers DEF SecondPasses, RateLimitTypeOK, Seconds
<1>2. IF bucket # None /\ second' >= expiry THEN bucket' = None ELSE bucket' = bucket
    BY DEF SecondPasses
<1>3. RateLimitTypeOK'
    BY <1>1, <1>2 DEF RateLimitTypeOK
<1>4. PastGrants'
    BY <1>1, <1>2 DEF PastGrants
<1>5. Renewed'
    <2>1. CASE bucket = None
        BY <1>1, <1>2, <2>1 DEF Renewed
    <2>2. CASE bucket # None /\ second' >= expiry
        BY <1>1, <1>2, <2>2 DEF Renewed, PastGrants
    <2>3. CASE bucket # None /\ ~(second' >= expiry)
        BY <1>1, <1>2, <2>3 DEF Renewed
    <2> QED BY <2>1, <2>2, <2>3
<1>6. Spread' /\ RefusedForAWhile'
    BY <1>1 DEF Spread, SpreadOut, RefusedForAWhile
<1> QED BY <1>3, <1>4, <1>5, <1>6

\* What a window lets through, from what two attempts in it are apart.
LEMMA SpreadLimits ==
    ASSUME BucketInv
    PROVE  AtMostPerWindow
<1> USE DEF BucketInv
<1> SUFFICES ASSUME NEW k \in 0..Limit, (k + 1) * (k + 2) >= 2 * Limit,
                    NEW i \in DOMAIN granted, NEW j \in DOMAIN granted, j = i + Limit + k
             PROVE  granted[j].at - granted[i].at >= Window
    BY DEF AtMostPerWindow
<1>1. /\ Limit \in Nat \ {0} /\ Window \in Nat \ {0} /\ k \in Nat /\ i \in Nat /\ j \in Nat
      /\ granted[i].at \in Nat /\ granted[j].at \in Nat /\ granted[i].tokens \in Int /\ granted[j].tokens \in Int
    BY BucketNumbers
<1>2. i < j /\ j - i = Limit + k
    BY <1>1
<1>3. SpreadOut(granted[i], granted[j], j - i)
    BY <1>2 DEF Spread
<1> SUFFICES ASSUME ~(granted[j].at - granted[i].at >= Window) PROVE FALSE
    OBVIOUS
<1> DEFINE x == 1 - granted[i].tokens
           y == 1 - granted[j].tokens
           d == granted[j].at - granted[i].at
<1>4. granted[j].tokens = granted[i].tokens - (j - i) /\ 2 * Limit * d >= Window * (Waits(y) - Waits(x))
    BY <1>3 DEF SpreadOut
<1>5. x \in Int /\ y = x + Limit + k /\ x >= 1 - Limit /\ d \in Int
    BY <1>1, <1>2, <1>4 DEF PastGrants
<1> HIDE DEF x, y, d
<1>6. y \in Int /\ y >= k + 1 /\ Waits(y) = y * (y + 1)
    BY <1>1, <1>5 DEF Waits
<1>7. Waits(y) - Waits(x) >= (k + 1) * (k + 2)
    <2>1. CASE x <= 0
        <3>1. Waits(x) = 0
            BY <1>5, <2>1 DEF Waits
        <3>2. y * (y + 1) >= (k + 1) * (k + 2)
            BY <1>1, <1>6
        <3>3. y * (y + 1) \in Int
            BY <1>6
        <3> QED BY <1>6, <3>1, <3>2, <3>3
    <2>2. CASE x > 0
        <3>1. Waits(x) = x * (x + 1)
            BY <1>5, <2>2 DEF Waits
        <3>2. PICK m \in Nat : m = Limit + k /\ m >= k + 1
            BY <1>1
        <3>3. y * (y + 1) = (x + m) * ((x + m) + 1)
            <4>1. y = x + m
                BY <1>1, <1>5, <3>2
            <4> QED BY <4>1
        <3>4. (x + m) * ((x + m) + 1) - x * (x + 1) = 2 * (x * m) + m * (m + 1)
            BY <1>5, <3>2
        <3>5. x * m >= 0 /\ x * m \in Int
            BY <1>5, <2>2, <3>2
        <3>6. m * (m + 1) >= (k + 1) * (k + 2)
            BY <1>1, <3>2
        <3>7. m * (m + 1) \in Int /\ (k + 1) * (k + 2) \in Int
            BY <1>1, <3>2
        <3> QED BY <1>6, <3>1, <3>3, <3>4, <3>5, <3>6, <3>7
    <2> QED BY <1>5, <2>1, <2>2
<1>8. PICK g \in Int : g = Waits(y) - Waits(x) /\ g >= 2 * Limit
    <2>1. Waits(y) - Waits(x) \in Int /\ (k + 1) * (k + 2) \in Int
        BY <1>1, <1>5, <1>6, WaitsIsInt
    <2> QED BY <1>1, <1>7, <2>1
<1>9. 2 * Limit * d >= Window * (2 * Limit)
    <2>1. Window * g >= Window * (2 * Limit)
        BY <1>1, <1>8
    <2>2. Window * g \in Int /\ Window * (2 * Limit) \in Int /\ 2 * Limit * d \in Int
        BY <1>1, <1>5, <1>8
    <2>3. 2 * Limit * d >= Window * g
        BY <1>4, <1>8
    <2> QED BY <2>1, <2>2, <2>3
<1>10. d < Window
    BY <1>1, <1>5 DEF d
<1>11. 2 * Limit * d < 2 * Limit * Window
    BY <1>1, <1>5, <1>10
<1>12. 2 * Limit * Window = Window * (2 * Limit) /\ 2 * Limit * Window \in Int /\ 2 * Limit * d \in Int
    BY <1>1, <1>5
<1> QED BY <1>9, <1>11, <1>12

\* For every limit and window: within a window no more attempts are let through than the limit and the few tokens it
\* refills, in whatever way keys expire and are made again; and whoever is refused got through less than a window ago,
\* as attempts that are refused do not renew the bucket (LoginRateLimiter.consume).
THEOREM LoginsAreLimited == RateLimitSpec => []LoginsLimited
<1>1. BucketInv /\ [RateLimitNext]_rateVars => BucketInv'
    <2> SUFFICES ASSUME BucketInv, [RateLimitNext]_rateVars
                 PROVE  BucketInv'
        OBVIOUS
    <2>1. CASE Grant
        BY <2>1, GrantInv
    <2>2. CASE TooManyAttempts
        BY <2>2, RefuseAttemptInv
    <2>3. CASE SecondPasses
        BY <2>3, SecondInv
    <2>4. CASE UNCHANGED rateVars
        BY <2>4 DEF rateVars, BucketInv, RateLimitTypeOK, Renewed, PastGrants, Spread, SpreadOut, RefusedForAWhile
    <2> QED BY <2>1, <2>2, <2>3, <2>4 DEF RateLimitNext, Consume
<1>2. BucketInv => LoginsLimited
    BY SpreadLimits DEF BucketInv, LoginsLimited
<1> QED BY NewBuckets, <1>1, <1>2, PTL DEF RateLimitSpec

-----------------------------------------------------------------------------
(* The keys the tokens are signed with, and their rotation.                *)

\* The files hold the two latest pairs.
FilesLatest ==
    /\ \A i \in Slots : files[i].key = files[i].cert /\ files[i].cert \in {rotations + 1, rotations + 2}
    /\ files[1].cert # files[2].cert

\* A certificate that a server knows is the one of the file, or the one that the last replacement took from it.
Current(cert, i) == cert = files[i].cert \/ (files[i].cert = rotations + 2 /\ cert = rotations)

\* What a server knows since the last replacement is what is in the files.
PairsKnown ==
    \A s \in Servers, i \in Slots : pairs[s][i] # None =>
        /\ Current(pairs[s][i].cert, i)
        /\ pairs[s][i].cert = files[i].cert => pairs[s][i] = files[i]
        /\ loaded[s][i] = rotations => pairs[s][i] = files[i]

HalvesKnown ==
    \A s \in Servers : reading[s] # None =>
        /\ reading[s].key = None
        /\ Current(reading[s].cert, reading[s].slot)
        /\ loaded[s][reading[s].slot] = rotations => reading[s].cert = files[reading[s].slot].cert
        /\ pairs[s][reading[s].slot] = None

\* A token was signed with one of the two keys of its time, and with the later one by a server that knew it.
TokensSigned ==
    \A t \in tokens : t.made <= rotations /\ t.key \in {t.made + 1, t.made + 2} /\ (t.fresh => t.key = t.made + 2)

KeysInv == KeysTypeOK /\ FilesLatest /\ PairsKnown /\ HalvesKnown /\ TokensSigned

LEMMA KeysStart == KeysInit => KeysInv
BY KeysAssumption DEF KeysInit, KeysInv, KeysTypeOK, FilesLatest, PairsKnown, HalvesKnown, TokensSigned, Numbers,
   CertKeyPair, Slots

LEMMA RotateInv ==
    ASSUME KeysInv, Rotate
    PROVE  KeysInv'
<1> USE DEF KeysInv
<1>1. /\ rotations \in Nat /\ MaxRotations \in Nat /\ rotations' = rotations + 1 /\ rotations' \in 0..MaxRotations
      /\ pairs' = pairs /\ loaded' = loaded /\ reading' = reading /\ tokens' = tokens
    BY KeysAssumption DEF Rotate, KeysTypeOK
<1> DEFINE older == CHOOSE i \in Slots : \A j \in Slots : files[i].cert <= files[j].cert
           new == [cert |-> rotations' + 2, key |-> rotations' + 2]
<1>2. older \in Slots /\ files[older].cert = rotations + 1 /\ \A i \in Slots : i # older => files[i].cert = rotations + 2
    <2>1. \E i \in Slots : \A j \in Slots : files[i].cert <= files[j].cert
        BY <1>1 DEF FilesLatest, Slots
    <2>2. older \in Slots /\ \A j \in Slots : files[older].cert <= files[j].cert
        BY <2>1
    <2> HIDE DEF older
    <2> QED BY <1>1, <2>2 DEF FilesLatest, Slots
<1>3. files' = [files EXCEPT ![older] = new]
    BY DEF Rotate
<1>4. new \in CertKeyPair /\ new.cert = rotations + 3 /\ new.key = rotations + 3
    BY <1>1 DEF CertKeyPair, Numbers
<1> HIDE DEF older, new
<1>5. files' \in [Slots -> CertKeyPair] /\ files'[older] = new /\ \A i \in Slots : i # older => files'[i] = files[i]
    BY <1>2, <1>3, <1>4 DEF KeysTypeOK
<1>6. KeysTypeOK'
    BY <1>1, <1>5 DEF KeysTypeOK
<1>7. FilesLatest'
    BY <1>1, <1>2, <1>4, <1>5 DEF FilesLatest, Slots
<1>8. PairsKnown'
    <2> SUFFICES ASSUME NEW s \in Servers, NEW i \in Slots, pairs[s][i] # None
                 PROVE  /\ Current(pairs[s][i].cert, i)'
                        /\ pairs[s][i].cert = files'[i].cert => pairs[s][i] = files'[i]
                        /\ loaded[s][i] = rotations' => pairs[s][i] = files'[i]
        BY <1>1 DEF PairsKnown, Current
    <2>1. loaded[s][i] = rotations /\ pairs[s][i] = files[i]
        BY DEF Rotate, PairsKnown
    <2>2. CASE i = older
        BY <1>1, <1>2, <1>4, <1>5, <2>1, <2>2 DEF Current
    <2>3. CASE i # older
        BY <1>1, <1>2, <1>4, <1>5, <2>1, <2>3 DEF Current
    <2> QED BY <2>2, <2>3
<1>9. HalvesKnown'
    <2> SUFFICES ASSUME NEW s \in Servers, reading[s] # None
                 PROVE  /\ reading[s].key = None
                        /\ Current(reading[s].cert, reading[s].slot)'
                        /\ loaded[s][reading[s].slot] = rotations' => reading[s].cert = files'[reading[s].slot].cert
                        /\ pairs[s][reading[s].slot] = None
        BY <1>1 DEF HalvesKnown, Current
    <2> DEFINE i == reading[s].slot
    <2>0. i \in Slots
        BY DEF KeysTypeOK
    <2>1. loaded[s][i] = rotations /\ reading[s].cert = files[i].cert /\ reading[s].key = None /\ pairs[s][i] = None
        BY <2>0 DEF Rotate, HalvesKnown
    <2> HIDE DEF i
    <2>2. CASE i = older
        BY <1>1, <1>2, <1>4, <1>5, <2>0, <2>1, <2>2 DEF Current, i
    <2>3. CASE i # older
        BY <1>1, <1>2, <1>4, <1>5, <2>0, <2>1, <2>3 DEF Current, i
    <2> QED BY <2>2, <2>3
<1>10. TokensSigned'
    BY <1>1 DEF TokensSigned, KeysTypeOK
<1> QED BY <1>6, <1>7, <1>8, <1>9, <1>10

LEMMA StartLoadingInv ==
    ASSUME KeysInv, NEW s \in Servers, NEW i \in Slots, StartLoading(s, i)
    PROVE  KeysInv'
<1> USE DEF KeysInv
<1>1. /\ reading[s] = None /\ pairs[s][i] = None
      /\ reading' = [reading EXCEPT ![s] = [slot |-> i, cert |-> files[i].cert, key |-> None]]
      /\ loaded' = [loaded EXCEPT ![s][i] = rotations]
      /\ files' = files /\ rotations' = rotations /\ pairs' = pairs /\ tokens' = tokens
    BY DEF StartLoading, ReadFirst
<1>2. KeysTypeOK'
    BY <1>1 DEF KeysTypeOK, CertKeyPair
<1>3. FilesLatest'
    BY <1>1 DEF FilesLatest
<1>4. PairsKnown'
    BY <1>1 DEF PairsKnown, KeysTypeOK, Current
<1>5. HalvesKnown'
    BY <1>1 DEF HalvesKnown, KeysTypeOK, Current
<1>6. TokensSigned'
    BY <1>1 DEF TokensSigned
<1> QED BY <1>2, <1>3, <1>4, <1>5, <1>6

LEMMA EndLoadingInv ==
    ASSUME KeysInv, NEW s \in Servers, EndLoading(s)
    PROVE  KeysInv'
<1> USE DEF KeysInv
<1> DEFINE r == reading[s]
           pair == [cert |-> r.cert, key |-> files[r.slot].key]
<1>1. /\ r # None /\ r.slot \in Slots /\ r.key = None /\ r.cert \in Numbers
      /\ Current(r.cert, r.slot)
      /\ loaded[s][r.slot] = rotations => r.cert = files[r.slot].cert
    <2>1. r # None
        BY DEF EndLoading
    <2>2. r \in [slot : Slots, cert : Numbers \cup {None}, key : Numbers \cup {None}]
        BY <2>1 DEF KeysTypeOK
    <2>3. r.slot \in Slots /\ Current(r.cert, r.slot)
        BY <2>1, <2>2 DEF HalvesKnown
    <2>4. r.cert \in Int
        <3>1. files[r.slot].cert \in Int /\ rotations \in Int
            BY <2>3 DEF KeysTypeOK, CertKeyPair, Numbers
        <3> QED BY <2>3, <3>1 DEF Current
    <2>5. r.cert \in Numbers
        BY <2>2, <2>4, AbsentAssumption
    <2> QED BY <2>1, <2>3, <2>5 DEF HalvesKnown
<1>2. /\ pairs' = [pairs EXCEPT ![s][r.slot] = pair]
      /\ reading' = [reading EXCEPT ![s] = None]
      /\ files' = files /\ rotations' = rotations /\ loaded' = loaded /\ tokens' = tokens
    <2>1. r.cert # None
        BY <1>1, AbsentAssumption DEF Numbers
    <2> QED BY <1>1, <2>1 DEF EndLoading
<1>3. pair \in CertKeyPair /\ pair.cert = r.cert /\ (r.cert = files[r.slot].cert => pair = files[r.slot])
    <2>1. files[r.slot] \in CertKeyPair
        BY <1>1 DEF KeysTypeOK
    <2> QED BY <1>1, <2>1 DEF CertKeyPair
<1> HIDE DEF r, pair
<1>4. KeysTypeOK'
    BY <1>1, <1>2, <1>3 DEF KeysTypeOK
<1>5. FilesLatest'
    BY <1>2 DEF FilesLatest
<1>6. PairsKnown'
    <2> SUFFICES ASSUME NEW x \in Servers, NEW i \in Slots, pairs'[x][i] # None
                 PROVE  /\ Current(pairs'[x][i].cert, i)
                        /\ pairs'[x][i].cert = files[i].cert => pairs'[x][i] = files[i]
                        /\ loaded[x][i] = rotations => pairs'[x][i] = files[i]
        BY <1>2 DEF PairsKnown, Current
    <2>1. CASE x = s /\ i = r.slot
        <3>1. pairs'[x][i] = pair
            BY <1>1, <1>2, <2>1 DEF KeysTypeOK
        <3> QED BY <1>1, <1>3, <2>1, <3>1
    <2>2. CASE ~(x = s /\ i = r.slot)
        <3>1. pairs'[x][i] = pairs[x][i]
            BY <1>1, <1>2, <2>2 DEF KeysTypeOK
        <3> QED BY <3>1 DEF PairsKnown
    <2> QED BY <2>1, <2>2
<1>7. HalvesKnown'
    BY <1>2 DEF HalvesKnown, KeysTypeOK, Current
<1>8. TokensSigned'
    BY <1>2 DEF TokensSigned
<1> QED BY <1>4, <1>5, <1>6, <1>7, <1>8

LEMMA ExpirePairInv ==
    ASSUME KeysInv, NEW s \in Servers, NEW i \in Slots, ExpirePair(s, i)
    PROVE  KeysInv'
<1> USE DEF KeysInv
<1>1. /\ pairs' = [pairs EXCEPT ![s][i] = None]
      /\ files' = files /\ rotations' = rotations /\ loaded' = loaded /\ reading' = reading /\ tokens' = tokens
    BY DEF ExpirePair
<1>2. KeysTypeOK'
    BY <1>1 DEF KeysTypeOK
<1>3. FilesLatest' /\ TokensSigned'
    BY <1>1 DEF FilesLatest, TokensSigned
<1>4. \A x \in Servers, j \in Slots : pairs'[x][j] = None \/ pairs'[x][j] = pairs[x][j]
    BY <1>1 DEF KeysTypeOK
<1>5. PairsKnown'
    BY <1>1, <1>4 DEF PairsKnown, Current
<1>6. HalvesKnown'
    BY <1>1, <1>4 DEF HalvesKnown, Current, KeysTypeOK
<1> QED BY <1>2, <1>3, <1>5, <1>6

\* The pair with the later certificate: the latest of all, or else the server has the pair that was not replaced.
LEMMA NewestKey ==
    ASSUME KeysInv, NEW s \in Servers, HasPairs(s)
    PROVE  /\ Newest(s) \in Slots
           /\ pairs[s][Newest(s)].key \in {rotations + 1, rotations + 2}
           /\ Fresh(s) => pairs[s][Newest(s)].key = rotations + 2
<1> USE DEF KeysInv
<1>1. \A i \in Slots : pairs[s][i] \in CertKeyPair /\ pairs[s][i].cert \in Nat /\ files[i].cert \in Nat /\ rotations \in Nat
    BY DEF HasPairs, KeysTypeOK, CertKeyPair, Numbers
<1>2. Newest(s) \in Slots /\ \A j \in Slots : pairs[s][Newest(s)].cert >= pairs[s][j].cert
    <2>1. \E i \in Slots : \A j \in Slots : pairs[s][i].cert >= pairs[s][j].cert
        BY <1>1 DEF Slots
    <2> QED BY <2>1 DEF Newest
<1>3. PICK n \in Slots : files[n].cert = rotations + 1
    BY <1>1 DEF FilesLatest, Slots
<1>4. PICK o \in Slots : files[o].cert = rotations + 2
    BY <1>1 DEF FilesLatest, Slots
<1>5. \A i \in Slots : i = n \/ i = o
    BY <1>3, <1>4, <1>1 DEF Slots
<1>6. pairs[s][n] = files[n]
    BY <1>1, <1>3 DEF HasPairs, PairsKnown, Current
<1>7. pairs[s][o] = files[o] \/ pairs[s][o].cert = rotations
    BY <1>4 DEF HasPairs, PairsKnown, Current
<1>8. CASE pairs[s][o] = files[o]
    <2>1. Newest(s) = o
        BY <1>1, <1>2, <1>3, <1>4, <1>5, <1>6, <1>8
    <2> QED BY <1>2, <1>4, <1>8, <2>1 DEF FilesLatest
<1>9. CASE pairs[s][o].cert = rotations
    <2>1. Newest(s) = n
        BY <1>1, <1>2, <1>3, <1>5, <1>6, <1>9
    <2>2. ~Fresh(s)
        BY <1>1, <1>4, <1>9 DEF Fresh, PairsKnown, HasPairs
    <2> QED BY <1>2, <1>3, <1>6, <2>1, <2>2 DEF FilesLatest
<1> QED BY <1>7, <1>8, <1>9

LEMMA EncodeInv ==
    ASSUME KeysInv, NEW s \in Servers, Encode(s)
    PROVE  KeysInv'
<1> USE DEF KeysInv
<1> DEFINE t == [key |-> pairs[s][Newest(s)].key, made |-> rotations, fresh |-> Fresh(s)]
<1>1. /\ tokens' = tokens \cup {t} /\ HasPairs(s)
      /\ files' = files /\ rotations' = rotations /\ pairs' = pairs /\ loaded' = loaded /\ reading' = reading
    BY DEF Encode
<1>2. t.made = rotations /\ t.key \in {rotations + 1, rotations + 2} /\ (t.fresh => t.key = rotations + 2)
    BY <1>1, NewestKey
<1>3. t \in [key : Numbers, made : 0..MaxRotations, fresh : BOOLEAN]
    <2>1. pairs[s][Newest(s)].key \in Numbers
        BY <1>1, NewestKey DEF KeysTypeOK, HasPairs, CertKeyPair
    <2>2. Fresh(s) \in BOOLEAN
        BY DEF Fresh, HasPairs
    <2> QED BY <2>1, <2>2 DEF KeysTypeOK
<1> HIDE DEF t
<1>4. KeysTypeOK'
    BY <1>1, <1>3 DEF KeysTypeOK
<1>5. TokensSigned'
    BY <1>1, <1>2 DEF TokensSigned, KeysTypeOK
<1>6. FilesLatest' /\ PairsKnown' /\ HalvesKnown'
    BY <1>1 DEF FilesLatest, PairsKnown, HalvesKnown, Current
<1> QED BY <1>4, <1>5, <1>6

LEMMA KeysInvImplies ==
    ASSUME KeysInv
    PROVE  TokenOutlivesRotation
<1> USE DEF KeysInv
<1> SUFFICES ASSUME NEW t \in tokens, t.made = rotations \/ (t.fresh /\ t.made + 1 = rotations)
             PROVE  /\ \E i \in Slots : files[i].key = t.key
                    /\ \A s \in Servers : Fresh(s) => Decodes(s, t)
    BY DEF TokenOutlivesRotation
<1>0. t.made \in Int /\ rotations \in Int
    BY DEF KeysTypeOK
<1>1. t.key \in {rotations + 1, rotations + 2}
    <2>1. t.key \in {t.made + 1, t.made + 2} /\ (t.fresh => t.key = t.made + 2)
        BY DEF TokensSigned
    <2> QED BY <1>0, <2>1
<1>2. PICK i \in Slots : files[i].key = t.key
    BY <1>1 DEF FilesLatest, Slots, KeysTypeOK
<1>3. \A s \in Servers : Fresh(s) => pairs[s][i] = files[i]
    BY DEF Fresh, HasPairs, PairsKnown
<1> QED BY <1>2, <1>3 DEF Decodes

\* A token is good until the next rotation, and until the one after it when its server knew the newest key, for any
\* number of servers and rotations, although a certificate and its key are two reads (CertificateStore).
THEOREM TokensOutliveRotations == KeysSpec => []TokenOutlivesRotation
<1>1. KeysInv /\ [KeysNext]_keyVars => KeysInv'
    <2> SUFFICES ASSUME KeysInv, [KeysNext]_keyVars PROVE KeysInv'
        OBVIOUS
    <2>1. CASE Rotate
        BY <2>1, RotateInv
    <2>2. ASSUME NEW s \in Servers, NEW i \in Slots, StartLoading(s, i) \/ ExpirePair(s, i)
          PROVE  KeysInv'
        BY <2>2, StartLoadingInv, ExpirePairInv
    <2>3. ASSUME NEW s \in Servers, EndLoading(s) \/ Encode(s)
          PROVE  KeysInv'
        BY <2>3, EndLoadingInv, EncodeInv
    <2>4. CASE UNCHANGED keyVars
        BY <2>4 DEF keyVars, KeysInv, KeysTypeOK, FilesLatest, PairsKnown, HalvesKnown, TokensSigned, Current
    <2> QED BY <2>1, <2>2, <2>3, <2>4 DEF KeysNext
<1> QED BY KeysStart, <1>1, KeysInvImplies, PTL DEF KeysSpec

-----------------------------------------------------------------------------
(* The onboarding of Google Cloud and Azure accounts.                      *)

\* What was stored while no import was at work, and not over credentials of Azure, is new and without a status ...
Plain == credentials # None /\ ~overlapped /\ ~(cloud = "azure" /\ reentered)

\* ... and all that is known of it since was found with its secret.
FoundWithSecret ==
    Plain =>
        /\ \A j \in Jobs : import[j] # None => import[j].secret = credentials.secret
        /\ \A j \in Jobs : import[j] # None /\ import[j].step = "create" => credentials.access # None
        /\ credentials.access # None => <<credentials.secret, credentials.access>> \in listed

\* Until something is known the pinger is at work or about to be: a crash costs it one of its turns.
Timely ==
    Plain /\ credentials.access = None =>
        IF import["pinger"] = None
        THEN importFaults < NewFor => clock <= credentials.created + importFaults /\ ~pinged
        ELSE importFaults + 1 < NewFor => clock <= credentials.created + importFaults + (IF pinged THEN 0 ELSE 1)

ImportsHaveCredentials == Importing => credentials # None

OnboardingInv == OnboardingTypeOK /\ ImportsHaveCredentials /\ FoundWithSecret /\ Timely

LEMMA OnboardingStart == OnboardingInit => OnboardingInv
<1> SUFFICES ASSUME OnboardingInit
             PROVE  OnboardingInv
    OBVIOUS
<1>1. OnboardingTypeOK
    <2>1. /\ clock \in 0..MaxHours /\ puts \in 0..MaxPuts /\ importFaults \in 0..MaxImportFaults
        BY OnboardingAssumption DEF OnboardingInit
    <2>2. import \in [Jobs -> Import \cup {None}]
        BY DEF OnboardingInit
    <2>3. pinged \in BOOLEAN /\ overlapped \in BOOLEAN /\ reentered \in BOOLEAN
        BY Zenon DEF OnboardingInit
    <2> QED BY <2>1, <2>2, <2>3 DEF OnboardingInit, OnboardingTypeOK
<1>2. credentials = None /\ \A j \in Jobs : import[j] = None
    BY DEF OnboardingInit
<1> QED BY <1>1, <1>2 DEF OnboardingInv, ImportsHaveCredentials, Importing, FoundWithSecret, Timely, Plain

\* The numbers of the invariant.
LEMMA OnboardingNumbers ==
    ASSUME OnboardingTypeOK
    PROVE  /\ NewFor \in Nat /\ OldAfter \in Nat /\ NewFor <= OldAfter /\ clock \in Nat /\ importFaults \in Nat
           /\ credentials # None => credentials.created \in Nat /\ credentials.secret \in ClientSecrets
BY OnboardingAssumption DEF OnboardingTypeOK, Credentials

LEMMA UpsertInv ==
    ASSUME OnboardingInv, Upsert
    PROVE  OnboardingInv'
<1> USE DEF OnboardingInv
<1>1. /\ putting \in ClientSecrets /\ credentials' = Restored(putting)
      /\ cloud' = cloud /\ import' = import /\ clock' = clock /\ importFaults' = importFaults /\ ~pinged'
      /\ overlapped' = Importing /\ reentered' = (credentials # None) /\ listed' = {}
    BY DEF Upsert, OnboardingTypeOK
<1>2. credentials' \in Credentials
    BY <1>1 DEF Restored, Stored, Credentials, OnboardingTypeOK
<1>3. OnboardingTypeOK'
    BY <1>1, <1>2 DEF OnboardingTypeOK, Upsert, Importing
<1>4. ImportsHaveCredentials'
    BY <1>2, ImportAssumption DEF ImportsHaveCredentials
<1>5. Plain' => /\ credentials' = Stored(putting) /\ \A j \in Jobs : import'[j] = None
    BY <1>1 DEF Plain, Restored, Importing
<1>6. FoundWithSecret'
    BY <1>5 DEF FoundWithSecret, Stored
<1>7. Timely'
    BY <1>1, <1>5, OnboardingNumbers DEF Timely, Stored, Jobs
<1> QED BY <1>3, <1>4, <1>6, <1>7

\* A job takes the credentials at hand.
LEMMA StartInv ==
    ASSUME OnboardingInv, NEW j \in Jobs, Start(j), credentials # None,
           cloud' = cloud, credentials' = credentials, overlapped' = overlapped, reentered' = reentered, listed' = listed
    PROVE  /\ import' \in [Jobs -> Import \cup {None}] /\ import'[j] # None
           /\ \A i \in Jobs : i # j => import'[i] = import[i]
           /\ ImportsHaveCredentials' /\ FoundWithSecret'
<1> USE DEF OnboardingInv
<1> DEFINE new == [secret |-> credentials.secret, step |-> "list", ok |-> FALSE]
<1>1. new \in Import
    BY DEF OnboardingTypeOK, Credentials, Import
<1>0. new # None
    BY <1>1, ImportAssumption
<1>2. import' = [import EXCEPT ![j] = new]
    BY DEF Start
<1>3. new.secret = credentials.secret /\ new.step # "create"
    OBVIOUS
<1> HIDE DEF new
<1>4. /\ import' \in [Jobs -> Import \cup {None}] /\ import'[j] = new
      /\ \A i \in Jobs : i # j => import'[i] = import[i]
    BY <1>1, <1>2 DEF OnboardingTypeOK
<1>5. ImportsHaveCredentials'
    BY DEF ImportsHaveCredentials, OnboardingTypeOK
<1>6. FoundWithSecret'
    BY <1>3, <1>4 DEF FoundWithSecret, Plain
<1> QED BY <1>0, <1>4, <1>5, <1>6

LEMMA PingInv ==
    ASSUME OnboardingInv, PingNew
    PROVE  OnboardingInv'
<1> USE DEF OnboardingInv
<1>1. /\ cloud' = cloud /\ credentials' = credentials /\ overlapped' = overlapped /\ reentered' = reentered
      /\ listed' = listed /\ clock' = clock /\ importFaults' = importFaults /\ pinged' /\ ~pinged
      /\ import["pinger"] = None /\ "pinger" \in Jobs
    BY DEF PingNew, onboardingHistory, Jobs
<1>2. CASE New
    <2>1. Start("pinger") /\ credentials # None
        BY <1>2 DEF PingNew, New
    <2>2. /\ import' \in [Jobs -> Import \cup {None}] /\ import'["pinger"] # None
          /\ ImportsHaveCredentials' /\ FoundWithSecret'
        BY <1>1, <2>1, StartInv
    <2>3. OnboardingTypeOK'
        BY <1>1, <2>2 DEF OnboardingTypeOK, PingNew, onboardingHistory
    <2>4. Timely'
        BY <1>1, <2>1, <2>2, OnboardingNumbers DEF Timely, Plain
    <2> QED BY <2>2, <2>3, <2>4
<1>3. CASE ~New
    <2>1. import' = import
        BY <1>3 DEF PingNew
    <2>2. OnboardingTypeOK'
        BY <1>1, <2>1 DEF OnboardingTypeOK, PingNew, onboardingHistory
    <2>3. ImportsHaveCredentials' /\ FoundWithSecret'
        BY <1>1, <2>1 DEF ImportsHaveCredentials, Importing, FoundWithSecret, Plain
    <2>4. Timely'
        BY <1>1, <1>3, <2>1, OnboardingNumbers DEF Timely, Plain, New
    <2> QED BY <2>2, <2>3, <2>4
<1> QED BY <1>2, <1>3

LEMMA HealthcheckInv ==
    ASSUME OnboardingInv, Healthcheck
    PROVE  OnboardingInv'
<1> USE DEF OnboardingInv
<1>1. /\ cloud' = cloud /\ credentials' = credentials /\ overlapped' = overlapped /\ reentered' = reentered
      /\ listed' = listed /\ clock' = clock /\ importFaults' = importFaults /\ pinged' = pinged
      /\ Start("healthcheck") /\ credentials # None /\ "healthcheck" \in Jobs
    BY DEF Healthcheck, Aged, onboardingHistory, Jobs
<1>2. /\ import' \in [Jobs -> Import \cup {None}] /\ import'["pinger"] = import["pinger"]
      /\ ImportsHaveCredentials' /\ FoundWithSecret'
    BY <1>1, StartInv DEF Jobs
<1>3. OnboardingTypeOK'
    BY <1>1, <1>2 DEF OnboardingTypeOK, Healthcheck, onboardingHistory
<1>4. Timely'
    BY <1>1, <1>2 DEF Timely, Plain
<1> QED BY <1>2, <1>3, <1>4

LEMMA ListInv ==
    ASSUME OnboardingInv, NEW j \in Jobs, ListProjects(j)
    PROVE  OnboardingInv'
<1> USE DEF OnboardingInv
<1>1. /\ cloud' = cloud /\ credentials' = credentials /\ overlapped' = overlapped /\ reentered' = reentered
      /\ listed' = listed /\ clock' = clock /\ importFaults' = importFaults /\ pinged' = pinged
      /\ import[j] \in Import /\ import[j] # None
    BY DEF ListProjects, At, onboardingHistory, OnboardingTypeOK
<1> DEFINE ok == import[j].secret \in accepted
           new == [import[j] EXCEPT !.step = "mark", !.ok = ok]
<1>9. ok \in BOOLEAN
    <2>1. CASE import[j].secret \in accepted BY <2>1
    <2>2. CASE import[j].secret \notin accepted BY <2>2
    <2> QED BY <2>1, <2>2
<1>3. import' = [import EXCEPT ![j] = new]
    BY DEF ListProjects
<1> HIDE DEF ok
<1>2. new \in Import /\ new.secret = import[j].secret /\ new.step # "create"
    BY <1>1, <1>9 DEF Import
<1>0. new # None
    BY <1>2, ImportAssumption
<1> HIDE DEF new
<1>4. /\ import' \in [Jobs -> Import \cup {None}] /\ import'[j] = new
      /\ \A i \in Jobs : i # j => import'[i] = import[i]
    BY <1>2, <1>3 DEF OnboardingTypeOK
<1>5. OnboardingTypeOK'
    BY <1>1, <1>4 DEF OnboardingTypeOK, ListProjects, onboardingHistory
<1>6. ImportsHaveCredentials'
    BY <1>1 DEF ImportsHaveCredentials, Importing
<1>7. FoundWithSecret'
    BY <1>0, <1>1, <1>2, <1>4 DEF FoundWithSecret, Plain
<1>8. Timely'
    BY <1>0, <1>1, <1>2, <1>4 DEF Timely, Plain, Jobs
<1> QED BY <1>5, <1>6, <1>7, <1>8

LEMMA UpdateStatusInv ==
    ASSUME OnboardingInv, NEW j \in Jobs, UpdateStatus(j)
    PROVE  OnboardingInv'
<1> USE DEF OnboardingInv
<1>1. /\ cloud' = cloud /\ overlapped' = overlapped /\ reentered' = reentered
      /\ clock' = clock /\ importFaults' = importFaults /\ pinged' = pinged
      /\ import[j] \in Import /\ import[j] # None /\ import[j].ok \in BOOLEAN
      /\ listed' = listed \cup {<<import[j].secret, import[j].ok>>}
    BY DEF UpdateStatus, At, onboardingHistory, OnboardingTypeOK, Import
<1>2. credentials \in Credentials /\ credentials # None
    BY <1>1, ImportAssumption DEF ImportsHaveCredentials, Importing, OnboardingTypeOK
<1>3. /\ credentials' = [credentials EXCEPT !.access = import[j].ok] /\ credentials' \in Credentials
      /\ credentials'.access = import[j].ok /\ credentials'.secret = credentials.secret
      /\ credentials'.created = credentials.created
    BY <1>1, <1>2 DEF UpdateStatus, Credentials
<1>4. credentials'.access # None
    BY <1>1, <1>3, AbsentAssumption
<1> DEFINE new == IF import[j].ok THEN [import[j] EXCEPT !.step = "create"] ELSE None
<1>5. new \in Import \cup {None} /\ (new # None => new.secret = import[j].secret)
    BY <1>1 DEF Import
<1>6. import' = [import EXCEPT ![j] = new]
    BY DEF UpdateStatus
<1> HIDE DEF new
<1>7. /\ import' \in [Jobs -> Import \cup {None}] /\ import'[j] = new
      /\ \A i \in Jobs : i # j => import'[i] = import[i]
    BY <1>5, <1>6 DEF OnboardingTypeOK
<1>8. <<import[j].secret, import[j].ok>> \in ClientSecrets \X BOOLEAN
    BY <1>1 DEF Import
<1>9. OnboardingTypeOK'
    BY <1>1, <1>3, <1>7, <1>8 DEF OnboardingTypeOK, UpdateStatus
<1>10. ImportsHaveCredentials'
    BY <1>3, ImportAssumption DEF ImportsHaveCredentials
<1>11. FoundWithSecret'
    <2> SUFFICES ASSUME Plain'
                 PROVE  /\ \A i \in Jobs : import'[i] # None => import'[i].secret = credentials'.secret
                        /\ <<credentials'.secret, credentials'.access>> \in listed'
        BY <1>4 DEF FoundWithSecret
    <2>1. credentials # None
        BY <1>2
    <2>2. \A i \in Jobs : import[i] # None => import[i].secret = credentials.secret
        BY <1>1, <2>1 DEF FoundWithSecret, Plain
    <2>3. \A i \in Jobs : import'[i] # None => import'[i].secret = credentials'.secret
        BY <1>1, <1>3, <1>5, <1>7, <2>2
    <2>4. <<credentials'.secret, credentials'.access>> = <<import[j].secret, import[j].ok>>
        BY <1>1, <1>3, <2>2
    <2> QED BY <1>1, <2>3, <2>4
<1>12. Timely'
    BY <1>4 DEF Timely
<1> QED BY <1>9, <1>10, <1>11, <1>12

LEMMA UpdateAccountsInv ==
    ASSUME OnboardingInv, NEW j \in Jobs, UpdateCloudAccounts(j)
    PROVE  OnboardingInv'
<1> USE DEF OnboardingInv
<1>1. /\ cloud' = cloud /\ credentials' = credentials /\ overlapped' = overlapped /\ reentered' = reentered
      /\ listed' = listed /\ clock' = clock /\ importFaults' = importFaults /\ pinged' = pinged
      /\ import[j] # None /\ import[j].step = "create"
    BY DEF UpdateCloudAccounts, At, onboardingHistory
<1>2. /\ import' \in [Jobs -> Import \cup {None}] /\ import'[j] = None
      /\ \A i \in Jobs : i # j => import'[i] = import[i]
    BY DEF UpdateCloudAccounts, OnboardingTypeOK
<1>3. OnboardingTypeOK'
    BY <1>1, <1>2 DEF OnboardingTypeOK, UpdateCloudAccounts, onboardingHistory
<1>4. ImportsHaveCredentials'
    BY <1>1, <1>2 DEF ImportsHaveCredentials, Importing
<1>5. FoundWithSecret'
    BY <1>1, <1>2 DEF FoundWithSecret, Plain
<1>6. Timely'
    <2>1. Plain => credentials.access # None
        BY <1>1 DEF FoundWithSecret
    <2> QED BY <1>1, <2>1 DEF Timely, Plain
<1> QED BY <1>3, <1>4, <1>5, <1>6

LEMMA RevokeInv ==
    ASSUME OnboardingInv, NEW s \in ClientSecrets, Revoke(s)
    PROVE  OnboardingInv'
<1> USE DEF OnboardingInv
<1>1. /\ cloud' = cloud /\ credentials' = credentials /\ overlapped' = overlapped /\ reentered' = reentered
      /\ listed' = listed /\ clock' = clock /\ importFaults' = importFaults + 1 /\ pinged' = pinged /\ import' = import
      /\ importFaults' \in 0..MaxImportFaults
    BY OnboardingAssumption DEF Revoke, ImportFault, onboardingHistory, OnboardingTypeOK
<1>2. OnboardingTypeOK'
    BY <1>1 DEF OnboardingTypeOK, Revoke, onboardingHistory
<1>3. ImportsHaveCredentials' /\ FoundWithSecret'
    BY <1>1 DEF ImportsHaveCredentials, Importing, FoundWithSecret, Plain
<1>4. Timely'
    BY <1>1, OnboardingNumbers DEF Timely, Plain
<1> QED BY <1>2, <1>3, <1>4

LEMMA CrashImportInv ==
    ASSUME OnboardingInv, CrashImport
    PROVE  OnboardingInv'
<1> USE DEF OnboardingInv
<1>1. /\ cloud' = cloud /\ credentials' = credentials /\ overlapped' = overlapped /\ reentered' = reentered
      /\ listed' = listed /\ clock' = clock /\ importFaults' = importFaults + 1 /\ ~pinged'
      /\ import' = [j \in Jobs |-> None] /\ \A j \in Jobs : import'[j] = None
      /\ importFaults' \in 0..MaxImportFaults
    BY OnboardingAssumption DEF CrashImport, ImportFault, onboardingHistory, OnboardingTypeOK
<1>2. OnboardingTypeOK'
    BY <1>1 DEF OnboardingTypeOK, CrashImport, onboardingHistory
<1>3. ImportsHaveCredentials' /\ FoundWithSecret'
    BY <1>1 DEF ImportsHaveCredentials, Importing, FoundWithSecret, Plain
<1>4. Timely'
    BY <1>1, OnboardingNumbers DEF Timely, Plain, Jobs
<1> QED BY <1>2, <1>3, <1>4

LEMMA TickOnboardingInv ==
    ASSUME OnboardingInv, TickOnboarding
    PROVE  OnboardingInv'
<1> USE DEF OnboardingInv
<1>1. /\ cloud' = cloud /\ credentials' = credentials /\ overlapped' = overlapped /\ reentered' = reentered
      /\ listed' = listed /\ clock' = clock + 1 /\ importFaults' = importFaults /\ ~pinged' /\ import' = import
      /\ clock' \in 0..MaxHours /\ (New => pinged)
    BY OnboardingAssumption DEF TickOnboarding, onboardingHistory, OnboardingTypeOK
<1>2. OnboardingTypeOK'
    BY <1>1 DEF OnboardingTypeOK, TickOnboarding, onboardingHistory
<1>3. ImportsHaveCredentials' /\ FoundWithSecret'
    BY <1>1 DEF ImportsHaveCredentials, Importing, FoundWithSecret, Plain
<1>4. Timely'
    BY <1>1, OnboardingNumbers DEF Timely, Plain, New
<1> QED BY <1>2, <1>3, <1>4

\* The requests and the pages of a user touch neither the row nor the jobs.
LEMMA RequestInv ==
    ASSUME OnboardingInv, OnboardingTypeOK',
           UNCHANGED <<cloud, credentials, import, pinged, onboardingHistory, clock, importFaults>>
    PROVE  OnboardingInv'
BY DEF OnboardingInv, ImportsHaveCredentials, Importing, FoundWithSecret, Timely, Plain, onboardingHistory

LEMMA RequestTypes ==
    ASSUME OnboardingTypeOK,
           \/ \E s \in ClientSecrets : CheckCredentials(s) \/ CreateAppRegistration(s)
           \/ \E n \in 0..2 : AzureStep(n)
    PROVE  /\ OnboardingTypeOK'
           /\ UNCHANGED <<cloud, credentials, import, pinged, onboardingHistory, clock, importFaults>>
BY OnboardingAssumption
   DEF OnboardingTypeOK, CheckCredentials, CreateAppRegistration, AzureStep, onboardingHistory

LEMMA OnboardingStep == OnboardingInv /\ [OnboardingNext]_onboardingVars => OnboardingInv'
<1> SUFFICES ASSUME OnboardingInv, [OnboardingNext]_onboardingVars
             PROVE  OnboardingInv'
    OBVIOUS
<1>1. CASE Upsert BY <1>1, UpsertInv
<1>2. CASE PingNew BY <1>2, PingInv
<1>3. CASE Healthcheck BY <1>3, HealthcheckInv
<1>4. CASE CrashImport BY <1>4, CrashImportInv
<1>5. CASE TickOnboarding BY <1>5, TickOnboardingInv
<1>6. CASE \E j \in Jobs : ListProjects(j) BY <1>6, ListInv
<1>7. CASE \E j \in Jobs : UpdateStatus(j) BY <1>7, UpdateStatusInv
<1>8. CASE \E j \in Jobs : UpdateCloudAccounts(j) BY <1>8, UpdateAccountsInv
<1>9. CASE \E s \in ClientSecrets : Revoke(s) BY <1>9, RevokeInv
<1>10. CASE \/ \E s \in ClientSecrets : CheckCredentials(s) \/ CreateAppRegistration(s)
            \/ \E n \in 0..2 : AzureStep(n)
    BY <1>10, RequestTypes, RequestInv DEF OnboardingInv
<1>11. CASE UNCHANGED onboardingVars
    BY <1>11 DEF onboardingVars, onboardingHistory, OnboardingInv, OnboardingTypeOK, ImportsHaveCredentials, Importing,
       FoundWithSecret, Timely, Plain
<1> QED BY <1>1, <1>2, <1>3, <1>4, <1>5, <1>6, <1>7, <1>8, <1>9, <1>10, <1>11 DEF OnboardingNext

LEMMA OnboardingImplied == OnboardingInv => StatusIsOfTheKey
<1> SUFFICES ASSUME OnboardingInv, Plain, ~New, ~Importing, importFaults < NewFor
             PROVE  <<credentials.secret, credentials.access>> \in listed
    BY DEF StatusIsOfTheKey, Plain
<1>1. import["pinger"] = None
    BY DEF Importing, Jobs
<1>2. credentials.access # None
    BY <1>1, OnboardingNumbers DEF OnboardingInv, Timely, New, Plain
<1> QED BY <1>2 DEF OnboardingInv, FoundWithSecret

\* The import jobs of GCP and Azure write what they found of the secret they read (update_status), and upsert clears the
\* status with the secret: credentials that are not new carry a status that was found with the secret they hold, for any
\* number of secrets, puts and hours. Left out are credentials that changed beside an import, those of Azure that
\* were stored again, and a process that dies as often as the pinger has its turn while they are new.
THEOREM StatusIsFound == OnboardingSpec => []StatusIsOfTheKey
<1>1. OnboardingSpec => []OnboardingInv
    BY OnboardingStart, OnboardingStep, PTL DEF OnboardingSpec
<1> QED BY <1>1, OnboardingImplied, PTL

-----------------------------------------------------------------------------
(* The analytics events.                                                   *)

-----------------------------------------------------------------------------
(* Batches.                                                                *)

LEMMA RangeOfAppend ==
    ASSUME NEW S, NEW s \in Seq(S), NEW e \in S
    PROVE  Append(s, e) \in Seq(S) /\ Range(Append(s, e)) = Range(s) \cup {e}
<1>1. /\ Append(s, e) \in Seq(S) /\ Len(Append(s, e)) = Len(s) + 1 /\ Append(s, e)[Len(s) + 1] = e
      /\ \A i \in 1..Len(s) : Append(s, e)[i] = s[i]
    BY AppendProperties
<1>2. /\ DOMAIN Append(s, e) = 1..(Len(s) + 1) /\ DOMAIN s = 1..Len(s) /\ Len(s) \in Nat
    BY <1>1
<1>3. \A i \in 1..(Len(s) + 1) : i \in 1..Len(s) \/ i = Len(s) + 1
    BY <1>2
<1>4. Len(s) + 1 \in 1..(Len(s) + 1) /\ 1..Len(s) \subseteq 1..(Len(s) + 1)
    BY <1>2
<1> HIDE DEF Range
<1>5. Range(Append(s, e)) \subseteq Range(s) \cup {e}
    BY <1>1, <1>2, <1>3 DEF Range
<1>6. Range(s) \cup {e} \subseteq Range(Append(s, e))
    BY <1>1, <1>2, <1>4 DEF Range
<1> QED BY <1>1, <1>5, <1>6

\* What the range of a sequence is made of.
LEMMA InRange ==
    ASSUME NEW S, NEW s \in Seq(S)
    PROVE  /\ Range(s) \subseteq S
           /\ \A x : x \in Range(s) <=> \E i \in 1..Len(s) : s[i] = x
BY DEF Range

\* The batch of place k is the records from there on, as many as a batch has.
LEMMA BatchRange ==
    ASSUME NEW s \in Seq(Facts), NEW k \in Nat
    PROVE  /\ BatchFrom(s, k * Batch) \in Seq(Facts)
           /\ \A x : x \in Range(BatchFrom(s, k * Batch))
                     <=> \E i \in 1..Len(s) : k * Batch < i /\ i <= k * Batch + Batch /\ s[i] = x
<1> DEFINE at == k * Batch
           to == Least(at + Batch, Len(s))
<1>1. Batch \in Nat \ {0} /\ at \in Nat /\ Len(s) \in Nat
    BY AnalyticsAssumption
<1> HIDE DEF at
<1>2. /\ to \in Nat /\ to <= at + Batch /\ to <= Len(s)
      /\ \A i \in Int : i <= at + Batch /\ i <= Len(s) => i <= to
    BY <1>1 DEF Least
<1> HIDE DEF to
<1> DEFINE b == SubSeq(s, at + 1, to)
<1>3. \A i \in (at + 1)..to : s[i] \in Facts
    BY <1>1, <1>2
<1>4. /\ b \in Seq(Facts) /\ Len(b) = (IF at + 1 <= to THEN to - (at + 1) + 1 ELSE 0)
      /\ \A i \in 1..(to - (at + 1) + 1) : b[i] = s[(at + 1) + i - 1]
    BY <1>1, <1>2, <1>3, SubSeqProperties
<1> HIDE DEF b
<1>5. BatchFrom(s, at) = b
    BY DEF BatchFrom, b, to
<1>6. ASSUME NEW x, x \in Range(b)
      PROVE  \E i \in 1..Len(s) : at < i /\ i <= at + Batch /\ s[i] = x
    <2>1. PICK j \in 1..Len(b) : b[j] = x
        BY <1>4, <1>6, InRange
    <2>0. at + 1 <= to /\ Len(b) = to - (at + 1) + 1
        BY <1>1, <1>2, <1>4, <2>1
    <2>2. j \in 1..(to - (at + 1) + 1) /\ at + j \in 1..Len(s) /\ at + j <= at + Batch /\ at < at + j
        BY <1>1, <1>2, <2>0, <2>1
    <2>3. (at + 1) + j - 1 = at + j
        BY <1>1, <2>2
    <2> QED BY <1>4, <2>1, <2>2, <2>3
<1>7. ASSUME NEW i \in 1..Len(s), at < i, i <= at + Batch
      PROVE  s[i] \in Range(b)
    <2>1. i <= to /\ i - at \in 1..Len(b) /\ i - at \in 1..(to - (at + 1) + 1) /\ (at + 1) + (i - at) - 1 = i
        BY <1>1, <1>2, <1>4, <1>7
    <2>2. b[i - at] = s[i]
        BY <1>4, <2>1
    <2> QED BY <1>4, <2>1, <2>2, InRange
<1> QED BY <1>4, <1>5, <1>6, <1>7 DEF at

\* Division finds the batch of a record, and it is the only one.
LEMMA BatchOf ==
    ASSUME NEW i \in Nat \ {0}, NEW n \in Nat, i <= n
    PROVE  LET k == (i - 1) \div Batch
           IN  k \in 0..((n - 1) \div Batch) /\ k \in Nat /\ k * Batch < i /\ i <= k * Batch + Batch
<1>1. Batch \in Nat \ {0} /\ i - 1 \in Nat /\ n - 1 \in Nat /\ i - 1 <= n - 1
    BY AnalyticsAssumption
<1>2. \A a \in Nat, b \in Nat \ {0} : a \div b \in Nat /\ (a \div b) * b <= a /\ a < (a \div b) * b + b
    OBVIOUS
<1>3. \A a \in Nat, c \in Nat, b \in Nat \ {0} : a <= c => a \div b <= c \div b
    OBVIOUS
<1> DEFINE k == (i - 1) \div Batch
           m == (n - 1) \div Batch
<1>4. k \in Nat /\ m \in Nat /\ k <= m /\ k * Batch <= i - 1 /\ i - 1 < k * Batch + Batch
    BY <1>1, <1>2, <1>3
<1> HIDE DEF k, m
<1>5. k \in 0..m /\ k * Batch < i /\ i <= k * Batch + Batch
    BY <1>1, <1>4
<1> QED BY <1>4, <1>5 DEF k, m

LEMMA BatchUnique ==
    ASSUME NEW j \in Nat, NEW k \in Nat, NEW i \in Int,
           j * Batch < i, i <= j * Batch + Batch, k * Batch < i, i <= k * Batch + Batch
    PROVE  j = k
<1>1. Batch \in Nat \ {0}
    BY AnalyticsAssumption
<1> QED BY <1>1

\* A request to Google has a batch of the records that were taken.
LEMMA PostsAre ==
    ASSUME NEW s \in Seq(Facts), NEW p \in PostsOf(s)
    PROVE  \E k \in Nat, u \in Authors(s) : p = [client |-> u, records |-> BatchFrom(s, k * Batch)]
<1> DEFINE n(u) == Cardinality({i \in DOMAIN s : author[s[i]] = u})
<1>1. PICK u \in Authors(s) : p \in {[client |-> u, records |-> BatchFrom(s, k * Batch)] : k \in 0..((n(u) - 1) \div Batch)}
    BY DEF PostsOf
<1>2. PICK k \in 0..((n(u) - 1) \div Batch) : p = [client |-> u, records |-> BatchFrom(s, k * Batch)]
    BY <1>1
<1>3. n(u) \in Nat
    <2>1. DOMAIN s = 1..Len(s) /\ Len(s) \in Nat
        OBVIOUS
    <2>2. IsFiniteSet(1..Len(s))
        BY <2>1, FS_Interval
    <2>3. IsFiniteSet({i \in DOMAIN s : author[s[i]] = u})
        BY <2>1, <2>2, FS_Subset
    <2> QED BY <2>3, FS_CardinalityType
<1> HIDE DEF n
<1>4. (n(u) - 1) \div Batch \in Int
    BY <1>3, AnalyticsAssumption
<1>5. k \in Nat
    BY <1>2, <1>4
<1> QED BY <1>2, <1>5

\* When the records are of one user, the requests have them all.
LEMMA PostsHaveAll ==
    ASSUME author \in [Facts -> Visitors], NEW s \in Seq(Facts), ~(Cardinality(Authors(s)) > 1), NEW f \in Range(s)
    PROVE  /\ f \in RecordsOf(PostsOf(s))
           /\ \A g \in Range(s) : author[g] = author[f]
<1>1. DOMAIN s = 1..Len(s) /\ Len(s) \in Nat /\ Range(s) \subseteq Facts
    BY InRange
<1>2. \A g \in Range(s) : author[g] = author[f]
    <2> DEFINE of == [i \in DOMAIN s |-> author[s[i]]]
    <2>1. of \in Surjection(DOMAIN s, Authors(s))
        BY DEF Surjection, Authors, Range
    <2>2. IsFiniteSet(DOMAIN s)
        BY <1>1, FS_Interval
    <2>3. IsFiniteSet(Authors(s)) /\ Cardinality(Authors(s)) \in Nat
        BY <2>1, <2>2, FS_Surjection, FS_CardinalityType
    <2>4. Cardinality(Authors(s)) \in {0, 1}
        BY <2>3
    <2>5. author[f] \in Authors(s)
        BY DEF Authors
    <2>6. \E x : Authors(s) = {x}
        BY <2>3, <2>4, <2>5, FS_EmptySet, FS_Singleton
    <2> QED BY <2>6 DEF Authors
<1>3. PICK i \in 1..Len(s) : s[i] = f
    BY InRange
<1> DEFINE u == author[f]
           k == (i - 1) \div Batch
           p == [client |-> u, records |-> BatchFrom(s, k * Batch)]
<1>4. \A j \in DOMAIN s : author[s[j]] = u
    BY <1>1, <1>2 DEF Range
<1>5. {j \in DOMAIN s : author[s[j]] = u} = 1..Len(s)
    BY <1>1, <1>4
<1>6. Cardinality(1..Len(s)) = Len(s)
    BY <1>1, <1>3, FS_Interval
<1>7. /\ k \in 0..((Len(s) - 1) \div Batch) /\ k \in Nat /\ k * Batch < i /\ i <= k * Batch + Batch
    BY <1>1, <1>3, BatchOf
<1>8. p \in PostsOf(s)
    <2>1. u \in Authors(s)
        BY DEF Authors
    <2> DEFINE n(v) == Cardinality({j \in DOMAIN s : author[s[j]] = v})
               batches(v) == {[client |-> v, records |-> BatchFrom(s, m * Batch)] : m \in 0..((n(v) - 1) \div Batch)}
    <2>2. PostsOf(s) = UNION {batches(v) : v \in Authors(s)}
        BY DEF PostsOf
    <2>3. n(u) = Len(s)
        BY <1>5, <1>6
    <2> HIDE DEF n, k, u
    <2>4. p \in batches(u)
        BY <1>7, <2>3
    <2> HIDE DEF batches
    <2> QED BY <2>1, <2>2, <2>4
<1>9. f \in Range(p.records)
    <2> HIDE DEF k
    <2> QED BY <1>3, <1>7, BatchRange
<1> QED BY <1>2, <1>8, <1>9 DEF RecordsOf

-----------------------------------------------------------------------------
(* The invariant.                                                          *)

RecordsTyped ==
    /\ author \in [Facts -> Visitors] /\ unread \subseteq Facts
    /\ hand \in [Hands -> Handling \cup {None}]
    /\ googleEvents \in Seq(Facts) /\ posthogEvents \in Seq(Facts)
    /\ posts \subseteq [client : Visitors, records : Seq(Facts)]
    /\ process \in {"up", "last", "draining"}
    /\ reported \in [Facts -> Nat] /\ analyticsFaults \in Nat

\* A fact is worked on until it is done with, by its own hand.
HandsApart ==
    \A h \in Hands : hand[h] # None => hand[h].fact \in unread /\ (hand[h].fact \in Opened <=> h = "request")

Kept(f, steps) == \E h \in Hands : hand[h] # None /\ hand[h].fact = f /\ hand[h].at \in steps

\* The facts that this process, or one before it, has given to the sender for Google, and to the one for PostHog.
ToGoogle(f) == f \notin unread \/ Kept(f, {"posthog", "full", "end"})
ToPostHog(f) == f \notin unread \/ Kept(f, {"full", "end"})

PostHogHasIt == \A f \in Facts : ToPostHog(f) => f \in captured \cup Range(posthogEvents) \cup lost

GoogleHasIt ==
    \A f \in Facts : ToGoogle(f) =>
        f \in dropped \cup mixed \/ reported[f] > 0 \/ f \in Range(googleEvents) \cup RecordsOf(posts)

\* A request is for the user of its records, unless they were mixed.
PostsFit == \A p \in posts : \A f \in Range(p.records) : author[f] = p.client \/ f \in mixed

\* A record waits in one place only.
WaitsOnce ==
    /\ \A i, j \in 1..Len(googleEvents) : googleEvents[i] = googleEvents[j] => i = j
    /\ \A f \in Range(googleEvents) : ToGoogle(f)
    /\ \A p \in posts : \A f \in Range(p.records) : ToGoogle(f) /\ f \notin Range(googleEvents)
    /\ \A p, q \in posts : \A f \in Range(p.records) \cap Range(q.records) : p.client = q.client => p = q

\* A record that will be reported, if all goes well.
Pending(f) == f \in Range(googleEvents) \/ \E p \in posts : f \in Range(p.records) /\ p.client = author[f]

\* Each process reports it once; one that stops is a fault that has been counted.
ReportedInTime ==
    \A f \in Facts :
        reported[f] + (IF Pending(f) THEN 1 ELSE 0) + (IF process = "up" THEN 0 ELSE 1)
            <= analyticsFaults + (IF ToGoogle(f) THEN 1 ELSE 0)

AnalyticsInv ==
    RecordsTyped /\ HandsApart /\ PostHogHasIt /\ GoogleHasIt /\ PostsFit /\ WaitsOnce /\ ReportedInTime

LEMMA AnalyticsStart == AnalyticsInit => AnalyticsInv
<1> SUFFICES ASSUME AnalyticsInit
             PROVE  AnalyticsInv
    OBVIOUS
<1>1. /\ hand = [h \in Hands |-> None] /\ googleEvents = <<>> /\ posthogEvents = <<>> /\ posts = {}
      /\ unread = Facts /\ reported = [f \in Facts |-> 0] /\ analyticsFaults = 0 /\ process = "up"
      /\ author \in [Facts -> Visitors]
    BY DEF AnalyticsInit, Attributions
<1>2. RecordsTyped
    BY <1>1 DEF RecordsTyped
<1>3. Range(googleEvents) = {} /\ Len(googleEvents) = 0 /\ \A h \in Hands : hand[h] = None
    BY <1>1 DEF Range
<1>4. \A f \in Facts : ~ToGoogle(f) /\ ~ToPostHog(f) /\ ~Pending(f) /\ reported[f] = 0
    BY <1>1, <1>3 DEF ToGoogle, ToPostHog, Kept, Pending
<1> QED BY <1>1, <1>2, <1>3, <1>4
        DEF AnalyticsInv, HandsApart, PostHogHasIt, GoogleHasIt, PostsFit, WaitsOnce, ReportedInTime

\* What the invariant says of the bound of the reports.
LEMMA AnalyticsImplied == AnalyticsInv => EachRecordOnce
<1> SUFFICES ASSUME AnalyticsInv, NEW f \in Facts
             PROVE  /\ f \notin unread => f \in captured \cup Range(posthogEvents) \cup lost
                    /\ f \notin unread \cup dropped \cup mixed
                         => reported[f] > 0 \/ f \in Range(googleEvents) \cup RecordsOf(posts)
                    /\ reported[f] <= 1 + analyticsFaults
    BY DEF EachRecordOnce
<1> USE DEF AnalyticsInv
<1>1. f \notin unread => ToGoogle(f) /\ ToPostHog(f)
    BY DEF ToGoogle, ToPostHog
<1>2. reported[f] \in Nat /\ analyticsFaults \in Nat
    BY DEF RecordsTyped
<1>3. reported[f] <= 1 + analyticsFaults
    BY <1>2 DEF ReportedInTime
<1> QED BY <1>1, <1>3 DEF PostHogHasIt, GoogleHasIt

-----------------------------------------------------------------------------
(* Hands.                                                                  *)

\* What a record has gone through depends on the hands and on what is not read yet.
LEMMA HandsKeep ==
    ASSUME UNCHANGED <<hand, unread>>
    PROVE  \A f : (ToGoogle(f)' <=> ToGoogle(f)) /\ (ToPostHog(f)' <=> ToPostHog(f))
BY DEF ToGoogle, ToPostHog, Kept

LEMMA TakeFact ==
    ASSUME RecordsTyped, HandsApart, NEW f \in Facts, NEW h \in Hands, Report(f, h), f \in Opened <=> h = "request"
    PROVE  /\ hand' \in [Hands -> Handling \cup {None}] /\ HandsApart'
           /\ \A g : (ToGoogle(g)' <=> ToGoogle(g)) /\ (ToPostHog(g)' <=> ToPostHog(g))
<1> DEFINE new == [fact |-> f, at |-> "google"]
<1>1. new \in Handling /\ new.fact = f /\ new.at = "google"
    BY DEF Handling
<1>2. hand' = [hand EXCEPT ![h] = new] /\ hand[h] = None /\ unread' = unread /\ f \in unread
    BY DEF Report
<1> HIDE DEF new
<1>3. /\ hand' \in [Hands -> Handling \cup {None}] /\ hand'[h] = new
      /\ \A i \in Hands : i # h => hand'[i] = hand[i]
    BY <1>1, <1>2 DEF RecordsTyped
<1>4. HandsApart'
    BY <1>1, <1>2, <1>3 DEF HandsApart
<1>5. \A g : Kept(g, {"posthog", "full", "end"})' <=> Kept(g, {"posthog", "full", "end"})
    BY <1>1, <1>2, <1>3 DEF Kept
<1>6. \A g : Kept(g, {"full", "end"})' <=> Kept(g, {"full", "end"})
    BY <1>1, <1>2, <1>3 DEF Kept
<1> QED BY <1>2, <1>3, <1>4, <1>5, <1>6 DEF ToGoogle, ToPostHog

\* A hand goes on to its next step.
LEMMA HandGoesOn ==
    ASSUME RecordsTyped, HandsApart, NEW h \in Hands, hand[h] # None, NEW f, hand[h].fact = f,
           NEW step \in {"posthog", "full", "end"},
           GoOn(h, step), unread' = unread
    PROVE  /\ hand' \in [Hands -> Handling \cup {None}] /\ HandsApart'
           /\ f \in Facts /\ f \in unread
           /\ \A i \in Hands : i # h /\ hand[i] # None => hand[i].fact # f
           /\ ToGoogle(f)' /\ (step # "posthog" => ToPostHog(f)')
           /\ \A g : g # f => (ToGoogle(g)' <=> ToGoogle(g)) /\ (ToPostHog(g)' <=> ToPostHog(g))
           /\ step = "posthog" /\ hand[h].at = "google" => ~ToPostHog(f)'
<1> DEFINE new == [hand[h] EXCEPT !.at = step]
<1>0. hand[h] \in Handling
    BY DEF RecordsTyped
<1>1. hand[h] \in Handling /\ new \in Handling /\ new.fact = f /\ new.at = step
    BY <1>0 DEF Handling
<1>2. new # None
    BY <1>1, HandlingAssumption
<1>3. hand' = [hand EXCEPT ![h] = new]
    BY DEF GoOn
<1> HIDE DEF new
<1>4. /\ hand' \in [Hands -> Handling \cup {None}] /\ hand'[h] = new
      /\ \A i \in Hands : i # h => hand'[i] = hand[i]
    BY <1>1, <1>3 DEF RecordsTyped
<1>5. HandsApart'
    BY <1>1, <1>4 DEF HandsApart
<1>6. \A i \in Hands : i # h /\ hand[i] # None => hand[i].fact # f
    BY DEF HandsApart, Hands
<1>7. f \in Facts /\ f \in unread
    BY <1>1 DEF HandsApart, Handling
<1>8. ASSUME NEW g, g # f, NEW steps
      PROVE  Kept(g, steps)' <=> Kept(g, steps)
    BY <1>1, <1>4, <1>8 DEF Kept
<1>9. \A g : g # f => (ToGoogle(g)' <=> ToGoogle(g)) /\ (ToPostHog(g)' <=> ToPostHog(g))
    BY <1>8 DEF ToGoogle, ToPostHog
<1>10. ToGoogle(f)' /\ (step # "posthog" => ToPostHog(f)')
    BY <1>1, <1>2, <1>4 DEF ToGoogle, ToPostHog, Kept
<1>11. step = "posthog" => ~ToPostHog(f)'
    BY <1>1, <1>4, <1>6, <1>7 DEF ToPostHog, Kept
<1> QED BY <1>4, <1>5, <1>6, <1>7, <1>9, <1>10, <1>11

\* Before a hand has come to the senders, its fact has not.
LEMMA NotYet ==
    ASSUME RecordsTyped, HandsApart, NEW h \in Hands, hand[h] # None
    PROVE  /\ hand[h].at = "google" => ~ToGoogle(hand[h].fact)
           /\ hand[h].at \in {"posthog", "full", "end"} => ToGoogle(hand[h].fact)
           /\ hand[h].at \in {"full", "end"} => ToPostHog(hand[h].fact)
<1>1. hand[h].fact \in unread /\ \A i \in Hands : i # h /\ hand[i] # None => hand[i].fact # hand[h].fact
    BY DEF HandsApart, Hands
<1> QED BY <1>1 DEF ToGoogle, ToPostHog, Kept

-----------------------------------------------------------------------------
(* The steps of a hand.                                                    *)

LEMMA ReportInv ==
    ASSUME AnalyticsInv, NEW f \in Facts, NEW h \in Hands, Report(f, h), f \in Opened <=> h = "request"
    PROVE  AnalyticsInv'
<1> USE DEF AnalyticsInv
<1>1. UNCHANGED <<author, unread, googleEvents, posts, posthogEvents, process, reported, captured, dropped, lost, mixed,
                  analyticsFaults>>
    BY DEF Report, analyticsHistory
<1>2. /\ hand' \in [Hands -> Handling \cup {None}] /\ HandsApart'
      /\ \A g : (ToGoogle(g)' <=> ToGoogle(g)) /\ (ToPostHog(g)' <=> ToPostHog(g))
    BY TakeFact
<1>3. RecordsTyped'
    BY <1>1, <1>2 DEF RecordsTyped
<1>4. \A g : Pending(g)' <=> Pending(g)
    BY <1>1 DEF Pending
<1>5. PostHogHasIt' /\ GoogleHasIt' /\ PostsFit' /\ WaitsOnce'
    BY <1>1, <1>2 DEF PostHogHasIt, GoogleHasIt, PostsFit, WaitsOnce, RecordsOf
<1>6. ReportedInTime'
    BY <1>1, <1>2, <1>4 DEF ReportedInTime
<1> QED BY <1>2, <1>3, <1>5, <1>6

LEMMA SendToGoogleInv ==
    ASSUME AnalyticsInv, NEW h \in Hands, SendToGoogle(h)
    PROVE  AnalyticsInv'
<1> USE DEF AnalyticsInv
<1>0. PICK f : hand[h].fact = f
    OBVIOUS
<1>1. /\ UNCHANGED <<author, unread, posts, posthogEvents, process, reported, captured, dropped, lost, mixed,
                     analyticsFaults>>
      /\ googleEvents' = Append(googleEvents, f) /\ GoOn(h, "posthog") /\ hand[h] # None /\ hand[h].at = "google"
    BY <1>0 DEF SendToGoogle, AtStep, analyticsHistory
<1>2. /\ hand' \in [Hands -> Handling \cup {None}] /\ HandsApart' /\ f \in Facts
      /\ ToGoogle(f)' /\ ~ToPostHog(f)'
      /\ \A g : g # f => (ToGoogle(g)' <=> ToGoogle(g)) /\ (ToPostHog(g)' <=> ToPostHog(g))
    BY <1>0, <1>1, HandGoesOn
<1>3. ~ToGoogle(f)
    BY <1>0, <1>1, NotYet
<1>4. /\ googleEvents' \in Seq(Facts) /\ Range(googleEvents') = Range(googleEvents) \cup {f}
      /\ Len(googleEvents') = Len(googleEvents) + 1 /\ googleEvents'[Len(googleEvents) + 1] = f
      /\ \A i \in 1..Len(googleEvents) : googleEvents'[i] = googleEvents[i]
    BY <1>1, <1>2, RangeOfAppend, AppendProperties DEF RecordsTyped
<1>5. RecordsTyped'
    BY <1>1, <1>2, <1>4 DEF RecordsTyped
<1>6. PostHogHasIt'
    BY <1>1, <1>2 DEF PostHogHasIt
<1>7. GoogleHasIt'
    BY <1>1, <1>2, <1>4 DEF GoogleHasIt, RecordsOf
<1>8. PostsFit'
    BY <1>1 DEF PostsFit
<1>9. f \notin Range(googleEvents) /\ \A p \in posts : f \notin Range(p.records)
    BY <1>3 DEF WaitsOnce
<1>10. WaitsOnce'
    <2>1. \A i \in 1..Len(googleEvents) : googleEvents[i] # f
        BY <1>9, InRange DEF RecordsTyped
    <2>2. \A i \in 1..Len(googleEvents') : i \in 1..Len(googleEvents) \/ i = Len(googleEvents) + 1
        BY <1>4 DEF RecordsTyped
    <2>3. \A i, j \in 1..Len(googleEvents') : googleEvents'[i] = googleEvents'[j] => i = j
        BY <1>4, <2>1, <2>2 DEF WaitsOnce
    <2>4. \A g \in Range(googleEvents') : ToGoogle(g)'
        BY <1>2, <1>4 DEF WaitsOnce
    <2>5. \A p \in posts' : \A g \in Range(p.records) : ToGoogle(g)' /\ g \notin Range(googleEvents')
        BY <1>1, <1>2, <1>4, <1>9 DEF WaitsOnce
    <2> QED BY <1>1, <2>3, <2>4, <2>5 DEF WaitsOnce
<1>11. ReportedInTime'
    <2>1. \A g : g # f => (Pending(g)' <=> Pending(g))
        BY <1>1, <1>4 DEF Pending
    <2>2. ~Pending(f)
        BY <1>9 DEF Pending
    <2>3. ASSUME NEW g \in Facts
          PROVE  reported'[g] + (IF Pending(g)' THEN 1 ELSE 0) + (IF process' = "up" THEN 0 ELSE 1)
                    <= analyticsFaults' + (IF ToGoogle(g)' THEN 1 ELSE 0)
        <3>1. /\ reported[g] \in Nat /\ analyticsFaults \in Nat
              /\ reported[g] + (IF Pending(g) THEN 1 ELSE 0) + (IF process = "up" THEN 0 ELSE 1)
                    <= analyticsFaults + (IF ToGoogle(g) THEN 1 ELSE 0)
            BY DEF RecordsTyped, ReportedInTime
        <3>2. CASE g = f
            BY <1>1, <1>2, <1>3, <2>2, <3>1, <3>2
        <3>3. CASE g # f
            BY <1>1, <1>2, <2>1, <3>1, <3>3
        <3> QED BY <3>2, <3>3
    <2> QED BY <2>3 DEF ReportedInTime
<1> QED BY <1>2, <1>5, <1>6, <1>7, <1>8, <1>10, <1>11

LEMMA SendToPostHogInv ==
    ASSUME AnalyticsInv, NEW h \in Hands, SendToPostHog(h)
    PROVE  AnalyticsInv'
<1> USE DEF AnalyticsInv
<1>0. PICK f : hand[h].fact = f
    OBVIOUS
<1>1. /\ UNCHANGED <<author, unread, posts, googleEvents, process, reported, captured, dropped, lost, mixed,
                     analyticsFaults>>
      /\ posthogEvents' = Append(posthogEvents, f) /\ GoOn(h, "full") /\ hand[h] # None /\ hand[h].at = "posthog"
    BY <1>0 DEF SendToPostHog, AtStep, analyticsHistory
<1>2. /\ hand' \in [Hands -> Handling \cup {None}] /\ HandsApart' /\ f \in Facts
      /\ ToGoogle(f)' /\ ToPostHog(f)'
      /\ \A g : g # f => (ToGoogle(g)' <=> ToGoogle(g)) /\ (ToPostHog(g)' <=> ToPostHog(g))
    BY <1>0, <1>1, HandGoesOn
<1>3. ToGoogle(f)
    BY <1>0, <1>1, NotYet
<1>4. posthogEvents' \in Seq(Facts) /\ Range(posthogEvents') = Range(posthogEvents) \cup {f}
    BY <1>1, <1>2, RangeOfAppend DEF RecordsTyped
<1>5. RecordsTyped'
    BY <1>1, <1>2, <1>4 DEF RecordsTyped
<1>6. PostHogHasIt'
    BY <1>1, <1>2, <1>4 DEF PostHogHasIt
<1>7. \A g : ToGoogle(g)' <=> ToGoogle(g)
    BY <1>2, <1>3
<1>8. GoogleHasIt' /\ PostsFit' /\ WaitsOnce'
    BY <1>1, <1>7 DEF GoogleHasIt, PostsFit, WaitsOnce, RecordsOf
<1>9. \A g : Pending(g)' <=> Pending(g)
    BY <1>1 DEF Pending
<1>10. ReportedInTime'
    BY <1>1, <1>7, <1>9 DEF ReportedInTime
<1> QED BY <1>2, <1>5, <1>6, <1>8, <1>10

\* PostHog takes what waits for it, or not; nothing else happens to the records.
LEMMA FlushInv ==
    ASSUME AnalyticsInv, RecordsTyped', HandsApart',
           UNCHANGED <<author, googleEvents, posts, process, reported, dropped, lost, mixed, analyticsFaults>>,
           Flush \/ UNCHANGED <<captured, posthogEvents>>,
           \A g : (ToGoogle(g)' <=> ToGoogle(g)) /\ (ToPostHog(g)' <=> ToPostHog(g))
    PROVE  AnalyticsInv'
<1> USE DEF AnalyticsInv
<1>1. captured \cup Range(posthogEvents) \subseteq captured' \cup Range(posthogEvents')
    BY DEF Flush
<1>2. PostHogHasIt'
    BY <1>1 DEF PostHogHasIt
<1>3. GoogleHasIt' /\ PostsFit' /\ WaitsOnce'
    BY DEF GoogleHasIt, PostsFit, WaitsOnce, RecordsOf
<1>4. \A g : Pending(g)' <=> Pending(g)
    BY DEF Pending
<1>5. ReportedInTime'
    BY <1>4 DEF ReportedInTime
<1> QED BY <1>2, <1>3, <1>5

LEMMA FlushIfFullInv ==
    ASSUME AnalyticsInv, NEW h \in Hands, FlushIfFull(h)
    PROVE  AnalyticsInv'
<1> USE DEF AnalyticsInv
<1>1. /\ UNCHANGED <<author, unread, googleEvents, posts, process, reported, dropped, lost, mixed, analyticsFaults>>
      /\ GoOn(h, "end") /\ hand[h] # None /\ hand[h].at = "full"
      /\ Flush \/ UNCHANGED <<captured, posthogEvents>>
    BY DEF FlushIfFull, AtStep
<1>0. PICK f : hand[h].fact = f
    OBVIOUS
<1>2. /\ hand' \in [Hands -> Handling \cup {None}] /\ HandsApart'
      /\ \A g : (ToGoogle(g)' <=> ToGoogle(g)) /\ (ToPostHog(g)' <=> ToPostHog(g))
    BY <1>0, <1>1, HandGoesOn, NotYet
<1>3. posthogEvents' \in Seq(Facts)
    <2>1. CASE Flush BY <2>1 DEF Flush
    <2>2. CASE UNCHANGED posthogEvents BY <2>2 DEF RecordsTyped
    <2> QED BY <1>1, <2>1, <2>2
<1>4. RecordsTyped'
    BY <1>1, <1>2, <1>3 DEF RecordsTyped
<1> QED BY <1>1, <1>2, <1>4, FlushInv

LEMMA FlushPeriodicallyInv ==
    ASSUME AnalyticsInv, FlushPeriodically
    PROVE  AnalyticsInv'
<1> USE DEF AnalyticsInv
<1>1. UNCHANGED <<author, unread, hand, googleEvents, posts, process, reported, dropped, lost, mixed, analyticsFaults>>
      /\ Flush
    BY DEF FlushPeriodically
<1>2. RecordsTyped' /\ HandsApart'
    BY <1>1 DEF RecordsTyped, HandsApart, Flush
<1> QED BY <1>1, <1>2, HandsKeep, FlushInv

LEMMA EndSendInv ==
    ASSUME AnalyticsInv, NEW h \in Hands, EndSend(h)
    PROVE  AnalyticsInv'
<1> USE DEF AnalyticsInv
<1> DEFINE f == hand[h].fact
<1>1. /\ UNCHANGED <<author, googleEvents, posts, posthogEvents, process, reported, captured, dropped, lost, mixed,
                     analyticsFaults>>
      /\ unread' = unread \ {f} /\ hand' = [hand EXCEPT ![h] = None] /\ hand[h] # None /\ hand[h].at = "end"
    BY DEF EndSend, AtStep, analyticsHistory
<1>2. /\ hand' \in [Hands -> Handling \cup {None}] /\ hand'[h] = None
      /\ \A i \in Hands : i # h => hand'[i] = hand[i]
    BY <1>1 DEF RecordsTyped
<1>3. \A i \in Hands : i # h /\ hand[i] # None => hand[i].fact # f
    BY <1>1 DEF HandsApart, Hands
<1>4. ToGoogle(f) /\ ToPostHog(f)
    BY <1>1, NotYet
<1> HIDE DEF f
<1>5. HandsApart'
    BY <1>1, <1>2, <1>3 DEF HandsApart
<1>6. RecordsTyped'
    BY <1>1, <1>2 DEF RecordsTyped
<1>7. ASSUME NEW g, g # f, NEW steps
      PROVE  Kept(g, steps)' <=> Kept(g, steps)
    BY <1>1, <1>2, <1>7 DEF Kept, f
<1>8. \A g : (ToGoogle(g)' <=> ToGoogle(g)) /\ (ToPostHog(g)' <=> ToPostHog(g))
    BY <1>1, <1>4, <1>7 DEF ToGoogle, ToPostHog
<1> QED BY <1>1, <1>5, <1>6, <1>8, FlushInv

-----------------------------------------------------------------------------
(* The sender for Google.                                                  *)

LEMMA InTime ==
    ASSUME RecordsTyped, ReportedInTime, NEW f \in Facts
    PROVE  /\ reported[f] \in Nat /\ analyticsFaults \in Nat
           /\ reported[f] + (IF Pending(f) THEN 1 ELSE 0) + (IF process = "up" THEN 0 ELSE 1)
                <= analyticsFaults + (IF ToGoogle(f) THEN 1 ELSE 0)
BY DEF RecordsTyped, ReportedInTime

LEMMA SwapOutInv ==
    ASSUME AnalyticsInv, SwapOut, process' \in {"up", "last", "draining"}, process = "up" <=> process' = "up"
    PROVE  AnalyticsInv'
<1> USE DEF AnalyticsInv
<1>1. /\ UNCHANGED <<author, unread, hand, posthogEvents, reported, captured, dropped, lost, analyticsFaults>>
      /\ posts = {} /\ posts' = PostsOf(googleEvents) /\ googleEvents' = <<>>
      /\ mixed' = mixed \cup (IF Cardinality(Authors(googleEvents)) > 1 THEN Range(googleEvents) ELSE {})
    BY DEF SwapOut
<1>2. \A g : (ToGoogle(g)' <=> ToGoogle(g)) /\ (ToPostHog(g)' <=> ToPostHog(g))
    BY <1>1, HandsKeep
<1>3. googleEvents \in Seq(Facts) /\ author \in [Facts -> Visitors] /\ Range(googleEvents) \subseteq Facts
    BY InRange DEF RecordsTyped
<1>4. \A p \in posts' : \E k \in Nat, u \in Authors(googleEvents) :
        p = [client |-> u, records |-> BatchFrom(googleEvents, k * Batch)]
    BY <1>1, <1>3, PostsAre
<1>5. \A p \in posts' : p \in [client : Visitors, records : Seq(Facts)] /\ Range(p.records) \subseteq Range(googleEvents)
    <2> SUFFICES ASSUME NEW p \in posts'
                 PROVE  p \in [client : Visitors, records : Seq(Facts)] /\ Range(p.records) \subseteq Range(googleEvents)
        OBVIOUS
    <2>1. PICK k \in Nat, u \in Authors(googleEvents) :
            p = [client |-> u, records |-> BatchFrom(googleEvents, k * Batch)]
        BY <1>4
    <2>2. u \in Visitors
        BY <1>3 DEF Authors
    <2>3. /\ BatchFrom(googleEvents, k * Batch) \in Seq(Facts)
          /\ \A x \in Range(BatchFrom(googleEvents, k * Batch)) : x \in Range(googleEvents)
        <3>1. /\ BatchFrom(googleEvents, k * Batch) \in Seq(Facts)
              /\ \A x : x \in Range(BatchFrom(googleEvents, k * Batch))
                        => \E i \in 1..Len(googleEvents) : googleEvents[i] = x
            BY <1>3, BatchRange
        <3>2. \A i \in 1..Len(googleEvents) : googleEvents[i] \in Range(googleEvents)
            BY <1>3, InRange
        <3> QED BY <3>1, <3>2
    <2> DEFINE batch == BatchFrom(googleEvents, k * Batch)
    <2>4. p = [client |-> u, records |-> batch] /\ batch \in Seq(Facts) /\ Range(batch) \subseteq Range(googleEvents)
        BY <2>1, <2>3
    <2> HIDE DEF batch
    <2> QED BY <2>2, <2>4
<1>6. Range(googleEvents') = {} /\ googleEvents' \in Seq(Facts) /\ Len(googleEvents') = 0
    BY <1>1 DEF Range
<1>7. RecordsTyped'
    BY <1>1, <1>5, <1>6 DEF RecordsTyped
<1>8. HandsApart' /\ PostHogHasIt'
    BY <1>1, <1>2 DEF HandsApart, PostHogHasIt
<1>9. GoogleHasIt'
    <2>1. \A f \in Range(googleEvents) : f \in mixed' \/ f \in RecordsOf(posts')
        BY <1>1, <1>3, PostsHaveAll
    <2>2. RecordsOf(posts) = {}
        BY <1>1 DEF RecordsOf
    <2> QED BY <1>1, <1>2, <2>1, <2>2 DEF GoogleHasIt
<1>10. PostsFit'
    <2> SUFFICES ASSUME NEW p \in posts', NEW f \in Range(p.records), f \notin mixed'
                 PROVE  author[f] = p.client
        BY <1>1 DEF PostsFit
    <2>1. PICK k \in Nat, u \in Authors(googleEvents) :
            p = [client |-> u, records |-> BatchFrom(googleEvents, k * Batch)]
        BY <1>4
    <2>2. PICK g \in Range(googleEvents) : u = author[g]
        BY DEF Authors
    <2>3. f \in Range(googleEvents) /\ ~(Cardinality(Authors(googleEvents)) > 1)
        BY <1>1, <1>5
    <2> QED BY <1>3, <2>1, <2>2, <2>3, PostsHaveAll
<1>11. WaitsOnce'
    <2>1. \A p \in posts' : \A f \in Range(p.records) : ToGoogle(f)' /\ f \notin Range(googleEvents')
        BY <1>2, <1>5, <1>6 DEF WaitsOnce
    <2>2. ASSUME NEW p \in posts', NEW q \in posts', p.client = q.client,
                 NEW f \in Range(p.records) \cap Range(q.records)
          PROVE  p = q
        <3>1. PICK k \in Nat, u \in Authors(googleEvents) :
                p = [client |-> u, records |-> BatchFrom(googleEvents, k * Batch)]
            BY <1>4
        <3>2. PICK j \in Nat, v \in Authors(googleEvents) :
                q = [client |-> v, records |-> BatchFrom(googleEvents, j * Batch)]
            BY <1>4
        <3>3. PICK a \in 1..Len(googleEvents) : k * Batch < a /\ a <= k * Batch + Batch /\ googleEvents[a] = f
            BY <1>3, <3>1, BatchRange
        <3>4. PICK b \in 1..Len(googleEvents) : j * Batch < b /\ b <= j * Batch + Batch /\ googleEvents[b] = f
            BY <1>3, <3>2, BatchRange
        <3>5. a = b
            BY <3>3, <3>4 DEF WaitsOnce
        <3>6. j = k
            BY <3>3, <3>4, <3>5, BatchUnique
        <3> QED BY <2>2, <3>1, <3>2, <3>6
    <2> QED BY <1>6, <2>1, <2>2 DEF WaitsOnce
<1>12. ReportedInTime'
    <2> SUFFICES ASSUME NEW f \in Facts
                 PROVE  reported'[f] + (IF Pending(f)' THEN 1 ELSE 0) + (IF process' = "up" THEN 0 ELSE 1)
                          <= analyticsFaults' + (IF ToGoogle(f)' THEN 1 ELSE 0)
        BY DEF ReportedInTime
    <2>1. Pending(f)' => Pending(f)
        BY <1>5, <1>6 DEF Pending
    <2>2. reported'[f] = reported[f] /\ reported[f] \in Nat /\ analyticsFaults' = analyticsFaults /\ analyticsFaults \in Nat
        BY <1>1 DEF RecordsTyped
    <2>3. reported'[f] + (IF Pending(f)' THEN 1 ELSE 0) <= reported[f] + (IF Pending(f) THEN 1 ELSE 0)
        BY <2>1, <2>2
    <2> QED BY <1>2, <2>2, <2>3, InTime
<1> QED BY <1>7, <1>8, <1>9, <1>10, <1>11, <1>12

\* Requests that are taken away change nothing about the others.
LEMMA FewerPosts ==
    ASSUME WaitsOnce, PostsFit, posts' \subseteq posts, UNCHANGED <<author, googleEvents, mixed>>,
           \A g : ToGoogle(g)' <=> ToGoogle(g)
    PROVE  WaitsOnce' /\ PostsFit' /\ \A g : Pending(g)' => Pending(g)
<1>1. PostsFit'
    BY DEF PostsFit
<1>2. WaitsOnce'
    BY DEF WaitsOnce
<1>3. \A g : Pending(g)' => Pending(g)
    BY DEF Pending
<1> QED BY <1>1, <1>2, <1>3

LEMMA PostBatchInv ==
    ASSUME AnalyticsInv, NEW p \in posts, PostBatch(p)
    PROVE  AnalyticsInv'
<1> USE DEF AnalyticsInv
<1>1. /\ UNCHANGED <<author, unread, hand, googleEvents, posthogEvents, process, captured, dropped, lost, mixed,
                     analyticsFaults>>
      /\ posts' = posts \ {p}
    BY DEF PostBatch
<1> DEFINE mine(f) == f \in Range(p.records) /\ author[f] = p.client
<1>2. reported' = [f \in Facts |-> reported[f] + IF mine(f) THEN 1 ELSE 0]
    BY DEF PostBatch
<1>3. \A g : (ToGoogle(g)' <=> ToGoogle(g)) /\ (ToPostHog(g)' <=> ToPostHog(g))
    BY <1>1, HandsKeep
<1>4. \A f \in Facts : mine(f) => Pending(f) /\ ~Pending(f)'
    <2> SUFFICES ASSUME NEW f \in Facts, mine(f)
                 PROVE  Pending(f) /\ ~Pending(f)'
        OBVIOUS
    <2>1. Pending(f) /\ f \notin Range(googleEvents)
        BY DEF Pending, WaitsOnce
    <2>2. ASSUME NEW q \in posts', f \in Range(q.records), q.client = author[f]
          PROVE  FALSE
        BY <1>1, <2>2 DEF WaitsOnce
    <2> QED BY <1>1, <2>1, <2>2 DEF Pending
<1>5. \A f \in Range(p.records) : f \in mixed \/ mine(f)
    BY DEF PostsFit
<1> HIDE DEF mine
<1>6. \A f \in Facts : /\ reported'[f] \in Nat /\ reported[f] \in Nat
                       /\ mine(f) => reported'[f] = reported[f] + 1
                       /\ ~mine(f) => reported'[f] = reported[f]
    BY <1>2 DEF RecordsTyped
<1>7. RecordsTyped'
    <2>1. reported' \in [Facts -> Nat]
        BY <1>2, <1>6
    <2> QED BY <1>1, <2>1 DEF RecordsTyped
<1>8. HandsApart' /\ PostHogHasIt'
    BY <1>1, <1>3 DEF HandsApart, PostHogHasIt
<1>9. GoogleHasIt'
    <2> SUFFICES ASSUME NEW f \in Facts, ToGoogle(f), f \notin dropped \cup mixed, ~(reported'[f] > 0)
                 PROVE  f \in Range(googleEvents) \cup RecordsOf(posts')
        BY <1>1, <1>3 DEF GoogleHasIt
    <2>1. ~mine(f) /\ ~(reported[f] > 0)
        BY <1>6
    <2>2. f \notin Range(p.records)
        BY <1>5, <2>1
    <2>3. f \in Range(googleEvents) \cup RecordsOf(posts)
        BY <2>1 DEF GoogleHasIt
    <2> QED BY <1>1, <2>2, <2>3 DEF RecordsOf
<1>10. WaitsOnce' /\ PostsFit' /\ \A g : Pending(g)' => Pending(g)
    BY <1>1, <1>3, FewerPosts
<1>11. ReportedInTime'
    <2> SUFFICES ASSUME NEW f \in Facts
                 PROVE  reported'[f] + (IF Pending(f)' THEN 1 ELSE 0) + (IF process' = "up" THEN 0 ELSE 1)
                          <= analyticsFaults' + (IF ToGoogle(f)' THEN 1 ELSE 0)
        BY DEF ReportedInTime
    <2>1. reported'[f] + (IF Pending(f)' THEN 1 ELSE 0) <= reported[f] + (IF Pending(f) THEN 1 ELSE 0)
        BY <1>4, <1>6, <1>10
    <2>2. analyticsFaults' \in Nat /\ analyticsFaults <= analyticsFaults' /\ reported'[f] \in Nat
        BY <1>1, <1>6 DEF RecordsTyped
    <2>3. process = "up" <=> process' = "up"
        BY <1>1
    <2>4. ToGoogle(f)' <=> ToGoogle(f)
        BY <1>3
    <2> QED BY <2>1, <2>2, <2>3, <2>4, InTime
<1> QED BY <1>7, <1>8, <1>9, <1>10, <1>11

\* Requests that fail or are cut off drop their records.
LEMMA DropInv ==
    ASSUME AnalyticsInv, NEW gone \in SUBSET posts, posts' = posts \ gone, dropped' = dropped \cup RecordsOf(gone),
           UNCHANGED <<author, unread, hand, googleEvents, posthogEvents, reported, captured, lost, mixed>>,
           analyticsFaults' = analyticsFaults + 1, process' \in {"up", "last", "draining"},
           process' = process \/ process' # "up"
    PROVE  AnalyticsInv'
<1> USE DEF AnalyticsInv
<1>1. \A g : (ToGoogle(g)' <=> ToGoogle(g)) /\ (ToPostHog(g)' <=> ToPostHog(g))
    BY HandsKeep
<1>2. analyticsFaults \in Nat /\ analyticsFaults' \in Nat /\ RecordsTyped'
    BY DEF RecordsTyped
<1>3. HandsApart' /\ PostHogHasIt'
    BY <1>1 DEF HandsApart, PostHogHasIt
<1>4. GoogleHasIt'
    <2>1. RecordsOf(posts) \subseteq RecordsOf(posts') \cup RecordsOf(gone)
        BY DEF RecordsOf
    <2> QED BY <1>1, <2>1 DEF GoogleHasIt
<1>5. WaitsOnce' /\ PostsFit' /\ \A g : Pending(g)' => Pending(g)
    BY <1>1, FewerPosts
<1>6. ReportedInTime'
    <2> SUFFICES ASSUME NEW f \in Facts
                 PROVE  reported'[f] + (IF Pending(f)' THEN 1 ELSE 0) + (IF process' = "up" THEN 0 ELSE 1)
                          <= analyticsFaults' + (IF ToGoogle(f)' THEN 1 ELSE 0)
        BY DEF ReportedInTime
    <2>1. reported'[f] = reported[f] /\ reported[f] \in Nat
        BY DEF RecordsTyped
    <2>2. reported'[f] + (IF Pending(f)' THEN 1 ELSE 0) <= reported[f] + (IF Pending(f) THEN 1 ELSE 0)
        BY <1>5, <2>1
    <2>3. \/ (process = "up" <=> process' = "up") /\ analyticsFaults <= analyticsFaults'
          \/ process' # "up" /\ analyticsFaults' = analyticsFaults + 1
        BY <1>2
    <2>4. ToGoogle(f)' <=> ToGoogle(f)
        BY <1>1
    <2> QED BY <1>2, <2>1, <2>2, <2>3, <2>4, InTime
<1> QED BY <1>2, <1>3, <1>4, <1>5, <1>6

LEMMA PostFailsInv ==
    ASSUME AnalyticsInv, NEW p \in posts, PostFails(p)
    PROVE  AnalyticsInv'
<1>1. RecordsOf({p}) = Range(p.records)
    BY DEF RecordsOf
<1>2. {p} \in SUBSET posts /\ process \in {"up", "last", "draining"}
    BY DEF AnalyticsInv, RecordsTyped
<1> QED BY <1>1, <1>2, DropInv DEF PostFails

LEMMA StopPeriodicInv ==
    ASSUME AnalyticsInv, StopPeriodic
    PROVE  AnalyticsInv'
<1>1. posts' = posts \ posts
    BY DEF StopPeriodic
<1> QED BY <1>1, DropInv DEF StopPeriodic

-----------------------------------------------------------------------------
(* A new process.                                                          *)

LEMMA NewProcessInv ==
    ASSUME AnalyticsInv, NewProcess, analyticsFaults' \in Nat,
           (process # "up" /\ analyticsFaults' = analyticsFaults) \/ analyticsFaults' = analyticsFaults + 1,
           captured \cup Range(posthogEvents) \cup lost \cup (unread \ unread') \subseteq captured' \cup lost'
    PROVE  AnalyticsInv'
<1> USE DEF AnalyticsInv
<1>1. /\ hand' = [h \in Hands |-> None] /\ googleEvents' = <<>> /\ posts' = {} /\ posthogEvents' = <<>>
      /\ process' = "up" /\ UNCHANGED <<author, reported, mixed>> /\ unread' \subseteq unread
      /\ dropped' = dropped \cup Range(googleEvents) \cup RecordsOf(posts) \cup (unread \ unread')
    BY DEF NewProcess
<1>2. /\ \A h \in Hands : hand'[h] = None
      /\ Range(googleEvents') = {} /\ Len(googleEvents') = 0 /\ googleEvents' \in Seq(Facts)
      /\ posthogEvents' \in Seq(Facts)
    BY <1>1 DEF Range
<1>3. RecordsTyped'
    BY <1>1, <1>2 DEF RecordsTyped
<1>4. \A f : (ToGoogle(f)' <=> f \notin unread') /\ (ToPostHog(f)' <=> f \notin unread')
    BY <1>2 DEF ToGoogle, ToPostHog, Kept
<1>5. HandsApart'
    BY <1>2 DEF HandsApart
<1>6. \A f \in Facts : f \notin unread => ToGoogle(f) /\ ToPostHog(f)
    BY DEF ToGoogle, ToPostHog
<1>7. PostHogHasIt'
    BY <1>4, <1>6 DEF PostHogHasIt
<1>8. GoogleHasIt'
    BY <1>1, <1>4, <1>6 DEF GoogleHasIt
<1>9. PostsFit' /\ WaitsOnce'
    BY <1>1, <1>2 DEF PostsFit, WaitsOnce
<1>10. ReportedInTime'
    <2> SUFFICES ASSUME NEW f \in Facts
                 PROVE  reported'[f] + (IF Pending(f)' THEN 1 ELSE 0) + (IF process' = "up" THEN 0 ELSE 1)
                          <= analyticsFaults' + (IF ToGoogle(f)' THEN 1 ELSE 0)
        BY DEF ReportedInTime
    <2>1. /\ reported[f] \in Nat /\ analyticsFaults \in Nat
          /\ reported[f] + (IF Pending(f) THEN 1 ELSE 0) + (IF process = "up" THEN 0 ELSE 1)
               <= analyticsFaults + (IF ToGoogle(f) THEN 1 ELSE 0)
        BY DEF RecordsTyped, ReportedInTime
    <2>2. ~Pending(f)'
        BY <1>1, <1>2 DEF Pending
    <2>3. reported[f] <= analyticsFaults'
        BY <2>1
    <2> QED BY <1>1, <2>1, <2>2, <2>3
<1> QED BY <1>3, <1>5, <1>7, <1>8, <1>9, <1>10

LEMMA StopPostHogInv ==
    ASSUME AnalyticsInv, StopPostHog
    PROVE  AnalyticsInv'
<1>1. analyticsFaults' \in Nat /\ process # "up" /\ analyticsFaults' = analyticsFaults
    BY DEF StopPostHog, AnalyticsInv, RecordsTyped
<1>2. captured \cup Range(posthogEvents) \cup lost \cup (unread \ unread') \subseteq captured' \cup lost'
    BY DEF StopPostHog
<1> QED BY <1>1, <1>2, NewProcessInv DEF StopPostHog

LEMMA DieInv ==
    ASSUME AnalyticsInv, Die
    PROVE  AnalyticsInv'
<1>1. analyticsFaults' \in Nat /\ analyticsFaults' = analyticsFaults + 1
    BY DEF Die, AnalyticsInv, RecordsTyped
<1>2. captured \cup Range(posthogEvents) \cup lost \cup (unread \ unread') \subseteq captured' \cup lost'
    BY DEF Die
<1> QED BY <1>1, <1>2, NewProcessInv DEF Die

LEMMA AnalyticsStep == AnalyticsInv /\ [AnalyticsNext]_analyticsVars => AnalyticsInv'
<1> SUFFICES ASSUME AnalyticsInv, [AnalyticsNext]_analyticsVars
             PROVE  AnalyticsInv'
    OBVIOUS
<1>1. CASE \E f \in Facts : HandleFact(f) \/ OpenMail(f)
    BY <1>1, ReportInv DEF HandleFact, OpenMail, Hands
<1>2. CASE \E h \in Hands : SendToGoogle(h) \/ SendToPostHog(h) \/ FlushIfFull(h) \/ EndSend(h)
    BY <1>2, SendToGoogleInv, SendToPostHogInv, FlushIfFullInv, EndSendInv
<1>3. CASE FlushPeriodically
    BY <1>3, FlushPeriodicallyInv
<1>4. CASE SendEvents
    BY <1>4, SwapOutInv DEF SendEvents
<1>5. CASE LastSend
    BY <1>5, SwapOutInv DEF LastSend
<1>6. CASE \E p \in posts : PostBatch(p) \/ PostFails(p)
    BY <1>6, PostBatchInv, PostFailsInv
<1>7. CASE StopPeriodic \/ StopPostHog \/ Die
    BY <1>7, StopPeriodicInv, StopPostHogInv, DieInv
<1>8. CASE UNCHANGED analyticsVars
    <2>1. UNCHANGED <<author, unread, hand, googleEvents, posts, posthogEvents, process, reported, captured, dropped, lost,
                      mixed, analyticsFaults>>
        BY <1>8 DEF analyticsVars, memory, analyticsHistory
    <2>2. RecordsTyped' /\ HandsApart'
        BY <2>1 DEF AnalyticsInv, RecordsTyped, HandsApart
    <2> QED BY <2>1, <2>2, HandsKeep, FlushInv
<1> QED BY <1>1, <1>2, <1>3, <1>4, <1>5, <1>6, <1>7, <1>8 DEF AnalyticsNext

\* GoogleAnalytics takes its list out of memory before it sends it (send_events), PostHog holds its lock while it hands
\* its queue over (flush): whatever is captured meanwhile, a fact waits, has gone out or was lost with a request that
\* failed or with the process, and it goes out at most once for each process that had it.
THEOREM RecordsOnce == AnalyticsSpec => []EachRecordOnce
<1>1. AnalyticsSpec => []AnalyticsInv
    BY AnalyticsStart, AnalyticsStep, PTL DEF AnalyticsSpec
<1> QED BY <1>1, AnalyticsImplied, PTL

=============================================================================
