-------------------------------- MODULE Auth --------------------------------
(***************************************************************************)
(* Users, how they sign up and sign in, and what they sign in with: a      *)
(* password with a second factor, the account of a provider (Google,       *)
(* GitHub), or an API token.  A request reads the user once, at its start, *)
(* and works with what it has read; the tables are written in transactions *)
(* of their own, with slow hashing between them.                           *)
(***************************************************************************)
EXTENDS Absent, FiniteSets, Functions

CONSTANTS
    Users,      \* a user is known by its email
    Accounts,   \* accounts at the providers
    EmailOf,    \* the email a provider returns for an account
    SlugOf,     \* the slug of a user's own workspace: the email without its special characters
    ApiTokens,
    Tasks,      \* requests that are handled at the same time
    Codes,      \* the recovery codes made with a secret
    MaxSecrets, \* bound: secrets ever made for a second factor
    MaxLinks,   \* bound: rows of the table of oauth accounts ever made
    MaxInvites, \* bound: workspaces that invite the same email
    MaxTime,    \* bound: the clock
    MaxAsks,    \* bound: requests and what is asked of a provider
    MaxCrashes  \* bound: requests that are lost in a crash

Secrets == 1..MaxSecrets
LinkIds == 1..MaxLinks
Times == 1..MaxTime
Slugs == {SlugOf[u] : u \in Users}

ASSUME NameAssumption == EmailOf \in [Accounts -> Users] /\ None \notin Users \cup Accounts \cup ApiTokens
ASSUME BoundAssumption ==
    {MaxSecrets, MaxLinks, MaxInvites, MaxTime, MaxAsks, MaxCrashes} \subseteq Nat /\ MaxTime > 0

VARIABLES
    row,        \* user: None without a row, or what the requests look at
    home,       \* the users that were given a workspace
    slugs,      \* the slugs that a workspace has
    invites,    \* how many workspaces have invited the email of a user
    codes,      \* user_mfa_recovery_code of each user, with the secret they were made with
    links,      \* oauth_account
    keys,       \* api_token: the user a token belongs to, None before it is made
    revoked,    \* the API tokens that were deleted
    minTime,    \* auth_min_time of each user: 0 when it was never set
    jwts,       \* JSON web tokens in somebody's hands
    flows,      \* users at the page of a provider: the account they choose, and who wants it associated
    pc,         \* what each task does next
    who,        \* the user a task works for
    seen,       \* what a task has read: the user's row, a recovery code, a row of oauth_account, an API token
    acc,        \* the provider's account a task works on
    fresh,      \* the tasks that have made the user they work for
    secrets, made, now, \* secrets and oauth_account rows ever made, the clock
    cut,        \* history: users whose sign up ended with an error
    asks, crashes

homes == <<home, slugs, invites>>
tables == <<row, homes, codes, links, keys, revoked, minTime>>
hands == <<jwts, flows>>
task == <<pc, who, seen, acc, fresh>>
counters == <<secrets, made, now, cut>>
bounds == <<asks, crashes>>
vars == <<tables, hands, task, counters, bounds>>

User == [verified : BOOLEAN, mfa : BOOLEAN, secret : Secrets \cup {None}]
ASSUME RowAssumption == None \notin User

Link == [id : LinkIds, account : Accounts, user : Users]
RecoveryCode == [secret : Secrets, nr : Codes]
Jwt == [user : Users, at : Times]
Flow == [account : Accounts, sub : Users \cup {None}]
Steps == {"idle", "find account", "find email", "create", "find link", "link", "find own", "own", "update link",
          "verify", "home", "join", "default", "insert",
          "otp", "use code", "token", "hash", "enable", "otp to disable", "use code to disable", "disable",
          "refresh", "key", "key user"}

TypeOK ==
    /\ row \in [Users -> User \cup {None}] /\ home \subseteq Users
    /\ slugs \subseteq Slugs /\ invites \in [Users -> 0..MaxInvites]
    /\ codes \in [Users -> SUBSET RecoveryCode]
    /\ links \subseteq Link
    /\ keys \in [ApiTokens -> Users \cup {None}] /\ revoked \subseteq ApiTokens
    /\ minTime \in [Users -> 0..MaxTime]
    /\ jwts \subseteq Jwt /\ flows \subseteq Flow
    /\ pc \in [Tasks -> Steps]
    /\ who \in [Tasks -> Users \cup {None}]
    /\ seen \in [Tasks -> User \cup RecoveryCode \cup Link \cup ApiTokens \cup {None}]
    /\ acc \in [Tasks -> Accounts \cup {None}]
    /\ fresh \subseteq Tasks /\ cut \subseteq Users
    /\ secrets \in 0..MaxSecrets /\ made \in 0..MaxLinks /\ now \in Times
    /\ asks \in 0..MaxAsks /\ crashes \in 0..MaxCrashes

Init ==
    /\ row = [u \in Users |-> None] /\ home = {}
    /\ slugs = {} /\ invites = [u \in Users |-> 0]
    /\ codes = [u \in Users |-> {}] /\ links = {}
    /\ keys = [k \in ApiTokens |-> None] /\ revoked = {}
    /\ minTime = [u \in Users |-> 0]
    /\ jwts = {} /\ flows = {}
    /\ pc = [t \in Tasks |-> "idle"] /\ who = [t \in Tasks |-> None]
    /\ seen = [t \in Tasks |-> None] /\ acc = [t \in Tasks |-> None]
    /\ fresh = {} /\ cut = {}
    /\ secrets = 0 /\ made = 0 /\ now = 1
    /\ asks = 0 /\ crashes = 0

-----------------------------------------------------------------------------
(* Tokens and tasks.                                                       *)

\* read_token: a token made before auth_min_time is not accepted
Accepted(j) == j.at >= minTime[j.user]

\* get_current_active_verified_user
SignedIn(u) == row[u] # None /\ row[u].verified /\ \E j \in jwts : j.user = u /\ Accepted(j)

\* create_token: the token carries the time it is made at
Issue(u) == jwts' = jwts \cup {[user |-> u, at |-> now]}

Ask == asks < MaxAsks /\ asks' = asks + 1 /\ UNCHANGED crashes

Goto(t, step) == pc' = [pc EXCEPT ![t] = step]

Begin(t, step, u, read) ==
    /\ pc[t] = "idle"
    /\ Goto(t, step)
    /\ who' = [who EXCEPT ![t] = u] /\ seen' = [seen EXCEPT ![t] = read]

End(t) ==
    /\ Goto(t, "idle")
    /\ who' = [who EXCEPT ![t] = None] /\ seen' = [seen EXCEPT ![t] = None]
    /\ acc' = [acc EXCEPT ![t] = None] /\ fresh' = fresh \ {t}

\* The steps that give a user a workspace.
Homing == {"home", "join", "default", "insert"}

\* a user that signs up at a provider is then signed in
Registered(t) ==
    IF t \in fresh THEN Goto(t, "token") /\ fresh' = fresh \ {t} /\ UNCHANGED <<who, seen, acc>> ELSE End(t)

\* an error ends the request, and with it the sign up
LeaveOut(t) == cut' = cut \cup {who[t]} /\ End(t)

-----------------------------------------------------------------------------
(* Sign up with a password, and the workspace of a new user.               *)

NewUser(verified) == [verified |-> verified, mfa |-> FALSE, secret |-> None]

\* register: the email must be new; the user gets a mail to verify it
Register(u) ==
    /\ Ask
    /\ row[u] = None
    /\ row' = [row EXCEPT ![u] = NewUser(FALSE)]
    /\ UNCHANGED <<homes, codes, links, keys, revoked, minTime, hands, task, counters>>

\* the link in that mail
AskVerify(t, u) ==
    /\ Ask
    /\ row[u] # None /\ ~row[u].verified
    /\ Begin(t, "verify", u, row[u])
    /\ UNCHANGED <<tables, hands, acc, fresh, counters>>

Verify(t) ==
    /\ pc[t] = "verify"
    /\ row' = [row EXCEPT ![who[t]].verified = TRUE]
    /\ Goto(t, "home")
    /\ UNCHANGED <<homes, codes, links, keys, revoked, minTime, hands, who, seen, acc, fresh, counters, bounds>>

\* create_invitation, by another workspace
Invite(u) ==
    /\ Ask
    /\ invites[u] < MaxInvites
    /\ invites' = [invites EXCEPT ![u] = @ + 1]
    /\ UNCHANGED <<row, home, slugs, codes, links, keys, revoked, minTime, hands, task, counters>>

Uninvite(u) == invites[u] > 0 /\ invites' = [invites EXCEPT ![u] = @ - 1]

\* The invitation is revoked, or a user that exists accepts it and is a member at once (see Members).
CloseInvitation(u) ==
    /\ Uninvite(u)
    /\ home' = home \/ (row[u] # None /\ home' = home \cup {u})
    /\ UNCHANGED <<row, slugs, codes, links, keys, revoked, minTime, hands, task, counters, bounds>>

\* create_workspace, with a slug that some user asks for
TakeSlug(s) ==
    /\ Ask
    /\ slugs' = slugs \cup {s}
    /\ UNCHANGED <<row, home, invites, codes, links, keys, revoked, minTime, hands, task, counters>>

\* add_to_workspace of the user manager looks for an invitation of any workspace, accepted or not, and raises when
\* there are two: nothing tries again to give the user a workspace
FindInvitation(t) ==
    /\ pc[t] = "home"
    /\ \/ invites[who[t]] > 1 /\ LeaveOut(t)
       \/ invites[who[t]] = 1 /\ Goto(t, "join") /\ UNCHANGED <<who, seen, acc, fresh, cut>>
       \/ invites[who[t]] < 2 /\ Goto(t, "default") /\ UNCHANGED <<who, seen, acc, fresh, cut>>
    /\ UNCHANGED <<tables, hands, secrets, made, now, bounds>>

\* the workspace of an invitation that was accepted, which is then deleted if it is still there; an error when the
\* acceptance itself has added the user meanwhile
JoinWorkspace(t) ==
    /\ pc[t] = "join"
    /\ home' = home \cup {who[t]}
    /\ Uninvite(who[t]) \/ UNCHANGED invites
    /\ Registered(t) \/ End(t)
    /\ UNCHANGED <<row, slugs, codes, links, keys, revoked, minTime, hands, counters, bounds>>

\* create_default_workspace: a slug that is taken is made unique ...
CreateDefaultWorkspace(t) ==
    /\ pc[t] = "default"
    /\ IF SlugOf[who[t]] \in slugs
       THEN home' = home \cup {who[t]} /\ Registered(t)
       ELSE Goto(t, "insert") /\ UNCHANGED <<home, who, seen, acc, fresh>>
    /\ UNCHANGED <<row, slugs, invites, codes, links, keys, revoked, minTime, hands, counters, bounds>>

\* ... and one that was free is inserted: an error when it was taken meanwhile
InsertWorkspace(t) ==
    /\ pc[t] = "insert"
    /\ IF SlugOf[who[t]] \in slugs
       THEN LeaveOut(t) /\ UNCHANGED <<home, slugs>>
       ELSE /\ home' = home \cup {who[t]} /\ slugs' = slugs \cup {SlugOf[who[t]]}
            /\ Registered(t) /\ UNCHANGED cut
    /\ UNCHANGED <<row, invites, codes, links, keys, revoked, minTime, hands, secrets, made, now, bounds>>

-----------------------------------------------------------------------------
(* Sign in.                                                                *)

\* login: the password is right and the email verified; the user is read once
AskLogin(t, u) ==
    /\ Ask
    /\ row[u] # None /\ row[u].verified
    /\ Begin(t, IF row[u].mfa THEN "otp" ELSE "token", u, row[u])
    /\ UNCHANGED <<tables, hands, acc, fresh, counters>>

\* The step a task goes on to with its second factor.
Then(t) == IF pc[t] \in {"otp", "use code"} THEN "token" ELSE "disable"
CodeStep(t) == IF pc[t] = "otp" THEN "use code" ELSE "use code to disable"

\* check_otp with a password of the secret that was read
CheckOtp(t) ==
    /\ pc[t] \in {"otp", "otp to disable"}
    /\ seen[t].secret # None
    /\ Goto(t, Then(t))
    /\ UNCHANGED <<tables, hands, who, seen, acc, fresh, counters, bounds>>

\* ... or with a recovery code: delete_recovery_code looks for it
FindCode(t, c) ==
    /\ pc[t] \in {"otp", "otp to disable"}
    /\ c \in codes[who[t]]
    /\ seen' = [seen EXCEPT ![t] = c]
    /\ Goto(t, CodeStep(t))
    /\ UNCHANGED <<tables, hands, who, acc, fresh, counters, bounds>>

\* ... and deletes it, which is not an error when it is gone
UseCode(t) ==
    /\ pc[t] \in {"use code", "use code to disable"}
    /\ codes' = [codes EXCEPT ![who[t]] = @ \ {seen[t]}]
    /\ Goto(t, Then(t))
    /\ UNCHANGED <<row, homes, links, keys, revoked, minTime, hands, who, seen, acc, fresh, counters, bounds>>

\* the second factor is wrong or there is none
Refuse(t) ==
    /\ pc[t] \in {"otp", "otp to disable"}
    /\ End(t)
    /\ UNCHANGED <<tables, hands, counters, bounds>>

\* write_token and on_after_login
SignIn(t) ==
    /\ pc[t] \in {"token", "refresh"}
    /\ Issue(who[t])
    /\ End(t)
    /\ UNCHANGED <<tables, flows, counters, bounds>>

\* a request with a token that ends within the hour: the answer has a new one
AskRefresh(t, u) ==
    /\ Ask
    /\ SignedIn(u)
    /\ Begin(t, "refresh", u, row[u])
    /\ UNCHANGED <<tables, hands, acc, fresh, counters>>

\* jwt_expire, with the current time or one that is given
Expire(u, time) ==
    /\ Ask
    /\ SignedIn(u)
    /\ time <= now
    /\ minTime' = [minTime EXCEPT ![u] = time]
    /\ UNCHANGED <<row, homes, codes, links, keys, revoked, hands, task, counters>>

Tick ==
    /\ now < MaxTime
    /\ now' = now + 1
    /\ UNCHANGED <<tables, hands, task, secrets, made, cut, bounds>>

-----------------------------------------------------------------------------
(* The second factor.                                                      *)

AskMfa(t, u) ==
    /\ Ask
    /\ SignedIn(u) /\ ~row[u].mfa
    /\ Begin(t, "hash", u, row[u])
    /\ UNCHANGED <<tables, hands, acc, fresh, counters>>

\* compute_recovery_codes, for a secret that is new
RecoveryCodes(s) == [secret : {s}, nr : Codes]

\* Mutant of RecreateMfa: the recovery codes that are there are not deleted.
AddCodes(t) ==
    /\ pc[t] = "hash"
    /\ secrets < MaxSecrets
    /\ secrets' = secrets + 1
    /\ row' = [row EXCEPT ![who[t]].secret = secrets + 1, ![who[t]].mfa = FALSE]
    /\ codes' = [codes EXCEPT ![who[t]] = @ \cup RecoveryCodes(secrets + 1)]
    /\ End(t)
    /\ UNCHANGED <<homes, links, keys, revoked, minTime, hands, made, now, cut, bounds>>

\* recreate_mfa, when the recovery codes are hashed: recreate_otp_secret
RecreateMfa(t) ==
    /\ pc[t] = "hash"
    /\ secrets < MaxSecrets
    /\ secrets' = secrets + 1
    /\ row' = [row EXCEPT ![who[t]].secret = secrets + 1, ![who[t]].mfa = FALSE]
    /\ codes' = [codes EXCEPT ![who[t]] = RecoveryCodes(secrets + 1)]
    /\ End(t)
    /\ UNCHANGED <<homes, links, keys, revoked, minTime, hands, made, now, cut, bounds>>

\* enable_mfa: with a password of the secret that was read, and with any password when there is no secret
AskEnable(t, u) ==
    /\ Ask
    /\ SignedIn(u) /\ ~row[u].mfa
    /\ Begin(t, "enable", u, row[u])
    /\ UNCHANGED <<tables, hands, acc, fresh, counters>>

EnableMfa(t) ==
    /\ pc[t] = "enable"
    /\ row' = [row EXCEPT ![who[t]].mfa = TRUE]
    /\ End(t)
    /\ UNCHANGED <<homes, codes, links, keys, revoked, minTime, hands, counters, bounds>>

AskDisable(t, u) ==
    /\ Ask
    /\ SignedIn(u) /\ row[u].mfa
    /\ Begin(t, "otp to disable", u, row[u])
    /\ UNCHANGED <<tables, hands, acc, fresh, counters>>

\* disable_mfa: the recovery codes stay
DisableMfa(t) ==
    /\ pc[t] = "disable"
    /\ row' = [row EXCEPT ![who[t]].mfa = FALSE, ![who[t]].secret = None]
    /\ End(t)
    /\ UNCHANGED <<homes, codes, links, keys, revoked, minTime, hands, counters, bounds>>

-----------------------------------------------------------------------------
(* Accounts of a provider.                                                 *)

\* list_all_oauth_providers or authorize, and for a user that is signed in list_oauth_associate_providers
GoToProvider(a) ==
    /\ Ask
    /\ flows' = flows \cup {[account |-> a, sub |-> None]}
    /\ UNCHANGED <<tables, jwts, task, counters>>

GoToAssociate(a, u) ==
    /\ Ask
    /\ SignedIn(u)
    /\ flows' = flows \cup {[account |-> a, sub |-> u]}
    /\ UNCHANGED <<tables, jwts, task, counters>>

\* The state token lapses, or the user leaves the page of the provider.
Lapse(f) ==
    /\ f \in flows
    /\ flows' = flows \ {f}
    /\ UNCHANGED <<tables, jwts, task, counters, bounds>>

\* the provider sends the user back to callback ...
Callback(t, f) ==
    /\ f \in flows /\ f.sub = None
    /\ flows' = flows \ {f}
    /\ Begin(t, "find account", None, None)
    /\ acc' = [acc EXCEPT ![t] = f.account]
    /\ UNCHANGED <<tables, jwts, fresh, counters, bounds>>

\* ... or to the callback of an association, which is for the user that is signed in
CallbackAssociate(t, f) ==
    /\ f \in flows /\ f.sub \in Users /\ SignedIn(f.sub)
    /\ flows' = flows \ {f}
    /\ Begin(t, "find own", f.sub, None)
    /\ acc' = [acc EXCEPT ![t] = f.account]
    /\ UNCHANGED <<tables, jwts, fresh, counters, bounds>>

LinksOf(a) == {l \in links : l.account = a}
Linked(a) == {l.user : l \in LinksOf(a)}

\* get_by_oauth_account raises when the account belongs to two users
FindAccount(t) ==
    /\ pc[t] = "find account"
    /\ \/ Linked(acc[t]) = {} /\ Goto(t, "find email") /\ UNCHANGED <<who, seen, acc, fresh>>
       \/ \E l \in LinksOf(acc[t]) :
            /\ Linked(acc[t]) = {l.user}
            /\ Goto(t, "update link")
            /\ who' = [who EXCEPT ![t] = l.user] /\ seen' = [seen EXCEPT ![t] = l]
            /\ UNCHANGED <<acc, fresh>>
       \/ Cardinality(Linked(acc[t])) > 1 /\ End(t)
    /\ UNCHANGED <<tables, hands, counters, bounds>>

\* update_oauth_account fails when the row is gone
UpdateLink(t) ==
    /\ pc[t] = "update link"
    /\ IF seen[t] \in links THEN Goto(t, "token") /\ UNCHANGED <<who, seen, acc, fresh>> ELSE End(t)
    /\ UNCHANGED <<tables, hands, counters, bounds>>

\* get_by_email: an account is associated with the user that has its email
FindEmail(t) ==
    /\ pc[t] = "find email"
    /\ LET u == EmailOf[acc[t]]
       IN  /\ who' = [who EXCEPT ![t] = u]
           /\ Goto(t, IF row[u] = None THEN "create" ELSE "find link")
    /\ UNCHANGED <<tables, hands, seen, acc, fresh, counters, bounds>>

\* user_db.create: two users cannot have the same email
CreateUser(t) ==
    /\ pc[t] = "create"
    /\ \/ /\ row[who[t]] = None
          /\ row' = [row EXCEPT ![who[t]] = NewUser(TRUE)]
          /\ fresh' = fresh \cup {t}
          /\ Goto(t, "find link")
          /\ UNCHANGED <<who, seen, acc>>
       \/ row[who[t]] # None /\ End(t) /\ UNCHANGED row
    /\ UNCHANGED <<homes, codes, links, keys, revoked, minTime, hands, counters, bounds>>

\* add_oauth_account looks for the account: one that another user has is refused, two rows raise
FindLink(t) ==
    /\ pc[t] \in {"find link", "find own"}
    /\ LET rows == LinksOf(acc[t])
           found == IF pc[t] = "find link" THEN "link" ELSE "own"
       IN  \/ rows = {} /\ Goto(t, found) /\ UNCHANGED <<who, seen, acc, fresh, cut>>
           \/ \E l \in rows :
                /\ rows = {l} /\ l.user = who[t]
                /\ Goto(t, found)
                /\ seen' = [seen EXCEPT ![t] = l]
                /\ UNCHANGED <<who, acc, fresh, cut>>
           \/ /\ Cardinality(rows) > 1 \/ \E l \in rows : l.user # who[t]
              /\ IF t \in fresh THEN LeaveOut(t) ELSE End(t) /\ UNCHANGED cut
    /\ UNCHANGED <<tables, hands, secrets, made, now, bounds>>

\* ... and replaces the row that was found
PutLink(t) ==
    /\ made < MaxLinks
    /\ made' = made + 1
    /\ links' = (links \ {seen[t]}) \cup {[id |-> made + 1, account |-> acc[t], user |-> who[t]]}
    /\ UNCHANGED <<row, homes, codes, keys, revoked, minTime, hands, secrets, now, cut, bounds>>

\* Mutant of AddLink: a user that was just made is signed in at once.
LinkAndSignIn(t) ==
    /\ pc[t] = "link"
    /\ PutLink(t)
    /\ Goto(t, "token") /\ fresh' = fresh \ {t} /\ UNCHANGED <<who, seen, acc>>

\* a user that is new goes on to its workspace, another one is signed in
AddLink(t) ==
    /\ pc[t] = "link"
    /\ PutLink(t)
    /\ Goto(t, IF t \in fresh THEN "home" ELSE "token") /\ UNCHANGED <<who, seen, acc, fresh>>

\* oauth_associate_callback
Associate(t) == pc[t] = "own" /\ PutLink(t) /\ End(t)

\* unlink_oauth_account
Unlink(l) ==
    /\ Ask
    /\ l \in links /\ SignedIn(l.user)
    /\ links' = links \ {l}
    /\ UNCHANGED <<row, homes, codes, keys, revoked, minTime, hands, task, counters>>

-----------------------------------------------------------------------------
(* API tokens.                                                             *)

CreateKey(k, u) ==
    /\ Ask
    /\ SignedIn(u) /\ keys[k] = None
    /\ keys' = [keys EXCEPT ![k] = u]
    /\ UNCHANGED <<row, homes, codes, links, revoked, minTime, hands, task, counters>>

Held(k) == keys[k] # None /\ k \notin revoked

DeleteKey(k) ==
    /\ Ask
    /\ Held(k) /\ SignedIn(keys[k])
    /\ revoked' = revoked \cup {k}
    /\ UNCHANGED <<row, homes, codes, links, keys, minTime, hands, task, counters>>

\* _get_user_token reads the row and compares the hashes in another process ...
AskAccess(t, k) ==
    /\ Ask
    /\ Held(k)
    /\ Begin(t, "key", keys[k], k)
    /\ UNCHANGED <<tables, hands, acc, fresh, counters>>

\* ... and writes when the token was used: the update of a row that is gone is an error
UseKey(t) ==
    /\ pc[t] = "key"
    /\ IF Held(seen[t]) THEN Goto(t, "key user") /\ UNCHANGED <<who, seen, acc, fresh>> ELSE End(t)
    /\ UNCHANGED <<tables, hands, counters, bounds>>

Access(t) ==
    /\ pc[t] = "key user"
    /\ Issue(who[t])
    /\ End(t)
    /\ UNCHANGED <<tables, flows, counters, bounds>>

-----------------------------------------------------------------------------

\* The process that handles a request dies, or a call that it makes fails.
Crash(t) ==
    /\ pc[t] # "idle"
    /\ crashes < MaxCrashes /\ crashes' = crashes + 1
    /\ IF t \in fresh \/ pc[t] \in Homing THEN LeaveOut(t) ELSE End(t) /\ UNCHANGED cut
    /\ UNCHANGED <<tables, hands, secrets, made, now, asks>>

Request(t) ==
    \/ FindInvitation(t) \/ JoinWorkspace(t) \/ CreateDefaultWorkspace(t) \/ InsertWorkspace(t)
    \/ Verify(t) \/ CheckOtp(t) \/ UseCode(t) \/ Refuse(t) \/ SignIn(t)
    \/ RecreateMfa(t) \/ EnableMfa(t) \/ DisableMfa(t)
    \/ FindAccount(t) \/ UpdateLink(t) \/ FindEmail(t) \/ CreateUser(t) \/ FindLink(t) \/ AddLink(t) \/ Associate(t)
    \/ UseKey(t) \/ Access(t)

Next ==
    \/ Tick
    \/ \E t \in Tasks :
        \/ Request(t) \/ Crash(t)
        \/ \E c \in RecoveryCode : FindCode(t, c)
        \/ \E f \in flows : Callback(t, f) \/ CallbackAssociate(t, f)
        \/ \E k \in ApiTokens : AskAccess(t, k)
        \/ \E u \in Users :
            \/ AskVerify(t, u) \/ AskLogin(t, u) \/ AskRefresh(t, u)
            \/ AskMfa(t, u) \/ AskEnable(t, u) \/ AskDisable(t, u)
    \/ \E u \in Users :
        \/ Register(u) \/ Invite(u) \/ CloseInvitation(u) \/ TakeSlug(SlugOf[u])
        \/ \E time \in Times : Expire(u, time)
        \/ \E k \in ApiTokens : CreateKey(k, u)
    \/ \E k \in ApiTokens : DeleteKey(k)
    \/ \E a \in Accounts :
        \/ GoToProvider(a)
        \/ \E u \in Users : GoToAssociate(a, u)
    \/ \E f \in flows : Lapse(f)
    \/ \E l \in links : Unlink(l)

Spec == Init /\ [][Next]_vars

=============================================================================
