------------------------------ MODULE Onboarding ------------------------------
(***************************************************************************)
(* The credentials of a workspace at a cloud: the key of a service account *)
(* of GCP, or the secret of an application of Azure.  A request stores     *)
(* them when the cloud has accepted them; a job of the dispatcher, every   *)
(* minute, imports the projects or subscriptions of what is new, and for   *)
(* GCP another, every hour, of what is older.  Each import lists first,    *)
(* then writes their status, then creates the accounts.                    *)
(***************************************************************************)
EXTENDS Absent

CONSTANTS
    ClientSecrets,
    NewFor,       \* for which the credentials are new: half an hour
    OldAfter,     \* after which the healthcheck looks at them: an hour
    MaxHours,     \* bound: the clock, in units of a quarter of an hour or so
    MaxPuts,      \* bound: requests that store credentials
    MaxImportFaults \* bound: crashes, and changes of what the cloud accepts

ASSUME OnboardingAssumption ==
    /\ NewFor \in Nat /\ OldAfter \in Nat /\ NewFor <= OldAfter
    /\ MaxHours \in Nat /\ MaxPuts \in Nat /\ MaxImportFaults \in Nat

Jobs == {"pinger", "healthcheck"}
Credentials == [secret : ClientSecrets, created : 0..MaxHours, access : BOOLEAN \cup {None}]
Import == [secret : ClientSecrets, step : {"list", "mark", "create"}, ok : BOOLEAN]

ASSUME ImportAssumption == None \notin Import /\ None \notin Credentials

VARIABLES
    cloud,        \* "gcp" or "azure": whose credentials they are
    credentials,  \* their row [secret, created, access]; access is None until it is known; None without a row
    accepted,     \* the secrets with which the cloud lets in
    putting,      \* the secret of a request that the cloud has accepted, None without a request
    consent,      \* how far a user has come at Azure: 0, 1 after the consent, 2 with a code to manage it
    import,       \* for each job [secret, step, ok]; None when it has nothing at hand
    pinged,       \* the pinger had its turn since the last tick
    listed,       \* history: <<secret, ok>> written to the row since the secret was stored
    overlapped,   \* history: the row was written while an import was at work
    reentered,    \* history: the row was overwritten
    clock, puts, importFaults

onboardingHistory == <<listed, overlapped, reentered>>
onboardingVars ==
    <<cloud, credentials, accepted, putting, consent, import, pinged, onboardingHistory, clock, puts, importFaults>>

OnboardingTypeOK ==
    /\ cloud \in {"gcp", "azure"}
    /\ credentials \in Credentials \cup {None}
    /\ accepted \subseteq ClientSecrets
    /\ putting \in ClientSecrets \cup {None} /\ consent \in 0..2
    /\ import \in [Jobs -> Import \cup {None}] /\ pinged \in BOOLEAN
    /\ listed \subseteq ClientSecrets \X BOOLEAN /\ overlapped \in BOOLEAN /\ reentered \in BOOLEAN
    /\ clock \in 0..MaxHours /\ puts \in 0..MaxPuts /\ importFaults \in 0..MaxImportFaults

OnboardingInit ==
    /\ cloud \in {"gcp", "azure"}
    /\ credentials = None /\ accepted = ClientSecrets
    /\ putting = None /\ consent = 0
    /\ import = [j \in Jobs |-> None] /\ pinged = FALSE
    /\ listed = {} /\ overlapped = FALSE /\ reentered = FALSE
    /\ clock = 0 /\ puts = 0 /\ importFaults = 0

New == credentials # None /\ clock < credentials.created + NewFor
Aged == credentials # None /\ clock >= credentials.created + OldAfter
Importing == \E j \in Jobs : import[j] # None

ImportFault == importFaults < MaxImportFaults /\ importFaults' = importFaults + 1

-----------------------------------------------------------------------------
(* Requests.                                                               *)

\* add_gcp_service_account_key and add_azure_subscription_credentials list with what the user gives: what the
\* cloud refuses is not stored
CheckCredentials(s) ==
    /\ putting = None
    /\ puts < MaxPuts /\ puts' = puts + 1
    /\ s \in accepted
    /\ putting' = s
    /\ UNCHANGED <<cloud, credentials, accepted, consent, import, pinged, onboardingHistory, clock, importFaults>>

\* azure_admin_consent and azure_oauth_callback: the token of the state carries the step; a user who goes back
\* to an earlier page starts there again
AzureStep(n) ==
    /\ cloud = "azure" /\ putting = None
    /\ n = 0 \/ (consent = n - 1 /\ n <= 2)
    /\ consent # n
    /\ consent' = n
    /\ UNCHANGED <<cloud, credentials, accepted, putting, import, pinged, onboardingHistory, clock, puts, importFaults>>

\* create_user_app_registration: an application with a new secret, which must see a subscription in the end;
\* what fails on the way is logged, and the user is sent back without credentials
CreateAppRegistration(s) ==
    /\ consent = 2 /\ consent' = 0
    /\ puts < MaxPuts /\ puts' = puts + 1
    /\ putting' \in {s, None}
    /\ UNCHANGED <<cloud, credentials, accepted, import, pinged, onboardingHistory, clock, importFaults>>

\* upsert: a key of GCP is new again when it is put again
Stored(s) == [secret |-> s, created |-> clock, access |-> None]

\* Mutant of Restored: the key of GCP keeps its date, too.
KeepDate(s) == IF credentials # None THEN [credentials EXCEPT !.secret = s, !.access = None] ELSE Stored(s)

\* ... while the credentials of Azure keep their date and their status
Restored(s) == IF cloud = "azure" /\ credentials # None THEN [credentials EXCEPT !.secret = s] ELSE Stored(s)

Upsert ==
    /\ putting # None /\ putting' = None
    /\ credentials' = Restored(putting)
    /\ listed' = {} /\ overlapped' = Importing /\ reentered' = (credentials # None)
    /\ pinged' = FALSE
    /\ UNCHANGED <<cloud, accepted, consent, import, clock, puts, importFaults>>

-----------------------------------------------------------------------------
(* The jobs.                                                               *)

Start(j) == import' = [import EXCEPT ![j] = [secret |-> credentials.secret, step |-> "list", ok |-> FALSE]]

\* _ping_new_service_account_keys and _ping_new_subscriptions take what is new, whatever its status
PingNew ==
    /\ import["pinger"] = None /\ ~pinged
    /\ IF New THEN Start("pinger") ELSE UNCHANGED import
    /\ pinged' = TRUE
    /\ UNCHANGED <<cloud, credentials, accepted, putting, consent, onboardingHistory, clock, puts, importFaults>>

\* _service_account_healthcheck takes what is not known to be refused
Healthcheck ==
    /\ cloud = "gcp" /\ import["healthcheck"] = None
    /\ Aged /\ credentials.access # FALSE
    /\ Start("healthcheck")
    /\ UNCHANGED <<cloud, credentials, accepted, putting, consent, pinged, onboardingHistory, clock, puts, importFaults>>

At(j, step) == import[j] # None /\ import[j].step = step

\* list_projects, list_subscriptions
ListProjects(j) ==
    /\ At(j, "list")
    /\ import' = [import EXCEPT ![j].step = "mark", ![j].ok = import[j].secret \in accepted]
    /\ UNCHANGED <<cloud, credentials, accepted, putting, consent, pinged, onboardingHistory, clock, puts, importFaults>>

\* update_status finds the row by its id, which is the same when other credentials were stored
UpdateStatus(j) ==
    /\ At(j, "mark")
    /\ credentials' = [credentials EXCEPT !.access = import[j].ok]
    /\ listed' = listed \cup {<<import[j].secret, import[j].ok>>}
    /\ import' = [import EXCEPT ![j] = IF @.ok THEN [@ EXCEPT !.step = "create"] ELSE None]
    /\ UNCHANGED <<cloud, accepted, putting, consent, pinged, overlapped, reentered, clock, puts, importFaults>>

\* update_cloud_accounts: create_gcp_account or create_azure_account, which the module of the cloud accounts models
UpdateCloudAccounts(j) ==
    /\ At(j, "create")
    /\ import' = [import EXCEPT ![j] = None]
    /\ UNCHANGED <<cloud, credentials, accepted, putting, consent, pinged, onboardingHistory, clock, puts, importFaults>>

-----------------------------------------------------------------------------
(* The environment.                                                        *)

\* somebody revokes a key at the cloud, or lets it in again
Revoke(s) ==
    /\ ImportFault
    /\ accepted' = IF s \in accepted THEN accepted \ {s} ELSE accepted \cup {s}
    /\ UNCHANGED <<cloud, credentials, putting, consent, import, pinged, onboardingHistory, clock, puts>>

CrashImport ==
    /\ ImportFault
    /\ putting' = None /\ import' = [j \in Jobs |-> None] /\ pinged' = FALSE
    /\ UNCHANGED <<cloud, credentials, accepted, consent, onboardingHistory, clock, puts>>

\* the pinger runs every minute: it has its turn in every part of the half hour
TickOnboarding ==
    /\ New => pinged
    /\ clock < MaxHours /\ clock' = clock + 1
    /\ pinged' = FALSE
    /\ UNCHANGED <<cloud, credentials, accepted, putting, consent, import, onboardingHistory, puts, importFaults>>

OnboardingNext ==
    \/ Upsert \/ PingNew \/ Healthcheck \/ CrashImport \/ TickOnboarding
    \/ \E j \in Jobs : ListProjects(j) \/ UpdateStatus(j) \/ UpdateCloudAccounts(j)
    \/ \E s \in ClientSecrets : CheckCredentials(s) \/ CreateAppRegistration(s) \/ Revoke(s)
    \/ \E n \in 0..2 : AzureStep(n)

OnboardingSpec == OnboardingInit /\ [][OnboardingNext]_onboardingVars

-----------------------------------------------------------------------------
(* What onboarding promises.                                               *)

\* Credentials that are not new any more have been tried, also when the process died while they were, if it did less
\* often than the pinger has its turn while they are new: their status is one that an import with this secret has
\* found. This is not so of what was stored while an import was at work, which may write its finding about the secret
\* before, nor of credentials of Azure that were stored again.
StatusIsOfTheKey ==
    credentials # None /\ ~New /\ ~Importing /\ ~overlapped /\ ~(cloud = "azure" /\ reentered) /\ importFaults < NewFor
        => <<credentials.secret, credentials.access>> \in listed

=============================================================================
