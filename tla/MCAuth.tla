------------------------------- MODULE MCAuth -------------------------------
(***************************************************************************)
(* Instances of Auth for TLC, and of four small parts that stand beside    *)
(* it: the limit of login attempts, the keys that sign the tokens, the     *)
(* import of the credentials of a cloud, and analytics.  They share no     *)
(* variable, and no property looks at two of them.  The instance picks one *)
(* at the beginning and leaves the others in their initial states: TLC     *)
(* explores the sum of the parts, not their product.                       *)
(***************************************************************************)
EXTENDS AuthProps, Onboarding, Analytics, Keys, RateLimit, TLC

CONSTANTS u1, u2, a1, t1, t2, v1

VARIABLE part

TwoUsers == {u1, u2}
OneAccount == {a1}
EmailOfFirst == a1 :> u1
SameSlug == u1 :> "slug" @@ u2 :> "slug"
TwoTasks == {t1, t2}

Symmetry == Permutations(TwoTasks)

authVars == <<part, vars, onboardingVars, analyticsVars, keyVars, rateVars>>

\* A part that is not picked has one initial state; what happened is about one user, or a mail that was opened
\* about another one.
AuthInit ==
    /\ part \in {"auth", "onboarding", "analytics", "keys", "limit"}
    /\ Init /\ OnboardingInit /\ AnalyticsInit /\ KeysInit /\ RateLimitInit
    /\ part = "onboarding" \/ cloud = "gcp"
    /\ \A f \in Facts : author[f] = v1 \/ (part = "analytics" /\ f \in Opened)

AuthNext ==
    \/ part = "auth" /\ Next /\ UNCHANGED <<part, onboardingVars, analyticsVars, keyVars, rateVars>>
    \/ part = "onboarding" /\ OnboardingNext /\ UNCHANGED <<part, vars, analyticsVars, keyVars, rateVars>>
    \/ part = "analytics" /\ AnalyticsNext /\ UNCHANGED <<part, vars, onboardingVars, keyVars, rateVars>>
    \/ part = "keys" /\ KeysNext /\ UNCHANGED <<part, vars, onboardingVars, analyticsVars, rateVars>>
    \/ part = "limit" /\ RateLimitNext /\ UNCHANGED <<part, vars, onboardingVars, analyticsVars, keyVars>>

AuthSpec == AuthInit /\ [][AuthNext]_authVars

=============================================================================
