------------------------ MODULE CloudAccountProps ------------------------
(* What the service promises about a cloud account. *)
EXTENDS CloudAccount

\* The row can be read: to_model raises for a discovered, configured or degraded account without
\* access, and then every operation on the account fails for good.  Whatever comes between an
\* operation's look at the row and its update, the state and the access are written together.
AccessMatchesState ==
    /\ (access # None) <=> (st \in {"discovered", "configured", "degraded"})
    /\ access = Key => cloud = "other"
    /\ (enabled \/ scan) => access # None

Lifecycle == INSTANCE AccountLifecycle WITH state <- st, active <- enabled

\* Every step of every task is one the lifecycle allows: nobody but a user who names a role revives a
\* deleted account or gives access to a detected one, degrading and recovering keep the access, and
\* nobody but a user or the limit of the workspace switches an account on.
ImplementsLifecycle == Lifecycle!Spec

\* No account is discovered for ever, although the CloudAccountDiscovered message may be lost, given
\* up or find AWS not ready: the periodic task configures the account or degrades it.
Settles == (st = "discovered") ~> (st # "discovered")

\* An enabled account whose scans keep failing does not stay configured: the count ends at a success,
\* or the account is degraded, although the handler may be aborted between counting and degrading.
FailureNoticed ==
    (st = "configured" /\ enabled /\ failed > MaxFailed)
        ~> ~(st = "configured" /\ enabled /\ failed > MaxFailed)

=============================================================================
