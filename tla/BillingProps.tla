---------------------------- MODULE BillingProps ----------------------------
(* What billing promises to the company and to its customers. *)
EXTENDS Billing

\* No time is skipped: all time before the charge timestamp was charged or found without usage, although
\* the job and the listener may write the timestamp in any order, even set it back, and may die between
\* any two steps.
NothingSkipped == \A x \in Times : x < last => x \in settled

\* As long as the customer does not cancel, nothing is charged twice, wherever the job dies and however
\* late it runs.
ChargedOnce ==
    cancels = 0 => \A w \in Workspaces, x \in Times : charged[w][x] <= 1

\* An entry is marked as reported only when the marketplace has taken it: a report that fails, and a job
\* that dies, never lose the money.
MarkedWasTold == marked \subseteq told

\* Every entry reaches the marketplace, although the job may die and reports may fail, and whoever made
\* it; only the end of a Stripe subscription, whose row is deleted, drops its entries.
Reported == \A e \in Entries : (e \in made /\ exists) ~> (e \in told \/ ~exists)

\* A subscription that is due is charged, even when the job misses the hour.
DueIsCharged == (exists /\ attached # {} /\ next <= now) ~> (next > now \/ attached = {} \/ ~exists)

=============================================================================
