--------------------------- MODULE DispatcherProps ---------------------------
(***************************************************************************)
(* The properties of the collect run.                                      *)
(***************************************************************************)
EXTENDS Dispatcher

\* An account that is still being collected blocks the next collection of that account
\* (account_collection_ongoing), and its worker may never answer.  So the hash that holds such an
\* entry always carries an expiry, in whatever order runs overlap, expire and complete.
RunningHasTtl ==
    (\E a \in Accounts : progress[a] = "running") => progressTtl > 0

\* The same for the jobs hash, which delete_tenant_collect_state removes last and which a job
\* tracked in between may write again.
JobsHaveTtl ==
    (\E j \in Jobs : jobs[j] # None) => jobsTtl > 0

\* A result becomes visible as collected only after its usage was metered, even when the process
\* crashes between the two and the message comes again: usage is never lost.
MeteredBeforeCollected ==
    [][\A a \in Accounts :
        (progress[a] # "ok" /\ progress'[a] = "ok") => metered[msg.id] > 0]_vars

\* While nothing expires and the process stays up, no collect job is metered twice.
MeteredOnce == \A j \in Jobs : metered[j] <= 1

\* A post collect job is started with at least one account: the branch "Nothing to post collect",
\* which would complete the run and start the job all the same, is never taken.
PostCollectHasInput ==
    lpc = "enqueuePost" => \E a \in Accounts : snap[a] = "ok"

\* An account in a hash that expires is released: by the end of its run or by the expiry, even if
\* other accounts keep being started and renew it.  With RunningHasTtl: no account is blocked for
\* ever by a collection that does not end.
Released ==
    \A a \in Accounts :
        (progress[a] # "none" /\ progressTtl > 0) ~> (progress[a] = "none")

-----------------------------------------------------------------------------
\* While a run is being completed its results are already in the report, and the entries wait only
\* for their deletion.
Completing == lpc \in {"publish", "delProgress"}

Run == INSTANCE CollectRun WITH
    phase <- [a \in Accounts |->
                IF Completing /\ progress[a] \in Done THEN "none" ELSE progress[a]],
    outbox <- IF lpc = "publish" THEN snap ELSE Empty

\* While nothing expires and the process stays up, the code keeps the promise of CollectRun.
ImplementsCollectRun == Run!Spec

=============================================================================
