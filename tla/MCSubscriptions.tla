-------------------------- MODULE MCSubscriptions --------------------------
\* Instances of Subscriptions for TLC.
EXTENDS SubscriptionsProps, TLC

CONSTANTS w1, w2, t1, t2

OneWorkspace == {w1}
TwoWorkspaces == {w1, w2}
OneTask == {t1}
TwoTasks == {t1, t2}

Symmetry == Permutations(TwoTasks) \cup Permutations(TwoWorkspaces)

=============================================================================
