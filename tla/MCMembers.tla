----------------------------- MODULE MCMembers -----------------------------
\* Instances of Members for TLC.
EXTENDS MembersProps, TLC

CONSTANTS u1, u2, t1, t2

OneUser == {u1}
TwoUsers == {u1, u2}
OneRequest == {t1}
TwoRequests == {t1, t2}

Symmetry == Permutations(TwoRequests)

=============================================================================
