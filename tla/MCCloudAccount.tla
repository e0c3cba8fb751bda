-------------------------- MODULE MCCloudAccount --------------------------
EXTENDS CloudAccountProps, TLC

Symmetry == Permutations(Roles) \cup Permutations(Handlers)

=============================================================================
