---------------------------- MODULE MCDispatcher ----------------------------
\* Instances of Dispatcher for TLC.
EXTENDS DispatcherProps, TLC

Symmetry == Permutations(Accounts) \cup Permutations(Jobs)
=============================================================================
