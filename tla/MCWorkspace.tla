---------------------------- MODULE MCWorkspace ----------------------------
EXTENDS WorkspaceProps, TLC

\* Trial, Free, Plus, Business: an hour, a month, a day and an hour, shortened
ScanIntervals == (0 :> 1) @@ (1 :> 4) @@ (2 :> 2) @@ (3 :> 1)

=============================================================================
