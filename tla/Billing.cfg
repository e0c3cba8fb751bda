SPECIFICATION FairSpec
CONSTANTS
    Workspaces = {w1}
    Entries = {e1, e2}
    None = none
    Period = 2
    MaxTime = 4
    MaxCancels = 1
    MaxFaults = 1
INVARIANTS NothingSkipped ChargedOnce
PROPERTIES Reported DueIsCharged
