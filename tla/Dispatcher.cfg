SPECIFICATION FairSpec
CONSTANTS
    Accounts = {a1, a2}
    Jobs = {j1, j2}
    Posts = {p1}
    Tasks = {scheduler}
    None = None
    Ttl = 2
    MaxCrashes = 1
INVARIANT
    RunningHasTtl
PROPERTIES
    MeteredBeforeCollected
    Released
