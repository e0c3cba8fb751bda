SPECIFICATION TimelySpec
CONSTANTS
    Accounts = {a1, a2}
    Jobs = {j1, j2, j3}
    Posts = {p1, p2}
    Tasks = {scheduler, handler}
    None = None
    Ttl = 1
    MaxCrashes = 0
SYMMETRY Symmetry
PROPERTY
    ImplementsCollectRun
CHECK_DEADLOCK FALSE
