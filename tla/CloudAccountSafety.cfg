SPECIFICATION Spec
CONSTANTS
    Roles = {r1, r2}
    Key = key
    None = none
    Handlers = {h1, h2}
    Requests = {q1}
    Periodic = periodic
    MaxFailed = 1
    MaxEvents = 1
    MaxEdits = 2
    MaxFaults = 0
SYMMETRY Symmetry
INVARIANT AccessMatchesState
PROPERTY ImplementsLifecycle
CHECK_DEADLOCK FALSE
