SPECIFICATION Spec
CONSTANTS
    NAccounts = 3
    Limit = 1
    NSubs = 1
    h1 = h1
    h2 = h2
    Handlers <- OneHandler
    Timeout = 1
    Window = 2
    MaxLate = 1
    MaxRequests = 1
    MaxChanges = 1
    MaxCrashes = 1
INVARIANT CleanedInWindow
PROPERTY KeepsOne
CHECK_DEADLOCK FALSE
