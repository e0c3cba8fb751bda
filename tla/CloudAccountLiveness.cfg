SPECIFICATION FairSpec
CONSTANTS
    Roles = {r1}
    Key = key
    None = none
    Handlers = {h1}
    Requests = {q1}
    Periodic = periodic
    MaxFailed = 1
    MaxEvents = 1
    MaxEdits = 2
    MaxFaults = 1
PROPERTIES Settles FailureNoticed
CHECK_DEADLOCK FALSE
