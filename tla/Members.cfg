SPECIFICATION Spec
CONSTANTS
    u1 = u1
    u2 = u2
    t1 = t1
    t2 = t2
    Workspaces = {w1}
    Users <- OneUser
    Owner = owner
    Requests <- TwoRequests
    None = none
    Seats = 3
    MaxInvites = 2
    MaxChanges = 1
    MaxCrashes = 1
INVARIANTS NoneStranded KeepsAdmin
PROPERTY RevokedLetsNobodyIn
SYMMETRY Symmetry
CHECK_DEADLOCK FALSE
