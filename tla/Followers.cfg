SPECIFICATION FollowersSpec
CONSTANTS
    u1 = u1
    u2 = u2
    w1 = w1
    w2 = w2
    None = None
    Benchmarks = {b1}
    Channels = {slack, mail}
    Emails = {mail}
    Collects = {c1}
    Requests = {q1}
    MaxAlertAsks = 3
    MaxDown = 1
    MaxAlertFaults = 1
    Spaces = {w1}
    TrialDays = 1
    DaysBefore = {0, 1}
    KeepDays = 0
    MaxDays = 2
    MaxBySupport = 1
    MaxReminderFaults = 1
    People = {u1, u2}
    Teams = {w1, w2}
    MemberOf <- AllMembers
    Edits = {e1, e2}
    MaxMailAsks = 2
    MaxMailFaults = 1
    CloudAccounts = {a1}
    Names = {n1, n2}
    Replicas = {p1, p2}
    Editors = {e1, e2}
    TierRetention <- Retention
    MaxDisturbances = 2
    MaxLines = 2
INVARIANTS
    NoAlertLost
    NotSentAgain
    RemindersComplete
    MarkedMeansMailed
    ConfigFollowsTables
    EndMeansComplete
PROPERTIES
    RemindersStop
    DueIsMailed
    OptOutStays
    NamesCatchUp
CHECK_DEADLOCK FALSE
