SPECIFICATION AuthSpec
CONSTANTS
    u1 = u1
    u2 = u2
    a1 = a1
    t1 = t1
    t2 = t2
    v1 = v1
    None = None
    Users <- TwoUsers
    Accounts <- OneAccount
    EmailOf <- EmailOfFirst
    SlugOf <- SameSlug
    ApiTokens = {k1}
    Tasks <- TwoTasks
    Codes = {1}
    MaxSecrets = 2
    MaxLinks = 3
    MaxInvites = 2
    MaxTime = 2
    MaxAsks = 6
    MaxCrashes = 1
    ClientSecrets = {s1, s2}
    NewFor = 2
    OldAfter = 3
    MaxHours = 5
    MaxPuts = 3
    MaxImportFaults = 1
    Facts = {f1, f2, f3}
    Opened = {f3}
    Visitors = {v1, v2}
    Batch = 2
    FlushAt = 2
    MaxAnalyticsFaults = 1
    Servers = {k1, k2}
    MaxRotations = 2
    Limit = 4
    Window = 4
    MaxSeconds = 9
INVARIANTS
    NobodyHomeless
    CodesOfSecret
    StatusIsOfTheKey
    EachRecordOnce
    TokenOutlivesRotation
    LoginsLimited
SYMMETRY Symmetry
CHECK_DEADLOCK FALSE
