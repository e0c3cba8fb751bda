SPECIFICATION Spec
CONSTANTS
    MaxTier = 3
    Interval <- ScanIntervals
    MaxLate = 3
    MaxChanges = 3
    MaxCrashes = 0
PROPERTY KeepsPaidTier
