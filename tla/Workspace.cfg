SPECIFICATION FairSpec
CONSTANTS
    MaxTier = 3
    Interval <- ScanIntervals
    MaxLate = 3
    MaxChanges = 3
    MaxCrashes = 1
PROPERTIES NoDowngradeInCycle NextRunAhead RunsAgain ScheduleHeals
