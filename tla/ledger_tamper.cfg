CONSTANTS
    QueueMax = 2
    MaxCaptures = 4
    MaxRuns = 3
    MaxDays = 2
    MaxDamage = 0
    WatchdogBound = TRUE
SPECIFICATION Spec
INVARIANT TamperMeansDamage
CHECK_DEADLOCK FALSE
