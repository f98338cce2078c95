CONSTANTS
    QueueMax = 2
    MaxCaptures = 4
    MaxRuns = 3
    MaxDays = 2
    MaxDamage = 1
    WatchdogBound = TRUE
SPECIFICATION FairSpec
INVARIANT TypeOK
INVARIANT RunsAreChained
INVARIANT OneRunVerifies
INVARIANT RowsAreReported
PROPERTY BootSeesDamage
PROPERTY ImplementsFifo
PROPERTY QueueDrains
CHECK_DEADLOCK FALSE
