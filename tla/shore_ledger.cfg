CONSTANTS
    QueueMax = 2
    MaxUpdates = 4
    MaxChanges = 2
    MaxFailures = 1
    MaxRuns = 2
SPECIFICATION FairSpec
INVARIANTS OneSourceOfAuthority FilesAreSound
PROPERTIES ImplementsFifo LiveStateCatchesUp
CHECK_DEADLOCK FALSE
