CONSTANTS
    MaxStarts = 2
    MaxHandles = 3
SPECIFICATION FairSpec
INVARIANT Safety
PROPERTIES NothingAfterStop Reconnects
CHECK_DEADLOCK FALSE
