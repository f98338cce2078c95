CONSTANTS
    Ports = {p1, p2}
    Talkers = {p2}
    Frames = 2
    ClassCount = 3
    MaxBoots = 2
    MaxNoise = 2
    MaxEdits = 2
SPECIFICATION FairBootSpec
INVARIANT BootSafety
PROPERTY OnlyAbsenceIsReplaced
PROPERTY ProgramsSettle
CHECK_DEADLOCK FALSE
