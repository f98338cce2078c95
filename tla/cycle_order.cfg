CONSTANTS
    QueueMax = 6
    Paces = {0, 5}
    MaxCycles = 4
    PokeDefined = TRUE
SPECIFICATION Spec
INVARIANT TypeOK
INVARIANT FinsInStep
INVARIANT FastWireKeepsUp
PROPERTY WireAdvances
CHECK_DEADLOCK FALSE
