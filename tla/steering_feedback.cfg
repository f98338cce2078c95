SPECIFICATION Spec
CONSTANTS
    Angles = {0, 3}
    Tolerance = 2
    JamTime = 2
    MaxCycles = 3
INVARIANTS Safety OrdersFlowDown JamNeedsTime
PROPERTIES FaultSurvivesSentences
