CONSTANTS
    Astern = 3
    Ahead = 15
    ShallowCap = 4
    AnchorCap = 2
    AccelLim = 2
    Snap = 1
    Kp = 2
    Ki = 1
    MaxTorque = 20
    MaxCycles = 10
SPECIFICATION Spec
INVARIANT WindupIsBounded
PROPERTY ProfileWithoutSteps
CHECK_DEADLOCK FALSE
