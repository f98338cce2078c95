CONSTANTS
    Ring = 8
    MaxTurn = 3
    Creep = 1
    Apex = 8
    Half = 4
    Lag = 2
    Slack = 1
    MaxTicks = 3
SPECIFICATION GunSpec
INVARIANTS RateIsTrue Safety
PROPERTY FlagSettles
CHECK_DEADLOCK FALSE
