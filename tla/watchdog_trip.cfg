CONSTANTS
    Ledgers = {flag, bilge}
    flag = flag
    bilge = bilge
    Timeout = 1
    Period = 1
    Overload = 1
    QueueMax = 2
SPECIFICATION Spec
INVARIANT StallIsFlagged
INVARIANT StallCutsTorque
INVARIANT Safety
INVARIANT TorqueIsRestored
SYMMETRY LedgerSymmetry
CHECK_DEADLOCK FALSE
