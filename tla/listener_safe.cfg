CONSTANTS
    Clients = {helm, console}
    helm = helm
    console = console
    MaxLines = 2
SPECIFICATION Spec
INVARIANT Safety
INVARIANT AnswersMatchLines
INVARIANT StopClosesAll
PROPERTY ImplementsRegister
SYMMETRY ClientSymmetry
CHECK_DEADLOCK FALSE
