CONSTANTS
    Clients = {helm}
    helm = helm
    MaxLines = 3
SPECIFICATION FairSpec
PROPERTY LinesAreServed
PROPERTY HandlersEnd
CHECK_DEADLOCK FALSE
