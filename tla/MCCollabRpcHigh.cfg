SPECIFICATION Spec
CONSTANTS
    a = a
    b = b
    c = c
    Peers = {a, b, c}
    ClientID <- HighByteIDs
    Callers = {a, b}
    MaxRequests = 1
PROPERTIES AnsweredCallSettles
CHECK_DEADLOCK FALSE
