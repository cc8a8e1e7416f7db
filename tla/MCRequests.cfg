SPECIFICATION RequestsSpec
CONSTANTS
    a = a
    b = b
    c = c
    c1 = c1
    c2 = c2
    NONE = NONE
    Peers = {a, b, c}
    ClientID <- DistinctIDs
    Callers = {a, b}
    MaxRequests = 1
    Comps = {c1, c2}
    Runners = {c1, c2}
    Debuggers = {c1}
    Mono = FALSE
    MaxEdits = 1
    MaxCalls = 2
    Removed = {c2}
INVARIANTS TypesOK AnswerIsMine SessionIsOwned RunIsTracked
PROPERTIES EveryCallSettles AnsweredCallSettles SettledForGood
CHECK_DEADLOCK FALSE
