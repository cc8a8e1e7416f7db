SPECIFICATION Spec
CONSTANTS
    a = a
    b = b
    Peers = {a, b}
    FirstId <- Fresh
    MaxStreams = 1
    MaxTokens = 1
    Stoppers = {}
    Admitted = {a, b}
    MaxTrouble = 0
INVARIANTS TokensReachTheirRequester
CHECK_DEADLOCK FALSE
