SPECIFICATION WorkbenchSpec
CONSTANTS
    a = a
    b = b
    f = f
    g = g
    NONE = NONE
    Peers = {a, b}
    FirstId <- FirstIds
    MaxStreams = 1
    MaxTokens = 1
    Stoppers = {}
    Admitted = {a}
    MaxTrouble = 2
    Paths = {f, g}
    Present = {f}
    NoPath = NoPath
    MaxStrokes = 1
    MaxSyncs = 1
    MaxLinks = 2
    Saved = 0
    Loops = {"tools"}
    MaxChats = 2
    MaxAgents = 2
    MaxTurns = 2
    MaxCalls = 0
    MaxTyped = 0
INVARIANTS TypesOK TokensReachTheirRequester ReplyIsWhole StopReachesEngine NoStreamForgotten Converged LockLifts SyncMatchesDisk SavedWhereAsked NoEditAfterStop
PROPERTIES NoTextUnlessApproved ChatKeepsItsTurns TypingSurvives
CHECK_DEADLOCK FALSE
