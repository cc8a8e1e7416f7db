SPECIFICATION ChatSpec
CONSTANTS
    NONE = NONE
    Saved = 1
    Loops = {"tools"}
    MaxChats = 2
    MaxAgents = 2
    MaxTurns = 2
    MaxCalls = 0
    MaxTyped = 0
PROPERTIES SavedChatOnlyGrows
CHECK_DEADLOCK FALSE
