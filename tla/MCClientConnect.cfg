CONSTANTS
    Remotes = 3
    Generations = 4
    CacheEnabled = TRUE
    PollEnabled = TRUE
    ConnTimeout = TRUE
    PauseOnTimeout = TRUE
    Codes <- Handled
    Calls <- AllCalls
    MaxPosted = 1
    MaxQueue = 2
SPECIFICATION Spec
INVARIANTS NeverStranded FinalizedOnce DisconnectedIsLast
PROPERTIES ResolvingKeepsSession ReconnectHappens TriesEveryRemote
CHECK_DEADLOCK FALSE
