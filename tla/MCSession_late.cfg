CONSTANTS
    MaxSessions = 1
    MaxTokens = 1
    MaxInfos = 1
    MaxBatch = 2
    MaxPosted = 1
    Interruptible = {1}
    Given <- WithPassword
    RepliesGoOn = FALSE
    LateReplies = TRUE
SPECIFICATION Spec
INVARIANTS ConnectsOnce
CHECK_DEADLOCK FALSE
