CONSTANTS
    MaxSessions = 2
    MaxTokens = 1
    MaxInfos = 2
    MaxBatch = 2
    MaxPosted = 1
    Interruptible = {1}
    Given <- WithPassword
    RepliesGoOn = FALSE
    LateReplies = FALSE
SPECIFICATION Spec
INVARIANTS DownWhenEnded InfoInOrder CredentialsLast AsksUntilAnswered
PROPERTIES RejectedTokenIsGone ConnectReturns
CHECK_DEADLOCK FALSE
