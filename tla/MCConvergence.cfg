SPECIFICATION ConvergenceSpec
CONSTANTS
    a = a
    b = b
    Node = {a, b}
    MaxRoundsWithoutRecovery = 10
    BackUnstableRounds = 1
    MaxTimeoutsToCumulative = 1
    MaxDataTimeouts = 1
    MaxRecoTimeouts = 1
    FaultyNodes = {}
    PromptEvents = TRUE
    MaxRound = 4
    MaxSeq = 1
    MaxAnswer = 1
    CountTimers = FALSE
    MaxTimers = 0
PROPERTIES
    PublishedIsLearned
    RecoveryCompletes
    LogsConverge
CHECK_DEADLOCK FALSE
