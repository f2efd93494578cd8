SPECIFICATION AgreedSpec
CONSTANTS
    a = a
    b = b
    Node = {a, b}
    MaxRoundsWithoutRecovery = 10
    BackUnstableRounds = 1
    MaxTimeoutsToCumulative = 1
    MaxDataTimeouts = 2
    MaxRecoTimeouts = 2
    FaultyNodes = {}
    PromptEvents = TRUE
    MaxRound = 5
    MaxSeq = 0
    MaxAnswer = 0
    CountTimers = TRUE
    MaxTimers = 3
PROPERTY CancelledWhenHeard
