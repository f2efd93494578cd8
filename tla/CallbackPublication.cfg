SPECIFICATION Spec
CONSTANTS
    Node = {a, b}
    MaxRoundsWithoutRecovery = 10
    BackUnstableRounds = 1
    MaxTimeoutsToCumulative = 2
    MaxDataTimeouts = 2
    MaxRecoTimeouts = 2
    FaultyNodes = {}
    PromptEvents = TRUE
    MaxRound = 3
    MaxSeq = 1
    MaxAnswer = 1
    CountTimers = TRUE
    MaxTimers = 2
INVARIANT OthersAccounted
