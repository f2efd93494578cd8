SPECIFICATION CrossedSpec
CONSTANTS
    a = a
    b = b
    Node = {a, b}
    MaxRoundsWithoutRecovery = 1
    BackUnstableRounds = 1
    MaxTimeoutsToCumulative = 1
    MaxDataTimeouts = 1
    MaxRecoTimeouts = 2
    FaultyNodes = {}
    PromptEvents = FALSE
    MaxRound = 4
    MaxSeq = 3
    MaxAnswer = 3
    CountTimers = TRUE
    MaxTimers = 0
INVARIANTS
    OnePerRound
    LogsAgree
