SPECIFICATION LateSpec
CONSTANTS
    a = a
    b = b
    Node = {a, b}
    MaxRoundsWithoutRecovery = 1
    BackUnstableRounds = 1
    MaxTimeoutsToCumulative = 1
    MaxDataTimeouts = 1
    MaxRecoTimeouts = 1
    FaultyNodes = {}
    PromptEvents = TRUE
    MaxRound = 4
    MaxSeq = 0
    MaxAnswer = 0
    CountTimers = TRUE
    MaxTimers = 2
INVARIANTS
    RoundOrder
    NeverCrashes
    OthersAccounted
    RecoveryUnderWay
    SkippedIsSought
PROPERTIES
    StableKept
    DisseminatesOn
