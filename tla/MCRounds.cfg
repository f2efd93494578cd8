SPECIFICATION Spec
CONSTANTS
    Node = {a, b}
    MaxRoundsWithoutRecovery = 1
    BackUnstableRounds = 1
    MaxTimeoutsToCumulative = 2
    MaxDataTimeouts = 2
    MaxRecoTimeouts = 2
    FaultyNodes = {}
    PromptEvents = TRUE
    MaxRound = 3
    MaxSeq = 1
    MaxAnswer = 0
    CountTimers = TRUE
    MaxTimers = 2
SYMMETRY Symmetry
INVARIANTS
    TypeOK
    RoundOrder
    NeverCrashes
    LogIsPast
    OthersAccounted
    CumulativeIsUnion
    KeepsAsking
PROPERTIES
    StableKept
    Disseminates
