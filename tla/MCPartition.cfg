SPECIFICATION DivergedSpec
CONSTANTS
    a = a
    b = b
    Node = {a, b}
    MaxRoundsWithoutRecovery = 10
    BackUnstableRounds = 1
    MaxTimeoutsToCumulative = 1
    MaxDataTimeouts = 1
    MaxRecoTimeouts = 1
    FaultyNodes = {a, b}
    PromptEvents = FALSE
    MaxRound = 3
    MaxSeq = 0
    MaxAnswer = 0
    CountTimers = TRUE
    MaxTimers = 2
INVARIANTS
    RoundOrder
    NeverCrashes
    LogBehindState
PROPERTIES
    DisseminatesOn
