SPECIFICATION FairSpec
CONSTANTS
    Node = {a, b, c}
    Publishers = {a, b}
    Fetchers = {c}
    MaxSeq = 2
    MaxPublished = 3
    MaxPackets = 2
    MaxFetches = 1
    Rounds = {1}
    Retries = {0, 1}
    HasValidator = TRUE
INVARIANTS
    ReceivedAsSent
    ReportedOnce
    ReportedIsStored
    MergeIsUnion
    RetriesSpent
PROPERTY FetchEnds
