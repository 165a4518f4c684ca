SPECIFICATION MCFairSpec
CONSTANTS
    Node <- MCNode
    Links <- MCLinks
    Routes <- MCRoutes
    Default = Default
    Store = 1
    Consumer = 8
    Noisy = {10}
    NUMBER_OF_CHUNKS = 3
    FLOW_THR = 1
    Stale = {0, 2, 255}
    Duplicates = TRUE
    MaxLoss = 2
    MaxFlight = 2
    MaxQueue = 2
INVARIANTS
    AnswersArePending
    RetriesPass
    KeepsTrying
PROPERTY
    FetchEnds
