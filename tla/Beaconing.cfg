SPECIFICATION MCSpec
CONSTANTS
    Node <- MCNode
    ID <- MCID
    Count = 2
    Wait = 3
    PeriodMax = 1
    MaxSkew = 3
    Lossy = TRUE
    FalsePositives = TRUE
    Together = 1
INVARIANTS
    PositionsAreRanks
    PlaceIsPossible
PROPERTY
    EveryNodeDecides
