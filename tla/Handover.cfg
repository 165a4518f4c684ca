SPECIFICATION FairSpec
CONSTANTS
    Size = 3
    Datum = {a, b}
    Cap = 2
    Retries = 3
    Period = 3
    Overlap = FALSE
    Late = FALSE
    MaxLoss = 2
    MaxFlight = 4
    MaxQueue = 8
PROPERTIES
    
    OneRemains
    TakeTurns
