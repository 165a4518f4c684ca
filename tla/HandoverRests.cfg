SPECIFICATION Spec
CONSTANTS
    Size = 3
    Datum = {a}
    Cap = 1
    Retries = 1
    Period = 2
    Overlap = FALSE
    Late = FALSE
    MaxLoss = 0
    MaxFlight = 4
    MaxQueue = 8
PROPERTIES
    RestsAreFull
