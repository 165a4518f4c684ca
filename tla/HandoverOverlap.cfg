SPECIFICATION Spec
CONSTANTS
    Size = 3
    Datum = {a}
    Cap = 1
    Retries = 1
    Period = 1
    Overlap = TRUE
    Late = TRUE
    MaxLoss = 0
    MaxFlight = 2
    MaxQueue = 2
CONSTRAINT FewWait
INVARIANTS
    OneAlarm
    WaitersAreAwake
    NoStaleRelief
CHECK_DEADLOCK FALSE
