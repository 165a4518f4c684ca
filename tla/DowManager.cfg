SPECIFICATION FairSpec
CONSTANTS
    Period = 2
    Wrap = 2
    MaxQueue = 4
INVARIANTS
    OneSecond
    
    
    TimeAddsUp
PROPERTIES
    StopEnds
    PeriodsEnd
    DataArePublished
