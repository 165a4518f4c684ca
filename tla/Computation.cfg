SPECIFICATION Spec
CONSTANTS
    p = p
    Ids = {1, 2, 3}
    Self = 3
    Peers = {1}
    NumSrc = 3
    CpuId <- MCCpuId
    W = 16
    LongMax = 8
    PfxChars = {p}
    Site = site
    Beacon = beacon
    None = none
    PfxOf <- MCPfxOf
    Cap = 3
    MaxTs = 2
    MaxSensors = 1
    DebugChunks <- MCDebugChunks

    
    
PROPERTIES
    KeepsNewest
CHECK_DEADLOCK FALSE
