SPECIFICATION Spec
CONSTANTS
    self = self
    peer = peer
    p = p
    q = q
    Sources <- MCSources
    Self = self
    PfxChars = {p}
    Site = site
    None = none
    Cap = 3
    MaxTs = 3
    LongMax = 10
    MaxSensors = 1
    REBC_LAST = TRUE
    Repeats = FALSE

    
PROPERTIES
    
    FlagShields
    
