SPECIFICATION Spec
CONSTANTS
    self = self
    peer = peer
    p = p
    q = q
    Sources <- MCSources
    Self = self
    PfxChars = {p, q}
    Site = site
    None = none
    Cap = 3
    MaxTs = 3
    LongMax = 10
    MaxSensors = 2
    REBC_LAST = FALSE
    Repeats = FALSE
PROPERTY
    OnlyValueGoesLast
