SPECIFICATION Spec
CONSTANTS
    BLOCK = 6
    WORD = 2
    BITS = 6
    RADIX = 6
    MaxChunk = 17
    MaxLen = 218
    KeyLens = {0, 4, 6, 7, 16}
INVARIANTS
    TypeOK
    DigestIsRight
