SPECIFICATION FairSpec
CONSTANTS
    WAIT_SECONDS = 2
    MAX_RETRANSMIT = 1
    Blocks = 3
    CLOCK_OFFSET = 1
    Scripts <- MCScripts
    Delays = {0, 2}
INVARIANTS
    TypeOK
    OwnAnswers
    BlocksFollow
PROPERTIES
    
    CommandsEnd
    
CHECK_DEADLOCK FALSE
