SPECIFICATION FairSpec
CONSTANTS
    HopLimit = 1
    Byte = 3
    Setups <- MCSetups
    NewIds <- MCNewIds
    Texts <- MCTexts
INVARIANTS TypeOK AnswersFindTheAsker
PROPERTIES AnnouncedOnce  
CHECK_DEADLOCK FALSE
