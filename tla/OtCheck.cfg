CONSTANTS
    WordBits <- OneBit
    CodeBits <- OneBit
    plaintextBlkSize = 1
    Generator <- Repetition
    numOTs = 1
    mStatSecParam = 1
    RowBlock = 1
    mMalicious = TRUE
    NDEBUG = FALSE
SPECIFICATION OtSpec
INVARIANTS LinearRelationHolds
CHECK_DEADLOCK FALSE
