CONSTANTS
    WordBits <- OneBit
    CodeBits <- OneBit
    plaintextBlkSize = 1
    Generator <- Repetition
    numOTs = 2
    mStatSecParam = 1
    RowBlock = 1
    mMalicious = TRUE
    NDEBUG = TRUE
SPECIFICATION OtSpec
INVARIANTS OtTypeOK EncodingsAgree CheckHoldsBeforeCorrection
CHECK_DEADLOCK FALSE
