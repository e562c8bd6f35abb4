CONSTANTS
    WordBits <- OneBit
    CodeBits <- TwoColumns
    plaintextBlkSize = 1
    Generator <- Repetition
    numOTs = 3
    mStatSecParam = 1
    RowBlock = 1
    mMalicious = FALSE
    NDEBUG = TRUE
    Keys = {k1, k2}
    tableRealSize = 1
    gamma = 1
    stepSize = 2
    times = 2
SPECIFICATION MCFairSpec
INVARIANTS TypeOK EncodedKeysMatch XorsSetFresh SessionsPair
PROPERTIES SendBuffersStable ImplementsIdeal Finishes
