SPECIFICATION FairSpec
CONSTANTS
    Keys = {k1, k2, k3}
    NoKey = NoKey
    tableRealSize = 2
    gamma = 1
    FieldBits = {b}
    Times = 2
INVARIANTS TypeOK SignMarksCore SolvedKeysDecode
PROPERTIES UnpeelingSetsOnce Terminates
