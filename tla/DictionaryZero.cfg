SPECIFICATION Spec
CONSTANTS
    Keys = {k1, k2}
    NoKey = NoKey
    tableRealSize = 2
    gamma = 0
    FieldBits = {b}
    Times = 1
INVARIANT CheckOutput
