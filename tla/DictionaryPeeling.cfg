SPECIFICATION Spec
CONSTANTS
    Keys = {k1, k2, k3, k4, k5}
    NoKey = NoKey
    tableRealSize = 3
    gamma = 0
    FieldBits = {}
    Times = 1
SYMMETRY KeySymmetry
INVARIANTS PeelingFindsCore RowsFillMatrix PeeledOnce FreeBucketLeft
