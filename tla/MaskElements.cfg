CONSTANTS
    ByteSize = 3
    hashSize = 1
    FieldSizes = {4, 5, 6}
SPECIFICATION Spec
INVARIANT EveryElementDrawn
CHECK_DEADLOCK FALSE
