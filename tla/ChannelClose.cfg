SPECIFICATION FairSpec
CONSTANTS
  Modes <- Both
  MaxOps = 2
  BlockingSends = TRUE
  PeerFails = TRUE
  OtherSizes = FALSE
  Cancellers = {}
INVARIANTS NoStall CloseDrains PromisesKept
PROPERTIES CloseReturns CallsReturn
CHECK_DEADLOCK FALSE
