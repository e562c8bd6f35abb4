SPECIFICATION Spec
CONSTANTS
  Modes <- Both
  MaxOps = 2
  BlockingSends = TRUE
  PeerFails = TRUE
  OtherSizes = TRUE
  Cancellers = {"user"}
INVARIANTS TypeOK OneAtATime CancelSettles
PROPERTIES ImplementsConduit
CHECK_DEADLOCK FALSE
