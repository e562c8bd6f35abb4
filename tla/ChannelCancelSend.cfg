SPECIFICATION Spec
CONSTANTS
  Modes <- ServerOnly
  MaxOps = 1
  BlockingSends = TRUE
  PeerFails = FALSE
  OtherSizes = FALSE
  Cancellers = {"other"}
INVARIANT SettledOnce
