SPECIFICATION Spec
CONSTANTS
  Item = {a, b}
  Raw = Raw
  InitialCapacity = 1
  MaxPushes = 7
INVARIANTS TypeOK FrontExists PushesIntoRawStorage
PROPERTY ImplementsFifo
