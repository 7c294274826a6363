SPECIFICATION FairSpec
CONSTANTS
  None = None
  Depth = 3
  Byte <- MCByte
  Ddr <- MCDdr
  Value <- MCValue
  Request <- MCRequest
INVARIANTS
  NoLostStore
  DirectSeesAllStores
PROPERTIES
  FailStop
  ImplementsOrderedMemory
  Progress
