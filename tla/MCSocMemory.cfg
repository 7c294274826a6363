SPECIFICATION Spec
CONSTANTS
  None = None
  FastHit = TRUE
  Depth = 2
  Byte <- MCByte
  Ddr <- MCDdr
  Value <- MCValue
  Request <- MCRequest
  Word <- MCWord
  Index <- MCIndex
  IndexOf <- MCIndexOf
  CpuRequest <- MCCpu
  WalkerRequest <- MCWalker
  FetchRequest <- MCFetch
  DmaRequest <- MCDma
  PowerUp <- MCPowerUp
  Ready <- MCEitherReady
INVARIANTS
  AgentsOwnMemory
  LoadsAreCurrent
PROPERTIES
  FaultStopsTheBus
