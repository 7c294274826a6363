SPECIFICATION FairSpec
CONSTANTS
  None = None
  FastHit = TRUE
  Depth = 1
  Byte <- MCByte
  Ddr <- MCDdr
  Value <- MCValue
  Request <- MCRequest
  Word <- MCWord
  Index <- MCIndex
  IndexOf <- MCIndexOf
  CpuRequest <- MCCpuFew
  WalkerRequest <- MCWalker
  FetchRequest <- MCFetch
  DmaRequest <- MCDma
  PowerUp <- MCPowerUp
  Ready <- MCCalibrated
PROPERTIES
  AgentsAreServed
  CpuIsServed
