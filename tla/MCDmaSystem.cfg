SPECIFICATION Spec
CONSTANTS
  None = None
  Rx = 20
  Tx = 30
  FifoDepth = 1
  Memory <- MCMemory
  PowerUp <- MCPowerUp
  DmaWindow <- MCWindow
  Job <- MCJob
INVARIANTS
  NoOrphan
  ProgressIsTrue
PROPERTIES
  EndsAreReported
  WaitMeansCopied
