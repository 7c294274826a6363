SPECIFICATION Spec
CONSTANTS
  None = None
  FastHit = TRUE
  Byte <- MCByte
  Ddr <- MCDdr
  Value <- MCValue
  Request <- MCRequest
  Word <- MCWord
  Index <- MCIndex
  IndexOf <- MCIndexOf
INVARIANTS
  LinesMirrorMemory
PROPERTIES
  ImplementsAtomicMemory
