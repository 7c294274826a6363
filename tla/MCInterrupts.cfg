SPECIFICATION FairSpec
CONSTANTS
  None = None
  FifoDepth = 2
  Source <- MCSource
  Byte <- MCByte
  Setting <- MCSetting
INVARIANTS
  ServedOnce
  HandlerNeverStalls
PROPERTIES
  ImplementsByteQueue
  ForemostIsServed
