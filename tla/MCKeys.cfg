SPECIFICATION KeysInFocus
CONSTANTS
  Depth = 4
  Key = {"w", "up", "shift"}
  Shift = "shift"
  Reported <- MCReported
  Keysym <- MCKeysym
  KeyCode <- MCKeyCode
  Release = 27
  MaxTimers = 2
INVARIANTS
  KeyUpIsTransmitted
CHECK_DEADLOCK FALSE
