\* Halves below 6: the low half rolls over five times before the horizon, and
\* the milliseconds, of six cycles, once.
SPECIFICATION TimerSpec
CONSTANTS
  Half = 6
  Horizon = 34
  \* with the low half at both ends
  Deadline = {6, 17, 24}
  Millisecond = 6
  MsWrap = 4
  Sleep = {1, 3}
INVARIANTS
  NoTransientMatch
  ReadIsTrue
PROPERTIES
  SleepLasts
CHECK_DEADLOCK FALSE
