SPECIFICATION Spec
CONSTANTS
  PtsValues = 32
  TimeBase = 8
  NsPerUs = 2
  Period = 2
  MaxPause = 4
  Origins = {0, 3, 26}
  Offsets <- MCOffsets
  Horizon = 14
INVARIANTS
  TimingInv
  PtsExact
  PtsNeverBack
  Paced
PROPERTIES
  PauseEnds
CHECK_DEADLOCK FALSE
