SPECIFICATION Spec
CONSTANTS
  UInt8 = 5
  BuffSize = 19
  MaxUnits = 2
  Stretches <- MCSingle
  MaxFirst = 1
  SizeValues = 256
  SpsSet <- MCSps
  PpsSet <- MCPps
INVARIANTS
  UnitsMarked
CHECK_DEADLOCK FALSE
