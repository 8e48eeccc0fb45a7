SPECIFICATION Spec
CONSTANTS
  UInt8 = 5
  BuffSize = 19
  MaxUnits = 3
  Stretches <- MCStretches
  MaxFirst = 2
  SizeValues = 256
  SpsSet <- MCSps
  PpsSet <- MCPps
INVARIANTS
  UnitsFound
  LastUnitMarked
  SentFromFirstUnit
  CodecDataExact
  RecordFits
CHECK_DEADLOCK FALSE
