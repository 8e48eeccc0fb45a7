SPECIFICATION FairSpec
CONSTANTS
  Requests = 2
  RecvMax = 24
  MaxPieces = 2
  BodyLen = 1
INVARIANTS
  BodiesExact
  NothingLeft
  ReaderInv
PROPERTIES
  WaitEnds
\* The script ends, or waits for ever on a connection that was closed.
CHECK_DEADLOCK FALSE
