SPECIFICATION FairSpec
CONSTANTS
  MaxSockets = 1
  SendBuf = 1
  MaxPictures = 2
PROPERTIES
  RoundsEnd
CHECK_DEADLOCK FALSE
