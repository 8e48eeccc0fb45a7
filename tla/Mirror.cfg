SPECIFICATION MCSpec
CONSTANTS
  o1 = o1
  g1 = g1
  NULL = NULL
  Outputs <- MCOutputs
  Geoms <- MCGeoms
  MaxSockets = 1
  SendBuf = 1
  MaxPictures = 3
  EncDelay = 0
INVARIANTS
  Fresh
  NothingLost
  JointInv
PROPERTIES
  EndToEnd
  EachPictureSent
CHECK_DEADLOCK FALSE
