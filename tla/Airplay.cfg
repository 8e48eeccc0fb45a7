SPECIFICATION Spec
CONSTANTS
  MaxSockets = 2
  SendBuf = 1
  MaxPictures = 2
INVARIANTS
  TypeOK
  DeliveryInv
  InStep
  LagBounded
PROPERTIES
  SessionSpec
\* The process ends; nothing follows.
CHECK_DEADLOCK FALSE
