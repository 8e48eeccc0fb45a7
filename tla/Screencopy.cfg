SPECIFICATION FairSpec
CONSTANTS
  o1 = o1
  o2 = o2
  g1 = g1
  g2 = g2
  NULL = NULL
  Outputs <- MCOutputs
  Geoms <- MCGeoms
  MaxRequest = 2
  Stamps = 2
INVARIANTS
  TypeOK
  InductiveInv
  BufferExclusive
  CoherentFrame
  ReadInBounds
  CleanupOwnsBuffer
  OneFrameObject
  BoundOutput
PROPERTIES
  KeepsStreaming
  DisconnectEnds
\* The process ends; nothing follows.
CHECK_DEADLOCK FALSE
