SPECIFICATION Spec
CONSTANTS
  Instances = {i1, i2, i3}
  MaxObjects = 5
  Nothing = Nothing
INVARIANTS
  ShmInv
  Isolation
  NameHeld
  SizedWhenUsed
  NeverAllRefused
CHECK_DEADLOCK FALSE
