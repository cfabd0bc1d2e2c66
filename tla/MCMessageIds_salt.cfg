SPECIFICATION Spec
CONSTANTS
  dc1 = dc1
  dc2 = dc2
  Datacenters <- One
  Unit = 6
  MaxDelay = 1
  MaxTime = 2
  MaxId = 24
  MaxChanges = 2
PROPERTIES
  IdsAlwaysIncrease
CHECK_DEADLOCK FALSE
