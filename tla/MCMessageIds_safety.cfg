SPECIFICATION Spec
CONSTANTS
  dc1 = dc1
  dc2 = dc2
  Datacenters <- Two
  Unit = 6
  MaxDelay = 1
  MaxTime = 2
  MaxId = 16
  MaxChanges = 3
PROPERTIES
    IdsIncrease
    
CHECK_DEADLOCK FALSE
