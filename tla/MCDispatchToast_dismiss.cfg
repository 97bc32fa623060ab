SPECIFICATION Spec
CONSTANTS
  i1 = i1 i2 = i2
  Items <- TwoItems
  MaxDispatches = 2
  MaxFaults = 0
  MaxInTransit = 2
PROPERTIES
  DismissedWhenAllEnded
CHECK_DEADLOCK FALSE
