SPECIFICATION FairSpec
CONSTANTS
  i1 = i1 i2 = i2
  Items <- TwoItems
  MaxDispatches = 3
  MaxFaults = 1
  MaxInTransit = 2
INVARIANTS
  TypeOK
  RowShowsLastWord
  SpinsForAReason
PROPERTIES
  SpinningEnds
  EndedToastGoes
CHECK_DEADLOCK FALSE
