SPECIFICATION FairSpec
CONSTANTS
  r1 = r1
  r2 = r2
  p1 = p1
  p2 = p2
  cube = cube
  NoPrinter = NoPrinter
  NoItem = NoItem
  Items <- OneRow
  Printers <- OnePrinter
  Files = {cube}
  FileOf <- SameFile
  MaxAttempts = 2
  UploadLimits = {1}
  RequirePlateClear = TRUE
  EditRoutes = {}
  MaxFaults <- LostReports
INVARIANTS
  RetryBudget
PROPERTIES
  
  EveryRowEnds
  ClaimReleased
CHECK_DEADLOCK FALSE
