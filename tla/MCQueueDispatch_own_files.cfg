SPECIFICATION Spec
CONSTANTS
  r1 = r1
  r2 = r2
  p1 = p1
  p2 = p2
  cube = cube
  NoPrinter = NoPrinter
  NoItem = NoItem
  Items <- TwoRows
  Printers <- OnePrinter
  Files = {r1, r2}
  FileOf <- OwnFile
  MaxAttempts = 2
  UploadLimits = {2}
  RequirePlateClear = TRUE
  EditRoutes = {}
  MaxFaults <- CrossedRoute
SYMMETRY RowSymmetry
CONSTRAINT AllPinned
INVARIANTS
  LateStartExpected
PROPERTIES
  CompletionClosesOwnRow
CHECK_DEADLOCK FALSE
