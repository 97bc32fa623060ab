SPECIFICATION Spec
CONSTANTS
  r1 = r1
  r2 = r2
  p1 = p1
  p2 = p2
  cube = cube
  NoPrinter = NoPrinter
  NoItem = NoItem
  Items <- TwoRows
  Printers <- OnePrinter
  Files = {cube}
  FileOf <- SameFile
  MaxAttempts = 1
  UploadLimits = {2}
  RequirePlateClear = TRUE
  EditRoutes = {}
  MaxFaults <- CrashAndRaise
SYMMETRY RowSymmetry
INVARIANTS
  ExpectationJustified
  ReservationJustified
  ClaimJustified
PROPERTIES
  ImplementsAbstract
CHECK_DEADLOCK FALSE
