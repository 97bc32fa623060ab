SPECIFICATION Spec
CONSTANTS
  r1 = r1
  r2 = r2
  p1 = p1
  p2 = p2
  cube = cube
  NoPrinter = NoPrinter
  NoItem = NoItem
  Items <- TwoRows
  Printers <- TwoPrinters
  Files = {cube}
  FileOf <- SameFile
  MaxAttempts = 1
  UploadLimits = {1, 2}
  RequirePlateClear = TRUE
  EditRoutes = {"bulk"}
  MaxFaults <- NoFaults
SYMMETRY FullSymmetry
INVARIANTS
  OneRowPerPrinter
  OneDispatchPerPrinter
  DispatchInv
PROPERTIES
  ImplementsAbstract
CHECK_DEADLOCK FALSE
