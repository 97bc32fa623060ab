SPECIFICATION Spec
CONSTANTS
  r1 = r1
  r2 = r2
  p1 = p1
  p2 = p2
  cube = cube
  NoPrinter = NoPrinter
  NoItem = NoItem
  Items <- TwoRows
  Printers <- TwoPrinters
  Files = {r1, r2}
  FileOf <- OwnFile
  MaxAttempts = 1
  UploadLimits = {2}
  RequirePlateClear = TRUE
  EditRoutes = {"single"}
  MaxFaults <- NoFaults
INVARIANTS
  OneRowPerPrinter
CHECK_DEADLOCK FALSE
