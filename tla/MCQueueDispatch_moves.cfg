SPECIFICATION Spec
CONSTANTS
  r1 = r1
  r2 = r2
  p1 = p1
  p2 = p2
  cube = cube
  NoPrinter = NoPrinter
  NoItem = NoItem
  Items <- OneRow
  Printers <- TwoPrinters
  Files = {cube}
  FileOf <- SameFile
  MaxAttempts = 1
  UploadLimits = {1}
  RequirePlateClear = TRUE
  EditRoutes = {"bulk", "single"}
  MaxFaults <- PrinterFaults
SYMMETRY PrinterSymmetry
INVARIANTS
  TypeOK
  NotReassignedInFlight
  CompletedWasSent
CHECK_DEADLOCK FALSE
