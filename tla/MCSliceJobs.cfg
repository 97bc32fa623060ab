SPECIFICATION FairSpec
CONSTANTS
  benchy = benchy bracket = bracket
  Works <- TwoWorks
  MaxId = 2
  MaxRestarts = 1
  MaxLost = 1
  ReadAll = TRUE
  NoJob = NoJob NoRound = NoRound NoAnswer = NoAnswer Nothing = Nothing
INVARIANTS
  TypeOK
  AnnouncedOnce
  ToastsHaveJobs
  ToldTheTruth
  LeftWasTold
PROPERTIES
  TrackedEnds
CHECK_DEADLOCK FALSE
