SPECIFICATION FairSpec
CONSTANTS
  v1 = v1 v2 = v2 s1 = s1
  Viewers <- TwoViewers
  Stoppers <- OneStopper
  MaxMinted = 3
  QueueSize = 2
  MaxFrames = 1
  MaxTimeouts = 1
INVARIANTS
  LiveInSlot
  SuccessorWaits
  TornDownIsClosed
  NoViewerCutOff
PROPERTIES
  UnwatchedCloses
  ViewerReleased
CHECK_DEADLOCK FALSE
