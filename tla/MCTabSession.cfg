SPECIFICATION FairSpec
CONSTANTS
  t1 = t1 c1 = c1 c2 = c2
  Tokens <- OneToken
  Checks <- TwoChecks
  Tries = 2
  MaxOutages = 2
  None = None NoFlight = NoFlight
INVARIANTS
  TypeOK
  NotSignedOut
PROPERTIES
  TokenKept
  WaitEnds
  EndedIsSeen
  SocketReturns
CHECK_DEADLOCK FALSE
