SPECIFICATION FairSpec
CONSTANTS
  t1 = t1 c1 = c1 c2 = c2
  Tokens <- OneToken
  Checks <- TwoChecks
  Tries = 1
  MaxOutages = 1
  None = None NoFlight = NoFlight
PROPERTIES
  SignedOutIsSeen
CHECK_DEADLOCK FALSE
