SPECIFICATION MCSpec
CONSTANTS
  NumKeys = 2
  MaxUser = 2
  Absent = Absent
  ScanCodes = {0, 1}
  MaxCounter = 2
INVARIANTS
  VerifiedMeansSeenUp
  SendTellsTheTruth
PROPERTIES
  ImplementsLedger
  ReleaseEnds
CHECK_DEADLOCK FALSE
