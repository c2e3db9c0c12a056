SPECIFICATION FairSpec
CONSTANTS
  MaxSessions = 2
  MaxCalls = 2
  MaxInputs = 3
  MaxTurns = 1
INVARIANTS
  PlayersAreOwned
PROPERTIES
  ReportsAreInOrder
CHECK_DEADLOCK FALSE
