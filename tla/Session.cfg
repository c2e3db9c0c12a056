SPECIFICATION Spec
CONSTANTS
  Readers = {c1, c2}
  Words = {epoch, paused}
  MaxPublications = 3
  Stops = {"quit", "skip"}
  MaxCalls = 3
  MaxTurns = 5
INVARIANTS
  CallersSeeTheEnd
PROPERTIES
  LoadsAreAtomic
  SessionCompletes
CHECK_DEADLOCK FALSE
