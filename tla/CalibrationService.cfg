SPECIFICATION Spec
CONSTANTS
  Sessions = {s1}
  Operations = {o1, o2}
  Updates = {}
  NoSession = NoSession
  NoOperation = NoOperation
  Preparers = {p1}
  MaxPlans = 1
  MaxMargin = 2
CHECK_DEADLOCK FALSE
INVARIANTS MeasurementIsExclusive
PROPERTIES ShutdownIsOrderly
