SPECIFICATION MCSpec
VIEW MCView
CONSTANTS
  Song <- MCSong
  Grace = 1
  MaxTime = 16
  RestoreGrace = 2
  MaxQpc = 7
  Publishers = {worker}
  Pollers = {monitor, caller}
  Fields = {elapsed, total}
  MaxSnapshots = 3
  Commanders = {c1, c2}
  MaxCounter = 5
  Capped = 1
  Epoch = 5
  Reserve = 1
  Budget = 2
  Samples = 2
  Gap = 1
  Spin = 1
  MaxWaits = 2
  NoProbe = NoProbe
  Keys = {k1, k2}
  Capacity = 2
  MaxLate = 1
  MaxPackets = 3
  MaxNotices = 1
INVARIANTS
  RescueIsIsolated
  SentCommandWakes
  ObservationIsTrue
  WindowIsItsHistory
PROPERTIES
  PressesKeepTheGap
  PositionIsPlayed
  SnapshotsAreAtomic
CHECK_DEADLOCK FALSE
