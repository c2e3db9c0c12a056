SPECIFICATION BootSpec
CONSTANTS
  Commanders = {c1, c2}
  MaxCounter = 6
  Capped = 1
  Epoch = 6
  Reserve = 1
  Budget = 3
  Samples = 2
  Gap = 1
  Spin = 1
  MaxWaits = 3
  NoProbe = NoProbe
INVARIANT SpinSeesTheSignal
CHECK_DEADLOCK FALSE
