SPECIFICATION MCSpec
VIEW MCView
CONSTANTS
  Chord <- MCChord
  MaxPackets = 2
  MaxStrays = 1
  Absent = Absent
  Buckets <- MCBuckets
  SampleCount = 1
  Guard = 1
  Floor = 2
  Ceiling = 4
  Threshold = 3
  GoodAids = {"good"}
  Presets <- MCPresets
  Lates = {0, 2}
  Durations = {1, 3, 5}
  Aids = {"good", "poor"}
  Hosts = {"here", "there"}
  Priors <- MCPriors
  MaxRuns = 1
  MaxRestarts = 1
INVARIANTS
  ResultsAreReal
  NothingStaysDown
  MarginCoversTheEvidence
  ReportIsWhatIsLoaded
CHECK_DEADLOCK FALSE
