SPECIFICATION MCSpec
VIEW MCView
CONSTANTS
  Commands = {"patch", "start", "prepare", "like", "import", "search", "detail", "viewport"}
  MaxCalls = 3
  MaxPlans = 2
  Absent = Absent
  Likeable = {s1}
  Documents <- SomeDocuments
  MaxOperations = 3
  MaxFaults = 2
  MaxEdits = 1
  None = None
  Sessions = {s1}
  Operations = {}
  Updates = {u1}
  NoSession = None
  Checks = {c1, c2}
  Patches = {p1}
  Channels = {"stable", "beta"}
  NumRoots = 2
  MaxVersion = 2
  Supervisors = {s1}
  MaxTime = 1
  Interval = 1
  MaxChanges = 1
  MaxToggles = 2
  Never = None
  s1 = s1
  s2 = s2
  p1 = p1
  p2 = p2
  i1 = i1
  i2 = i2
  k1 = k1
  k2 = k2
INVARIANTS
  DocumentsAreDurable
  AdmittedSchedulesArePlayable
  SongsAreFound
  LaunchedWasAskedFor
PROPERTIES
  PlansAreCurrent
  ReportsAreTrue
CHECK_DEADLOCK FALSE
