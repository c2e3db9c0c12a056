SPECIFICATION FairSpec
CONSTANTS
  Commands = {"prepare", "like", "reload"}
  MaxCalls = 3
  MaxPlans = 1
PROPERTIES
  ConcurrentCommandsReturn
CHECK_DEADLOCK FALSE
