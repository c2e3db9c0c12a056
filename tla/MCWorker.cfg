SPECIFICATION FairSpec
CONSTANTS
  Song <- MCSong
  MaxTarget = 2
  MaxEvents = 3
INVARIANTS
  NothingIsForgotten
PROPERTIES
  PressIsProbed
  PlaybackEnds
