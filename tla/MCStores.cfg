SPECIFICATION MCSpec
VIEW MCView
SYMMETRY Symmetry
CONSTANTS
  Views = {"all", "playlist"}
  AllSongs = "all"
  Songs = {"a", "b"}
  MaxGeneration = 3
  MaxActs = 3
  NoView = "none"
  NoSong = "none"
  x = x
  y = y
  Titles = {x, y}
  NoTitle = None
  MaxStarts = 2
  MaxClicks = 4
  MaxFeed = 3
INVARIANTS
  ViewIsCurrent
  ControlsAreTrue
CHECK_DEADLOCK FALSE
