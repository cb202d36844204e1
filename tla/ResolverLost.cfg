SPECIFICATION Spec
CONSTANTS
  Instances = {r1}
  NoOne = NoOne
  Stops = {s1}
  Other = Other
  Skipped = Skipped
  FromBeginning = TRUE
  CommitEvery = 2
  MaxEvents = 3
  MaxLives = 2
  MaxMoves = 0
  MaxCrashes = 1
  MaxLost = 0
SYMMETRY Symmetry
INVARIANT CommittedIsAnnounced
CHECK_DEADLOCK FALSE
