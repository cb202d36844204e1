SPECIFICATION AggSpec
CONSTANTS
  s1 = s1
  s2 = s2
  Instances = {r1}
  NoOne = NoOne
  Stops = {s1, s2}
  Other = Other
  Skipped = Skipped
  FromBeginning = TRUE
  CommitEvery = 2
  MaxEvents = 2
  MaxLives = 2
  MaxMoves = 0
  MaxCrashes = 1
  MaxLost = 0
  Updates <- MCUpdates
  NoStop = NoStop
  AgencyStops = {s1}
  Tick = 200
  MaxUpdates = 2
INVARIANTS AccuracyOfDistinctEvents WeightBounded
CHECK_DEADLOCK FALSE
