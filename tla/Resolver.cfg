SPECIFICATION FairSpec
CONSTANTS
  Instances = {r1, r2}
  NoOne = NoOne
  Stops = {s1}
  Other = Other
  Skipped = Skipped
  FromBeginning = TRUE
  CommitEvery = 2
  MaxEvents = 3
  MaxLives = 3
  MaxMoves = 1
  MaxCrashes = 1
  MaxLost = 1
INVARIANTS CommittedIsAnnouncedWithoutLoss OneArrivalPerLife NothingSkipped
PROPERTY EveryArrivalAnnounced
CHECK_DEADLOCK FALSE
