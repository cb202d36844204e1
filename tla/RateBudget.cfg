SPECIFICATION FairSpec
CONSTANTS
  NFeeds = 2
  MaxRequests = 2
  Window = 2
  Slack = 1
  Interval = 2
  Horizon = 4
  MaxLives = 2
  MaxBroken = 1
INVARIANTS CountedBudget HardBudgetOfALife StopBoundsRequests AdmittedCadenceNotStalled
PROPERTY StopHonoured
CHECK_DEADLOCK FALSE
