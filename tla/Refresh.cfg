SPECIFICATION RefreshSpec
CONSTANTS
  Feeds = {1, 2}
  MARTS <- MCMARTS
  MaxRuns = 2
  Clients = {"c1"}
  MaxChanges = 1
  MaxFaults = 1
  Beside = {"serving_export"}
INVARIANTS FreshAnswersAreWhole WindowIsOfTheRows RefreshCoversItsStart RestingRunServes
PROPERTY PublishedFileIsFinal
CHECK_DEADLOCK FALSE
