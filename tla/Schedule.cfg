SPECIFICATION FairSpec
CONSTANTS
  k1 = k1
  k2 = k2
  Feeds = {1, 2}
  Keys = {k1, k2}
  Attrs = {"x", "y"}
  Unrouted <- MCUnrouted
  Timetable <- MCTimetable
  Malformed = {}
  Days = {2}
  DayLength = 3
  MaxTime = 4
  MaxOdd = 1
  UtcOffset <- MCUtcOffset
  ServiceDates = {1, 2, 3, 4, 5}
INVARIANTS JoinConserved DimWindowsTile
PROPERTIES OtpIsFinal LatestFeedIsStaged
CHECK_DEADLOCK FALSE
