SPECIFICATION FairSpec
CONSTANTS
  Supervisors = {p1, p2, p3}
  NoPid = NoPid
  MaxFailures = 2
  MaxStops = 1
  MaxKills = 1
INVARIANTS LockExcludes
PROPERTIES FailureIsRestarted StopIsHonoured
CHECK_DEADLOCK FALSE
