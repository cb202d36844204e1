SPECIFICATION Spec
CONSTANTS
  Absent = none
  today = today
  tripA = tripA
  ServiceDates = {today}
  Archives <- Archives0
  QueueSize = 2
  MaxRuns = 2
  MaxGiveUps = 1
INVARIANTS ExitZeroMeansDelivered ObservationOrder OneCopyPerRun EventsSayWhatTheAgencySaid
CHECK_DEADLOCK FALSE
