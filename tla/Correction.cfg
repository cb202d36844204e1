SPECIFICATION Spec
CONSTANTS
  v1 = v1
  v2 = v2
  Visits = {v1, v2}
  Forecasts <- MCForecasts
  Tick = 200
  MaxHorizon = 3600
  MinRows = 2
  Trainers = {t1, t2}
  Correctors = {"c1"}
  MaxPolls = 4
  MaxTrainings = 2
  MaxDeaths = 1
INVARIANTS RowsAreForecasts HoldoutFollowsThePast CalmlyLoadedModelWon
SYMMETRY MCSymmetry
CHECK_DEADLOCK FALSE
