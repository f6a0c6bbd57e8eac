SPECIFICATION Spec
CONSTANTS
  ActionIds = {a1}
  Passes = {m1, m2}
  MaxHistory = 6
  MinClosed = 1
  MinObservations = 1
  Attack = TRUE
  MaxPasses = 2
SYMMETRY Perms
CHECK_DEADLOCK FALSE
PROPERTIES HistorySurvives
