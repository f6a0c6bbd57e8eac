SPECIFICATION Spec
CONSTANTS
  ActionIds = {a1, a2}
  Passes = {m1}
  MaxHistory = 4
  MinClosed = 1
  MinObservations = 1
  Attack = TRUE
  MaxPasses = 3
SYMMETRY Perms
CHECK_DEADLOCK FALSE
INVARIANTS FailureEndsGrant LiveExploitWins
PROPERTIES ContradictedNotConfirmed
