SPECIFICATION Spec
CONSTANTS
  Plans <- MCPlans
  Pairs <- MCPairs
  Workers = 2
  Total = 2
  MaxRequests = 2
  CoverK = 2
  StaleWaves = 1
  Limit = 2
  MaxGapfill = 1
  Jurors = 3
INVARIANT ShareHolds
