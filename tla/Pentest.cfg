SPECIFICATION Spec
CONSTANTS
  c1 = c1
  c2 = c2
  in1 = in1
  in2 = in2
  out = out
  Calls = {c1, c2}
  Leads = {in1, out}
  InScope = {in1}
  Rules <- MCRules
  MaxRequests = 2
  StallLimit = 2
  MaxOps = 3
  Wired = {"prober", "llm", "deep"}
  Faults = {"tenant", "assets", "findings", "put"}
INVARIANTS LiveWithinRules BudgetHolds StoredAtRest CompleteTriedAll
PROPERTIES HaltIsFinal
SYMMETRY Symmetry
CHECK_DEADLOCK FALSE
