SPECIFICATION Spec
CONSTANTS
  t1 = t1
  t2 = t2
  pass = pass
  poll = poll
  Tickets = {t1, t2}
  Procs = {pass, poll}
  Passes = {pass}
  MaxReads = 1
  MaxTime = 5
  Scan = {"present", "absent"}
  MaxMishaps = 1
  Faults = {"read", "comment", "store"}
INVARIANTS PostedOnce TurnComes FlagIsEarned
PROPERTIES VerdictKept
SYMMETRY Symmetry
CHECK_DEADLOCK FALSE
