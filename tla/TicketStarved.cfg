SPECIFICATION Spec
CONSTANTS
  t1 = t1
  t2 = t2
  pass = pass
  poll = poll
  Tickets = {t1, t2}
  Procs = {pass}
  Passes = {pass}
  MaxReads = 1
  MaxTime = 8
  Scan = {"present"}
  MaxMishaps = 1
  Faults = {"read"}
INVARIANT TurnComesAnyway
SYMMETRY Symmetry
CHECK_DEADLOCK FALSE
