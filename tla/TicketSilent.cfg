SPECIFICATION Spec
CONSTANTS
  t1 = t1
  t2 = t2
  pass = pass
  poll = poll
  Tickets = {t1}
  Procs = {pass}
  Passes = {pass}
  MaxReads = 1
  MaxTime = 7
  Scan = {"present", "absent"}
  MaxMishaps = 1
  Faults = {}
PROPERTY DisagreementSurfaces
SYMMETRY Symmetry
CHECK_DEADLOCK FALSE
