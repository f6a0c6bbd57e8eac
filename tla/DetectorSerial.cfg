SPECIFICATION Spec
CONSTANTS
  scan = scan
  low = low
  event = event
  bare = bare
  nuclei = nuclei
  cloudcdr = cloudcdr
  Calls = {p1}
  IssueKeys = {scan, low, bare}
  Severe = {scan, bare}
  Producers = {nuclei, cloudcdr}
  EventProducers = {cloudcdr}
  NoProducer = NoProducer
  ProducerOf <- MCProducerOf
  IncIds = {i1, i2}
  Ops = {"reconcile", "openfor", "pentest", "escalate", "ack", "resolve"}
  StoreFaults = FALSE
  ResolveAfterAbsent = 2
SYMMETRY Perms
CHECK_DEADLOCK FALSE
INVARIANTS ConsecutiveMisses OneOpenPerKey
PROPERTIES PersonCloseSticks
