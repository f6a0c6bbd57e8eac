SPECIFICATION Spec
CONSTANTS
  scan = scan
  low = low
  event = event
  bare = bare
  nuclei = nuclei
  cloudcdr = cloudcdr
  Calls = {p1, p2}
  IssueKeys = {scan, event}
  Severe = {scan, event}
  Producers = {nuclei, cloudcdr}
  EventProducers = {cloudcdr}
  NoProducer = NoProducer
  ProducerOf <- MCProducerOf
  IncIds = {i1}
  Ops = {"reconcile", "openfor", "pentest", "escalate", "ack", "resolve"}
  StoreFaults = TRUE
  ResolveAfterAbsent = 2
SYMMETRY Perms
CHECK_DEADLOCK FALSE
INVARIANTS EventsNeedAPerson EnoughMisses
