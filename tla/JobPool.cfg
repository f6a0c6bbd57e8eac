SPECIFICATION FairSpec
CONSTANTS
  Callers = {c1, c2}
  Workers = {w1, w2}
  JobIds = {j1, j2, j3}
  QueueSize = 1
  Retain = 1
  NoJob = NoJob
INVARIANTS WorkerKnowsJob NilShutdownDrained
PROPERTIES NoSendOnClosed JobsFinish
