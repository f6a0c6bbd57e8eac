SPECIFICATION Spec
CONSTANTS
  Callers = {c1}
  Workers = {w1, w2}
  JobIds = {j1, j2, j3, j4}
  QueueSize = 2
  Retain = 1
  NoJob = NoJob
PROPERTIES RetentionCap
