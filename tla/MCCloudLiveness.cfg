SPECIFICATION FairSpec
CONSTANTS
  Jobs = {j1, j2}
  Submitters = {c1}
  Readers = {}
  NoJob = NoJob
  TTL = 0
  Timeout = 0
  MinInterval = 0
  PoolSize = 1
PROPERTIES
  JobsSettle
  JobsReclaimed
  LifecycleImplemented
CHECK_DEADLOCK FALSE
