SPECIFICATION Spec
CONSTANTS
  Jobs = {j1, j2}
  Submitters = {c1}
  Readers = {c1}
  NoJob = NoJob
  TTL = 1
  Timeout = 1
  MinInterval = 1
  PoolSize = 1
SYMMETRY JobSymmetry
INVARIANTS
  TypeOK
  ServableWhileListed
  DownloadFailsOnlyAfterRemoval
  LeftoversAccounted
PROPERTIES
  OutcomeIsFinal
  OnlyExpiredRemoved
  AnswersNeverGoBack
CHECK_DEADLOCK FALSE
