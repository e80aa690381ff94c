SPECIFICATION FairSpec
CONSTANTS
  Requests = {r1, r2}
  Workers = 2
  PoolSize = 2
  MaxBody = 1
  MaxParts = 1
  Starts <- EveryFate
INVARIANTS
  TypeOK
  ReplyIsWhole
  AppSeesAllowedBodies
  CoroutinesAwaited
  ExitAfterCoroutines
PROPERTIES
  CrashIsSilent
  AsgiAnswered
  ShutdownEnds
CHECK_DEADLOCK FALSE
