SPECIFICATION Spec
CONSTANTS
  Requests = {r1}
  Workers = 1
  PoolSize = 1
  MaxBody = 1
  MaxParts = 1
  Starts <- LegalStarts
INVARIANT ReturnedResponsesServed
CHECK_DEADLOCK FALSE
