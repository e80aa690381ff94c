SPECIFICATION Spec
CONSTANTS
  Methods = {"GET", "POST"}
  Handlers <- MCHandlers
  Patterns <- MCPatterns
  Paths <- MCPaths
  Numeric = {"7", "8"}
  MaxRoutes = 2
INVARIANTS
  TypeOK
  NativeIffEligible
  ArgumentsInPlace
  PicksAsAppUnlessSkipped
CHECK_DEADLOCK FALSE
