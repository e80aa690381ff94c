SPECIFICATION Spec
CONSTANTS
  Methods = {"GET", "POST"}
  Handlers <- MCHandlers
  Patterns <- MCPatterns
  Paths <- MCPaths
  Numeric = {"7", "8"}
  MaxRoutes = 2
INVARIANT CallsAreTypeSafe
CHECK_DEADLOCK FALSE
