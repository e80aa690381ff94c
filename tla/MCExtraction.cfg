SPECIFICATION Spec
CONSTANTS
  MaxInt = 7
  Sources <- MCSources
  Texts <- MCTexts
  Beginnings <- MCBeginnings
INVARIANTS
  RoutesFoundAreTheApps
  EveryRouteIsFound
CHECK_DEADLOCK FALSE
