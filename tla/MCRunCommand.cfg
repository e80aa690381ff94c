SPECIFICATION Spec
CONSTANTS
  p1 = p1
  p2 = p2
  p3 = p3
  Processes = {p1, p2, p3}
  Places <- MCPlaces
  CommandOf <- MCCommandOf
  Targets <- MCTargets
  Torn = Torn
SYMMETRY ProcessSymmetry
INVARIANTS
  TypeOK
  AnswersOwnProgram
  MissesFilesOnlyInCompany
CHECK_DEADLOCK FALSE
