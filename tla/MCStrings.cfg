SPECIFICATION Spec
CONSTANTS
  Workers = {w1, w2}
  Programs <- MCPrograms
  Names <- MCNames
  Arguments = {1, 3}
  BufSize = 8
  MaxLength = 2
  MaxCalls = 2
SYMMETRY WorkerSymmetry
INVARIANTS
  TypeOK
  AnswersExact
  StraightNeverClobbers
PROPERTY WorkersIndependent
CHECK_DEADLOCK FALSE
