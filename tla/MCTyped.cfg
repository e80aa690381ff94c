SPECIFICATION Spec
CONSTANTS
  MaxInt = 7
  Sources <- MCSources
  Inputs <- MCInputs
INVARIANTS
  PlainModulesCompile
  NativeAgrees
  RaisesKept
CHECK_DEADLOCK FALSE
