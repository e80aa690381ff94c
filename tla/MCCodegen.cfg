SPECIFICATION FairSpec
CONSTANTS
  Programs <- MCPrograms
  Inputs <- MCInputs
  MaxInt = 7
  PyFuel = 40
  Python <- PyCall
  MaxNesting = 4
INVARIANTS
  StackBounded
  PlainFunctionsCompile
  MemorySafe
  AgreesWithPython
PROPERTIES
  Terminates
CHECK_DEADLOCK FALSE
