SPECIFICATION FairSpec
CONSTANTS
  Programs <- SkippingPrograms
  Inputs <- MCInputs
  MaxInt = 7
  PyFuel = 40
  Python <- PyCall
  MaxNesting = 4
PROPERTIES
  IdenticalBehavior
CHECK_DEADLOCK FALSE
