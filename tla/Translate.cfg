CONSTANTS
  Shapes <- AllShapes
  Programs <- AllPrograms
  Passes = 2
  MaxPath = 6
SPECIFICATION Spec
INVARIANTS PhisResolved SameBehaviour SameResult
CHECK_DEADLOCK FALSE
