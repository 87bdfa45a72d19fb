CONSTANTS
  Families <- AllFamilies
  MinValue <- MinusTwo
  MaxValue = 6
  AnyTree = FALSE
  Gotos = FALSE
SPECIFICATION Spec
INVARIANTS SameControlFlow TextIsComplete
CHECK_DEADLOCK FALSE
