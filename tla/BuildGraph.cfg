CONSTANTS
  N = 4
  Shapes <- AllShapes
  Tables <- SomeTables
SPECIFICATION Spec
INVARIANTS
  GraphMatchesBlocks
  CopiesKeepPaths
  ListIsClosed
