CONSTANTS
  Files <- AllFiles
  MaxLabels = 2
  TailLabel = FALSE
SPECIFICATION Spec
INVARIANTS SameBehaviour BranchesResolve
CHECK_DEADLOCK FALSE
