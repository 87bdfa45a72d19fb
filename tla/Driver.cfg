CONSTANTS
  Procs = {p1, p2}
  Main = p1
  Jobs <- AllJobs
  Sources = {"a", "b"}
  Texts = {"t1", "t2", "bad"}
  Bad = "bad"
  MaxBuilds = 3
  MaxEdits = 1
  Conflicts = FALSE
  Functions <- TwoFunctions
  Passes = 2
SPECIFICATION Spec
CONSTRAINT DecompilesAlone
INVARIANTS EveryFunctionReported StatusTellsFailure
PROPERTIES CacheIsTransparent RunEnds
CHECK_DEADLOCK FALSE
