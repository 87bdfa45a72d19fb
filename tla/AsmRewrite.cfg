SPECIFICATION EvalSpec
CONSTANTS
    W = 8
    Programs <- MCPrograms
    Inputs <- MCInputs
INVARIANTS SameBehaviour ValuesKept IdiomsRecovered
CHECK_DEADLOCK FALSE
