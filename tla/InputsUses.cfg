CONSTANTS
  N = 5
  Locs = {1, 2}
  Regs = {1}
  ArgRegs = {1}
  ReturnRegs = {1}
  Functions <- AllFunctions
  Switches = FALSE
  EntryLoops = TRUE
SPECIFICATION Spec
CONSTRAINT OneEntryLoop
INVARIANTS InputsExact ImplicitInputsComplete
