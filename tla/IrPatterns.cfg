CONSTANTS
  N = 4
  Locs = {1, 2, 3, 9, 100, 101, 102}
  Regs = {1, 2, 3, 9}
  ArgRegs = {1}
  ReturnRegs = {3}
  Functions <- AllBlocks
  Switches = FALSE
  EntryLoops = FALSE
  Ops <- AllOps
  Patterns <- AllPatterns
  MaxRun = 5
SPECIFICATION SpecPatterns
INVARIANTS PatchedInputsExact SameValues
