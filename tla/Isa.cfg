CONSTANTS
  InstructionSets <- AllArchs
  MaxBlock = 2
SPECIFICATION Spec
INVARIANTS OnlyDeclaredAccess ValuesFollowDataflow
