CONSTANTS
  ParamTypes <- Types
  MaxParams = 4
  ReturnSizes = {0, 4, 8, 12}
  FramesOf <- CompilerFrames
SPECIFICATION FrameSpec
INVARIANTS ParametersHaveTheirOwnSlots CallerAndCalleeAgree GuessedArgumentsLeaveNoGap FrameRegionsTold
