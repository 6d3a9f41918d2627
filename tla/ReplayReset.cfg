SPECIFICATION SessionSpec
CONSTANTS
  FrameLength = 6
  FrameBudget = 8
  EntryCost = 2
  InstructionCosts = {2, 3}
  Stalls = {0, 1}
  Replays <- MCReplays
  DefaultPads = 0
  MaxFrame = 3
INVARIANT ResetIsAnEdge
CHECK_DEADLOCK FALSE
