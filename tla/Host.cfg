SPECIFICATION MCSpec
CONSTANTS
  Rom <- RomByte
  RomBanks = 12
  MaxFunction = 24
  Tasks <- MCTasks
  Outcome <- Result
  Halt <- MCHalt
  MaxInterrupts = 2
  FrameLength = 6
  FrameBudget = 8
  EntryCost = 2
  InstructionCosts = {2, 3}
  Stalls = {0, 1}
  Replays <- MCReplays
  DefaultPads = 0
  MaxFrame = 3
  Groups <- MCGroups
  Requests <- MCRequests
  RamBase = 2
  RamEnd = 5
  CpuEnd = 3
  BeatNum = 9
  BeatDen = 2
  Hz = 5
  Rate = 2
  IdleCap = 3
  LeastBudget = 4
  InitBudget = 4
  PlayCosts = {2, 5}
  PlayStalls = {0, 1}
  Counts = {1, 3}
  MaxTime = 40
INVARIANTS ProgramsCompute FramesAreCounted FramesSeeTheirInput RebaseIsExact
PROPERTIES StepsFollowTheChart PlaysOnTheBeat
CHECK_DEADLOCK FALSE
