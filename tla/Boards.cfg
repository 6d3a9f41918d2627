SPECIFICATION MCSpec
CONSTANTS
  Nibble = 2
  ScanTicks = 7
  Chunks = {1, 2, 5, 18}
  LowCap = 3
  Slots = 3
  Carts <- MCCarts
  Ports <- MCPorts
  Values = {0, 3, 22, 70, 140}
  Fetches = {4056, 4072, 8159, 8168, 4064}
  MaxWrites = 3
  Sxroms <- MCSxroms
  PortWrites <- MCPortWrites
  Costs = {2, 3}
  Boot = 2
  MaxCycle = 9
  MaxPortWrites = 6
INVARIANTS LinesCountOnce ReportsNameTheBankRead PatternsReadBack ResumeIsExact Mmc1IsCoherent
PROPERTIES RingsOnTime PortIsSerial OnlyResetsLoseWrites
CHECK_DEADLOCK FALSE
