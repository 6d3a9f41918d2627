SPECIFICATION PortsSpec
CONSTANTS
  Cols = 2
  Rows = 4
  Shown = 3
  Fine = 4
  Low = 4
  FieldLines = 4
  DrawnLines = 2
  Scrolls = {3, 11, 14}
  Pages = {0, 13}
INVARIANT PatternWritesReachCartridge
