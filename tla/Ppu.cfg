SPECIFICATION MCSpec
CONSTANTS
  Dots = 341
  Lines = 13
  Visible = 7
  Reads <- TimedReads
  Lengths = {2, 7, 517}
  Cols = 2
  Rows = 4
  Shown = 3
  Fine = 4
  Low = 4
  FieldLines = 4
  DrawnLines = 2
  Scrolls = {3, 11, 14}
  Pages = {0, 13}
INVARIANTS OncePerFrame NeverMissed SeekArrives ScrollIsObeyed
