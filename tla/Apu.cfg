SPECIFICATION MCSpec
CONSTANTS
  Full = 2
  Low = 2
  High = 4
  Point1 = 1
  Point2 = 2
  Point3 = 3
  Point4 = 4
  Wrap4 = 5
  Point5 = 6
  Wrap5 = 7
  Chunks = {2, 5}
  Lengths = {1, 2}
  Periods = {0, 1}
  Beats = {1, 2}
  Shifts = {0, 1}
  Linears = {0, 1}
  Page = 8
  Base = 0
  Top = 3
  Starts = {2, 3}
  Sizes = {1, 2}
  BitPeriods = {2, 5}
  Bits = 3
  Dac = 3
  DmcChunks = {3, 9}
  Patience = 3
INVARIANTS EventsOnTime EnvelopeOnSchedule SampleInPlace OnlyLongChunksStarve
PROPERTIES NotesEnd SampleEnds
