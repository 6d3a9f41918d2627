SPECIFICATION Spec
CONSTANTS
  BlockSize <- ShortBlocks
  SizeAt = 2
  Lead = 1
  Gap = 1
  Sides <- OneSide
  Period = 1
  SpinUp = 1
  Controls <- BiosControls
  Reloads = {0}
  Batches = {1, 3}
INVARIANTS RequestsHaveCause VerdictIsOnTime
PROPERTIES OnlyRewindsGoBack
