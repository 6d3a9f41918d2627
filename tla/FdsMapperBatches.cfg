SPECIFICATION Spec
CONSTANTS
  BlockSize <- ShortBlocks
  SizeAt = 2
  Lead = 1
  Gap = 1
  Sides <- TwoSides
  Period = 2
  SpinUp = 3
  Controls <- Strobes
  Reloads = {0, 1, 3}
  Batches = {1, 2, 3, 5}
INVARIANT BatchesAreInvisible
PROPERTY MediaKeepsMoving
