CONSTANTS
  CPUs = {c1, c2}
  NoCPU = NoCPU
  PageBlocks = 4
  ByteBlocks = 1
  InfoPerBlock = 2
  ItemsPerBlock = 2
  InitInfoMax = 4
  InitItems = 2
  InitPages = 3
  MaxPages = 5
  Sizes = {2, 5}
  MaxCalls = 3
SPECIFICATION Spec
INVARIANTS ChunksNeverOverlap
CHECK_DEADLOCK FALSE
