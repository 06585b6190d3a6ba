CONSTANTS
  CPUs = {c1, c2}
  NoCPU = NoCPU
  PageBlocks = 4
  ByteBlocks = 1
  InfoPerBlock = 1
  ItemsPerBlock = 2
  InitInfoMax = 4
  InitItems = 2
  InitPages = 3
  MaxPages = 5
  Sizes = {2, 4, 5}
  MaxCalls = 4
SPECIFICATION FairSpec
INVARIANTS TypeOK Exclusion ChunksAreDisjoint BitsAreExact OwnedIsFound NoCPUHangs
PROPERTIES SomeoneEnters
CHECK_DEADLOCK FALSE
