CONSTANTS
  Bytes = {0, 1}
  Any = Any
  MaxAddress = 6
  ChunkSize = 2
  Requests <- MCRequests
  RegionLists <- MCRegionLists
SPECIFICATION Spec
INVARIANTS MatchesAreReal
