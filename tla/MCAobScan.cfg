CONSTANTS
  Bytes = {0, 1}
  Any = Any
  MaxAddress = 9
  ChunkSize = 2
  PageSize = 2
  Requests <- MCRequests
  MapLists <- MCMapLists
  BadSets <- MCBadSets
SPECIFICATION FairSpec
INVARIANTS TypeOK ReportedOnce
PROPERTIES IsExactScan ScanEnds
