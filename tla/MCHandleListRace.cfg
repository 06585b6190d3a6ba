CONSTANTS
  Threads = {t1, t2}
  Pids = {p1, p2}
  InitialMax = 6
  MaxGrowths = 0
  MaxObjects = 4
  MaxHeld = 2
  Entries = 1
  MaxLost = 1
  Overlap = TRUE
SPECIFICATION Spec
INVARIANTS HandleDenotesItsObject
CHECK_DEADLOCK FALSE
