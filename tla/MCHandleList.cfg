CONSTANTS
  Threads = {t1, t2}
  Pids = {p1, p2}
  InitialMax = 3
  MaxGrowths = 1
  MaxObjects = 3
  MaxHeld = 2
  Entries = 1
  MaxLost = 2
  Overlap = FALSE
SPECIFICATION Spec
SYMMETRY Symmetry
INVARIANTS TypeOK HandleKeepsItsObject RefCountCoversHolders OneHandlePerProcess WalkIsUndisturbed NoFault OnlyLostHandlesStay
CHECK_DEADLOCK FALSE
