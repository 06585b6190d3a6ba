CONSTANTS
  Invocations = {v1, v2, v3}
  Issues = {i1, i2}
  Statuses = {"open", "resolved"}
  Open = "open"
  MaxFiles = 4
  MaxCrashes = 2
SPECIFICATION Spec
SYMMETRY Symmetry
INVARIANTS TypeOK StoredIsAcked
CHECK_DEADLOCK FALSE
