CONSTANTS
  NumThreads = 1
  MaxEvents = 4
  MaxSignals = 1
  MaxCommands = 0
  Operations = {}
  Requested = {"auto", "deliver", "ignore", "single-step"}
  MayDie = FALSE
SPECIFICATION Spec
INVARIANTS ModeIsHonoured
CHECK_DEADLOCK FALSE
