CONSTANTS
  NumThreads = 1
  MaxEvents = 3
  MaxSignals = 0
  MaxCommands = 0
  Operations = {}
  Requested = {"auto"}
  MayDie = TRUE
SPECIFICATION FairSpec
PROPERTIES Detaches
CHECK_DEADLOCK FALSE
