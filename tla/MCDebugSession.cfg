CONSTANTS
  NumThreads = 2
  MaxEvents = 5
  MaxSignals = 1
  MaxCommands = 2
  Operations = {"set", "restart"}
  Requested = {"deliver"}
  MayDie = TRUE
SPECIFICATION FairSpec
INVARIANTS TypeOK StopsAreKnown SuspendedStaysStopped EventIsFound StopsAreShownOnce
PROPERTIES SuspendEnds
CHECK_DEADLOCK FALSE
