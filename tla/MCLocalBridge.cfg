CONSTANTS
  Conns = {c1, c2}
  Pids = {p1}
  MaxHandle = 2
  MaxIssued <- MCMaxIssued
  None = None
SPECIFICATION FairSpec
INVARIANTS TypeOK NoLeak NoUseAfterClose HandleOwnsObject CleanReturn
PROPERTIES HangUpReleases ServeReturns
CHECK_DEADLOCK FALSE
