SPECIFICATION FairSpec
CONSTANTS
  w1 = w1
  w2 = w2
  g1 = g1
  g2 = g2
  Worker = {w1, w2}
  Row = {1, 2, 3}
  Groups <- MCGroups
  Readers <- MCReaders
  MaxParallel <- MCParallel
  Outcome <- MCOutcome
  Limit = 2
  Requests = {"requeue", "cancel"}
  MaxRequests = 1
  MaxCrashes = 1
  None = None
INVARIANTS
  LocalRunsApart
  RowRunsOnce
  
PROPERTIES
  NoOvertake
  RowsLeaveQueue
CHECK_DEADLOCK FALSE
