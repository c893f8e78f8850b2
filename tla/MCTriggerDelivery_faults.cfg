SPECIFICATION FairSpec
CONSTANTS
  Delivery = {d1}
  Worker = {w1, w2}
  MaxAttempts = 2
  Timely = FALSE
  MaxCrashes = 2
  MaxRetries = 2
  None = None
INVARIANTS
  OneSender
  DeadHadItsTries
PROPERTIES
  RowsSettle
  SettledIsQuiet
CHECK_DEADLOCK FALSE
