SPECIFICATION FairSpec
CONSTANTS
  NRows = 2
  NOrphans = 1
  Row <- McRow
  Unhandled <- McUnhandled
  Pass = {w1, w2}
  MAX_ATTEMPTS = 3
  Batch = 3
  Faults = TRUE
INVARIANTS DeadHadItsTries
PROPERTIES
  StoreSpec
  SettledStays
  RowsSettle
