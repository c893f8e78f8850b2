SPECIFICATION FairSpec
CONSTANTS
  p1 = p1
  p2 = p2
  a = a
  b = b
  Chained = FALSE
  Proc = {p1, p2}
  Job = {a}
  Unsafe = {a}
  Heavy = {a}
  Kids <- McKids
  None = None
  MaxTask = 2
  MaxSlot = 1
  Cuts = TRUE
  Stalls = FALSE
  LongWait = TRUE
PROPERTIES
  
  TasksEnd
CHECK_DEADLOCK FALSE
