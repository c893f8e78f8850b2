SPECIFICATION Spec
CONSTANTS
  p1 = p1
  p2 = p2
  a = a
  b = b
  Chained = TRUE
  Proc = {p1, p2}
  Job = {a, b}
  Unsafe = {a}
  Heavy = {a, b}
  Kids <- McKids
  None = None
  MaxTask = 3
  MaxSlot = 1
  Cuts = FALSE
  Stalls = FALSE
  LongWait = FALSE
SYMMETRY Symm
INVARIANTS
  FireRunsOnce
  UnsafeRunsAlone
  HeavyRunsAlone
CHECK_DEADLOCK FALSE
