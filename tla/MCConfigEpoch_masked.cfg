SPECIFICATION Spec
CONSTANTS
  p1 = p1
  p2 = p2
  Proc = {p1, p2}
  Server = {p2}
  None = None
  MaxUses = 1
  Timely = TRUE
INVARIANT EveryoneIsCurrent
CHECK_DEADLOCK FALSE
