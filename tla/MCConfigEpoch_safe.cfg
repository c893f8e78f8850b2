SPECIFICATION Spec
CONSTANTS
  p1 = p1
  p2 = p2
  Proc = {p1, p2}
  Server = {p2}
  None = None
  MaxUses = 1
  Timely = TRUE
INVARIANTS
  ReadYourWrites
  SharedIsCurrent
  ReaderIsCurrent

  
CHECK_DEADLOCK FALSE
