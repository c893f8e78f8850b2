SPECIFICATION Spec
CONSTANTS
  p1 = p1
  p2 = p2
  Proc = {p1, p2}
  None = None
  LEASE = 3
  MARGIN = 1
  RENEW = 1
  DRILL = 0
  MaxPipe = 2
  Healthy = FALSE
SYMMETRY Symm
INVARIANTS
  BeliefEndsBeforeKey
  AtMostOneLeader
