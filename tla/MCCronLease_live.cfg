SPECIFICATION FairSpec
CONSTANTS
  p1 = p1
  p2 = p2
  Proc = {p1, p2}
  None = None
  LEASE = 5
  MARGIN = 1
  RENEW = 2
  DRILL = 2
  MaxPipe = 2
  Healthy = TRUE
PROPERTIES
  LeaderKeepsLeading
  SomeoneLeads
