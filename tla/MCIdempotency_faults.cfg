SPECIFICATION FairSpec
CONSTANTS
  r1 = r1
  r2 = r2
  r3 = r3
  f1 = f1
  f2 = f2
  Req = {r1, r2, r3}
  Fingerprint = {f1, f2}
  None = None
  Crashes = TRUE
  Outages = TRUE
  SlowWrites = FALSE
  Resends = {"claim", "store"}
INVARIANTS
  OneHandler
  ReplayIsTheAnswer
PROPERTIES
  KeySpec
  ClaimsEnd
CHECK_DEADLOCK FALSE
