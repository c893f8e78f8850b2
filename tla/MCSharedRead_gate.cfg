SPECIFICATION FairSpec
CONSTANTS
  c1 = c1
  c2 = c2
  c3 = c3
  c4 = c4
  ann = ann
  bob = bob
  outer = outer
  inner = inner
  Call = {c1, c2, c3, c4}
  User = {ann, bob}
  Who <- McWho
  Limit = 2
  PerUser = 1
  None = None
  Extra = Extra
  Key = {outer, inner}
  Inner = {inner}
  Signalled = {c1, c3}
  MAX_FLIGHTS = 1
INVARIANTS
  SlotsAddUp
  NestedNeverWaits
PROPERTIES
  OvertakeAtShareOnly
  RefusesNobodyElse
  PoolSpec
  CallsEnd
CHECK_DEADLOCK FALSE
