SPECIFICATION FairSpec
CONSTANTS
  draft = draft
  sent = sent
  placed = placed
  closed = closed
  submit = submit
  place = place
  close = close
  plain = plain
  marked = marked
  p1 = p1
  p2 = p2
  w1 = w1
  w2 = w2
  w3 = w3
  State = {draft, sent, placed, closed}
  Terminal = {closed}
  Start = draft
  Transition = {submit, place, close}
  From <- McFrom
  To <- McTo
  Automatic = {place, close}
  Before <- McBefore
  Sends = {submit, place}
  Value = {plain, marked}
  Rule <- McRule
  Failed <- McFailed
  First = plain
  Process = {p1, p2}
  Worker = {w1, w2, w3}
  Home <- McHome
  Hops = 2
  Ladder = 2
  Timely = TRUE
  MaxAsks = 2
  MaxEvents = 1
  Nil = Nil
INVARIANT
  FlightsCounted
PROPERTIES
  
  
  SendsEnd
CHECK_DEADLOCK FALSE
