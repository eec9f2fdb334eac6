SPECIFICATION FairSpec
CONSTANTS
  e1 = e1
  e2 = e2
  s1 = s1
  u1 = u1
  exchange = exchange
  slot = slot
  h1 = h1
  h2 = h2
  w1 = w1
  Messages = {e1, e2, s1}
  Redemptions = {exchange, slot}
  Exchange = {exchange}
  Updates = {}
  RedemptionOf <- About
  Hooks = {h1, h2}
  Sweeps = {w1}
  MaxAttempts = 2
  MaxFaults = 1
  Expires = FALSE
  Moderated = FALSE
  NoMessage = NoMessage
INVARIANTS
  TypeOK
  ProcessedIsCredited
PROPERTIES
  EventEnds
CHECK_DEADLOCK FALSE
