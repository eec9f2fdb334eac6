\* Every request ends, none waiting in a cycle, with one that may die holding its locks.
SPECIFICATION FairSpec
CONSTANTS
  u1 = u1
  u2 = u2
  q1 = q1
  q2 = q2
  d1 = d1
  r1 = r1
  r2 = r2
  r3 = r3
  r4 = r4
  None = None
  Channel = Channel
  Users = {u1}
  Quotes = {q1, q2}
  Redemptions = {d1}
  Requests = {r1, r2, r3}
  Prices = {1}
  Amounts = {1}
  Adjustments <- MCAdjustments
  RedeemerOf <- MCRedeemer
  Opening <- RichOpening
  OpenQuotes <- MCOneQuote
  Ops = {"purchase", "cancel", "quote"}
  Fallible = {r1}
  Perishable = {}
  Saves <- AlwaysOpen
CHECK_DEADLOCK FALSE
PROPERTIES
  EveryRequestEnds
