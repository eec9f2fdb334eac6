\* Every operation, every failure, every change of the settings, two at a time.
SPECIFICATION Spec
CONSTANTS
  u1 = u1
  u2 = u2
  q1 = q1
  q2 = q2
  d1 = d1
  r1 = r1
  r2 = r2
  r3 = r3
  r4 = r4
  None = None
  Channel = Channel
  Users = {u1}
  Quotes = {q1, q2}
  Redemptions = {d1}
  Requests = {r1, r2}
  Prices = {1, 2}
  Amounts = {1}
  Adjustments <- MCAdjustments
  RedeemerOf <- MCRedeemer
  Opening <- OneOpening
  OpenQuotes <- MCOneQuote
  Ops = {"purchase", "credit", "adjust", "cancel", "drop", "quote"}
  Fallible = {r1, r2}
  Perishable = {q1}
  Saves <- SomeSettings
SYMMETRY RequestSymmetry
CHECK_DEADLOCK FALSE
INVARIANTS
  TypeOK
  JobsAreSettled
  CreditedOnce
PROPERTIES
  QuoteIsFinal
