\* Two viewers with a live quote each race for the one job, which may be cancelled, while GTA$ come in.
SPECIFICATION Spec
CONSTANTS
  u1 = u1
  u2 = u2
  q1 = q1
  q2 = q2
  d1 = d1
  r1 = r1
  r2 = r2
  r3 = r3
  r4 = r4
  None = None
  Channel = Channel
  Users = {u1, u2}
  Quotes = {q1, q2}
  Redemptions = {d1}
  Requests = {r1, r2, r3}
  Prices = {1}
  Amounts = {1}
  Adjustments <- MCAdjustments
  RedeemerOf <- MCRedeemer
  Opening <- MCOpening
  OpenQuotes <- MCTwoQuotes
  Ops = {"purchase", "cancel", "drop", "credit", "adjust"}
  Fallible = {}
  Perishable = {q1}
  Saves <- AlwaysOpen
SYMMETRY RequestSymmetry
CHECK_DEADLOCK FALSE
INVARIANTS
  AnswersAreTruthful
  LedgerConsistent
  LockedBalanceIsCurrent
  MoneyAccounted
PROPERTIES
  ImplementsLedger
