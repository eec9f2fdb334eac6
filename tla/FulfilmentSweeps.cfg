SPECIFICATION FairSpec
CONSTANTS
  Credits = {c1}
  Sweeps = {w1, w2}
  MaxAttempts = 2
  MaxFaults = 3
  NoOne = NoOne
INVARIANTS
  TypeOK
  PendingIsDue
PROPERTIES
  ImplementsCreditStatus
  CreditsEnd
CHECK_DEADLOCK FALSE
