SPECIFICATION Spec
CONSTANTS
  y1 = y1
  s1 = s1
  s2 = s2
  s3 = s3
  r1 = r1
  Syncs = {y1}
  Saves = {s1, s2, s3}
  Reads = {}
  Patch <- PatchesHere
  Default <- TheDefault
  Costs = {1, 3}
  Perishable = FALSE
  MaxFaults = 1
  MaxEdits = 1
  Nothing = Nothing
INVARIANTS
  TypeOK
  StoredIsCharged
PROPERTIES
  RewardIsKept
  SyncBringsInLine
CHECK_DEADLOCK FALSE
