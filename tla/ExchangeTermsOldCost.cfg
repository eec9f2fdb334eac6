SPECIFICATION Spec
CONSTANTS
  y1 = y1
  s1 = s1
  s2 = s2
  s3 = s3
  r1 = r1
  Syncs = {y1}
  Saves = {s1}
  Reads = {r1}
  Patch <- PatchesHere
  Default <- TheDefault
  Costs = {1}
  Perishable = FALSE
  MaxFaults = 0
  MaxEdits = 0
  Nothing = Nothing
PROPERTIES
  NoOldCost
CHECK_DEADLOCK FALSE
