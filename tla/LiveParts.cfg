\* What must come about in the end: four modules, one at a time.
SPECIFICATION LiveSpec
CONSTANTS
  Procs = {p1, p2}
  Viewers = {v1, v2}
  MaxTokens = 3
  MaxMade = 4
  Instances = {1, 2}
  Sockets = {1}
  Offers = {qa, qb}
  Owner <- TwoOwners
  OfferPrice <- TwoPrices
  Redemptions = {1}
  MaxPool = 2
  MaxRows = 1
  MaxReads = 2
  MaxTurns = 2
  Quotes = {1, 2}
  MaxNews = 1
  Terms = {ta, tb}
  Places <- Found
  Spots = {p1, p2}
  Timeouts = {1, 2}
  MaxAge = 5
  Jobs = {1}
  Values = {1, 4}
  Loads = {1}
  GpsTimeout = 1
  ClockSkew = 2
  ClockAhead = 1
  Askers = {v1}
  Earlier = {v2}
  Ground = {0, 2}
  Marks = {2, 3, 4}
  NoGo = {4}
  RouteOf <- Routes
  MaxWalk = 3
  MaxSnap = 1
  QuoteCodes = {1, 2}
  MaxTries = 2
  Visits = {qa, qb}
  Bids = {11}
  Openings = {p1, p2}
  SilentAfter = 1
  RetainedFor = 2
  MaxReports = 4
  LineSize = 2
  BufferSize = 3
  KeepBurst = 1
  MaxBuild = 2
  MaxVersion = 3
  MaxMoves = 2
  MaxEdits = 1
  MaxDrops = 1
  MaxTrouble = 1
  None = None
  Asked = Asked
  Lost = Lost
  Half = Half
  Refused = Refused
  Failed = Failed
  Stranger = Stranger
  Other = Other
  p1 = p1
  p2 = p2
  qa = qa
  qb = qb
  v1 = v1
  v2 = v2
  ta = ta
  tb = tb
CHECK_DEADLOCK FALSE
INVARIANTS
  TypeOK
PROPERTIES
  DropIsTold
  RouteCatchesUp
  StatusCatchesUp
  LetThroughAgain
