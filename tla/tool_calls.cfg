\* The parts modelled on their own, one at a time.
SPECIFICATION Spec
CONSTANTS
  UiDevices = {d1}
  Trees <- MCTrees
  MaxHistory = 2
  MaxRecords = 1
  MaxChanges = 1
  MaxRevision = 3
  EvDevices = {d1, d2}
  Actions = {a1}
  Readers = {r1}
  NoDevice = NoDevice
  NoAction = NoAction
  MaxOrders = 1
  MaxTime = 3
  MaxSwipes = 2
  Signatures = {g1, g2}
  Loading = {g2}
  Unsigned = Unsigned
  StabilityMs = 2
  TimeoutMs = 4
  NetReaders = {n1, n2}
  Lookback = 2
  MaxNetTime = 2
  StreamIds = {s1, s2}
  Children = {p1, p2, p3}
  NoChild = NoChild
  MaxLldbStops = 4
  StabilityWindow = 2
  MaxWaitTime = 3
  MaxReads = 3
  Highest = 3
  MaxLimit = 3
  BuildTries = 2
  Versions = {1, 2}
  HandleDevices = {h1, h2}
  HandleTrees <- MCHandleTrees
  MaxHandles = 2
  SearchTrees <- MCSearchTrees
  MaxPolls = 3
  Plans <- MCPlans
  MaxSamples = 3
  RingSize = 3
  PageSize = 2
  MaxEventNumber = 6
  KeptResults = 2
  KeptBytes = 3
  ResultBytes = 2
  KeptFor = 2
  MaxResults = 4
  MaxAge = 3
  Phones = {1, 2}
SYMMETRY MCSymmetry
INVARIANTS
  DeltaIsSound
  FreshIsHonest
  ReplyIsHonest
  SettledIsHonest
  StreamsAreOwned
  SuspensionIsKnown
  
  AdjustIsHonest
  RepliesAreTrue
  TargetsAreTrue
  JourneyIsHonest
  KeptOrTold
PROPERTIES
  MatchMeansUnchanged
  NoInputWhilePaused
  BlameIsFresh
  LldbPrintsInOrder
CHECK_DEADLOCK FALSE
