SPECIFICATION OperatorsSpec
CONSTANTS
  T <- Pairs
  LessEqual <- PairLessEqual
  Join <- PairJoin
  Meet <- PairMeet
  MaxUpdates = 2
  MaxRequests = 2
  MaxRequestTime = 2
  NeuIndex = FALSE
  MaxDomainSince = 1
  Eids = {e, f}
  Vals = {1, 2}
  MaxWriteTime = 1
  MaxWrites = 3
  None = None
  Keys = {"e", "f", "friend", "name"}
  Paths <- PullPaths
  Many <- NestedPaths
  Leafs = {1, 2}
  NoLeaf = NoLeaf
  Obj = Obj
  Granularity = 2
  MaxPathTime = 2
  MaxNodes = 3
  MaxDepth = 3
  MaxLength = 1
  MaxBatches = 2
  Introspect = {"timely", "differential"}
  Instants <- Pairs
  Earliest <- Origin
  InstantLessEqual <- PairLessEqual
  OrdLessEqual <- PairOrdLessEqual
  Activators = {a, b, c}
  NS = 2
  Coarsen <- CoarsenNanos
  Ticks = {1, 2}
  Interval = 2
  Fuel = 2
  Records = 4
  IdleDelay = 2
  Intervals = 3
  MaxSlip = 1
  ClientTicks <- SomeTicks
INVARIANTS
  ReadsAgree
  MapMatchesRows
  SizesAddUp
  AnsweredOnceAsOf
  ReadyIsPending
  OneTickInFlight
  TicksOncePerInterval
  EveryRecordOnce
  NeverOversleeps
PROPERTIES
  ChangesReported
  ImplementsLatestValue
  EveryRequestAnswered
  SourceProgresses
  TicksRecur
CHECK_DEADLOCK FALSE
