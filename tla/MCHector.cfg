SPECIFICATION HectorSpec
CONSTANTS
  Queries <- RunQueries
  Attributes = {1, 2}
  Values = {0, 1}
  T <- Epochs
  LessEqual <- U64LessEqual
  Join <- U64Join
  Meet <- U64Meet
  TimeOrder <- EpochOrder
  MaxChanges <- FewChanges
  QuerySupport = "AdaptiveWCO"
  IndexDirection = "Both"
CHECK_DEADLOCK FALSE
INVARIANTS
  ResultsAgree
  OrderIsSound
  ReturnsInTime
