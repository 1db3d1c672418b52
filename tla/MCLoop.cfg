SPECIFICATION BoundedSpec
CONSTANTS
  Attrs = {a, b}
  None = None
  MaxTime = 3
  T <- U64s
  Minimum = 0
  LessEqual <- U64LessEqual
  Meet <- U64Meet
  Rewind <- U64Rewind
  OrdMax <- U64Max
  Slacks <- Slack1
  BufferCapacity = 1
  MaxUpdates = 1
  MaxBatch = 1
  LateComposition = TRUE
  Builds = {"u64", "real-time"}
INVARIANTS
  LoopNeverPanics
  LockstepBetweenCommands
  EpochFollowsClock
PROPERTIES
  InputsFollowSource
  TracesFollowEpoch
