SPECIFICATION Spec
CONSTANTS
  Attrs = {a, b}
  None = None
  MaxTime = 1
  T <- Pairs
  Minimum <- PairMinimum
  LessEqual <- PairLessEqual
  Meet <- PairMeet
  Rewind <- PairRewind
  OrdMax <- PairMax
  Slacks <- PairSlacks
  BufferCapacity = 1
  MaxUpdates = 1
  MaxBatch = 1
  LateComposition = TRUE
INVARIANTS CompactionBehindInputs
