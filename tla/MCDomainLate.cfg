SPECIFICATION Spec
CONSTANTS
  Attrs = {a, b}
  None = None
  MaxTime = 2
  T <- U64s
  Minimum = 0
  LessEqual <- U64LessEqual
  Meet <- U64Meet
  Rewind <- U64Rewind
  OrdMax <- U64Max
  Slacks <- Slack1
  BufferCapacity = 1
  MaxUpdates = 0
  MaxBatch = 1
  LateComposition = TRUE
INVARIANT SessionsNeverRewind
