SPECIFICATION Spec
CONSTANTS
  Attrs = {a, b}
  None = None
  MaxTime = 2
  T <- U64s
  Minimum = 0
  LessEqual <- U64LessEqual
  Meet <- U64Meet
  Rewind <- U64Rewind
  OrdMax <- U64Max
  Slacks <- Slack1
  BufferCapacity = 1
  MaxUpdates = 2
  MaxBatch = 2
  LateComposition = TRUE
INVARIANTS
  NoUpdateLostOrDuplicated
  ShippedUnderValidCapability
PROPERTIES
  TracesNeverMoveBack
