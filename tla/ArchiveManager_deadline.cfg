CONSTANTS
  Camera = {c1, c2}
  MaxBytes = 2
  SegmentSizes = {1}
  MaxSegments = 1
  Adaptive = FALSE
  DeleteOldest = FALSE
  BackendHonoursCancel = TRUE
SPECIFICATION DeadlineSpec
INVARIANTS
  NothingLostUnreported
PROPERTIES
  ShutdownEnds
