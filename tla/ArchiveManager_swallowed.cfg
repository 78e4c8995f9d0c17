CONSTANTS
  Camera = {c1}
  MaxBytes = 3
  SegmentSizes = {1, 2}
  MaxSegments = 3
  Adaptive = TRUE
  DeleteOldest = TRUE
  BackendHonoursCancel = FALSE
SPECIFICATION RecoveringSpec
CHECK_DEADLOCK FALSE
PROPERTIES
  ShutdownEnds
