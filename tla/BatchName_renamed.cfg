CONSTANTS
  Stream <- Streams
  Size <- Sizes
  Window = 2
  MaxBytes = 4
  RecentNames = 8
  HintLimit = 8
  Lag = 2
  BatchLength = 2
SPECIFICATION BatchSpec
CHECK_DEADLOCK FALSE
INVARIANT OneNamePerBatch
