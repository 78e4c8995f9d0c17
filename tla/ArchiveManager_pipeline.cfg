CONSTANTS
  Camera = {c1}
  MaxBytes = 3
  SegmentSizes = {1, 2}
  MaxSegments = 4
  Adaptive = TRUE
  DeleteOldest = TRUE
  BackendHonoursCancel = FALSE
SPECIFICATION RecoveringSpec
INVARIANTS
  BudgetHolds
  BudgetIsExact
  PipelineInOrder
PROPERTIES
  ImplementsFootageStream
  AddReturns
  StopDrains
