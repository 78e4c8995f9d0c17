CONSTANTS
  Entry = {1, 2}
  SpoolMax = 2
  MaxRestarts = 1
  DeleteOldest = TRUE
  Trouble = {"crash"}
SPECIFICATION RecoveringSpec
CHECK_DEADLOCK FALSE
INVARIANTS
  IndexMatchesDisk
PROPERTIES
  AckedIsDelivered
  DrainEnds
