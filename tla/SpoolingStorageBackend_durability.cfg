CONSTANTS
  Entry = {1}
  SpoolMax = 2
  MaxRestarts = 3
  DeleteOldest = TRUE
  Trouble = {"crash", "rot", "quota", "late", "cancel"}
SPECIFICATION Spec
CHECK_DEADLOCK FALSE
INVARIANTS
  AckedIsDurable
  MarkerMeansDelivered
PROPERTIES
  ImplementsDurableOutbox
