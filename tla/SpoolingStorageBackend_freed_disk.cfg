CONSTANTS
  Entry = {1}
  SpoolMax = 2
  MaxRestarts = 1
  DeleteOldest = TRUE
  Trouble = {}
SPECIFICATION DiskRecoveringSpec
CHECK_DEADLOCK FALSE
PROPERTIES
  FreedDiskIsRetried
