CONSTANTS
  Retains = FALSE
  MaxLate = 2
SPECIFICATION RecoveringSpec
PROPERTIES
  UploadCompletes
CHECK_DEADLOCK FALSE
