CONSTANTS
  Camera = {"c1", "c2"}
  MaxSegments <- Segment12
  RestartMin = 1
  RestartMax = 3
  Stream <- ThreeStreams
  Size <- FourthIsLarge
  Window = 2
  BufferBytes = 2
  RecentNames = 3
  HintLimit = 4
  Lag = 2
  BatchRecords = 2
  MaxBytes = 2
  BackupCount = 2
  MaxLines = 5
  Client = {"u1", "u2"}
  Content = {"a", "b", "broken"}
  Valid = {"a", "b"}
SPECIFICATION RecorderSpec
CHECK_DEADLOCK FALSE
INVARIANTS
  AckedIsKept
  AcceptedIsArchived
  ErrorWakesRetention
  NoneLeftOver
  SealedBetweenLaunches
  OneTerm
  PlaylistNumbersSegments
  DurationIsAnnounced
  NoLineMissing
PROPERTIES
  StopGoesOn
  StopEnds
  CameraComesBack
  NoLostUpdate
