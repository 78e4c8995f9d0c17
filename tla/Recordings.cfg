CONSTANTS
  Directory <- OneHour
  Recording = {1}
  Reader = {"r1", "r2"}
  ChunkSize = 2
  Header = 2
  Tag = 1
  MaxSize = 5
  MaxFragment = 4
  Browser = {"b1", "b2"}
  Pieces = 3
  Hour = 4
  Interval = 2
  MaxScan = 4
  Entries = 2
  Time = {1, 4, 6, 8}
  Footage <- AroundTheHour
SPECIFICATION RecordingsSpec
CHECK_DEADLOCK FALSE
INVARIANTS
  AckedIsListed
  AnswerHasNoGap
  ReachedIsListed
  BodyIsRange
  StoredIsServed
  SealedAsAnnounced
  OneExport
PROPERTIES
  RetrySucceeds
  DeliveredIsListed
  SlotComesBack
