SPECIFICATION FairWalSpec
CONSTANTS
  DataLens = {1, 4}
  RecoveredIds <- StartsAnywhere
  HeaderSize = 2
  EntryOverhead = 1
  MaxFileSize = 6
  NarrowMax = 1
  Fsync = TRUE
  MAX_RETRIES = 2
  IoErrors = {"open", "write", "sync"}
  MaxIoErrors = 2
  MaxInFlight = 2
  MaxBatch = 2
  MaxId = 2
INVARIANTS
  LogIsConsecutive
  AckedIsDurable
  NothingLostOrRepeated
PROPERTIES
  ReleasedIsAcked
  CompleteIsFinal
  CloseTerminates
CHECK_DEADLOCK FALSE
