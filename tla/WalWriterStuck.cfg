SPECIFICATION WalSpec
CONSTANTS
  DataLens = {1}
  RecoveredIds <- StartsEmpty
  HeaderSize = 2
  EntryOverhead = 1
  MaxFileSize = 6
  NarrowMax = 1
  Fsync = TRUE
  MAX_RETRIES = 3
  IoErrors = {}
  MaxIoErrors = 0
  MaxInFlight = 2
  MaxBatch = 1
  MaxId = 2
INVARIANTS
  ReadyIsReleased
CHECK_DEADLOCK FALSE
