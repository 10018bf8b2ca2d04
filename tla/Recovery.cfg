SPECIFICATION FairSpec
CONSTANTS
  MaxMemoryUsage = 0
  DataLens = {1}
  RecoveredIds <- StartsEmpty
  ReadSteps = {1}
  MaxBatch = 1
  MaxId = 1
  HeaderSize = 2
  EntryOverhead = 1
  MaxFileSize = 5
  NarrowMax = 0
  Fsync = TRUE
  MAX_RETRIES = 3
  IoErrors = {}
  MaxIoErrors = 0
  MaxInFlight = 1
  Workers = {w1, w2}
  PowerLoss = TRUE
  MaxStops = 2
INVARIANTS
  DiskIsOneLog
  AckedIsOnDisk
  NothingBetween
  RangesTile
  CloseKeepsAll
PROPERTIES
  IsDurableQueue
  ServesReaders
  CompleteIsStored
CHECK_DEADLOCK FALSE
