SPECIFICATION FairSpec
CONSTANTS
  Root <- OpenedAtSlash
  QueuePath <- QueuePathDef
  MaxFileSize = 1
  MaxSize = 3
  Starts <- StartsDef
  Workers = {w1}
  Packed <- Incompressible
  w1 = w1
  MaxFiles = 4
  MaxRemoteErrors = 1
INVARIANTS
  DeletedIsUploaded
PROPERTIES
  
  LimitIsKept
  QueuedIsUploaded
CHECK_DEADLOCK FALSE
