SPECIFICATION FairSpec
CONSTANTS
  Root <- OpenedAtData
  QueuePath <- QueuePathDef
  MaxFileSize = 1
  MaxSize = 3
  Starts <- WithoutCloud
  Workers = {w1}
  Packed <- Incompressible
  w1 = w1
  MaxFiles = 4
  MaxRemoteErrors = 0
PROPERTIES
  MaximumSize
CHECK_DEADLOCK FALSE
