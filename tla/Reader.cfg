SPECIFICATION FairReaderSpec
CONSTANTS
  CutEntries = TRUE
  MaxId = 2
  MaxFiles = 3
  Asks <- Reads
  Clouds = {TRUE, FALSE}
  Quiets = {{}, {"Forget", "Delete", "Fail"}}
INVARIANTS
  SentInOrder
  

  
CHECK_DEADLOCK FALSE
