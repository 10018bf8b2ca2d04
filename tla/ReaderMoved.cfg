SPECIFICATION ReaderSpec
CONSTANTS
  CutEntries = FALSE
  MaxId = 2
  MaxFiles = 3
  Asks <- LimitedReads
  Clouds = {FALSE}
  Quiets = {{"Forget", "Fail"}}
INVARIANTS
  CompletedIsComplete
CHECK_DEADLOCK FALSE
