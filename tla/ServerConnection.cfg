SPECIFICATION FairServerSpec
CONSTANTS
  Writes = {w1}
  Reads = {r1}
  MaxEntries = 2
  REQUEST_CHANNEL_BUFFER = 1
  RESPONSE_CHANNEL_BUFFER = 1
  RxCap = 1
  w1 = w1
  r1 = r1
PROPERTIES
  
  WritesAreAnswered
  
CHECK_DEADLOCK FALSE
