SPECIFICATION ClientSpec
CONSTANTS
  Writes = {w1}
  Reads = {r1}
  MaxEntries = 2
  C2SCap = 1
  S2CCap = 1
  ReadCap = 1
  BufSize = 1
  MaxBreaks = 1
  w1 = w1
  r1 = r1
INVARIANTS
  
  StreamIsWhole
  RestIsIdle
CHECK_DEADLOCK FALSE
