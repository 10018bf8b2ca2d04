SPECIFICATION Spec
CONSTANTS
  MaxFiles = 5
  Counts = {0, 1, 2}
  Kinds = {"wal", "store", "headless", "s3", "gone"}
  Clouds = {"none", "up", "down"}
  Base = 4
  MaxFileId = 80
  Spans = {0, 1, 3, 5, 8}
  Cap <- CapDef
  GoCap <- GoCapDef
  Radix = 2
  Operands = {0, 1, 4, 16, 255, 256, 65535}
  Steps = {1, 3}
  MaxNumber = 65540
INVARIANTS
  NeverPastOwner
  
  SearchIsExact
  ServerIsExact
  ClientIsExact
CHECK_DEADLOCK FALSE
