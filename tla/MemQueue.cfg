SPECIFICATION MemSpec
CONSTANTS
  MaxMemoryUsage = 4
  DataLens = {0, 1, 3}
  RecoveredIds <- RecoveredIdsDef
  ReadSteps = {1, 2, 3}
  MaxBatch = 2
  MaxId = 5
INVARIANTS
  WindowExact
  UnackedReadable
  ReadsExact
  UsageExact
PROPERTY
  Monotone
