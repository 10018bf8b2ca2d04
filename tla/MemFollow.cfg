SPECIFICATION FairSpec
CONSTANTS
  MaxMemoryUsage = 2
  DataLens = {1}
  RecoveredIds <- StartsEmpty
  ReadSteps = {1}
  MaxBatch = 2
  MaxId = 1
  Writers = {w1,w2}
  Followers = {f1,f2}
  Asks <- Joins
  ChanCap = 1
  w1 = w1
  w2 = w2
  f1 = f1
  f2 = f2
INVARIANT NothingRepeated
INVARIANT CompleteWhileSubscribed
PROPERTY DueIsTaken
CHECK_DEADLOCK FALSE
