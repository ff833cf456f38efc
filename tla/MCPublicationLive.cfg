\* Lock and merge liveness under process fairness, with one failure.
CONSTANTS
  BatchId = {b1, b2}
  NoBatch = NoBatch
  NoGroup = NoGroup
  NoProc = NoProc
  Window = 3
  DailyCap = 1
  MaxTime = 3
  MaxFaults = 1
SPECIFICATION FairSpec
PROPERTIES
  CollectionsProceed
CHECK_DEADLOCK FALSE
