\* Two collections, with up to two crashes or failures at any step.
CONSTANTS
  BatchId = {b1, b2}
  NoBatch = NoBatch
  NoGroup = NoGroup
  NoProc = NoProc
  Window = 3
  DailyCap = 1
  MaxTime = 4
  MaxFaults = 2
SPECIFICATION Spec
SYMMETRY Symmetry
INVARIANTS
  SingleWriter
  OnlyValidatedFacts
  CandidateCurrent
  AcceptedFactsTracked
  StatusTruthful
PROPERTIES
  StageDiscardedOnlyWhenSettled
  ImplementsCatalog
CHECK_DEADLOCK FALSE
