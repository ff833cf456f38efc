SPECIFICATION Spec
CONSTANTS
  Docs <- MCDocs
  Releases <- MCReleases
  Requests <- MCRequests
  AnyType = "any"
  BatchSize = 3
  TopK = 2
  FinalTopK = 2
  DenseLimit = 2
  RrfK = 2
INVARIANTS
  
  MatchingFound
  FusionFaithful
CHECK_DEADLOCK TRUE
