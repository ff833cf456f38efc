\* Two requests while groups and official snapshots are published.
CONSTANTS
  Group <- MCGroup
  NoGroup <- MCNoGroup
  Snapshot = {s1, s2}
  NoSnapshot = NoSnapshot
  Request = {r1, r2}
SPECIFICATION Spec
INVARIANTS
  EvidenceInv
  EvidenceOnlyNewer
CHECK_DEADLOCK FALSE
SYMMETRY Symmetry
