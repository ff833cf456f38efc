\* Two batches observe two battles; readable and unreadable records, partial
\* and complete loadouts that agree, contradict or refresh one another.
CONSTANTS
  Window = 2
  DailyCap = 1
  BatchId = {b1, b2}
  NoBatch = NoBatch
  Battle = {g1, g2}
  Payload = {p1, p2}
  Unreadable = Unreadable
  NoFact = NoFact
  Config = {c1, c2}
  Meta = {m1}
  Full = 2
  NoLoadout = NoLoadout
  Absent = Absent
  NoSave = NoSave
  MaxTime = 2
SPECIFICATION Spec
SYMMETRY Symmetry
INVARIANTS
  StoreClosed
  ConflictsRefused
PROPERTIES
  NoFactLost
