--------------------------- MODULE MCRollingCorpus ---------------------------
(* Instances of RollingCorpus for TLC.  Batches, battles, base facts and *)
(* loadout states are interchangeable.                                   *)
EXTENDS RollingCorpus, TLC

Symmetry ==
  Permutations(BatchId) \cup Permutations(Battle) \cup Permutations(Payload)
    \cup Permutations(Config) \cup Permutations(Meta)
=============================================================================
