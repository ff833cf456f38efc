------------------------ MODULE MCRollingPublication ------------------------
(* Instances of RollingPublication for TLC: batches are interchangeable. *)
EXTENDS RollingPublication, TLC

Symmetry == Permutations(BatchId)
=============================================================================
