-------------------------- MODULE MCAnswerEvidence --------------------------
(* Groups of two timestamps published in two turns, in either order; two   *)
(* official snapshots and two requests, both interchangeable.              *)
EXTENDS AnswerEvidence, TLC

MCGroup == [at : 1 .. 2, turn : 1 .. 2]
MCNoGroup == [at |-> 0, turn |-> 0]
Symmetry == Permutations(Request) \cup Permutations(Snapshot)
=============================================================================
