---------------------------- MODULE CorpusWindow ----------------------------
(* The real-time window of the rolling corpus and what its retention rule *)
(* keeps (scope_battle_ids and expire_and_prune of rolling_corpus.py).     *)
EXTENDS Integers, FiniteSets

CONSTANTS
  Window,      \* the 35 days after which an observation expires
  DailyCap     \* daily batches kept inside the window (35)

ASSUME WindowAssumption == Window \in Nat \ {0} /\ DailyCap \in Nat \ {0}

Lanes == {"daily_ranked", "weekly_expanded"}

(* The half-open window (t - Window, t]. *)
Inside(at, t) == at + Window > t /\ at <= t

(* The accepted daily batches that "ORDER BY completed_at DESC" counts before b. *)
NewerDaily(accepted, mode, completed, b, t) ==
  {c \in accepted : /\ mode[c] = "daily_ranked"
                    /\ Inside(completed[c], t)
                    /\ completed[c] > completed[b]}

(* The accepted batches expire_and_prune keeps when it is given timestamp t. *)
RetainedBatches(accepted, mode, completed, t) ==
  {b \in accepted :
     /\ Inside(completed[b], t)
     /\ mode[b] = "daily_ranked" =>
          Cardinality(NewerDaily(accepted, mode, completed, b, t)) < DailyCap}
=============================================================================
