---------------------------- MODULE RollingCorpus ----------------------------
(***************************************************************************)
(* The rolling fact store: battles, their loadouts and the observations    *)
(* that keep them (src/clashroyale_agent/collection/rolling_corpus.py with *)
(* corpus_imports.py, corpus_observations.py, corpus_finalize.py).         *)
(*                                                                         *)
(* An observation stands for all the observers of one battle in one batch: *)
(* they carry the same record and come and go together.                    *)
(*                                                                         *)
(* One writer at a time runs these operations, under corpus/writer.lock.   *)
(* It may die between any two of them, or in the middle of the import      *)
(* transaction, whose rows are then rolled back.  The variables are the    *)
(* writer's view of the database; "saved" is what it was when the current  *)
(* import began.                                                           *)
(***************************************************************************)
EXTENDS CorpusWindow

CONSTANTS
  BatchId,     \* identifiers handed out by unique_batch_id
  NoBatch,     \* no import under way
  Battle,      \* stable battle identifiers
  Payload,     \* canonical base facts of a battle
  Unreadable,  \* a record canonical_battle or base_fact refuses
  NoFact,      \* no row in battles
  Config,      \* battle-time states a loadout signature tells apart
  Meta,        \* catalogue metadata of a loadout, outside the signature
  Full,        \* quality of a complete loadout pair
  NoLoadout,   \* no row in battle_loadouts, or a record without loadouts
  Absent,      \* a battle the workspace did not see
  NoSave,      \* no import under way
  MaxTime      \* bound on timestamps

ASSUME CorpusAssumption ==
  /\ NoBatch \notin BatchId
  /\ Unreadable \notin Payload
  /\ NoFact \notin Payload \cup {Unreadable}
  /\ Full \in Nat \ {0}
  /\ MaxTime \in Nat

Time == 0 .. MaxTime
Legacy == "legacy_weekly_full_only"
Loadout == [quality : 1 .. Full, config : Config, meta : Meta]
Observation == [batch : BatchId, battle : Battle]

ASSUME SentinelAssumption == NoLoadout \notin Loadout

(* What a workspace holds about one battle; canonicalisation happens on import. *)
Sighting == [payload : Payload \cup {Unreadable}, loadout : Loadout \cup {NoLoadout}]

VARIABLES
  mode, status, completed,  \* collection_batches
  fact,                     \* battles: the payload of each battle
  loadout,                  \* battle_loadouts
  obs,                      \* battle_observations
  conflicts,                \* batches with a row in corpus_conflicts
  phase,                    \* idle, importing (transaction open), imported
  batch,                    \* the batch being imported
  staged,                   \* its workspace: the record of each battle
  todo,                     \* battles of the workspace still to import
  faulty,                   \* rows the transaction counted as conflicts
  saved                     \* the facts and loadouts before the import

batchVars  == <<mode, status, completed>>
factVars   == <<fact, loadout, obs, conflicts>>
importVars == <<phase, batch, staged, todo, faulty, saved>>
vars == <<batchVars, factVars, importVars>>

-----------------------------------------------------------------------------

Snapshot == [fact : [Battle -> Payload \cup {NoFact}],
             loadout : [Battle -> Loadout \cup {NoLoadout}],
             obs : SUBSET Observation,
             conflicts : SUBSET BatchId]

BatchStatus == {"absent", "collecting", "conflicted", "accepted", "rejected", "expired"}

TypeOK ==
  /\ mode \in [BatchId -> Lanes \cup {Legacy}]
  /\ status \in [BatchId -> BatchStatus]
  /\ completed \in [BatchId -> Time]
  /\ fact \in [Battle -> Payload \cup {NoFact}]
  /\ loadout \in [Battle -> Loadout \cup {NoLoadout}]
  /\ obs \subseteq Observation
  /\ conflicts \subseteq BatchId
  /\ phase \in {"idle", "importing", "imported"}
  /\ batch \in BatchId \cup {NoBatch}
  /\ staged \in [Battle -> Sighting \cup {Absent}]
  /\ todo \subseteq Battle
  /\ faulty \in BOOLEAN
  /\ saved \in Snapshot \cup {NoSave}

Accepted == {b \in BatchId : status[b] = "accepted"}
Observed(g) == {o \in obs : o.battle = g}

NothingStaged == [g \in Battle |-> Absent]

(* The importing process is done with its batch, or dead. *)
Settled ==
  /\ phase' = "idle"
  /\ batch' = NoBatch
  /\ staged' = NothingStaged
  /\ todo' = {}
  /\ faulty' = FALSE
  /\ saved' = NoSave

(* Seeded faults: the facts of deleted observations stay, or go although *)
(* another batch observed them.                                          *)
PruneObservationsOnly(remaining) ==
  /\ obs' = remaining
  /\ UNCHANGED <<fact, loadout>>
PruneObserved(remaining) ==
  LET kept(g) == \A o \in obs \ remaining : o.battle # g
  IN  /\ obs' = {o \in remaining : kept(o.battle)}
      /\ fact' = [g \in Battle |-> IF kept(g) THEN fact[g] ELSE NoFact]
      /\ loadout' = [g \in Battle |-> IF kept(g) THEN loadout[g] ELSE NoLoadout]

(* DELETE FROM battles without observations; loadouts follow by cascade. *)
Prune(remaining) ==
  LET kept(g) == \E o \in remaining : o.battle = g
  IN  /\ obs' = remaining
      /\ fact' = [g \in Battle |-> IF kept(g) THEN fact[g] ELSE NoFact]
      /\ loadout' = [g \in Battle |-> IF kept(g) THEN loadout[g] ELSE NoLoadout]

Init ==
  /\ mode = [b \in BatchId |-> "daily_ranked"]
  /\ status = [b \in BatchId |-> "absent"]
  /\ completed = [b \in BatchId |-> 0]
  /\ fact = [g \in Battle |-> NoFact]
  /\ loadout = [g \in Battle |-> NoLoadout]
  /\ obs = {}
  /\ conflicts = {}
  /\ phase = "idle"
  /\ batch = NoBatch
  /\ staged = NothingStaged
  /\ todo = {}
  /\ faulty = FALSE
  /\ saved = NoSave

-----------------------------------------------------------------------------
(* import_workspace_batch and import_legacy_archive. *)

(* create_batch commits the batch, then one transaction imports the rows. *)
CreateBatch(b, m, seen) ==
  /\ phase = "idle"
  /\ status[b] = "absent"
  /\ mode' = [mode EXCEPT ![b] = m]
  /\ status' = [status EXCEPT ![b] = "collecting"]
  /\ phase' = "importing"
  /\ batch' = b
  /\ staged' = seen
  /\ todo' = {g \in Battle : seen[g] # Absent}
  /\ faulty' = FALSE
  /\ saved' = [fact |-> fact, loadout |-> loadout, obs |-> obs, conflicts |-> conflicts]
  /\ UNCHANGED <<completed, factVars>>

Complete(l) == l.quality = Full

(* Two complete loadouts of one battle with different battle-time states. *)
Contradicts(old, new) ==
  /\ old # NoLoadout /\ new # NoLoadout
  /\ Complete(old) /\ Complete(new)
  /\ old.config # new.config

(* Seeded fault: the last loadout wins. *)
MergedLastWins(old, new) == IF new = NoLoadout THEN old ELSE new

(* upsert_loadout: complete, refresh the metadata of, or keep what is stored. *)
Merged(old, new) ==
  CASE new = NoLoadout                  -> old
    [] new # NoLoadout /\ old = NoLoadout -> new
    [] new # NoLoadout /\ old # NoLoadout ->
         IF (Complete(old) /\ Complete(new)) \/ new.quality > old.quality
         THEN new ELSE old

(* A row canonicalisation refuses: an invalid legacy record is skipped. *)
UnreadableRow(g) ==
  /\ g \in todo
  /\ staged[g].payload = Unreadable
  /\ faulty' = (faulty \/ mode[batch] # Legacy)
  /\ todo' = todo \ {g}
  /\ UNCHANGED <<batchVars, factVars, phase, batch, staged, saved>>

(* insert_fact_observation: the stored fact or complete loadout disagrees. *)
ConflictingRow(g) ==
  /\ g \in todo
  /\ staged[g].payload \in Payload
  /\ \/ fact[g] \notin {NoFact, staged[g].payload}
     \/ Contradicts(loadout[g], staged[g].loadout)
  /\ conflicts' = conflicts \cup {batch}
  /\ status' = [status EXCEPT ![batch] = "conflicted"]
  /\ faulty' = TRUE
  /\ todo' = todo \ {g}
  /\ UNCHANGED <<mode, completed, fact, loadout, obs, phase, batch, staged, saved>>

(* Seeded fault: a record canonicalisation refused is stored. *)
ObservingAnyRow(g) ==
  /\ g \in todo
  /\ fact[g] \in {NoFact, staged[g].payload}
  /\ ~Contradicts(loadout[g], staged[g].loadout)
  /\ fact' = [fact EXCEPT ![g] = staged[g].payload]
  /\ loadout' = [loadout EXCEPT ![g] = Merged(loadout[g], staged[g].loadout)]
  /\ obs' = obs \cup {[batch |-> batch, battle |-> g]}
  /\ todo' = todo \ {g}
  /\ UNCHANGED <<batchVars, conflicts, phase, batch, staged, faulty, saved>>

ObservingRow(g) ==
  /\ g \in todo
  /\ staged[g].payload \in Payload
  /\ fact[g] \in {NoFact, staged[g].payload}
  /\ ~Contradicts(loadout[g], staged[g].loadout)
  /\ fact' = [fact EXCEPT ![g] = staged[g].payload]
  /\ loadout' = [loadout EXCEPT ![g] = Merged(loadout[g], staged[g].loadout)]
  /\ obs' = obs \cup {[batch |-> batch, battle |-> g]}
  /\ todo' = todo \ {g}
  /\ UNCHANGED <<batchVars, conflicts, phase, batch, staged, faulty, saved>>

CommitImport ==
  /\ phase = "importing"
  /\ todo = {}
  /\ mode[batch] # Legacy
  /\ status' = [status EXCEPT ![batch] = IF faulty THEN "conflicted" ELSE @]
  /\ phase' = "imported"
  /\ UNCHANGED <<mode, completed, factVars, batch, staged, todo, faulty, saved>>

(* The writer dies or the import raises: the open transaction is undone, *)
(* the batch stays "collecting".  Nothing ever returns to it.            *)
AbandonImport ==
  /\ phase = "importing"
  /\ fact' = saved.fact
  /\ loadout' = saved.loadout
  /\ obs' = saved.obs
  /\ conflicts' = saved.conflicts
  /\ status' = [status EXCEPT ![batch] = "collecting"]
  /\ Settled
  /\ UNCHANGED <<mode, completed>>

(* The writer dies, or validation raises, after the import committed. *)
AbandonImported ==
  /\ phase = "imported"
  /\ Settled
  /\ UNCHANGED <<batchVars, factVars>>

-----------------------------------------------------------------------------
(* finalize_batch, the end of import_legacy_archive, expire_and_prune. *)

(* Seeded fault: a rejected batch keeps its observations. *)
DecideStatusOnly(s, t) ==
  /\ \A b \in BatchId : completed[b] # t
  /\ status' = [status EXCEPT ![batch] = s]
  /\ completed' = [completed EXCEPT ![batch] = t]
  /\ Settled
  /\ UNCHANGED <<mode, factVars>>

(* A rejected batch loses its observations, and facts only it observed go. *)
Decide(s, t) ==
  /\ \A b \in BatchId : completed[b] # t
  /\ status' = [status EXCEPT ![batch] = s]
  /\ completed' = [completed EXCEPT ![batch] = t]
  /\ \/ s = "accepted" /\ UNCHANGED <<fact, loadout, obs>>
     \/ s = "rejected" /\ Prune({o \in obs : o.batch # batch})
  /\ Settled
  /\ UNCHANGED <<mode, conflicts>>

(* Seeded fault: coverage alone decides. *)
FinalizeBatchByCoverage(t) ==
  /\ phase = "imported"
  /\ \E s \in {"accepted", "rejected"} : Decide(s, t)

(* Coverage, rate limits and targets decide; a conflict always fails.  *)
(* Timestamps carry microseconds: no two batches complete at the same. *)
FinalizeBatch(t) ==
  /\ phase = "imported"
  /\ \E s \in {"accepted", "rejected"} :
       /\ (status[batch] = "conflicted" \/ batch \in conflicts) => s = "rejected"
       /\ Decide(s, t)

(* Same transaction as the rows: no conflict and at least one record. *)
FinishLegacy(t) ==
  /\ phase = "importing"
  /\ todo = {}
  /\ mode[batch] = Legacy
  /\ LET passed == ~faulty /\ \E o \in obs : o.batch = batch
     IN  Decide(IF passed THEN "accepted" ELSE "rejected", t)

(* t is the caller's timestamp, not necessarily later than the last one. *)
ExpireAndPrune(t) ==
  LET gone == Accepted \ RetainedBatches(Accepted, mode, completed, t)
  IN  /\ phase = "idle"
      /\ status' = [b \in BatchId |-> IF b \in gone THEN "expired" ELSE status[b]]
      /\ Prune({o \in obs : o.batch \notin gone})
      /\ UNCHANGED <<mode, completed, conflicts, importVars>>

Next ==
  \/ \E b \in BatchId, m \in Lanes \cup {Legacy},
        seen \in [Battle -> Sighting \cup {Absent}] : CreateBatch(b, m, seen)
  \/ \E g \in Battle : UnreadableRow(g) \/ ConflictingRow(g) \/ ObservingRow(g)
  \/ CommitImport
  \/ AbandonImport
  \/ AbandonImported
  \/ \E t \in Time : FinalizeBatch(t) \/ FinishLegacy(t) \/ ExpireAndPrune(t)

Spec == Init /\ [][Next]_vars
-----------------------------------------------------------------------------

(* The store is closed: a fact is stored exactly while somebody observed   *)
(* it, and a loadout only with its fact.  Scope counts (from observations) *)
(* and scope records (from battles) therefore agree.                       *)
StoredFactsObserved ==
  \A g \in Battle :
    /\ fact[g] # NoFact <=> Observed(g) # {}
    /\ loadout[g] # NoLoadout => fact[g] # NoFact

(* Observations belong to a batch that may still count: a rejected or      *)
(* expired batch has left none behind (SNAPSHOT_COLLECTION_HANDOFF.md).    *)
SettledBatchesUnobserved ==
  \A o \in obs : status[o.batch] \in {"collecting", "conflicted", "accepted"}

(* No row without an observer, no observer without a say, no row of another *)
(* type.                                                                    *)
StoreClosed == TypeOK /\ StoredFactsObserved /\ SettledBatchesUnobserved

(* While a batch is imported and until it is decided, what was stored      *)
(* before stays: the first fact of a battle wins, and a complete loadout   *)
(* keeps its battle-time state (FULL_LOADOUT_DATA_CONTRACT.md).            *)
ImportOverwritesNothing ==
  saved # NoSave =>
    \A g \in Battle :
      /\ saved.fact[g] # NoFact => fact[g] = saved.fact[g]
      /\ (saved.loadout[g] # NoLoadout /\ Complete(saved.loadout[g])) =>
           /\ Complete(loadout[g])
           /\ loadout[g].config = saved.loadout[g].config

(* A batch that met a conflicting fact or loadout is never accepted. *)
ConflictNeverAccepted == Accepted \cap conflicts = {}

(* Contradicting records change neither what is stored nor what counts.    *)
ConflictsRefused == ImportOverwritesNothing /\ ConflictNeverAccepted

(* A fact leaves only when no accepted batch that observed it remains:     *)
(* rejecting or expiring one batch never takes the facts of another.       *)
NoFactLost ==
  [][\A g \in Battle :
       (fact[g] # NoFact /\ fact'[g] = NoFact) =>
         \A o \in Observed(g) : status'[o.batch] # "accepted"]_vars

(* What makes the invariants above inductive.  An import knows its batch,  *)
(* which is undecided, and its rows are in the workspace; an idle writer   *)
(* has nothing under way.                                                  *)
ImportUnderWay ==
  /\ phase = "idle" => saved = NoSave
  /\ phase # "importing" => todo = {}
  /\ phase # "idle" => /\ batch \in BatchId /\ saved \in Snapshot
                       /\ status[batch] \in {"collecting", "conflicted"}
  /\ \A g \in todo : staged[g] # Absent

(* What a rollback returns to is closed like the store itself, and what it *)
(* takes back are observations of the batch alone.                         *)
SavedClosed ==
  phase = "importing" =>
    /\ \A g \in Battle :
         /\ saved.fact[g] # NoFact <=> \E o \in saved.obs : o.battle = g
         /\ saved.loadout[g] # NoLoadout => saved.fact[g] # NoFact
    /\ \A o \in saved.obs : status[o.batch] \in {"collecting", "conflicted", "accepted"}
    /\ \A o \in obs \ saved.obs : o.batch = batch
    /\ saved.conflicts \subseteq conflicts

(* A stored loadout is completed or refreshed, never taken out.            *)
LoadoutsStay ==
  saved # NoSave =>
    \A g \in Battle : saved.loadout[g] # NoLoadout => loadout[g] # NoLoadout

(* Only a batch that was created has conflicts, and the import that meets  *)
(* one knows.                                                              *)
ConflictsKnown ==
  /\ \A b \in conflicts : status[b] # "absent"
  /\ phase = "importing" /\ batch \in conflicts => faulty

CorpusInv ==
  /\ StoreClosed
  /\ ConflictsRefused
  /\ ImportUnderWay
  /\ SavedClosed
  /\ LoadoutsStay
  /\ ConflictsKnown

(* What the documents say and the code does not do. *)

(* ADR-009: facts stay 35 days at most, kept by valid observations; after  *)
(* a retention pass every fact has an accepted batch behind it.            *)
FactsKeptByValidObservations ==
  [][\A t \in Time : ExpireAndPrune(t) =>
       \A g \in Battle : fact'[g] # NoFact =>
         \E o \in obs' : o.battle = g /\ status'[o.batch] = "accepted"]_vars
=============================================================================
