------------------------ MODULE RollingCorpus_proofs ------------------------
(* Proofs about the rolling corpus - RollingCorpus, for every set of       *)
(* batches, battles, records and loadouts, every window and cap - and      *)
(* about the groups published from it - RollingGroups, for any battles,    *)
(* loadouts, scopes and slots.                                             *)
EXTENDS RollingCorpus, RollingGroups, FiniteSetTheorems, SequenceTheorems, TLAPS

(* The loadout a row leaves behind is one of the two it was made from.    *)
LEMMA MergedType ==
  ASSUME NEW old \in Loadout \cup {NoLoadout}, NEW new \in Loadout \cup {NoLoadout}
  PROVE  /\ Merged(old, new) \in Loadout \cup {NoLoadout}
         /\ old # NoLoadout => Merged(old, new) # NoLoadout
BY DEF Merged

(* Merging keeps the battle-time state of a complete loadout, unless the  *)
(* new one contradicts it.                                                *)
LEMMA MergedKeepsComplete ==
  ASSUME NEW old \in Loadout, NEW new \in Loadout \cup {NoLoadout},
         Complete(old), ~Contradicts(old, new)
  PROVE  Complete(Merged(old, new)) /\ Merged(old, new).config = old.config
<1>1. old # NoLoadout
  BY SentinelAssumption
<1>2. CASE new = NoLoadout
  BY <1>2 DEF Merged
<1>3. CASE new # NoLoadout /\ Complete(new)
  <2>1. new.config = old.config
    BY <1>1, <1>3 DEF Contradicts
  <2>2. Merged(old, new) = new
    BY <1>1, <1>3 DEF Merged
  <2> QED
    BY <1>3, <2>1, <2>2
<1>4. CASE new # NoLoadout /\ ~Complete(new)
  <2>1. new.quality \in 1 .. Full /\ new.quality # Full /\ old.quality = Full
    BY <1>4 DEF Loadout, Complete
  <2>2. ~(new.quality > old.quality)
    BY <2>1, CorpusAssumption
  <2>3. Merged(old, new) = old
    BY <1>1, <1>4, <2>2 DEF Merged
  <2> QED
    BY <2>3
<1> QED
  BY <1>2, <1>3, <1>4

(* Rows without an observation are gone, the others stay as they were.    *)
LEMMA PruneCloses ==
  ASSUME TypeOK, NEW remaining \in SUBSET obs, Prune(remaining)
  PROVE  /\ fact' \in [Battle -> Payload \cup {NoFact}]
         /\ loadout' \in [Battle -> Loadout \cup {NoLoadout}]
         /\ obs' = remaining
         /\ StoredFactsObserved => StoredFactsObserved'
<1>1. /\ fact' \in [Battle -> Payload \cup {NoFact}]
      /\ loadout' \in [Battle -> Loadout \cup {NoLoadout}]
      /\ obs' = remaining
  BY DEF Prune, TypeOK
<1>2. ASSUME StoredFactsObserved, NEW g \in Battle
      PROVE  /\ fact'[g] # NoFact <=> Observed(g)' # {}
             /\ loadout'[g] # NoLoadout => fact'[g] # NoFact
  <2>1. CASE \E o \in remaining : o.battle = g
    <3>1. fact'[g] = fact[g] /\ loadout'[g] = loadout[g]
      BY <2>1 DEF Prune
    <3>2. Observed(g) # {} /\ Observed(g)' # {}
      BY <1>1, <2>1 DEF Observed
    <3> QED
      BY <1>2, <3>1, <3>2 DEF StoredFactsObserved
  <2>2. CASE ~\E o \in remaining : o.battle = g
    <3>1. fact'[g] = NoFact /\ loadout'[g] = NoLoadout
      BY <2>2 DEF Prune
    <3>2. Observed(g)' = {}
      BY <1>1, <2>2 DEF Observed
    <3> QED
      BY <3>1, <3>2
  <2> QED
    BY <2>1, <2>2
<1> QED
  BY <1>1, <1>2 DEF StoredFactsObserved

-----------------------------------------------------------------------------
LEMMA RowsWhileImporting ==
  ASSUME ImportUnderWay, NEW g \in todo
  PROVE  /\ phase = "importing" /\ batch \in BatchId
         /\ status[batch] \in {"collecting", "conflicted"}
         /\ staged[g] # Absent
BY DEF ImportUnderWay

LEMMA InitInvariant == Init => CorpusInv
<1> SUFFICES ASSUME Init PROVE CorpusInv
  OBVIOUS
<1>1. TypeOK
  <2>1. 0 \in Time
    BY CorpusAssumption DEF Time
  <2>2. /\ mode \in [BatchId -> Lanes \cup {Legacy}]
        /\ status \in [BatchId -> BatchStatus]
        /\ completed \in [BatchId -> Time]
    BY <2>1 DEF Init, Lanes, BatchStatus
  <2>3. /\ fact \in [Battle -> Payload \cup {NoFact}]
        /\ loadout \in [Battle -> Loadout \cup {NoLoadout}]
        /\ staged \in [Battle -> Sighting \cup {Absent}]
    BY DEF Init, NothingStaged
  <2> QED
    BY <2>2, <2>3 DEF Init, TypeOK
<1>2. StoredFactsObserved /\ SettledBatchesUnobserved
  BY DEF Init, StoredFactsObserved, SettledBatchesUnobserved, Observed
<1>3. ConflictsRefused
  BY DEF Init, ConflictsRefused, ImportOverwritesNothing, ConflictNeverAccepted
<1>4. ImportUnderWay /\ SavedClosed /\ LoadoutsStay /\ ConflictsKnown
  BY DEF Init, ImportUnderWay, SavedClosed, LoadoutsStay, ConflictsKnown
<1> QED
  BY <1>1, <1>2, <1>3, <1>4 DEF CorpusInv, StoreClosed

LEMMA NextTyping ==
  ASSUME TypeOK, ImportUnderWay, [Next]_vars
  PROVE  TypeOK'
<1> USE DEF TypeOK
<1>1. ASSUME NEW b \in BatchId, NEW m \in Lanes \cup {Legacy},
             NEW view \in [Battle -> Sighting \cup {Absent}], CreateBatch(b, m, view)
      PROVE  TypeOK'
  BY <1>1 DEF CreateBatch, factVars, BatchStatus, Snapshot
<1>2. ASSUME NEW g \in Battle, UnreadableRow(g) PROVE TypeOK'
  BY <1>2 DEF UnreadableRow, batchVars, factVars
<1>3. ASSUME NEW g \in Battle, ConflictingRow(g) PROVE TypeOK'
  <2>1. batch \in BatchId
    BY <1>3, RowsWhileImporting DEF ConflictingRow
  <2> QED
    BY <1>3, <2>1 DEF ConflictingRow, BatchStatus
<1>4. ASSUME NEW g \in Battle, ObservingRow(g) PROVE TypeOK'
  <2>1. batch \in BatchId /\ staged[g] \in Sighting
    BY <1>4, RowsWhileImporting DEF ObservingRow
  <2>2. Merged(loadout[g], staged[g].loadout) \in Loadout \cup {NoLoadout}
    BY <2>1, MergedType DEF Sighting
  <2> QED
    BY <1>4, <2>1, <2>2 DEF ObservingRow, batchVars, Observation
<1>5. ASSUME CommitImport PROVE TypeOK'
  BY <1>5 DEF CommitImport, factVars, BatchStatus
<1>6. ASSUME AbandonImport PROVE TypeOK'
  <2>1. saved \in Snapshot
    BY <1>6 DEF AbandonImport, ImportUnderWay
  <2> QED
    BY <1>6, <2>1 DEF AbandonImport, Settled, NothingStaged, Snapshot, BatchStatus
<1>7. ASSUME AbandonImported PROVE TypeOK'
  BY <1>7 DEF AbandonImported, Settled, NothingStaged, batchVars, factVars
<1>8. ASSUME NEW t \in Time, NEW s \in {"accepted", "rejected"}, Decide(s, t), phase # "idle"
      PROVE  TypeOK'
  <2>1. /\ fact' \in [Battle -> Payload \cup {NoFact}]
        /\ loadout' \in [Battle -> Loadout \cup {NoLoadout}]
        /\ obs' \subseteq obs
    BY <1>8, PruneCloses DEF Decide
  <2> QED
    BY <1>8, <2>1 DEF Decide, Settled, NothingStaged, BatchStatus
<1>9. ASSUME NEW t \in Time, FinalizeBatch(t) PROVE TypeOK'
  BY <1>8, <1>9 DEF FinalizeBatch
<1>10. ASSUME NEW t \in Time, FinishLegacy(t) PROVE TypeOK'
  BY <1>8, <1>10 DEF FinishLegacy
<1>11. ASSUME NEW t \in Time, ExpireAndPrune(t) PROVE TypeOK'
  <2>1. /\ fact' \in [Battle -> Payload \cup {NoFact}]
        /\ loadout' \in [Battle -> Loadout \cup {NoLoadout}]
        /\ obs' \subseteq obs
    BY <1>11, PruneCloses DEF ExpireAndPrune
  <2> QED
    BY <1>11, <2>1 DEF ExpireAndPrune, importVars, BatchStatus
<1>12. CASE UNCHANGED vars
  BY <1>12 DEF vars, batchVars, factVars, importVars
<1> QED
  BY <1>1, <1>2, <1>3, <1>4, <1>5, <1>6, <1>7, <1>9, <1>10, <1>11, <1>12 DEF Next

(* Every import step names its batch, a step that ends one forgets it.    *)
LEMMA NextImport ==
  ASSUME TypeOK, ImportUnderWay, [Next]_vars
  PROVE  ImportUnderWay'
<1> USE DEF TypeOK, ImportUnderWay
<1>1. ASSUME NEW b \in BatchId, NEW m \in Lanes \cup {Legacy},
             NEW view \in [Battle -> Sighting \cup {Absent}], CreateBatch(b, m, view)
      PROVE  ImportUnderWay'
  BY <1>1 DEF CreateBatch, factVars, Snapshot
<1>2. ASSUME NEW g \in Battle, UnreadableRow(g) PROVE ImportUnderWay'
  BY <1>2 DEF UnreadableRow, batchVars, factVars
<1>3. ASSUME NEW g \in Battle, ConflictingRow(g) PROVE ImportUnderWay'
  BY <1>3 DEF ConflictingRow
<1>4. ASSUME NEW g \in Battle, ObservingRow(g) PROVE ImportUnderWay'
  BY <1>4 DEF ObservingRow, batchVars
<1>5. ASSUME CommitImport PROVE ImportUnderWay'
  BY <1>5 DEF CommitImport, factVars
<1>6. ASSUME AbandonImport PROVE ImportUnderWay'
  BY <1>6 DEF AbandonImport, Settled
<1>7. ASSUME AbandonImported PROVE ImportUnderWay'
  BY <1>7 DEF AbandonImported, Settled
<1>8. ASSUME NEW t \in Time, FinalizeBatch(t) \/ FinishLegacy(t) PROVE ImportUnderWay'
  BY <1>8 DEF FinalizeBatch, FinishLegacy, Decide, Settled
<1>9. ASSUME NEW t \in Time, ExpireAndPrune(t) PROVE ImportUnderWay'
  BY <1>9 DEF ExpireAndPrune, importVars
<1>10. CASE UNCHANGED vars
  BY <1>10 DEF vars, batchVars, factVars, importVars
<1> QED
  BY <1>1, <1>2, <1>3, <1>4, <1>5, <1>6, <1>7, <1>8, <1>9, <1>10 DEF Next

(* A row stores a fact together with its first observation; a rollback    *)
(* returns to a closed store; what loses its observations goes.           *)
LEMMA NextFactsObserved ==
  ASSUME TypeOK, ImportUnderWay, SavedClosed, StoredFactsObserved, [Next]_vars
  PROVE  StoredFactsObserved'
<1>1. ASSUME UNCHANGED <<fact, loadout, obs>> PROVE StoredFactsObserved'
  BY <1>1 DEF StoredFactsObserved, Observed
<1>2. ASSUME NEW g \in Battle, ObservingRow(g) PROVE StoredFactsObserved'
  <2>1. staged[g].payload \in Payload /\ staged[g].payload # NoFact
    BY <1>2, CorpusAssumption DEF ObservingRow
  <2>2. fact'[g] # NoFact /\ Observed(g)' # {}
    <3>1. fact'[g] # NoFact
      BY <1>2, <2>1 DEF ObservingRow, TypeOK
    <3>2. [batch |-> batch, battle |-> g] \in Observed(g)'
      BY <1>2 DEF ObservingRow, Observed
    <3> QED
      BY <3>1, <3>2
  <2>3. ASSUME NEW h \in Battle, h # g
        PROVE  fact'[h] = fact[h] /\ loadout'[h] = loadout[h] /\ Observed(h)' = Observed(h)
    <3>1. fact'[h] = fact[h] /\ loadout'[h] = loadout[h]
      BY <1>2, <2>3 DEF ObservingRow, TypeOK
    <3>2. obs' = obs \cup {[batch |-> batch, battle |-> g]}
      BY <1>2 DEF ObservingRow
    <3>3. \A o : o \in Observed(h)' <=> o \in Observed(h)
      BY <2>3, <3>2 DEF Observed
    <3> QED
      BY <3>1, <3>3
  <2> QED
    BY <2>2, <2>3 DEF StoredFactsObserved
<1>3. ASSUME AbandonImport PROVE StoredFactsObserved'
  BY <1>3 DEF AbandonImport, SavedClosed, StoredFactsObserved, Observed
<1>4. ASSUME NEW t \in Time, NEW s \in {"accepted", "rejected"}, Decide(s, t)
      PROVE  StoredFactsObserved'
  BY <1>1, <1>4, PruneCloses DEF Decide
<1>5. ASSUME NEW t \in Time, ExpireAndPrune(t) PROVE StoredFactsObserved'
  BY <1>5, PruneCloses DEF ExpireAndPrune
<1> QED
  BY <1>1, <1>2, <1>3, <1>4, <1>5
  DEF Next, CreateBatch, UnreadableRow, ConflictingRow, CommitImport, AbandonImported,
      FinalizeBatch, FinishLegacy, vars, factVars

(* A batch is observed only while it is imported, and loses what observed *)
(* it before it is settled for good.                                      *)
LEMMA NextSettledUnobserved ==
  ASSUME TypeOK, ImportUnderWay, SavedClosed, SettledBatchesUnobserved, [Next]_vars
  PROVE  SettledBatchesUnobserved'
<1> DEFINE Opened == {"collecting", "conflicted", "accepted"}
<1> USE DEF TypeOK, SettledBatchesUnobserved
<1>0. \A o \in obs : o.batch \in BatchId /\ status[o.batch] \in Opened
  BY DEF Observation
<1>1. ASSUME NEW b \in BatchId, NEW m \in Lanes \cup {Legacy},
             NEW view \in [Battle -> Sighting \cup {Absent}], CreateBatch(b, m, view)
      PROVE  SettledBatchesUnobserved'
  BY <1>0, <1>1 DEF CreateBatch, factVars
<1>2. ASSUME NEW g \in Battle, UnreadableRow(g) PROVE SettledBatchesUnobserved'
  BY <1>2 DEF UnreadableRow, batchVars, factVars
<1>3. ASSUME NEW g \in Battle, ConflictingRow(g) PROVE SettledBatchesUnobserved'
  BY <1>0, <1>3 DEF ConflictingRow
<1>4. ASSUME NEW g \in Battle, ObservingRow(g) PROVE SettledBatchesUnobserved'
  BY <1>0, <1>4, RowsWhileImporting DEF ObservingRow, batchVars
<1>5. ASSUME CommitImport PROVE SettledBatchesUnobserved'
  BY <1>0, <1>5 DEF CommitImport, factVars
<1>6. ASSUME AbandonImport PROVE SettledBatchesUnobserved'
  <2>1. \A o \in saved.obs : status[o.batch] \in Opened /\ o.batch \in BatchId
    BY <1>6 DEF AbandonImport, SavedClosed, ImportUnderWay, Snapshot, Observation
  <2> QED
    BY <1>6, <2>1 DEF AbandonImport
<1>7. ASSUME AbandonImported PROVE SettledBatchesUnobserved'
  BY <1>7 DEF AbandonImported, batchVars, factVars
<1>8. ASSUME NEW t \in Time, NEW s \in {"accepted", "rejected"}, Decide(s, t)
      PROVE  SettledBatchesUnobserved'
  <2>1. CASE s = "accepted"
    BY <1>0, <1>8, <2>1 DEF Decide
  <2>2. CASE s = "rejected"
    <3>1. obs' = {o \in obs : o.batch # batch}
      BY <1>8, <2>2 DEF Decide, Prune
    <3> QED
      BY <1>0, <1>8, <3>1 DEF Decide
  <2> QED
    BY <2>1, <2>2
<1>9. ASSUME NEW t \in Time, ExpireAndPrune(t) PROVE SettledBatchesUnobserved'
  <2> DEFINE gone == Accepted \ RetainedBatches(Accepted, mode, completed, t)
  <2>1. obs' = {o \in obs : o.batch \notin gone}
    BY <1>9 DEF ExpireAndPrune, Prune
  <2>2. status' = [b \in BatchId |-> IF b \in gone THEN "expired" ELSE status[b]]
    BY <1>9 DEF ExpireAndPrune
  <2> HIDE DEF gone
  <2> QED
    BY <1>0, <2>1, <2>2
<1>10. CASE UNCHANGED vars
  BY <1>10 DEF vars, batchVars, factVars
<1> QED
  BY <1>1, <1>2, <1>3, <1>4, <1>5, <1>6, <1>7, <1>8, <1>9, <1>10
  DEF Next, FinalizeBatch, FinishLegacy

(* While an import is open, nothing but its own rows has changed.         *)
LEMMA NextSavedClosed ==
  ASSUME TypeOK, ImportUnderWay, StoredFactsObserved, SettledBatchesUnobserved,
         SavedClosed, [Next]_vars
  PROVE  SavedClosed'
<1> USE DEF SavedClosed
<1>1. ASSUME NEW b \in BatchId, NEW m \in Lanes \cup {Legacy},
             NEW view \in [Battle -> Sighting \cup {Absent}], CreateBatch(b, m, view)
      PROVE  SavedClosed'
  <2>1. /\ saved' = [fact |-> fact, loadout |-> loadout, obs |-> obs, conflicts |-> conflicts]
        /\ obs' = obs /\ conflicts' = conflicts
    BY <1>1 DEF CreateBatch, factVars
  <2>2. \A g \in Battle : Observed(g) # {} <=> \E o \in obs : o.battle = g
    BY DEF Observed
  <2>3. \A o \in obs : status'[o.batch] \in {"collecting", "conflicted", "accepted"}
    BY <1>1 DEF CreateBatch, SettledBatchesUnobserved, TypeOK, Observation
  <2> QED
    BY <2>1, <2>2, <2>3 DEF StoredFactsObserved
<1>2. ASSUME NEW g \in Battle, UnreadableRow(g) PROVE SavedClosed'
  BY <1>2 DEF UnreadableRow, batchVars, factVars
<1>3. ASSUME NEW g \in Battle, ConflictingRow(g) PROVE SavedClosed'
  <2>1. phase = "importing"
    BY <1>3, RowsWhileImporting DEF ConflictingRow
  <2>2. \A o \in saved.obs : status'[o.batch] \in {"collecting", "conflicted", "accepted"}
    BY <1>3, <2>1 DEF ConflictingRow, TypeOK, ImportUnderWay, Snapshot, Observation
  <2> QED
    BY <1>3, <2>1, <2>2 DEF ConflictingRow
<1>4. ASSUME NEW g \in Battle, ObservingRow(g) PROVE SavedClosed'
  BY <1>4 DEF ObservingRow, batchVars
<1>5. ASSUME phase' # "importing" PROVE SavedClosed'
  BY <1>5
<1>6. ASSUME NEW t \in Time, ExpireAndPrune(t) PROVE SavedClosed'
  BY <1>6 DEF ExpireAndPrune, importVars
<1>7. CASE UNCHANGED vars
  BY <1>7 DEF vars, batchVars, factVars, importVars
<1> QED
  BY <1>1, <1>2, <1>3, <1>4, <1>5, <1>6, <1>7
  DEF Next, CommitImport, AbandonImport, AbandonImported, FinalizeBatch, FinishLegacy,
      Decide, Settled

(* What a row writes over was there before the import only if it is the   *)
(* same fact, or a loadout that may be refreshed.                         *)
LEMMA NextOverwritesNothing ==
  ASSUME TypeOK, ImportUnderWay, LoadoutsStay, ImportOverwritesNothing, [Next]_vars
  PROVE  ImportOverwritesNothing' /\ LoadoutsStay'
<1> USE DEF ImportOverwritesNothing, LoadoutsStay
<1>1. ASSUME NEW b \in BatchId, NEW m \in Lanes \cup {Legacy},
             NEW view \in [Battle -> Sighting \cup {Absent}], CreateBatch(b, m, view)
      PROVE  ImportOverwritesNothing' /\ LoadoutsStay'
  <2>1. /\ saved'.fact = fact /\ saved'.loadout = loadout
        /\ fact' = fact /\ loadout' = loadout
    BY <1>1 DEF CreateBatch, factVars
  <2> QED
    BY <2>1 DEF Complete
<1>2. ASSUME NEW g \in Battle, ObservingRow(g)
      PROVE  ImportOverwritesNothing' /\ LoadoutsStay'
  <2>1. /\ saved' = saved /\ saved \in Snapshot
        /\ staged[g] \in Sighting
    BY <1>2, RowsWhileImporting DEF ObservingRow, ImportUnderWay, TypeOK
  <2>2. ASSUME NEW h \in Battle, h # g PROVE fact'[h] = fact[h] /\ loadout'[h] = loadout[h]
    BY <1>2, <2>2 DEF ObservingRow, TypeOK
  <2>3. fact'[g] = staged[g].payload /\ loadout'[g] = Merged(loadout[g], staged[g].loadout)
    BY <1>2 DEF ObservingRow, TypeOK
  <2>4. saved # NoSave /\ saved.fact[g] # NoFact => fact'[g] = saved.fact[g]
    BY <1>2, <2>3 DEF ObservingRow
  <2>5. ASSUME saved # NoSave, saved.loadout[g] # NoLoadout
        PROVE  /\ loadout'[g] # NoLoadout
               /\ Complete(saved.loadout[g]) =>
                    Complete(loadout'[g]) /\ loadout'[g].config = saved.loadout[g].config
    <3>1. loadout[g] \in Loadout /\ loadout[g] # NoLoadout
      BY <2>5 DEF TypeOK
    <3>2. staged[g].loadout \in Loadout \cup {NoLoadout}
      BY <2>1 DEF Sighting
    <3>3. loadout'[g] # NoLoadout
      BY <2>3, <3>1, <3>2, MergedType
    <3>4. ASSUME Complete(saved.loadout[g])
          PROVE  Complete(loadout'[g]) /\ loadout'[g].config = saved.loadout[g].config
      <4>1. Complete(loadout[g]) /\ loadout[g].config = saved.loadout[g].config
        BY <2>5, <3>4
      <4>2. ~Contradicts(loadout[g], staged[g].loadout)
        BY <1>2 DEF ObservingRow
      <4> QED
        BY <2>3, <3>1, <3>2, <4>1, <4>2, MergedKeepsComplete
    <3> QED
      BY <3>3, <3>4
  <2>6. ASSUME saved # NoSave, NEW h \in Battle
        PROVE  /\ saved.fact[h] # NoFact => fact'[h] = saved.fact[h]
               /\ saved.loadout[h] # NoLoadout => loadout'[h] # NoLoadout
               /\ saved.loadout[h] # NoLoadout /\ Complete(saved.loadout[h]) =>
                    Complete(loadout'[h]) /\ loadout'[h].config = saved.loadout[h].config
    <3>1. CASE h = g
      BY <2>4, <2>5, <2>6, <3>1
    <3>2. CASE h # g
      BY <2>2, <2>6, <3>2
    <3> QED
      BY <3>1, <3>2
  <2> QED
    BY <2>1, <2>6 DEF Complete
<1>3. ASSUME UNCHANGED <<fact, loadout, saved>>
      PROVE  ImportOverwritesNothing' /\ LoadoutsStay'
  BY <1>3 DEF Complete
<1>4. ASSUME saved' = NoSave PROVE ImportOverwritesNothing' /\ LoadoutsStay'
  BY <1>4
<1>5. ASSUME NEW t \in Time, ExpireAndPrune(t) PROVE saved' = NoSave
  BY <1>5 DEF ExpireAndPrune, ImportUnderWay, importVars
<1> QED
  BY <1>1, <1>2, <1>3, <1>4, <1>5
  DEF Next, UnreadableRow, ConflictingRow, CommitImport, AbandonImport, AbandonImported,
      FinalizeBatch, FinishLegacy, Decide, Settled, vars, factVars, importVars

(* A batch is accepted only when the import or the verdict sees that it   *)
(* met no conflict.                                                       *)
LEMMA NextConflicts ==
  ASSUME TypeOK, ImportUnderWay, SavedClosed, ConflictsKnown, ConflictNeverAccepted,
         [Next]_vars
  PROVE  ConflictsKnown' /\ ConflictNeverAccepted'
<1> USE DEF TypeOK, ConflictsKnown, ConflictNeverAccepted, Accepted
<1>1. ASSUME NEW b \in BatchId, NEW m \in Lanes \cup {Legacy},
             NEW view \in [Battle -> Sighting \cup {Absent}], CreateBatch(b, m, view)
      PROVE  ConflictsKnown' /\ ConflictNeverAccepted'
  BY <1>1 DEF CreateBatch, factVars
<1>2. ASSUME NEW g \in Battle, UnreadableRow(g)
      PROVE  ConflictsKnown' /\ ConflictNeverAccepted'
  BY <1>2 DEF UnreadableRow, batchVars, factVars
<1>3. ASSUME NEW g \in Battle, ConflictingRow(g)
      PROVE  ConflictsKnown' /\ ConflictNeverAccepted'
  BY <1>3, RowsWhileImporting DEF ConflictingRow
<1>4. ASSUME NEW g \in Battle, ObservingRow(g)
      PROVE  ConflictsKnown' /\ ConflictNeverAccepted'
  BY <1>4 DEF ObservingRow, batchVars
<1>5. ASSUME CommitImport PROVE ConflictsKnown' /\ ConflictNeverAccepted'
  BY <1>5 DEF CommitImport, factVars, ImportUnderWay
<1>6. ASSUME AbandonImport PROVE ConflictsKnown' /\ ConflictNeverAccepted'
  <2>1. conflicts' \subseteq conflicts
    BY <1>6 DEF AbandonImport, SavedClosed
  <2>2. /\ batch \in BatchId /\ phase' # "importing"
        /\ status' = [status EXCEPT ![batch] = "collecting"]
    BY <1>6 DEF AbandonImport, ImportUnderWay, Settled
  <2> QED
    BY <2>1, <2>2
<1>7. ASSUME AbandonImported PROVE ConflictsKnown' /\ ConflictNeverAccepted'
  BY <1>7 DEF AbandonImported, batchVars, factVars, Settled
<1>8. ASSUME NEW t \in Time, NEW s \in {"accepted", "rejected"}, Decide(s, t),
             phase # "idle", batch \in conflicts => s = "rejected"
      PROVE  ConflictsKnown' /\ ConflictNeverAccepted'
  BY <1>8 DEF Decide, Settled, ImportUnderWay
<1>9. ASSUME NEW t \in Time, FinalizeBatch(t)
      PROVE  ConflictsKnown' /\ ConflictNeverAccepted'
  BY <1>8, <1>9 DEF FinalizeBatch
<1>10. ASSUME NEW t \in Time, FinishLegacy(t)
       PROVE  ConflictsKnown' /\ ConflictNeverAccepted'
  BY <1>8, <1>10 DEF FinishLegacy
<1>11. ASSUME NEW t \in Time, ExpireAndPrune(t)
       PROVE  ConflictsKnown' /\ ConflictNeverAccepted'
  <2> DEFINE gone == Accepted \ RetainedBatches(Accepted, mode, completed, t)
  <2>1. status' = [b \in BatchId |-> IF b \in gone THEN "expired" ELSE status[b]]
    BY <1>11 DEF ExpireAndPrune
  <2>2. conflicts' = conflicts /\ phase' = "idle"
    BY <1>11 DEF ExpireAndPrune, importVars
  <2> HIDE DEF gone
  <2> QED
    BY <2>1, <2>2
<1>12. CASE UNCHANGED vars
  BY <1>12 DEF vars, batchVars, factVars, importVars
<1> QED
  BY <1>1, <1>2, <1>3, <1>4, <1>5, <1>6, <1>7, <1>9, <1>10, <1>11, <1>12 DEF Next

-----------------------------------------------------------------------------
(* The inductive invariant of the fact store.                             *)
THEOREM CorpusInvariance == Spec => []CorpusInv
<1>1. Init => CorpusInv
  BY InitInvariant
<1>2. CorpusInv /\ [Next]_vars => CorpusInv'
  <2> SUFFICES ASSUME CorpusInv, [Next]_vars PROVE CorpusInv'
    OBVIOUS
  <2> USE DEF CorpusInv, StoreClosed, ConflictsRefused
  <2>1. TypeOK' /\ ImportUnderWay'
    BY NextTyping, NextImport
  <2>2. StoredFactsObserved' /\ SettledBatchesUnobserved'
    BY NextFactsObserved, NextSettledUnobserved
  <2>3. SavedClosed'
    BY NextSavedClosed
  <2>4. ImportOverwritesNothing' /\ LoadoutsStay'
    BY NextOverwritesNothing
  <2>5. ConflictsKnown' /\ ConflictNeverAccepted'
    BY NextConflicts
  <2> QED
    BY <2>1, <2>2, <2>3, <2>4, <2>5
<1> QED
  BY <1>1, <1>2, PTL DEF Spec

(* The store is closed: no row without an observer, no observer of a      *)
(* settled batch, whatever the imports met and whenever a writer died.    *)
THEOREM Closed == Spec => []StoreClosed
<1>1. CorpusInv => StoreClosed
  BY DEF CorpusInv
<1> QED
  BY <1>1, CorpusInvariance, PTL

(* Contradicting records change neither what is stored nor what counts.   *)
THEOREM Refused == Spec => []ConflictsRefused
<1>1. CorpusInv => ConflictsRefused
  BY DEF CorpusInv
<1> QED
  BY <1>1, CorpusInvariance, PTL

(* A fact leaves only when no accepted batch observes it any more.        *)
THEOREM FactsKept == Spec => NoFactLost
<1> DEFINE Kept == \A g \in Battle :
                     (fact[g] # NoFact /\ fact'[g] = NoFact) =>
                       \A o \in Observed(g) : status'[o.batch] # "accepted"
<1>1. CorpusInv /\ [Next]_vars => [Kept]_vars
  <2> SUFFICES ASSUME CorpusInv, Next, NEW g \in Battle,
                      fact[g] # NoFact, fact'[g] = NoFact, NEW o \in Observed(g)
               PROVE  status'[o.batch] # "accepted"
    OBVIOUS
  <2>0. /\ TypeOK /\ ImportUnderWay /\ SavedClosed
        /\ o \in obs /\ o.battle = g /\ o.batch \in BatchId
    BY DEF CorpusInv, StoreClosed, Observed, TypeOK, Observation
  <2> USE DEF TypeOK
  <2>1. ASSUME NEW remaining \in SUBSET obs, Prune(remaining) PROVE o \notin remaining
    BY <2>0, <2>1 DEF Prune
  <2>2. ASSUME NEW h \in Battle, ObservingRow(h) PROVE FALSE
    BY <2>0, <2>2, CorpusAssumption DEF ObservingRow
  <2>3. ASSUME AbandonImport PROVE status'[o.batch] # "accepted"
    <3>1. \A q \in saved.obs : q.battle # g
      BY <2>0, <2>3 DEF AbandonImport, SavedClosed
    <3>2. o.batch = batch
      BY <2>0, <2>3, <3>1 DEF AbandonImport, SavedClosed
    <3> QED
      BY <2>0, <2>3, <3>2 DEF AbandonImport
  <2>4. ASSUME NEW t \in Time, NEW s \in {"accepted", "rejected"}, Decide(s, t)
        PROVE  status'[o.batch] # "accepted"
    <3>1. s = "rejected" /\ Prune({q \in obs : q.batch # batch})
      BY <2>4 DEF Decide
    <3>2. o.batch = batch
      BY <2>0, <2>1, <3>1
    <3> QED
      BY <2>0, <2>4, <3>1, <3>2 DEF Decide
  <2>5. ASSUME NEW t \in Time, ExpireAndPrune(t) PROVE status'[o.batch] # "accepted"
    <3> DEFINE gone == Accepted \ RetainedBatches(Accepted, mode, completed, t)
    <3>1. /\ Prune({q \in obs : q.batch \notin gone})
          /\ status' = [b \in BatchId |-> IF b \in gone THEN "expired" ELSE status[b]]
      BY <2>5 DEF ExpireAndPrune
    <3> HIDE DEF gone
    <3>2. o.batch \in gone
      BY <2>0, <2>1, <3>1
    <3> QED
      BY <2>0, <3>1, <3>2
  <2>6. ~UNCHANGED fact
    OBVIOUS
  <2> QED
    BY <2>2, <2>3, <2>4, <2>5, <2>6
    DEF Next, CreateBatch, UnreadableRow, ConflictingRow, CommitImport, AbandonImported,
        FinalizeBatch, FinishLegacy, factVars
<1> QED
  BY <1>1, CorpusInvariance, PTL DEF Spec, NoFactLost

-----------------------------------------------------------------------------
(* The groups published from the corpus (RollingGroups).                   *)

(* A complete side has the best quality there is. *)
LEMMA CompleteQuality ==
  ASSUME NEW side, side.cards \in Seq(Range(side.cards)), CompleteSide(side)
  PROVE  /\ Quality(side)[1] = 1 /\ Quality(side)[2] = 1
         /\ Quality(side)[3] = DeckSize /\ Quality(side)[4] = DeckSize
<1> DEFINE cards == side.cards
           I == {i \in DOMAIN cards : cards[i].id # NoId}
           E == {i \in DOMAIN cards : Elite(cards[i]) # "unknown"}
<1>1. DeckSize \in Nat \ {0}
  BY LoadoutAssumption
<1>2. DOMAIN cards = 1 .. DeckSize /\ Cardinality(Ids(side)) = DeckSize
  <2>1. Len(cards) = DeckSize /\ DOMAIN cards = 1 .. Len(cards)
    <3> HIDE DEF Range
    <3> QED
      BY DEF CompleteSide
  <2> QED
    BY <2>1 DEF CompleteSide
<1>3. IsFiniteSet(1 .. DeckSize) /\ Cardinality(1 .. DeckSize) = DeckSize
  BY <1>1, FS_Interval
<1>4. Cardinality(E) = DeckSize
  <2>1. E = 1 .. DeckSize
    BY <1>2 DEF CompleteSide
  <2> QED
    BY <1>3, <2>1
<1>5. Cardinality(I) = DeckSize
  <2>1. I \in SUBSET (1 .. DeckSize)
    BY <1>2
  <2> HIDE DEF I
  <2>2. IsFiniteSet(I) /\ Cardinality(I) <= DeckSize
    BY <1>3, <2>1, FS_Subset
  <2> DEFINE f == [i \in I |-> cards[i].id]
  <2>3. f \in Surjection(I, Ids(side))
    BY <2>1 DEF Surjection, Ids, I
  <2> HIDE DEF f
  <2>4. DeckSize <= Cardinality(I)
    BY <1>2, <2>2, <2>3, FS_Surjection
  <2>5. Cardinality(I) \in Nat
    BY <2>2, FS_CardinalityType
  <2> QED
    BY <1>1, <2>2, <2>4, <2>5
<1>6. side.tower # NoId
  BY DEF CompleteSide
<1> HIDE DEF cards
<1>7. Quality(side)[3] = Cardinality(I) /\ Quality(side)[4] = Cardinality(E)
  BY DEF Quality, cards
<1> HIDE DEF I, E
<1> QED
  BY <1>4, <1>5, <1>6, <1>7 DEF Quality

(* What the concatenation of two sequences of four elements is. *)
LEMMA Concatenated ==
  ASSUME NEW S, NEW p \in Seq(S), NEW q \in Seq(S), Len(p) = 4, Len(q) = 4
  PROVE  /\ DOMAIN (p \o q) = 1 .. 8
         /\ \A k \in 1 .. 4 : (p \o q)[k] = p[k] /\ (p \o q)[k + 4] = q[k]
<1>1. /\ p \o q \in Seq(S)
      /\ Len(p \o q) = Len(p) + Len(q)
      /\ \A i \in 1 .. Len(p) + Len(q) : (p \o q)[i] =
           IF i <= Len(p) THEN p[i] ELSE q[i - Len(p)]
  BY ConcatProperties, Zenon
<1> DEFINE c == p \o q
<1> HIDE DEF c
<1>2. c \in Seq(S) /\ Len(c) = 8 /\ \A i \in 1 .. 8 : c[i] = IF i <= 4 THEN p[i] ELSE q[i - 4]
  BY <1>1 DEF c
<1>3. DOMAIN c = 1 .. 8
  BY <1>2
<1>4. \A k \in 1 .. 4 : c[k] = p[k]
  BY <1>2
<1>5. \A k \in 1 .. 4 : c[k + 4] = q[k]
  <2> TAKE k \in 1 .. 4
  <2>1. k + 4 \in 1 .. 8 /\ ~(k + 4 <= 4) /\ (k + 4) - 4 = k
    OBVIOUS
  <2> QED
    BY <1>2, <2>1
<1> QED
  BY <1>3, <1>4, <1>5 DEF c

LEMMA RowQualities ==
  ASSUME NEW row
  PROVE  /\ DOMAIN RowQuality(row) = 1 .. 8
         /\ \A k \in 1 .. 4 : /\ RowQuality(row)[k] = Quality(row[1])[k]
                              /\ RowQuality(row)[k + 4] = Quality(row[2])[k]
<1> DEFINE p == Quality(row[1])
           q == Quality(row[2])
           S == {p[k] : k \in 1 .. 4} \cup {q[k] : k \in 1 .. 4}
<1>1. DOMAIN p = 1 .. 4 /\ DOMAIN q = 1 .. 4 /\ p = <<p[1], p[2], p[3], p[4]>> /\ q = <<q[1], q[2], q[3], q[4]>>
  BY DEF Quality
<1> HIDE DEF p, q
<1>2. p \in Seq(S) /\ q \in Seq(S) /\ Len(p) = 4 /\ Len(q) = 4
  <2>1. /\ p[1] \in S /\ p[2] \in S /\ p[3] \in S /\ p[4] \in S
        /\ q[1] \in S /\ q[2] \in S /\ q[3] \in S /\ q[4] \in S
    OBVIOUS
  <2> HIDE DEF S
  <2>2. <<p[1], p[2], p[3], p[4]>> \in Seq(S) /\ <<q[1], q[2], q[3], q[4]>> \in Seq(S)
    BY <2>1
  <2>3. Len(<<p[1], p[2], p[3], p[4]>>) = 4 /\ Len(<<q[1], q[2], q[3], q[4]>>) = 4
    OBVIOUS
  <2> QED
    BY <1>1, <2>2, <2>3
<1> HIDE DEF S
<1>3. /\ DOMAIN (p \o q) = 1 .. 8
      /\ \A k \in 1 .. 4 : (p \o q)[k] = p[k] /\ (p \o q)[k + 4] = q[k]
  BY <1>2, Concatenated
<1> QED
  BY <1>3 DEF RowQuality, p, q

(* upsert_loadout never takes away that both loadouts of a battle are      *)
(* complete, and never changes what they say was played.                   *)
LEMMA UpsertKeeps ==
  ASSUME NEW old, IsRow(old), BothComplete(old), NEW new, IsRow(new), new # NoLoadouts
  PROVE  /\ BothComplete(Upserted(old, new))
         /\ \A i \in 1 .. 2 : FactOf(Upserted(old, new)[i]) = FactOf(old[i])
<1>1. old # NoLoadouts
  BY DEF BothComplete
<1>2. CASE BothComplete(new) /\ Disagree(old, new)
  BY <1>1, <1>2 DEF Upserted
<1>3. CASE BothComplete(new) /\ ~Disagree(old, new)
  <2>1. Upserted(old, new) = new
    BY <1>1, <1>3 DEF Upserted
  <2>2. \A i \in 1 .. 2 : FactOf(new[i]) = FactOf(old[i])
    BY <1>3 DEF Disagree
  <2> QED
    BY <1>3, <2>1, <2>2
<1>4. CASE ~BothComplete(new)
  <2> DEFINE a == RowQuality(new)
             b == RowQuality(old)
  <2>1. \A s \in 1 .. 2 : CompleteSide(old[s])
    BY DEF BothComplete
  <2>2. \A s \in 1 .. 2 : /\ old[s].cards \in Seq(Range(old[s].cards))
                          /\ new[s].cards \in Seq(Range(new[s].cards))
    BY <1>1 DEF IsRow
  <2>3. \A s \in 1 .. 2 : /\ Quality(old[s])[1] = 1 /\ Quality(old[s])[2] = 1
                          /\ Quality(old[s])[3] = DeckSize /\ Quality(old[s])[4] = DeckSize
    BY <2>1, <2>2, CompleteQuality
  <2>4. /\ DOMAIN a = 1 .. 8
        /\ \A k \in 1 .. 4 : /\ a[k] = Quality(new[1])[k] /\ a[k + 4] = Quality(new[2])[k]
                             /\ b[k] = Quality(old[1])[k] /\ b[k + 4] = Quality(old[2])[k]
    BY RowQualities
  <2>5. DeckSize \in Nat
    BY LoadoutAssumption
  <2> HIDE DEF a, b
  <2>6. ~Above(a, b)
    <3> SUFFICES ASSUME NEW i \in 1 .. 8, a[i] > b[i], \A k \in 1 .. i - 1 : a[k] = b[k]
                 PROVE  FALSE
      BY <2>4 DEF Above
    <3>1. CASE ~CompleteSide(new[1])
      <4>1. a[1] = 0 /\ b[1] = 1
        <5>1. Quality(new[1])[1] = 0
          BY <3>1 DEF Quality
        <5> QED
          BY <2>3, <2>4, <5>1
      <4>2. i = 1
        BY <4>1
      <4> QED
        BY <4>1, <4>2
    <3>2. CASE CompleteSide(new[1])
      <4>1. /\ Quality(new[1])[1] = 1 /\ Quality(new[1])[2] = 1
            /\ Quality(new[1])[3] = DeckSize /\ Quality(new[1])[4] = DeckSize
        BY <2>2, <3>2, CompleteQuality
      <4>2. \A k \in 1 .. 4 : a[k] = b[k] /\ a[k] \in Nat
        <5>1. a[1] = b[1] /\ a[2] = b[2] /\ a[1] \in Nat /\ a[2] \in Nat
          BY <2>3, <2>4, <4>1
        <5>2. a[3] = b[3] /\ a[4] = b[4] /\ a[3] \in Nat /\ a[4] \in Nat
          BY <2>3, <2>4, <2>5, <4>1
        <5> QED
          BY <5>1, <5>2
      <4>3. ~CompleteSide(new[2])
        BY <1>4, <3>2 DEF BothComplete, IsRow, NoLoadouts
      <4>4. a[5] = 0 /\ b[5] = 1
        <5>1. Quality(new[2])[1] = 0
          BY <4>3 DEF Quality
        <5>2. a[1 + 4] = Quality(new[2])[1] /\ b[1 + 4] = Quality(old[2])[1]
          BY <2>4
        <5> QED
          BY <2>3, <5>1, <5>2
      <4>5. i \in 1 .. 4 \/ i = 5
        BY <4>4
      <4> QED
        BY <4>2, <4>4, <4>5
    <3> QED
      BY <3>1, <3>2
  <2>7. Upserted(old, new) = old
    BY <1>1, <1>4, <2>6 DEF Upserted, a, b
  <2> QED
    BY <2>7
<1> QED
  BY <1>2, <1>3, <1>4

LEMMA UpsertedIsOne == ASSUME NEW old, NEW new PROVE Upserted(old, new) \in {old, new}
BY DEF Upserted

(* The observations and rows stay what the observations brought. *)
LEMMA GroupsTyped == GroupsTypeOK /\ [GroupsNext]_groupsVars => GroupsTypeOK'
<1> SUFFICES ASSUME GroupsTypeOK, [GroupsNext]_groupsVars PROVE GroupsTypeOK'
  OBVIOUS
<1> USE DEF GroupsTypeOK
<1>0. /\ MaxWeek \in Nat /\ MaxGroups \in Nat
      /\ \A b \in BattleId : NoLoadouts \in Sightings[b]
  BY GroupsAssumption
<1>1. ASSUME NEW b \in BattleId, NEW level \in Levels, NEW row \in Sightings[b],
             Observe(b, row, level)
      PROVE  GroupsTypeOK'
  <2> DEFINE o == [battle |-> b, at |-> 0, level |-> level, accepted |-> FALSE]
  <2>1. seen' = seen \cup {o} /\ UNCHANGED <<now, published>>
    BY <1>1 DEF Observe
  <2>2. o \in GroupObservation
    BY <1>0 DEF GroupObservation
  <2>3. rows' = [rows EXCEPT ![b] = IF row = NoLoadouts THEN @ ELSE Upserted(@, row)]
    BY <1>1 DEF Observe
  <2>4. Upserted(rows[b], row) \in Sightings[b]
    BY UpsertedIsOne
  <2>5. DOMAIN rows' = BattleId /\ \A c \in BattleId : rows'[c] \in Sightings[c]
    BY <2>3, <2>4
  <2> QED
    BY <2>1, <2>2, <2>5
<1>2. CASE Accept
  <2>1. \A o \in seen : [o EXCEPT !.accepted = TRUE, !.at = now] \in GroupObservation
    BY DEF GroupObservation
  <2> QED
    BY <1>2, <2>1 DEF Accept
<1>3. CASE Reject
  BY <1>0, <1>3 DEF Reject, Unobserved
<1>4. CASE NextWeek
  BY <1>0, <1>4 DEF NextWeek, Unobserved
<1>5. CASE Publish
  BY <1>0, <1>5 DEF Publish
<1>6. CASE UNCHANGED groupsVars
  BY <1>6 DEF groupsVars
<1> QED
  BY <1>1, <1>2, <1>3, <1>4, <1>5, <1>6 DEF GroupsNext

(* Every row of battle_loadouts is a row some observation brought, and every *)
(* observation one of this corpus.                                         *)
LEMMA GroupsTyping == GroupsSpec => []GroupsTypeOK
<1>1. GroupsInit => GroupsTypeOK
  BY GroupsAssumption DEF GroupsInit, GroupsTypeOK
<1> QED
  BY <1>1, GroupsTyped, PTL DEF GroupsSpec

(* The step of CompleteRowsSettle. *)
LEMMA RowsSettled ==
  ASSUME GroupsTypeOK, [GroupsNext]_groupsVars, NEW b \in BattleId, BothComplete(rows[b]),
         \E o \in seen' : o.battle = b
  PROVE  /\ BothComplete(rows'[b])
         /\ \A i \in 1..2 : FactOf(rows'[b][i]) = FactOf(rows[b][i])
<1>1. ASSUME NEW c \in BattleId, NEW level \in Levels, NEW row \in Sightings[c],
             Observe(c, row, level), c # b \/ row = NoLoadouts
      PROVE  rows'[b] = rows[b]
  BY <1>1 DEF Observe, GroupsTypeOK
<1>2. ASSUME NEW level \in Levels, NEW row \in Sightings[b], Observe(b, row, level),
             row # NoLoadouts
      PROVE  /\ BothComplete(rows'[b])
             /\ \A i \in 1..2 : FactOf(rows'[b][i]) = FactOf(rows[b][i])
  <2>1. rows'[b] = Upserted(rows[b], row)
    BY <1>2 DEF Observe, GroupsTypeOK
  <2>2. IsRow(rows[b]) /\ IsRow(row)
    BY GroupsAssumption DEF GroupsTypeOK
  <2>3. /\ BothComplete(Upserted(rows[b], row))
        /\ \A i \in 1 .. 2 : FactOf(Upserted(rows[b], row)[i]) = FactOf(rows[b][i])
    BY <1>2, <2>2, UpsertKeeps
  <2> QED
    BY <2>1, <2>3
<1>3. CASE Accept \/ Publish \/ UNCHANGED groupsVars
  BY <1>3 DEF Accept, Publish, groupsVars
<1>4. CASE Reject \/ NextWeek
  <2>1. rows'[b] = rows[b]
    BY <1>4 DEF Reject, NextWeek, Unobserved
  <2> QED
    BY <2>1
<1> QED
  BY <1>1, <1>2, <1>3, <1>4 DEF GroupsNext

(* Whatever later batches report of a battle and whatever becomes of them,   *)
(* two complete loadouts stay complete and say the same was played, as long *)
(* as the battle is observed at all (upsert_loadout).                      *)
THEOREM RowsSettle == GroupsSpec => CompleteRowsSettle
<1>1. GroupsTypeOK /\ [GroupsNext]_groupsVars =>
        [\A b \in BattleId :
           BothComplete(rows[b]) /\ (\E o \in seen' : o.battle = b) =>
             /\ BothComplete(rows'[b])
             /\ \A i \in 1..2 : FactOf(rows'[b][i]) = FactOf(rows[b][i])]_groupsVars
  BY RowsSettled
<1> QED
  BY <1>1, GroupsTyping, PTL DEF GroupsSpec, CompleteRowsSettle

(* What a scope is taken over as is what its group says of the same battles, *)
(* and a scope that is rebuilt has the facts of the corpus.                *)
LEMMA DatasetOfContent ==
  ASSUME TablesOfContent, NEW s \in Scopes
  PROVE  /\ Dataset(s).tables = Statistics(Dataset(s).source)
         /\ DOMAIN Dataset(s).source = Dataset(s).content
         /\ Dataset(s).content \subseteq BattleId
         /\ \A b \in Dataset(s).content : SameFacts(Dataset(s).source[b], Facts[b])
<1> DEFINE built == IF Reusable(s) THEN TakenOver(active.datasets[s]) ELSE Rebuilt(Source(s))
<1>1. /\ built.tables = Statistics(built.source)
      /\ DOMAIN built.source = Content(s)
      /\ \A b \in Content(s) : SameFacts(built.source[b], Facts[b])
  <2>1. CASE Reusable(s)
    <3>1. /\ active # NoGroup /\ active.datasets[s].content = Content(s)
          /\ built = [source |-> active.datasets[s].source, tables |-> active.datasets[s].tables]
      BY <2>1 DEF Reusable, TakenOver
    <3> HIDE DEF built
    <3>2. built.source = active.datasets[s].source /\ built.tables = active.datasets[s].tables
      BY <3>1
    <3> QED
      BY <3>1, <3>2 DEF TablesOfContent
  <2>2. CASE ~Reusable(s)
    <3>1. built = [source |-> Source(s), tables |-> Statistics(Source(s))]
      BY <2>2 DEF Rebuilt
    <3> HIDE DEF built
    <3>2. built.source = Source(s) /\ built.tables = Statistics(built.source)
      BY <3>1
    <3>3. DOMAIN Source(s) = Content(s)
      BY DEF Source
    <3>4. \A b \in Content(s) : SameFacts(Source(s)[b], Facts[b])
      BY DEF Source, SameFacts
    <3> QED
      BY <3>2, <3>3, <3>4
  <2> QED
    BY <2>1, <2>2
<1> HIDE DEF built
<1>2. /\ Dataset(s).tables = built.tables /\ Dataset(s).source = built.source
      /\ Dataset(s).content = Content(s)
  <2>1. Dataset(s) = Described(s, built)
    BY DEF Dataset, built
  <2>2. /\ Described(s, built).tables = built.tables
        /\ Described(s, built).source = built.source
        /\ Described(s, built).content = Content(s)
    BY DEF Described
  <2> QED
    BY <2>1, <2>2
<1>3. Content(s) \subseteq BattleId
  BY DEF Content
<1> QED
  BY <1>1, <1>2, <1>3

(* A publication keeps the tables of every scope those of its battles. *)
LEMMA GroupsOfContent == TablesOfContent /\ [GroupsNext]_groupsVars => TablesOfContent'
<1> SUFFICES ASSUME TablesOfContent, [GroupsNext]_groupsVars PROVE TablesOfContent'
  OBVIOUS
<1>1. CASE Publish
  <2>1. active' = Candidate \/ active' = active
    BY <1>1 DEF Publish, Installed
  <2>2. CASE active' = active
    BY <2>2 DEF TablesOfContent
  <2>3. CASE active' = Candidate
    <3>1. Candidate.datasets = [s \in Scopes |-> Dataset(s)]
      BY DEF Candidate, WithDatasets, WithDeltas, WithDocuments
    <3>2. \A s \in Scopes : active'.datasets[s] = Dataset(s)
      BY <2>3, <3>1
    <3> QED
      BY <3>2, DatasetOfContent DEF TablesOfContent
  <2> QED
    BY <2>1, <2>2, <2>3
<1>2. CASE UNCHANGED active
  BY <1>2 DEF TablesOfContent
<1> QED
  BY <1>1, <1>2 DEF GroupsNext, Observe, Accept, Reject, NextWeek, groupsVars

(* Whether a scope was rebuilt or taken over, through any number of groups,  *)
(* its tables are the statistics of exactly the battles its manifest counts, *)
(* with the facts the corpus has of them (_copy_scope_stats under the       *)
(* content fingerprint): a table can be behind only in the loadouts.       *)
THEOREM TablesFollowContent == GroupsSpec => []TablesOfContent
<1>1. GroupsInit => TablesOfContent
  BY DEF GroupsInit, TablesOfContent
<1> QED
  BY <1>1, GroupsOfContent, PTL DEF GroupsSpec

=============================================================================
