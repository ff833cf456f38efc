----------------------- MODULE OfficialSnapshots_proofs -----------------------
(***************************************************************************)
(* Proofs about OfficialSnapshots, for any number of snapshots and faults. *)
(***************************************************************************)
EXTENDS OfficialSnapshots, WellFoundedInduction, TLAPS

(* The newest of some snapshots is one of them. *)
LEMMA NewestIsOne ==
  ASSUME NEW S \in SUBSET Snapshots, S # {}
  PROVE  Max(S) \in S
<1> DEFINE R == {ss \in Nat \X Nat : ss[1] < ss[2]}
           T == {MaxSnapshot - x : x \in S}
<1>1. \A x, y \in Nat : y < x => <<y, x>> \in R
  OBVIOUS
<1>2. IsWellFoundedOn(R, Nat)
  BY NatLessThanWellFounded DEF OpToRel
<1>3. T \subseteq Nat /\ T # {}
  <2>1. ASSUME NEW y \in S PROVE MaxSnapshot - y \in Nat
    <3>1. y \in Nat /\ y <= MaxSnapshot /\ MaxSnapshot \in Nat
      BY BoundsAssumption DEF Snapshots
    <3> QED
      BY <3>1
  <2>2. T \subseteq Nat
    BY <2>1, Zenon
  <2>3. T # {}
    OBVIOUS
  <2> HIDE DEF T
  <2> QED
    BY <2>2, <2>3
<1> HIDE DEF R
<1>4. \E x \in T : \A y \in T : ~(<<y, x>> \in R)
  <2> HIDE DEF T
  <2> QED
    BY <1>2, <1>3, WFMin
<1>5. PICK x \in T : \A y \in T : ~(y < x)
  BY <1>1, <1>3, <1>4
<1>6. PICK s \in S : x = MaxSnapshot - s
  BY <1>5
<1>7. ASSUME NEW y \in S PROVE s >= y
  <2>1. ~(MaxSnapshot - y < x)
    BY <1>5
  <2> QED
    BY <1>6, <2>1, BoundsAssumption DEF Snapshots
<1> QED
  BY <1>6, <1>7 DEF Max

LEMMA RetainedTypes ==
  ASSUME archives \subseteq Snapshots, NEW active
  PROVE  Retained(active) \subseteq Snapshots
<1> DEFINE others == archives \ {active}
<1>1. others # {} => Max(others) \in others
  BY NewestIsOne
<1> HIDE DEF others
<1>2. (IF others = {} THEN {} ELSE {Max(others)}) \subseteq others
  BY <1>1
<1> QED
  BY <1>2 DEF Retained, others

(* A build that begins holds the lock and remembers the index there was. *)
LEMMA Beginning ==
  ASSUME OfficialTypeOK, NEW b \in Builder, NEW target \in Known, Begin(b, target)
  PROVE  /\ preheat' \in [Builder -> BuildState] /\ rag' \in IndexState
         /\ \A c \in Builder \ {b} : preheat'[c] = preheat[c]
         /\ preheat'[b].pc = "docs" /\ preheat'[b].target = target /\ preheat'[b].prev = rag
         /\ rag'.retr = rag.retr /\ rag'.id = rag.id /\ rag'.fp = rag.fp
         /\ rag.retr # None => rag'.status = rag.status
         /\ rag.retr = None => rag'.status = "building"
         /\ lock' = b
<1> DEFINE n == [pc |-> "docs", target |-> target, status |-> "not_ready", prev |-> rag]
           s == IF rag.retr = None THEN "building" ELSE rag.status
           i == [rag EXCEPT !.status = s]
<1>0. rag \in IndexState /\ preheat \in [Builder -> BuildState]
  BY DEF OfficialTypeOK
<1>1. n \in BuildState
  BY <1>0 DEF BuildState, RagStatus
<1>2. n.pc = "docs" /\ n.target = target /\ n.prev = rag
  OBVIOUS
<1>3. /\ s \in RagStatus
      /\ rag.retr # None => s = rag.status
      /\ rag.retr = None => s = "building"
  BY <1>0 DEF IndexState, RagStatus
<1>4. preheat' = [preheat EXCEPT ![b] = n] /\ rag' = i /\ lock' = b
  BY DEF Begin
<1> HIDE DEF s
<1>5. i \in IndexState /\ i.retr = rag.retr /\ i.id = rag.id /\ i.fp = rag.fp /\ i.status = s
  BY <1>0, <1>3 DEF IndexState
<1> HIDE DEF n, i
<1> QED
  BY <1>0, <1>1, <1>2, <1>3, <1>4, <1>5

(* The files in the order in which they are written. *)
LEMMA FileOrder ==
  /\ \A f \in DOMAIN NextFile :
       /\ f \in {"cards", "decks", "docs", "canonical"}
       /\ NextFile[f] \in {"decks", "docs", "archive", "pointer"}
  /\ \A f \in DOMAIN NextRepair :
       /\ f \in {"cards", "decks", "docs", "canonical"}
       /\ NextRepair[f] \in {"decks", "docs", "canonical", "loaded"}
BY DEF NextFile, NextRepair

(* Every variable keeps its type. *)
LEMMA NextTypes ==
  ASSUME OfficialTypeOK, Collected, [OfficialNext]_officialVars
  PROVE  OfficialTypeOK'
<1> USE DEF OfficialTypeOK
<1>1. ASSUME StartCollection PROVE OfficialTypeOK'
  <2>1. collector' \in CollectorState
    BY <1>1, BoundsAssumption
    DEF StartCollection, collectorVars, apiVars, CollectorState, Snapshots, Known,
        None, Builder, Serving
  <2> QED
    BY <1>1, <2>1 DEF StartCollection, collectorVars, apiVars
<1>2. ASSUME GiveUp PROVE OfficialTypeOK'
  <2>1. collector' \in CollectorState
    BY <1>2, BoundsAssumption
    DEF GiveUp, collectorVars, apiVars, CollectorState, Snapshots, Known, None,
        Builder, Serving
  <2>2. faults' \in 0 .. MaxFaults
    BY <1>2, BoundsAssumption
    DEF GiveUp, collectorVars, apiVars, Fault, Snapshots, Known, None, Builder,
        Serving
  <2> QED
    BY <1>2, <2>1, <2>2 DEF GiveUp, collectorVars, apiVars
<1>3. ASSUME CooldownEnds PROVE OfficialTypeOK'
  <2>1. collector' \in CollectorState
    BY <1>3, BoundsAssumption
    DEF CooldownEnds, collectorVars, apiVars, CollectorState, Snapshots, Known, None,
        Builder, Serving
  <2> QED
    BY <1>3, <2>1 DEF CooldownEnds, collectorVars, apiVars
<1>4. ASSUME CompleteCollection PROVE OfficialTypeOK'
  <2>1. collector' \in CollectorState
    <3>1. collector.snap + 1 \in Known /\ collector.snap \in Known
      BY <1>4, BoundsAssumption
      DEF CompleteCollection, CollectorState, Known, Snapshots, None
    <3> DEFINE n == collector.snap + 1
    <3>2. collector' = [collector EXCEPT !.pc = "cards", !.snap = n]
      BY <1>4 DEF CompleteCollection
    <3> HIDE DEF n
    <3> QED
      BY <3>1, <3>2 DEF CollectorState, n
  <2> QED
    BY <1>4, <2>1 DEF CompleteCollection, collectorVars, apiVars
<1>5. ASSUME PublishFile PROVE OfficialTypeOK'
  <2>1. files' \in [{"cards", "decks", "docs", "canonical", "pointer"} -> Known]
    <3>1. collector.pc \in {"cards", "decks", "docs", "canonical"} /\ collector.snap \in Known
      BY <1>5, FileOrder DEF PublishFile, CollectorState
    <3> QED
      BY <1>5, <3>1 DEF PublishFile
  <2>2. collector' \in CollectorState
    <3> DEFINE n == NextFile[collector.pc]
    <3>1. n \in {"decks", "docs", "archive", "pointer"}
      BY <1>5, FileOrder DEF PublishFile
    <3>2. collector' = [collector EXCEPT !.pc = n]
      BY <1>5 DEF PublishFile
    <3> HIDE DEF n
    <3> QED
      BY <3>1, <3>2 DEF CollectorState
  <2> QED
    BY <1>5, <2>1, <2>2 DEF PublishFile, collectorVars, apiVars
<1>6. ASSUME PublishArchive PROVE OfficialTypeOK'
  <2>1. archives' \subseteq Snapshots
    <3>1. collector.snap \in Snapshots
      BY <1>6 DEF PublishArchive, Collected, CollectorState, Known, None
    <3> QED
      BY <1>6, <3>1 DEF PublishArchive
  <2>2. collector' \in CollectorState
    BY <1>6, BoundsAssumption
    DEF PublishArchive, collectorVars, apiVars, CollectorState, Snapshots, Known,
        None, Builder, Serving
  <2> QED
    BY <1>6, <2>1, <2>2 DEF PublishArchive, collectorVars, apiVars
<1>7. ASSUME PublishPointer PROVE OfficialTypeOK'
  <2>1. files' \in [{"cards", "decks", "docs", "canonical", "pointer"} -> Known]
    <3>1. collector.snap \in Known
      BY DEF CollectorState
    <3> QED
      BY <1>7, <3>1 DEF PublishPointer
  <2>2. due' \in BOOLEAN
    BY <1>7
    DEF PublishPointer, collectorVars, apiVars, Snapshots, Known, None, Builder,
        Serving
  <2>3. collector' \in CollectorState
    BY <1>7, BoundsAssumption
    DEF PublishPointer, collectorVars, apiVars, CollectorState, Snapshots, Known,
        None, Builder, Serving
  <2> QED
    BY <1>7, <2>1, <2>2, <2>3 DEF PublishPointer, collectorVars, apiVars
<1>8. ASSUME WeekPasses PROVE OfficialTypeOK'
  <2>1. faults' \in 0 .. MaxFaults
    BY <1>8, BoundsAssumption
    DEF WeekPasses, collectorVars, apiVars, Fault, Snapshots, Known, None, Builder,
        Serving
  <2>2. due' \in BOOLEAN
    BY <1>8
    DEF WeekPasses, collectorVars, apiVars, Snapshots, Known, None, Builder, Serving
  <2> QED
    BY <1>8, <2>1, <2>2 DEF WeekPasses, collectorVars, apiVars
<1>9. ASSUME CollectorCrash PROVE OfficialTypeOK'
  <2>1. faults' \in 0 .. MaxFaults
    BY <1>9, BoundsAssumption
    DEF CollectorCrash, collectorVars, apiVars, Fault, Snapshots, Known, None,
        Builder, Serving
  <2>2. collector' \in CollectorState
    BY <1>9, BoundsAssumption
    DEF CollectorCrash, collectorVars, apiVars, CollectorState, Snapshots, Known,
        None, Builder, Serving
  <2> QED
    BY <1>9, <2>1, <2>2 DEF CollectorCrash, collectorVars, apiVars
<1>10. ASSUME CollectorRestart PROVE OfficialTypeOK'
  <2>1. collector' \in CollectorState
    BY <1>10, BoundsAssumption
    DEF CollectorRestart, collectorVars, apiVars, CollectorState, Snapshots, Known,
        None, Builder, Serving
  <2> QED
    BY <1>10, <2>1 DEF CollectorRestart, collectorVars, apiVars
<1>11. ASSUME ReadCanonical PROVE OfficialTypeOK'
  <2>1. follower' \in FollowerState
    BY <1>11
    DEF ReadCanonical, collectorVars, apiVars, FollowerState, Snapshots, Known, None,
        Builder, Serving
  <2> QED
    BY <1>11, <2>1 DEF ReadCanonical, collectorVars, apiVars
<1>12. ASSUME CompareDocuments PROVE OfficialTypeOK'
  <2>1. follower' \in FollowerState
    BY <1>12
    DEF CompareDocuments, collectorVars, apiVars, FollowerState, Snapshots, Known,
        None, Builder, Serving
  <2> QED
    BY <1>12, <2>1 DEF CompareDocuments, collectorVars, apiVars
<1>13. ASSUME RepairFile PROVE OfficialTypeOK'
  <2>1. files' \in [{"cards", "decks", "docs", "canonical", "pointer"} -> Known]
    <3>1. follower.pc \in {"cards", "decks", "docs", "canonical"} /\ follower.snap \in Known
      BY <1>13, FileOrder DEF RepairFile, FollowerState
    <3> QED
      BY <1>13, <3>1 DEF RepairFile
  <2>2. follower' \in FollowerState
    <3> DEFINE n == NextRepair[follower.pc]
    <3>1. n \in {"decks", "docs", "canonical", "loaded"}
      BY <1>13, FileOrder DEF RepairFile
    <3>2. follower' = [follower EXCEPT !.pc = n]
      BY <1>13 DEF RepairFile
    <3> HIDE DEF n
    <3> QED
      BY <3>1, <3>2 DEF FollowerState
  <2> QED
    BY <1>13, <2>1, <2>2 DEF RepairFile, collectorVars, apiVars
<1>14. ASSUME RestoreSnapshot PROVE OfficialTypeOK'
  <2>1. live' \in Known
    BY <1>14
    DEF RestoreSnapshot, collectorVars, apiVars, FollowerState, BuildState, Snapshots,
        Known, None, Builder, Serving
  <2>2. starting' \in BOOLEAN
    BY <1>14
    DEF RestoreSnapshot, collectorVars, apiVars, Snapshots, Known, None, Builder,
        Serving
  <2>3. follower' \in FollowerState
    BY <1>14
    DEF RestoreSnapshot, collectorVars, apiVars, FollowerState, Snapshots, Known,
        None, Builder, Serving
  <2> QED
    BY <1>14, <2>1, <2>2, <2>3 DEF RestoreSnapshot, collectorVars, apiVars
<1>15. ASSUME NothingNew PROVE OfficialTypeOK'
  <2>1. follower' \in FollowerState
    BY <1>15
    DEF NothingNew, collectorVars, apiVars, FollowerState, Snapshots, Known, None,
        Builder, Serving
  <2> QED
    BY <1>15, <2>1 DEF NothingNew, collectorVars, apiVars
<1>16. ASSUME FollowerPreheat PROVE OfficialTypeOK'
  <2>1. lock' \in Builder \cup {"free"}
    BY <1>16
    DEF FollowerPreheat, Begin, collectorVars, apiVars, Snapshots, Known, None,
        Builder, Serving
  <2>2. preheat' \in [Builder -> BuildState]
    <3>1. follower.snap \in Known
      BY DEF FollowerState
    <3> QED
      BY <1>16, <3>1, Beginning DEF FollowerPreheat, Builder, LockFree
  <2>3. rag' \in IndexState
    BY <1>16
    DEF FollowerPreheat, Begin, collectorVars, apiVars, IndexState, BuildState,
        RagStatus, NoIndex, Snapshots, Known, None, Builder, Serving
  <2>4. follower' \in FollowerState
    BY <1>16
    DEF FollowerPreheat, Begin, collectorVars, apiVars, FollowerState, Snapshots,
        Known, None, Builder, Serving
  <2> QED
    BY <1>16, <2>1, <2>2, <2>3, <2>4
    DEF FollowerPreheat, Begin, collectorVars, apiVars
<1>17. ASSUME RepairFails PROVE OfficialTypeOK'
  <2>1. follower' \in FollowerState
    BY <1>17
    DEF RepairFails, collectorVars, apiVars, FollowerState, Snapshots, Known, None,
        Builder, Serving
  <2>2. faults' \in 0 .. MaxFaults
    BY <1>17, BoundsAssumption
    DEF RepairFails, collectorVars, apiVars, Fault, Snapshots, Known, None, Builder,
        Serving
  <2> QED
    BY <1>17, <2>1, <2>2 DEF RepairFails, collectorVars, apiVars
<1>18. ASSUME StartupPreheat PROVE OfficialTypeOK'
  <2>1. starting' \in BOOLEAN
    BY <1>18
    DEF StartupPreheat, Begin, collectorVars, apiVars, Snapshots, Known, None,
        Builder, Serving
  <2>2. lock' \in Builder \cup {"free"}
    BY <1>18
    DEF StartupPreheat, Begin, collectorVars, apiVars, Snapshots, Known, None,
        Builder, Serving
  <2>3. preheat' \in [Builder -> BuildState]
    BY <1>18
    DEF StartupPreheat, Begin, collectorVars, apiVars, FollowerState, BuildState,
        NoBuild, NoIndex, IndexState, RagStatus, Snapshots, Known, None, Builder,
        Serving
  <2>4. rag' \in IndexState
    BY <1>18
    DEF StartupPreheat, Begin, collectorVars, apiVars, IndexState, BuildState,
        RagStatus, NoIndex, Snapshots, Known, None, Builder, Serving
  <2> QED
    BY <1>18, <2>1, <2>2, <2>3, <2>4 DEF StartupPreheat, Begin, collectorVars, apiVars
<1>19. ASSUME ApiRestart PROVE OfficialTypeOK'
  <2>1. faults' \in 0 .. MaxFaults
    BY <1>19, BoundsAssumption
    DEF ApiRestart, collectorVars, apiVars, Fault, Snapshots, Known, None, Builder,
        Serving
  <2>2. follower' \in FollowerState
    BY <1>19
    DEF ApiRestart, collectorVars, apiVars, FollowerState, Snapshots, Known, None,
        Builder, Serving
  <2>3. starting' \in BOOLEAN
    BY <1>19
    DEF ApiRestart, collectorVars, apiVars, Snapshots, Known, None, Builder, Serving
  <2>4. live' \in Known
    BY <1>19
    DEF ApiRestart, collectorVars, apiVars, FollowerState, BuildState, Snapshots,
        Known, None, Builder, Serving
  <2>5. rag' \in IndexState
    BY <1>19
    DEF ApiRestart, collectorVars, apiVars, IndexState, BuildState, RagStatus,
        NoIndex, Snapshots, Known, None, Builder, Serving
  <2>6. lock' \in Builder \cup {"free"}
    BY <1>19
    DEF ApiRestart, collectorVars, apiVars, Snapshots, Known, None, Builder, Serving
  <2>7. preheat' \in [Builder -> BuildState]
    BY <1>19
    DEF ApiRestart, collectorVars, apiVars, FollowerState, BuildState, NoBuild,
        NoIndex, IndexState, RagStatus, Snapshots, Known, None, Builder, Serving
  <2> QED
    BY <1>19, <2>1, <2>2, <2>3, <2>4, <2>5, <2>6, <2>7
    DEF ApiRestart, collectorVars, apiVars
<1>20. ASSUME NEW b \in Builder, ValidateDocuments(b) PROVE OfficialTypeOK'
  <2>1. rag' \in IndexState
    BY <1>20
    DEF ValidateDocuments, FailBuild, Finish, collectorVars, apiVars, IndexState,
        BuildState, RagStatus, NoIndex, Snapshots, Known, None, Builder, Serving
  <2>2. lock' \in Builder \cup {"free"}
    BY <1>20
    DEF ValidateDocuments, FailBuild, Finish, collectorVars, apiVars, Snapshots,
        Known, None, Builder, Serving
  <2>3. preheat' \in [Builder -> BuildState]
    BY <1>20
    DEF ValidateDocuments, FailBuild, Finish, collectorVars, apiVars, FollowerState,
        BuildState, NoBuild, NoIndex, IndexState, RagStatus, Snapshots, Known, None,
        Builder, Serving
  <2>4. follower' \in FollowerState
    BY <1>20
    DEF ValidateDocuments, FailBuild, Finish, collectorVars, apiVars, FollowerState,
        Snapshots, Known, None, Builder, Serving
  <2> QED
    BY <1>20, <2>1, <2>2, <2>3, <2>4
    DEF ValidateDocuments, FailBuild, Finish, collectorVars, apiVars
<1>21. ASSUME NEW b \in Builder, BuildIndex(b) PROVE OfficialTypeOK'
  <2>1. preheat' \in [Builder -> BuildState]
    BY <1>21
    DEF BuildIndex, collectorVars, apiVars, FollowerState, BuildState, NoBuild,
        NoIndex, IndexState, RagStatus, Snapshots, Known, None, Builder, Serving
  <2> QED
    BY <1>21, <2>1 DEF BuildIndex, collectorVars, apiVars
<1>22. ASSUME NEW b \in Builder, ActivateSnapshot(b) PROVE OfficialTypeOK'
  <2>1. live' \in Known
    BY <1>22
    DEF ActivateSnapshot, collectorVars, apiVars, FollowerState, BuildState,
        Snapshots, Known, None, Builder, Serving
  <2>2. preheat' \in [Builder -> BuildState]
    BY <1>22
    DEF ActivateSnapshot, collectorVars, apiVars, FollowerState, BuildState, NoBuild,
        NoIndex, IndexState, RagStatus, Snapshots, Known, None, Builder, Serving
  <2> QED
    BY <1>22, <2>1, <2>2 DEF ActivateSnapshot, collectorVars, apiVars
<1>23. ASSUME NEW b \in Builder, InstallRetriever(b) PROVE OfficialTypeOK'
  <2>1. rag' \in IndexState
    BY <1>23
    DEF InstallRetriever, collectorVars, apiVars, IndexState, BuildState, RagStatus,
        NoIndex, Snapshots, Known, None, Builder, Serving
  <2>2. preheat' \in [Builder -> BuildState]
    BY <1>23
    DEF InstallRetriever, collectorVars, apiVars, FollowerState, BuildState, NoBuild,
        NoIndex, IndexState, RagStatus, Snapshots, Known, None, Builder, Serving
  <2> QED
    BY <1>23, <2>1, <2>2 DEF InstallRetriever, collectorVars, apiVars
<1>24. ASSUME NEW b \in Builder, LabelIndex(b) PROVE OfficialTypeOK'
  <2>1. rag' \in IndexState
    BY <1>24
    DEF LabelIndex, Finish, collectorVars, apiVars, IndexState, BuildState, RagStatus,
        NoIndex, Snapshots, Known, None, Builder, Serving
  <2>2. lock' \in Builder \cup {"free"}
    BY <1>24
    DEF LabelIndex, Finish, collectorVars, apiVars, Snapshots, Known, None, Builder,
        Serving
  <2>3. preheat' \in [Builder -> BuildState]
    BY <1>24
    DEF LabelIndex, Finish, collectorVars, apiVars, FollowerState, BuildState,
        NoBuild, NoIndex, IndexState, RagStatus, Snapshots, Known, None, Builder,
        Serving
  <2>4. follower' \in FollowerState
    BY <1>24
    DEF LabelIndex, Finish, collectorVars, apiVars, FollowerState, Snapshots, Known,
        None, Builder, Serving
  <2> QED
    BY <1>24, <2>1, <2>2, <2>3, <2>4 DEF LabelIndex, Finish, collectorVars, apiVars
<1>25. ASSUME NEW b \in Builder, CleanUp(b) PROVE OfficialTypeOK'
  <2>1. archives' \subseteq Snapshots
    BY <1>25, BoundsAssumption, RetainedTypes
    DEF CleanUp, Finish, collectorVars, apiVars, Snapshots, Known, None, Builder,
        Serving
  <2>2. lock' \in Builder \cup {"free"}
    BY <1>25, RetainedTypes
    DEF CleanUp, Finish, collectorVars, apiVars, Snapshots, Known, None, Builder,
        Serving
  <2>3. preheat' \in [Builder -> BuildState]
    BY <1>25, RetainedTypes
    DEF CleanUp, Finish, collectorVars, apiVars, FollowerState, BuildState, NoBuild,
        NoIndex, IndexState, RagStatus, Snapshots, Known, None, Builder, Serving
  <2>4. follower' \in FollowerState
    BY <1>25, RetainedTypes
    DEF CleanUp, Finish, collectorVars, apiVars, FollowerState, Snapshots, Known,
        None, Builder, Serving
  <2> QED
    BY <1>25, <2>1, <2>2, <2>3, <2>4 DEF CleanUp, Finish, collectorVars, apiVars
<1>26. ASSUME NEW b \in Builder, BuildFails(b) PROVE OfficialTypeOK'
  <2>1. rag' \in IndexState
    BY <1>26
    DEF BuildFails, FailBuild, Finish, collectorVars, apiVars, IndexState, BuildState,
        RagStatus, NoIndex, Snapshots, Known, None, Builder, Serving
  <2>2. lock' \in Builder \cup {"free"}
    BY <1>26
    DEF BuildFails, FailBuild, Finish, collectorVars, apiVars, Snapshots, Known, None,
        Builder, Serving
  <2>3. preheat' \in [Builder -> BuildState]
    BY <1>26
    DEF BuildFails, FailBuild, Finish, collectorVars, apiVars, FollowerState,
        BuildState, NoBuild, NoIndex, IndexState, RagStatus, Snapshots, Known, None,
        Builder, Serving
  <2>4. follower' \in FollowerState
    BY <1>26
    DEF BuildFails, FailBuild, Finish, collectorVars, apiVars, FollowerState,
        Snapshots, Known, None, Builder, Serving
  <2>5. faults' \in 0 .. MaxFaults
    BY <1>26, BoundsAssumption
    DEF BuildFails, FailBuild, Finish, collectorVars, apiVars, Fault, Snapshots,
        Known, None, Builder, Serving
  <2> QED
    BY <1>26, <2>1, <2>2, <2>3, <2>4, <2>5
    DEF BuildFails, FailBuild, Finish, collectorVars, apiVars
<1>27. ASSUME NEW b \in Builder, CleanUpFails(b) PROVE OfficialTypeOK'
  <2>1. rag' \in IndexState
    BY <1>27
    DEF CleanUpFails, FailBuild, Finish, collectorVars, apiVars, IndexState,
        BuildState, RagStatus, NoIndex, Snapshots, Known, None, Builder, Serving
  <2>2. lock' \in Builder \cup {"free"}
    BY <1>27
    DEF CleanUpFails, FailBuild, Finish, collectorVars, apiVars, Snapshots, Known,
        None, Builder, Serving
  <2>3. preheat' \in [Builder -> BuildState]
    BY <1>27
    DEF CleanUpFails, FailBuild, Finish, collectorVars, apiVars, FollowerState,
        BuildState, NoBuild, NoIndex, IndexState, RagStatus, Snapshots, Known, None,
        Builder, Serving
  <2>4. follower' \in FollowerState
    BY <1>27
    DEF CleanUpFails, FailBuild, Finish, collectorVars, apiVars, FollowerState,
        Snapshots, Known, None, Builder, Serving
  <2>5. faults' \in 0 .. MaxFaults
    BY <1>27, BoundsAssumption
    DEF CleanUpFails, FailBuild, Finish, collectorVars, apiVars, Fault, Snapshots,
        Known, None, Builder, Serving
  <2> QED
    BY <1>27, <2>1, <2>2, <2>3, <2>4, <2>5
    DEF CleanUpFails, FailBuild, Finish, collectorVars, apiVars
<1>28. CASE UNCHANGED officialVars
  BY <1>28 DEF officialVars, collectorVars, apiVars
<1> QED
  BY <1>1, <1>2, <1>3, <1>4, <1>5, <1>6, <1>7, <1>8, <1>9, <1>10, <1>11, <1>12, <1>13,
     <1>14, <1>15, <1>16, <1>17, <1>18, <1>19, <1>20, <1>21, <1>22, <1>23, <1>24,
     <1>25, <1>26, <1>27, <1>28
  DEF OfficialNext, CollectorNext, FollowerNext, PreheatNext, PreheatStep

(* A build that ends frees the lock. *)
LEMMA Finishing ==
  ASSUME OfficialTypeOK, NEW b \in Builder, Finish(b)
  PROVE  /\ \A c \in Builder \ {b} : preheat'[c] = preheat[c]
         /\ preheat'[b].pc = "idle" /\ lock' = "free"
         /\ follower'.restoring = follower.restoring
BY DEF Finish, OfficialTypeOK, NoBuild, FollowerState

(* A build that fails keeps the index and its labels, and its status when   *)
(* it still is that of the snapshot shown.                                 *)
LEMMA Failing ==
  ASSUME OfficialTypeOK, NEW b \in Builder, FailBuild(b)
  PROVE  /\ Finish(b)
         /\ rag'.retr = rag.retr /\ rag'.id = rag.id /\ rag'.fp = rag.fp
         /\ CanReusePrevious(preheat[b].prev) => rag'.status = preheat[b].prev.status
         /\ ~CanReusePrevious(preheat[b].prev) => rag'.status = "failed"
<1> DEFINE s == IF CanReusePrevious(preheat[b].prev) THEN preheat[b].prev.status ELSE "failed"
<1>1. Finish(b) /\ rag' = [rag EXCEPT !.status = s]
  BY DEF FailBuild
<1>2. /\ CanReusePrevious(preheat[b].prev) => s = preheat[b].prev.status
      /\ ~CanReusePrevious(preheat[b].prev) => s = "failed"
  OBVIOUS
<1> HIDE DEF s
<1> QED
  BY <1>1, <1>2 DEF OfficialTypeOK, IndexState

(* A build that goes on keeps its target and what it remembers. *)
GoesOn(b, from, pcs) ==
  /\ preheat[b].pc = from /\ preheat'[b].pc \in pcs
  /\ preheat'[b].target = preheat[b].target /\ preheat'[b].prev = preheat[b].prev
  /\ \A c \in Builder \ {b} : preheat'[c] = preheat[c]

LEMMA GoingOn ==
  ASSUME OfficialTypeOK, NEW b \in Builder, NEW from, preheat[b].pc = from, NEW pc
  PROVE  /\ preheat' = [preheat EXCEPT ![b].pc = pc] =>
              GoesOn(b, from, {pc}) /\ preheat'[b].status = preheat[b].status
         /\ \A status : preheat' = [preheat EXCEPT ![b].pc = pc, ![b].status = status] =>
              GoesOn(b, from, {pc}) /\ preheat'[b].status = status
BY DEF OfficialTypeOK, BuildState, GoesOn

LEMMA Validating ==
  ASSUME OfficialTypeOK, NEW b \in Builder, ValidateDocuments(b)
  PROVE  /\ UNCHANGED live /\ preheat[b].pc = "docs"
         /\ \/ FailBuild(b)
            \/ /\ Reusable(b) /\ Finish(b) /\ rag'.status \in Serving
               /\ rag'.retr = rag.retr /\ rag'.id = rag.id /\ rag'.fp = rag.fp
            \/ GoesOn(b, "docs", {"build"}) /\ UNCHANGED <<rag, lock, follower>>
<1>1. CASE Reusable(b) /\ \E status \in Serving : rag' = [rag EXCEPT !.status = status]
  BY <1>1 DEF ValidateDocuments, OfficialTypeOK, IndexState, FailBuild
<1> QED
  BY <1>1, GoingOn DEF ValidateDocuments

LEMMA Building ==
  ASSUME OfficialTypeOK, NEW b \in Builder, BuildIndex(b)
  PROVE  /\ \/ b = "follower" /\ GoesOn(b, "build", {"activate"})
            \/ b = "startup" /\ GoesOn(b, "build", {"install"})
         /\ preheat'[b].status \in Serving
         /\ UNCHANGED <<rag, lock, follower, live>>
<1> DEFINE pc == IF b = "follower" THEN "activate" ELSE "install"
<1>1. PICK status \in Serving : preheat' = [preheat EXCEPT ![b].pc = pc, ![b].status = status]
  BY DEF BuildIndex
<1>2. \/ b = "follower" /\ pc = "activate"
      \/ b = "startup" /\ pc = "install"
  <2>1. CASE b = "follower"
    BY <2>1
  <2>2. CASE b = "startup"
    BY <2>2
  <2> QED
    BY <2>1, <2>2 DEF Builder
<1>3. preheat[b].pc = "build" /\ UNCHANGED <<rag, lock, follower, live>>
  BY DEF BuildIndex
<1> HIDE DEF pc
<1>4. GoesOn(b, "build", {pc}) /\ preheat'[b].status = status
  BY <1>1, <1>3, GoingOn
<1> QED
  BY <1>2, <1>3, <1>4

LEMMA Activating ==
  ASSUME OfficialTypeOK, NEW b \in Builder, ActivateSnapshot(b)
  PROVE  /\ GoesOn(b, "activate", {"install"})
         /\ preheat'[b].status = preheat[b].status
         /\ live' = preheat[b].target
         /\ UNCHANGED <<rag, lock, follower>>
BY GoingOn DEF ActivateSnapshot

LEMMA InstallingIndex ==
  ASSUME OfficialTypeOK, NEW b \in Builder, InstallRetriever(b)
  PROVE  /\ GoesOn(b, "install", {"label"})
         /\ preheat'[b].status = preheat[b].status
         /\ rag'.retr = preheat[b].target /\ rag'.id = rag.id /\ rag'.fp = rag.fp
         /\ rag'.status = rag.status
         /\ UNCHANGED <<lock, follower, live>>
BY GoingOn DEF InstallRetriever, OfficialTypeOK, IndexState

LEMMA Labelling ==
  ASSUME OfficialTypeOK, NEW b \in Builder, LabelIndex(b)
  PROVE  /\ rag'.retr = rag.retr /\ rag'.id = preheat[b].target /\ rag'.fp = preheat[b].target
         /\ rag'.status = preheat[b].status
         /\ UNCHANGED live /\ preheat[b].pc = "label"
         /\ \/ Finish(b)
            \/ /\ GoesOn(b, "label", {"retention"})
               /\ preheat'[b].status = preheat[b].status
               /\ UNCHANGED <<lock, follower>>
<1>1. /\ rag'.retr = rag.retr /\ rag'.id = preheat[b].target /\ rag'.fp = preheat[b].target
      /\ rag'.status = preheat[b].status
  BY DEF LabelIndex, OfficialTypeOK, IndexState
<1> QED
  BY <1>1, GoingOn DEF LabelIndex

(* The collector publishes what it collected. *)
LEMMA NextCollected ==
  ASSUME OfficialTypeOK, Collected, [OfficialNext]_officialVars
  PROVE  Collected'
<1> USE DEF Collected
<1>1. ASSUME StartCollection PROVE Collected'
  BY <1>1 DEF StartCollection, apiVars, OfficialTypeOK, CollectorState
<1>2. ASSUME GiveUp PROVE Collected'
  BY <1>2 DEF GiveUp, apiVars, OfficialTypeOK, CollectorState
<1>3. ASSUME CooldownEnds PROVE Collected'
  BY <1>3 DEF CooldownEnds, apiVars, OfficialTypeOK, CollectorState
<1>4. ASSUME CompleteCollection PROVE Collected'
  BY <1>4
  DEF CompleteCollection, OfficialTypeOK, CollectorState, Known, Snapshots, None
<1>5. ASSUME PublishFile PROVE Collected'
  <2>1. collector.pc \notin {"idle", "down", "collecting"}
    BY <1>5, FileOrder DEF PublishFile
  <2> DEFINE n == NextFile[collector.pc]
  <2>2. collector' = [collector EXCEPT !.pc = n]
    BY <1>5 DEF PublishFile
  <2> HIDE DEF n
  <2> QED
    BY <2>1, <2>2 DEF OfficialTypeOK, CollectorState
<1>6. ASSUME PublishArchive PROVE Collected'
  BY <1>6 DEF PublishArchive, apiVars, OfficialTypeOK, CollectorState
<1>7. ASSUME PublishPointer PROVE Collected'
  BY <1>7 DEF PublishPointer, apiVars, OfficialTypeOK, CollectorState
<1>8. ASSUME WeekPasses PROVE Collected'
  BY <1>8 DEF WeekPasses, apiVars, OfficialTypeOK, CollectorState
<1>9. ASSUME CollectorCrash PROVE Collected'
  BY <1>9 DEF CollectorCrash, apiVars, OfficialTypeOK, CollectorState
<1>10. ASSUME CollectorRestart PROVE Collected'
  BY <1>10 DEF CollectorRestart, apiVars, OfficialTypeOK, CollectorState
<1>11. ASSUME ReadCanonical PROVE Collected'
  BY <1>11 DEF ReadCanonical, apiVars, collectorVars, OfficialTypeOK, CollectorState
<1>12. ASSUME CompareDocuments PROVE Collected'
  BY <1>12
  DEF CompareDocuments, apiVars, collectorVars, OfficialTypeOK, CollectorState
<1>13. ASSUME RepairFile PROVE Collected'
  BY <1>13 DEF RepairFile, apiVars, collectorVars, OfficialTypeOK, CollectorState
<1>14. ASSUME RestoreSnapshot PROVE Collected'
  BY <1>14 DEF RestoreSnapshot, apiVars, collectorVars, OfficialTypeOK, CollectorState
<1>15. ASSUME NothingNew PROVE Collected'
  BY <1>15 DEF NothingNew, apiVars, collectorVars, OfficialTypeOK, CollectorState
<1>16. ASSUME FollowerPreheat PROVE Collected'
  BY <1>16
  DEF FollowerPreheat, Begin, apiVars, collectorVars, OfficialTypeOK, CollectorState
<1>17. ASSUME RepairFails PROVE Collected'
  BY <1>17 DEF RepairFails, apiVars, collectorVars, OfficialTypeOK, CollectorState
<1>18. ASSUME StartupPreheat PROVE Collected'
  BY <1>18
  DEF StartupPreheat, Begin, apiVars, collectorVars, OfficialTypeOK, CollectorState
<1>19. ASSUME ApiRestart PROVE Collected'
  BY <1>19 DEF ApiRestart, apiVars, collectorVars, OfficialTypeOK, CollectorState
<1>20. ASSUME NEW b \in Builder, ValidateDocuments(b) PROVE Collected'
  BY <1>20
  DEF ValidateDocuments, FailBuild, Finish, apiVars, collectorVars, OfficialTypeOK,
      CollectorState
<1>21. ASSUME NEW b \in Builder, BuildIndex(b) PROVE Collected'
  BY <1>21 DEF BuildIndex, apiVars, collectorVars, OfficialTypeOK, CollectorState
<1>22. ASSUME NEW b \in Builder, ActivateSnapshot(b) PROVE Collected'
  BY <1>22
  DEF ActivateSnapshot, apiVars, collectorVars, OfficialTypeOK, CollectorState
<1>23. ASSUME NEW b \in Builder, InstallRetriever(b) PROVE Collected'
  BY <1>23
  DEF InstallRetriever, apiVars, collectorVars, OfficialTypeOK, CollectorState
<1>24. ASSUME NEW b \in Builder, LabelIndex(b) PROVE Collected'
  BY <1>24
  DEF LabelIndex, Finish, apiVars, collectorVars, OfficialTypeOK, CollectorState
<1>25. ASSUME NEW b \in Builder, CleanUp(b) PROVE Collected'
  BY <1>25 DEF CleanUp, Finish, apiVars, collectorVars, OfficialTypeOK, CollectorState
<1>26. ASSUME NEW b \in Builder, BuildFails(b) PROVE Collected'
  BY <1>26
  DEF BuildFails, FailBuild, Finish, apiVars, collectorVars, OfficialTypeOK,
      CollectorState
<1>27. ASSUME NEW b \in Builder, CleanUpFails(b) PROVE Collected'
  BY <1>27
  DEF CleanUpFails, FailBuild, Finish, apiVars, collectorVars, OfficialTypeOK,
      CollectorState
<1>28. CASE UNCHANGED officialVars
  BY <1>28 DEF officialVars, collectorVars, apiVars
<1> QED
  BY <1>1, <1>2, <1>3, <1>4, <1>5, <1>6, <1>7, <1>8, <1>9, <1>10, <1>11, <1>12, <1>13,
     <1>14, <1>15, <1>16, <1>17, <1>18, <1>19, <1>20, <1>21, <1>22, <1>23, <1>24,
     <1>25, <1>26, <1>27, <1>28
  DEF OfficialNext, CollectorNext, FollowerNext, PreheatNext, PreheatStep

(* At most one build, that of the task that holds the lock. *)
LEMMA NextOneBuild ==
  ASSUME OfficialTypeOK, OneBuild, [OfficialNext]_officialVars
  PROVE  OneBuild'
<1> USE DEF OneBuild
<1>0. "free" \notin Builder
  BY DEF Builder
<1>1. ASSUME StartCollection PROVE OneBuild'
  BY <1>1 DEF StartCollection, collectorVars, apiVars
<1>2. ASSUME GiveUp PROVE OneBuild'
  BY <1>2 DEF GiveUp, collectorVars, apiVars
<1>3. ASSUME CooldownEnds PROVE OneBuild'
  BY <1>3 DEF CooldownEnds, collectorVars, apiVars
<1>4. ASSUME CompleteCollection PROVE OneBuild'
  BY <1>4 DEF CompleteCollection, collectorVars, apiVars
<1>5. ASSUME PublishFile PROVE OneBuild'
  BY <1>5 DEF PublishFile, collectorVars, apiVars
<1>6. ASSUME PublishArchive PROVE OneBuild'
  BY <1>6 DEF PublishArchive, collectorVars, apiVars
<1>7. ASSUME PublishPointer PROVE OneBuild'
  BY <1>7 DEF PublishPointer, collectorVars, apiVars
<1>8. ASSUME WeekPasses PROVE OneBuild'
  BY <1>8 DEF WeekPasses, collectorVars, apiVars
<1>9. ASSUME CollectorCrash PROVE OneBuild'
  BY <1>9 DEF CollectorCrash, collectorVars, apiVars
<1>10. ASSUME CollectorRestart PROVE OneBuild'
  BY <1>10 DEF CollectorRestart, collectorVars, apiVars
<1>11. ASSUME ReadCanonical PROVE OneBuild'
  BY <1>11 DEF ReadCanonical, collectorVars, apiVars
<1>12. ASSUME CompareDocuments PROVE OneBuild'
  BY <1>12 DEF CompareDocuments, collectorVars, apiVars
<1>13. ASSUME RepairFile PROVE OneBuild'
  BY <1>13 DEF RepairFile, collectorVars, apiVars
<1>14. ASSUME RestoreSnapshot PROVE OneBuild'
  BY <1>14 DEF RestoreSnapshot, collectorVars, apiVars
<1>15. ASSUME NothingNew PROVE OneBuild'
  BY <1>15 DEF NothingNew, collectorVars, apiVars
<1>16. ASSUME FollowerPreheat PROVE OneBuild'
  BY <1>16, <1>0, Beginning
  DEF FollowerPreheat, LockFree, OfficialTypeOK, FollowerState, Builder
<1>17. ASSUME RepairFails PROVE OneBuild'
  BY <1>17 DEF RepairFails, collectorVars, apiVars
<1>18. ASSUME StartupPreheat PROVE OneBuild'
  BY <1>18, <1>0, Beginning DEF StartupPreheat, LockFree, OfficialTypeOK, Builder
<1>19. ASSUME ApiRestart PROVE OneBuild'
  BY <1>19, <1>0 DEF ApiRestart, NoBuild
<1>20. ASSUME NEW b \in Builder, ValidateDocuments(b) PROVE OneBuild'
  BY <1>20, Validating, Failing, Finishing, <1>0 DEF GoesOn
<1>21. ASSUME NEW b \in Builder, BuildIndex(b) PROVE OneBuild'
  BY <1>21, Building, <1>0 DEF GoesOn
<1>22. ASSUME NEW b \in Builder, ActivateSnapshot(b) PROVE OneBuild'
  BY <1>22, Activating, <1>0 DEF GoesOn
<1>23. ASSUME NEW b \in Builder, InstallRetriever(b) PROVE OneBuild'
  BY <1>23, InstallingIndex, <1>0 DEF GoesOn
<1>24. ASSUME NEW b \in Builder, LabelIndex(b) PROVE OneBuild'
  BY <1>24, Labelling, Finishing, <1>0 DEF GoesOn
<1>25. ASSUME NEW b \in Builder, CleanUp(b) PROVE OneBuild'
  BY <1>25, Finishing, <1>0 DEF GoesOn, CleanUp
<1>26. ASSUME NEW b \in Builder, BuildFails(b) PROVE OneBuild'
  BY <1>26, Failing, Finishing, <1>0 DEF GoesOn, BuildFails
<1>27. ASSUME NEW b \in Builder, CleanUpFails(b) PROVE OneBuild'
  BY <1>27, Failing, Finishing, <1>0 DEF GoesOn, CleanUpFails
<1>28. CASE UNCHANGED officialVars
  BY <1>28 DEF officialVars, collectorVars, apiVars
<1> QED
  BY <1>1, <1>2, <1>3, <1>4, <1>5, <1>6, <1>7, <1>8, <1>9, <1>10, <1>11, <1>12, <1>13,
     <1>14, <1>15, <1>16, <1>17, <1>18, <1>19, <1>20, <1>21, <1>22, <1>23, <1>24,
     <1>25, <1>26, <1>27, <1>28
  DEF OfficialNext, CollectorNext, FollowerNext, PreheatNext, PreheatStep

(* Before the process has restored its snapshot nothing is built. *)
LEMMA NextRestored ==
  ASSUME OfficialTypeOK, OneBuild, Restored, \A b \in Builder : BuildKept(b),
         [OfficialNext]_officialVars
  PROVE  Restored'
<1> USE DEF Restored
<1>1. ASSUME StartCollection PROVE Restored'
  BY <1>1 DEF StartCollection, collectorVars, apiVars
<1>2. ASSUME GiveUp PROVE Restored'
  BY <1>2 DEF GiveUp, collectorVars, apiVars
<1>3. ASSUME CooldownEnds PROVE Restored'
  BY <1>3 DEF CooldownEnds, collectorVars, apiVars
<1>4. ASSUME CompleteCollection PROVE Restored'
  BY <1>4 DEF CompleteCollection, collectorVars, apiVars
<1>5. ASSUME PublishFile PROVE Restored'
  BY <1>5 DEF PublishFile, collectorVars, apiVars
<1>6. ASSUME PublishArchive PROVE Restored'
  BY <1>6 DEF PublishArchive, collectorVars, apiVars
<1>7. ASSUME PublishPointer PROVE Restored'
  BY <1>7 DEF PublishPointer, collectorVars, apiVars
<1>8. ASSUME WeekPasses PROVE Restored'
  BY <1>8 DEF WeekPasses, collectorVars, apiVars
<1>9. ASSUME CollectorCrash PROVE Restored'
  BY <1>9 DEF CollectorCrash, collectorVars, apiVars
<1>10. ASSUME CollectorRestart PROVE Restored'
  BY <1>10 DEF CollectorRestart, collectorVars, apiVars
<1>11. ASSUME ReadCanonical PROVE Restored'
  BY <1>11 DEF ReadCanonical, OfficialTypeOK, FollowerState
<1>12. ASSUME CompareDocuments PROVE Restored'
  BY <1>12 DEF CompareDocuments, OfficialTypeOK, FollowerState
<1>13. ASSUME RepairFile PROVE Restored'
  BY <1>13 DEF RepairFile, OfficialTypeOK, FollowerState
<1>14. ASSUME RestoreSnapshot PROVE Restored'
  BY <1>14 DEF RestoreSnapshot, OfficialTypeOK, FollowerState
<1>15. ASSUME NothingNew PROVE Restored'
  BY <1>15 DEF NothingNew, OfficialTypeOK, FollowerState
<1>16. ASSUME FollowerPreheat PROVE Restored'
  BY <1>16, Beginning
  DEF FollowerPreheat, LockFree, OfficialTypeOK, FollowerState, Builder
<1>17. ASSUME RepairFails PROVE Restored'
  BY <1>17 DEF RepairFails, OfficialTypeOK, FollowerState
<1>18. ASSUME StartupPreheat PROVE Restored'
  BY <1>18, Beginning DEF StartupPreheat, LockFree, OfficialTypeOK, Builder
<1>19. ASSUME ApiRestart PROVE Restored'
  BY <1>19 DEF ApiRestart, collectorVars, apiVars
<1>20. ASSUME NEW b \in Builder, ValidateDocuments(b) PROVE Restored'
  <2>1. UNCHANGED starting /\ preheat[b].pc # "idle"
    BY <1>20 DEF ValidateDocuments, FailBuild, Finish
  <2>2. ~follower.restoring /\ lock = b
    BY <2>1 DEF OneBuild, Builder
  <2>3. live' = live /\ follower'.restoring = follower.restoring
    BY <1>20, Validating, Failing, Finishing
  <2> QED
    BY <2>1, <2>2, <2>3
<1>21. ASSUME NEW b \in Builder, BuildIndex(b) PROVE Restored'
  <2>1. UNCHANGED starting /\ preheat[b].pc # "idle"
    BY <1>21 DEF BuildIndex
  <2>2. ~follower.restoring /\ lock = b
    BY <2>1 DEF OneBuild, Builder
  <2>3. live' = live /\ follower'.restoring = follower.restoring
    BY <1>21, Building
  <2> QED
    BY <2>1, <2>2, <2>3
<1>22. ASSUME NEW b \in Builder, ActivateSnapshot(b) PROVE Restored'
  <2>1. UNCHANGED starting /\ preheat[b].pc # "idle"
    BY <1>22 DEF ActivateSnapshot
  <2>2. ~follower.restoring /\ preheat[b].target # None
    BY <2>1 DEF OneBuild, Builder, BuildKept
  <2> QED
    BY <1>22, <2>1, <2>2, Activating
<1>23. ASSUME NEW b \in Builder, InstallRetriever(b) PROVE Restored'
  <2>1. UNCHANGED starting /\ preheat[b].pc # "idle"
    BY <1>23 DEF InstallRetriever
  <2>2. ~follower.restoring /\ lock = b
    BY <2>1 DEF OneBuild, Builder
  <2>3. live' = live /\ follower'.restoring = follower.restoring
    BY <1>23, InstallingIndex
  <2> QED
    BY <2>1, <2>2, <2>3
<1>24. ASSUME NEW b \in Builder, LabelIndex(b) PROVE Restored'
  <2>1. UNCHANGED starting /\ preheat[b].pc # "idle"
    BY <1>24 DEF LabelIndex, Finish
  <2>2. ~follower.restoring /\ lock = b
    BY <2>1 DEF OneBuild, Builder
  <2>3. live' = live /\ follower'.restoring = follower.restoring
    BY <1>24, Labelling, Finishing
  <2> QED
    BY <2>1, <2>2, <2>3
<1>25. ASSUME NEW b \in Builder, CleanUp(b) PROVE Restored'
  <2>1. UNCHANGED starting /\ preheat[b].pc # "idle"
    BY <1>25 DEF CleanUp, Finish
  <2>2. ~follower.restoring /\ lock = b
    BY <2>1 DEF OneBuild, Builder
  <2>3. live' = live /\ follower'.restoring = follower.restoring
    BY <1>25, Finishing DEF CleanUp
  <2> QED
    BY <2>1, <2>2, <2>3
<1>26. ASSUME NEW b \in Builder, BuildFails(b) PROVE Restored'
  <2>1. UNCHANGED starting /\ preheat[b].pc # "idle"
    BY <1>26 DEF BuildFails, FailBuild, Finish
  <2>2. ~follower.restoring /\ lock = b
    BY <2>1 DEF OneBuild, Builder
  <2>3. live' = live /\ follower'.restoring = follower.restoring
    BY <1>26, Failing, Finishing DEF BuildFails
  <2> QED
    BY <2>1, <2>2, <2>3
<1>27. ASSUME NEW b \in Builder, CleanUpFails(b) PROVE Restored'
  <2>1. UNCHANGED starting /\ preheat[b].pc # "idle"
    BY <1>27 DEF CleanUpFails, FailBuild, Finish
  <2>2. ~follower.restoring /\ lock = b
    BY <2>1 DEF OneBuild, Builder
  <2>3. live' = live /\ follower'.restoring = follower.restoring
    BY <1>27, Failing, Finishing DEF CleanUpFails
  <2> QED
    BY <2>1, <2>2, <2>3
<1>28. CASE UNCHANGED officialVars
  BY <1>28 DEF officialVars, collectorVars, apiVars
<1> QED
  BY <1>1, <1>2, <1>3, <1>4, <1>5, <1>6, <1>7, <1>8, <1>9, <1>10, <1>11, <1>12, <1>13,
     <1>14, <1>15, <1>16, <1>17, <1>18, <1>19, <1>20, <1>21, <1>22, <1>23, <1>24,
     <1>25, <1>26, <1>27, <1>28
  DEF OfficialNext, CollectorNext, FollowerNext, PreheatNext, PreheatStep

(* What a build prepares is for the snapshot shown, and until it installs   *)
(* that, the index it found is kept.                                       *)
LEMMA NextBuildKept ==
  ASSUME OfficialTypeOK, OneBuild, Restored, \A b \in Builder : BuildKept(b),
         IndexLabelled, [OfficialNext]_officialVars
  PROVE  \A c \in Builder : BuildKept(c)'
<1>1. ASSUME StartCollection PROVE \A c \in Builder : BuildKept(c)'
  BY <1>1 DEF StartCollection, collectorVars, apiVars, BuildKept
<1>2. ASSUME GiveUp PROVE \A c \in Builder : BuildKept(c)'
  BY <1>2 DEF GiveUp, collectorVars, apiVars, BuildKept
<1>3. ASSUME CooldownEnds PROVE \A c \in Builder : BuildKept(c)'
  BY <1>3 DEF CooldownEnds, collectorVars, apiVars, BuildKept
<1>4. ASSUME CompleteCollection PROVE \A c \in Builder : BuildKept(c)'
  BY <1>4 DEF CompleteCollection, collectorVars, apiVars, BuildKept
<1>5. ASSUME PublishFile PROVE \A c \in Builder : BuildKept(c)'
  BY <1>5 DEF PublishFile, collectorVars, apiVars, BuildKept
<1>6. ASSUME PublishArchive PROVE \A c \in Builder : BuildKept(c)'
  BY <1>6 DEF PublishArchive, collectorVars, apiVars, BuildKept
<1>7. ASSUME PublishPointer PROVE \A c \in Builder : BuildKept(c)'
  BY <1>7 DEF PublishPointer, collectorVars, apiVars, BuildKept
<1>8. ASSUME WeekPasses PROVE \A c \in Builder : BuildKept(c)'
  BY <1>8 DEF WeekPasses, collectorVars, apiVars, BuildKept
<1>9. ASSUME CollectorCrash PROVE \A c \in Builder : BuildKept(c)'
  BY <1>9 DEF CollectorCrash, collectorVars, apiVars, BuildKept
<1>10. ASSUME CollectorRestart PROVE \A c \in Builder : BuildKept(c)'
  BY <1>10 DEF CollectorRestart, collectorVars, apiVars, BuildKept
<1>11. ASSUME ReadCanonical PROVE \A c \in Builder : BuildKept(c)'
  BY <1>11 DEF ReadCanonical, collectorVars, apiVars, BuildKept
<1>12. ASSUME CompareDocuments PROVE \A c \in Builder : BuildKept(c)'
  BY <1>12 DEF CompareDocuments, collectorVars, apiVars, BuildKept
<1>13. ASSUME RepairFile PROVE \A c \in Builder : BuildKept(c)'
  BY <1>13 DEF RepairFile, collectorVars, apiVars, BuildKept
<1>14. ASSUME RestoreSnapshot PROVE \A c \in Builder : BuildKept(c)'
  <2>1. \A c \in Builder : preheat'[c].pc = "idle"
    BY <1>14 DEF RestoreSnapshot, Restored, OneBuild, Builder
  <2> QED
    BY <2>1 DEF BuildKept, Installing
<1>15. ASSUME NothingNew PROVE \A c \in Builder : BuildKept(c)'
  BY <1>15 DEF NothingNew, collectorVars, apiVars, BuildKept
<1>16. ASSUME FollowerPreheat PROVE \A c \in Builder : BuildKept(c)'
  <2>1. CASE UNCHANGED <<rag, lock, preheat>>
    BY <1>16, <2>1 DEF FollowerPreheat, BuildKept
  <2>2. CASE LockFree /\ Begin("follower", follower.snap)
    <3>1. follower.snap \in Known /\ follower.snap # None /\ "follower" \in Builder /\ UNCHANGED live
      BY <1>16
      DEF FollowerPreheat, OfficialTypeOK, FollowerState, NewlyPublished, Restored,
          Builder
    <3>2. \A c \in Builder : preheat[c].pc = "idle"
      BY <2>2 DEF OneBuild, LockFree, Builder
    <3> DEFINE n == preheat'["follower"]
    <3>3. /\ n.pc = "docs" /\ n.target = follower.snap /\ n.prev = rag
          /\ rag'.retr = rag.retr /\ rag'.id = rag.id /\ rag'.fp = rag.fp
          /\ rag.retr # None => rag'.status = rag.status
          /\ \A c \in Builder \ {"follower"} : preheat'[c] = preheat[c]
      BY <2>2, <3>1, Beginning
    <3>4. BuildKept("follower")'
      BY <3>1, <3>3 DEF BuildKept, Installing
    <3>5. \A c \in Builder \ {"follower"} : BuildKept(c)'
      BY <3>2, <3>3 DEF BuildKept, Installing
    <3> QED
      BY <3>4, <3>5
  <2> QED
    BY <1>16, <2>1, <2>2 DEF FollowerPreheat
<1>17. ASSUME RepairFails PROVE \A c \in Builder : BuildKept(c)'
  BY <1>17 DEF RepairFails, collectorVars, apiVars, BuildKept
<1>18. ASSUME StartupPreheat PROVE \A c \in Builder : BuildKept(c)'
  <2>1. CASE UNCHANGED <<rag, lock, preheat>>
    BY <1>18, <2>1 DEF StartupPreheat, BuildKept
  <2>2. CASE LockFree /\ Begin("startup", live)
    <3>1. live \in Known /\ live # None /\ "startup" \in Builder /\ UNCHANGED live
      BY <1>18
      DEF StartupPreheat, OfficialTypeOK, FollowerState, NewlyPublished, Restored,
          Builder
    <3>2. \A c \in Builder : preheat[c].pc = "idle"
      BY <2>2 DEF OneBuild, LockFree, Builder
    <3> DEFINE n == preheat'["startup"]
    <3>3. /\ n.pc = "docs" /\ n.target = live /\ n.prev = rag
          /\ rag'.retr = rag.retr /\ rag'.id = rag.id /\ rag'.fp = rag.fp
          /\ rag.retr # None => rag'.status = rag.status
          /\ \A c \in Builder \ {"startup"} : preheat'[c] = preheat[c]
      BY <2>2, <3>1, Beginning
    <3>4. BuildKept("startup")'
      BY <3>1, <3>3 DEF BuildKept, Installing
    <3>5. \A c \in Builder \ {"startup"} : BuildKept(c)'
      BY <3>2, <3>3 DEF BuildKept, Installing
    <3> QED
      BY <3>4, <3>5
  <2> QED
    BY <1>18, <2>1, <2>2 DEF StartupPreheat
<1>19. ASSUME ApiRestart PROVE \A c \in Builder : BuildKept(c)'
  <2>1. \A c \in Builder : preheat'[c].pc = "idle"
    BY <1>19 DEF ApiRestart, NoBuild
  <2> QED
    BY <2>1 DEF BuildKept, Installing
<1>20. ASSUME NEW b \in Builder, ValidateDocuments(b) PROVE \A c \in Builder : BuildKept(c)'
  <2>1. \A c \in Builder \ {b} : preheat[c].pc = "idle"
    BY <1>20 DEF OneBuild, ValidateDocuments
  <2>2. \A c \in Builder \ {b} : BuildKept(c)'
    BY <1>20, <2>1, Validating, Failing, Finishing DEF GoesOn, BuildKept, Installing
  <2>3. BuildKept(b)'
    BY <1>20, Validating, Failing, Finishing
    DEF GoesOn, BuildKept, Installing, Builder
  <2> QED
    BY <2>2, <2>3
<1>21. ASSUME NEW b \in Builder, BuildIndex(b) PROVE \A c \in Builder : BuildKept(c)'
  <2>1. \A c \in Builder \ {b} : preheat[c].pc = "idle"
    BY <1>21 DEF OneBuild, BuildIndex
  <2>2. \A c \in Builder \ {b} : BuildKept(c)'
    BY <1>21, <2>1, Building DEF GoesOn, BuildKept, Installing
  <2>3. BuildKept(b)'
    BY <1>21, Building DEF GoesOn, BuildKept, Installing, Builder
  <2> QED
    BY <2>2, <2>3
<1>22. ASSUME NEW b \in Builder, ActivateSnapshot(b) PROVE \A c \in Builder : BuildKept(c)'
  <2>1. \A c \in Builder \ {b} : preheat[c].pc = "idle"
    BY <1>22 DEF OneBuild, ActivateSnapshot
  <2>2. \A c \in Builder \ {b} : BuildKept(c)'
    BY <1>22, <2>1, Activating DEF GoesOn, BuildKept, Installing
  <2>3. BuildKept(b)'
    BY <1>22, Activating DEF GoesOn, BuildKept, Installing, Builder
  <2> QED
    BY <2>2, <2>3
<1>23. ASSUME NEW b \in Builder, InstallRetriever(b) PROVE \A c \in Builder : BuildKept(c)'
  <2>1. \A c \in Builder \ {b} : preheat[c].pc = "idle"
    BY <1>23 DEF OneBuild, InstallRetriever
  <2>2. \A c \in Builder \ {b} : BuildKept(c)'
    BY <1>23, <2>1, InstallingIndex DEF GoesOn, BuildKept, Installing
  <2>3. BuildKept(b)'
    BY <1>23, InstallingIndex DEF GoesOn, BuildKept, Installing, Builder
  <2> QED
    BY <2>2, <2>3
<1>24. ASSUME NEW b \in Builder, LabelIndex(b) PROVE \A c \in Builder : BuildKept(c)'
  <2>1. \A c \in Builder \ {b} : preheat[c].pc = "idle"
    BY <1>24 DEF OneBuild, LabelIndex
  <2>2. \A c \in Builder \ {b} : BuildKept(c)'
    BY <1>24, <2>1, Labelling, Finishing DEF GoesOn, BuildKept, Installing
  <2>3. BuildKept(b)'
    BY <1>24, Labelling, Finishing DEF GoesOn, BuildKept, Installing, Builder
  <2> QED
    BY <2>2, <2>3
<1>25. ASSUME NEW b \in Builder, CleanUp(b) PROVE \A c \in Builder : BuildKept(c)'
  <2>1. \A c \in Builder \ {b} : preheat[c].pc = "idle"
    BY <1>25 DEF OneBuild, CleanUp
  <2>2. \A c \in Builder \ {b} : BuildKept(c)'
    BY <1>25, <2>1, Finishing DEF GoesOn, BuildKept, Installing, CleanUp
  <2>3. BuildKept(b)'
    BY <1>25, Finishing DEF GoesOn, BuildKept, Installing, Builder, CleanUp
  <2> QED
    BY <2>2, <2>3
<1>26. ASSUME NEW b \in Builder, BuildFails(b) PROVE \A c \in Builder : BuildKept(c)'
  <2>1. \A c \in Builder \ {b} : preheat[c].pc = "idle"
    BY <1>26 DEF OneBuild, BuildFails
  <2>2. \A c \in Builder \ {b} : BuildKept(c)'
    BY <1>26, <2>1, Failing, Finishing DEF GoesOn, BuildKept, Installing, BuildFails
  <2>3. BuildKept(b)'
    BY <1>26, Failing, Finishing
    DEF GoesOn, BuildKept, Installing, Builder, BuildFails
  <2> QED
    BY <2>2, <2>3
<1>27. ASSUME NEW b \in Builder, CleanUpFails(b) PROVE \A c \in Builder : BuildKept(c)'
  <2>1. \A c \in Builder \ {b} : preheat[c].pc = "idle"
    BY <1>27 DEF OneBuild, CleanUpFails
  <2>2. \A c \in Builder \ {b} : BuildKept(c)'
    BY <1>27, <2>1, Failing, Finishing DEF GoesOn, BuildKept, Installing, CleanUpFails
  <2>3. BuildKept(b)'
    BY <1>27, Failing, Finishing
    DEF GoesOn, BuildKept, Installing, Builder, CleanUpFails
  <2> QED
    BY <2>2, <2>3
<1>28. CASE UNCHANGED officialVars
  BY <1>28 DEF officialVars, collectorVars, apiVars, BuildKept
<1> QED
  BY <1>1, <1>2, <1>3, <1>4, <1>5, <1>6, <1>7, <1>8, <1>9, <1>10, <1>11, <1>12, <1>13,
     <1>14, <1>15, <1>16, <1>17, <1>18, <1>19, <1>20, <1>21, <1>22, <1>23, <1>24,
     <1>25, <1>26, <1>27, <1>28
  DEF OfficialNext, CollectorNext, FollowerNext, PreheatNext, PreheatStep

(* Between its installation and its label nothing else touches the index.   *)
LEMMA NextLabelled ==
  ASSUME OfficialTypeOK, OneBuild, Restored, \A b \in Builder : BuildKept(b),
         IndexLabelled, [OfficialNext]_officialVars
  PROVE  IndexLabelled'
<1>1. ASSUME StartCollection PROVE IndexLabelled'
  BY <1>1 DEF StartCollection, collectorVars, apiVars, IndexLabelled
<1>2. ASSUME GiveUp PROVE IndexLabelled'
  BY <1>2 DEF GiveUp, collectorVars, apiVars, IndexLabelled
<1>3. ASSUME CooldownEnds PROVE IndexLabelled'
  BY <1>3 DEF CooldownEnds, collectorVars, apiVars, IndexLabelled
<1>4. ASSUME CompleteCollection PROVE IndexLabelled'
  BY <1>4 DEF CompleteCollection, collectorVars, apiVars, IndexLabelled
<1>5. ASSUME PublishFile PROVE IndexLabelled'
  BY <1>5 DEF PublishFile, collectorVars, apiVars, IndexLabelled
<1>6. ASSUME PublishArchive PROVE IndexLabelled'
  BY <1>6 DEF PublishArchive, collectorVars, apiVars, IndexLabelled
<1>7. ASSUME PublishPointer PROVE IndexLabelled'
  BY <1>7 DEF PublishPointer, collectorVars, apiVars, IndexLabelled
<1>8. ASSUME WeekPasses PROVE IndexLabelled'
  BY <1>8 DEF WeekPasses, collectorVars, apiVars, IndexLabelled
<1>9. ASSUME CollectorCrash PROVE IndexLabelled'
  BY <1>9 DEF CollectorCrash, collectorVars, apiVars, IndexLabelled
<1>10. ASSUME CollectorRestart PROVE IndexLabelled'
  BY <1>10 DEF CollectorRestart, collectorVars, apiVars, IndexLabelled
<1>11. ASSUME ReadCanonical PROVE IndexLabelled'
  BY <1>11 DEF ReadCanonical, collectorVars, apiVars, IndexLabelled
<1>12. ASSUME CompareDocuments PROVE IndexLabelled'
  BY <1>12 DEF CompareDocuments, collectorVars, apiVars, IndexLabelled
<1>13. ASSUME RepairFile PROVE IndexLabelled'
  BY <1>13 DEF RepairFile, collectorVars, apiVars, IndexLabelled
<1>14. ASSUME RestoreSnapshot PROVE IndexLabelled'
  BY <1>14 DEF RestoreSnapshot, collectorVars, apiVars, IndexLabelled
<1>15. ASSUME NothingNew PROVE IndexLabelled'
  BY <1>15 DEF NothingNew, collectorVars, apiVars, IndexLabelled
<1>16. ASSUME FollowerPreheat PROVE IndexLabelled'
  <2>1. /\ \A c \in Builder : preheat'[c].pc = "label" <=> preheat[c].pc = "label"
        /\ rag'.retr = rag.retr /\ rag'.id = rag.id /\ rag'.fp = rag.fp
    <3>1. CASE UNCHANGED <<rag, lock, preheat>>
      BY <3>1
    <3>2. CASE LockFree /\ Begin("follower", follower.snap)
      <4>1. follower.snap \in Known /\ "follower" \in Builder /\ preheat["follower"].pc = "idle"
        BY <3>2 DEF OfficialTypeOK, FollowerState, OneBuild, LockFree, Builder
      <4> QED
        BY <3>2, <4>1, Beginning
    <3> QED
      BY <1>16, <3>1, <3>2 DEF FollowerPreheat
  <2> QED
    BY <2>1 DEF IndexLabelled
<1>17. ASSUME RepairFails PROVE IndexLabelled'
  BY <1>17 DEF RepairFails, collectorVars, apiVars, IndexLabelled
<1>18. ASSUME StartupPreheat PROVE IndexLabelled'
  <2>1. /\ \A c \in Builder : preheat'[c].pc = "label" <=> preheat[c].pc = "label"
        /\ rag'.retr = rag.retr /\ rag'.id = rag.id /\ rag'.fp = rag.fp
    <3>1. CASE UNCHANGED <<rag, lock, preheat>>
      BY <3>1
    <3>2. CASE LockFree /\ Begin("startup", live)
      <4>1. live \in Known /\ "startup" \in Builder /\ preheat["startup"].pc = "idle"
        BY <3>2 DEF OfficialTypeOK, FollowerState, OneBuild, LockFree, Builder
      <4> QED
        BY <3>2, <4>1, Beginning
    <3> QED
      BY <1>18, <3>1, <3>2 DEF StartupPreheat
  <2> QED
    BY <2>1 DEF IndexLabelled
<1>19. ASSUME ApiRestart PROVE IndexLabelled'
  BY <1>19 DEF ApiRestart, NoIndex, IndexLabelled
<1>20. ASSUME NEW b \in Builder, ValidateDocuments(b) PROVE IndexLabelled'
  <2>1. \A c \in Builder \ {b} : preheat[c].pc = "idle"
    BY <1>20 DEF OneBuild, ValidateDocuments
  <2> QED
    BY <1>20, <2>1, Validating, Failing, Finishing
    DEF GoesOn, BuildKept, IndexLabelled
<1>21. ASSUME NEW b \in Builder, BuildIndex(b) PROVE IndexLabelled'
  <2>1. \A c \in Builder \ {b} : preheat[c].pc = "idle"
    BY <1>21 DEF OneBuild, BuildIndex
  <2> QED
    BY <1>21, <2>1, Building DEF GoesOn, BuildKept, IndexLabelled
<1>22. ASSUME NEW b \in Builder, ActivateSnapshot(b) PROVE IndexLabelled'
  <2>1. \A c \in Builder \ {b} : preheat[c].pc = "idle"
    BY <1>22 DEF OneBuild, ActivateSnapshot
  <2> QED
    BY <1>22, <2>1, Activating DEF GoesOn, BuildKept, IndexLabelled
<1>23. ASSUME NEW b \in Builder, InstallRetriever(b) PROVE IndexLabelled'
  <2>1. \A c \in Builder \ {b} : preheat[c].pc = "idle"
    BY <1>23 DEF OneBuild, InstallRetriever
  <2> QED
    BY <1>23, <2>1, InstallingIndex DEF GoesOn, BuildKept, IndexLabelled
<1>24. ASSUME NEW b \in Builder, LabelIndex(b) PROVE IndexLabelled'
  <2>1. \A c \in Builder \ {b} : preheat[c].pc = "idle"
    BY <1>24 DEF OneBuild, LabelIndex
  <2> QED
    BY <1>24, <2>1, Labelling, Finishing DEF GoesOn, BuildKept, IndexLabelled
<1>25. ASSUME NEW b \in Builder, CleanUp(b) PROVE IndexLabelled'
  <2>1. \A c \in Builder \ {b} : preheat[c].pc = "idle"
    BY <1>25 DEF OneBuild, CleanUp
  <2> QED
    BY <1>25, <2>1, Finishing DEF GoesOn, BuildKept, IndexLabelled, CleanUp
<1>26. ASSUME NEW b \in Builder, BuildFails(b) PROVE IndexLabelled'
  <2>1. \A c \in Builder \ {b} : preheat[c].pc = "idle"
    BY <1>26 DEF OneBuild, BuildFails
  <2> QED
    BY <1>26, <2>1, Failing, Finishing
    DEF GoesOn, BuildKept, IndexLabelled, BuildFails
<1>27. ASSUME NEW b \in Builder, CleanUpFails(b) PROVE IndexLabelled'
  <2>1. \A c \in Builder \ {b} : preheat[c].pc = "idle"
    BY <1>27 DEF OneBuild, CleanUpFails
  <2> QED
    BY <1>27, <2>1, Failing, Finishing
    DEF GoesOn, BuildKept, IndexLabelled, CleanUpFails
<1>28. CASE UNCHANGED officialVars
  BY <1>28 DEF officialVars, collectorVars, apiVars, IndexLabelled
<1> QED
  BY <1>1, <1>2, <1>3, <1>4, <1>5, <1>6, <1>7, <1>8, <1>9, <1>10, <1>11, <1>12, <1>13,
     <1>14, <1>15, <1>16, <1>17, <1>18, <1>19, <1>20, <1>21, <1>22, <1>23, <1>24,
     <1>25, <1>26, <1>27, <1>28
  DEF OfficialNext, CollectorNext, FollowerNext, PreheatNext, PreheatStep

-----------------------------------------------------------------------------
(* The steps of the abstract served snapshot, seen from the index. *)
Shown == [docs |-> rag.retr, label |-> rag.id, usable |-> rag.status \in Serving]
ServedStep == [Served!Next]_<<live, Shown>>

LEMMA StepShows ==
  ASSUME live' \in Snapshots, rag' = rag
  PROVE  ServedStep
BY DEF ServedStep, Served!Next, Served!Show, Shown

LEMMA StepStutters ==
  ASSUME UNCHANGED live, rag'.retr = rag.retr, rag'.id = rag.id,
         rag'.status \in Serving <=> rag.status \in Serving
  PROVE  ServedStep
<1>1. Shown' = Shown
  BY DEF Shown
<1> QED
  BY <1>1 DEF ServedStep

LEMMA StepInstalls ==
  ASSUME UNCHANGED live, rag'.retr = live, rag'.id = rag.id, rag'.status = rag.status
  PROVE  ServedStep
<1>1. Served!Install
  BY DEF Served!Install, Shown
<1> QED
  BY <1>1 DEF ServedStep, Served!Next

LEMMA SameIndex ==
  ASSUME NEW D, NEW r \in [docs : D, label : D, usable : BOOLEAN],
         NEW s \in [docs : D, label : D, usable : BOOLEAN], s.docs = r.docs
  PROVE  /\ s.usable = TRUE => s = [r EXCEPT !.label = s.label, !.usable = TRUE]
         /\ s.usable = FALSE /\ s.label = r.label => s = [r EXCEPT !.usable = FALSE]
OBVIOUS

LEMMA StepLabels ==
  ASSUME UNCHANGED live, rag.retr = live, rag'.retr = live, rag'.id = live,
         rag'.status \in Serving
  PROVE  ServedStep
<1> DEFINE D == {rag.retr, rag.id, rag'.retr, rag'.id}
           u == rag.status \in Serving
           v == rag'.status \in Serving
           r == [docs |-> rag.retr, label |-> rag.id, usable |-> u]
           s == [docs |-> rag'.retr, label |-> rag'.id, usable |-> v]
<1>1. v = TRUE /\ u \in BOOLEAN
  OBVIOUS
<1> HIDE DEF u, v
<1>2. r \in [docs : D, label : D, usable : BOOLEAN] /\ s \in [docs : D, label : D, usable : BOOLEAN]
  BY <1>1
<1>3. s.docs = r.docs /\ s.label = live /\ s.usable = TRUE
  BY <1>1
<1> HIDE DEF D, r, s
<1>4. s = [r EXCEPT !.label = live, !.usable = TRUE]
  BY <1>2, <1>3, SameIndex
<1>5. Served!Label
  BY <1>4 DEF Served!Label, r, s, u, v
<1> QED
  BY <1>5 DEF ServedStep, Served!Next

LEMMA StepInvalidates ==
  ASSUME UNCHANGED live, rag'.retr = rag.retr, rag'.id = rag.id,
         rag'.status \notin Serving
  PROVE  ServedStep
<1> DEFINE D == {rag.retr, rag.id}
           u == rag.status \in Serving
           v == rag'.status \in Serving
           r == [docs |-> rag.retr, label |-> rag.id, usable |-> u]
           s == [docs |-> rag'.retr, label |-> rag'.id, usable |-> v]
<1>1. v = FALSE /\ u \in BOOLEAN
  OBVIOUS
<1> HIDE DEF u, v
<1>2. r \in [docs : D, label : D, usable : BOOLEAN] /\ s \in [docs : D, label : D, usable : BOOLEAN]
  BY <1>1
<1>3. s.docs = r.docs /\ s.label = r.label /\ s.usable = FALSE
  BY <1>1
<1> HIDE DEF D, r, s
<1>4. s = [r EXCEPT !.usable = FALSE]
  BY <1>2, <1>3, SameIndex
<1>5. Served!Invalidate
  BY <1>4 DEF Served!Invalidate, r, s, u, v
<1> QED
  BY <1>5 DEF ServedStep, Served!Next

(* A build that fails leaves what is handed out or invalidates it. *)
LEMMA FailingServed ==
  ASSUME OfficialInv, NEW b \in Builder, FailBuild(b), UNCHANGED live,
         preheat[b].pc \in {"docs", "build", "retention"}
  PROVE  ServedStep
<1> DEFINE p == preheat[b].prev
<1>1. CASE CanReusePrevious(p)
  <2>1. /\ p.status \in Serving /\ live = p.id /\ live = p.fp /\ p.retr = p.fp
    BY <1>1 DEF CanReusePrevious
  <2>2. rag'.retr = rag.retr /\ rag'.id = rag.id /\ rag'.status = p.status
    BY <1>1, Failing DEF OfficialInv
  <2>3. rag.retr = live /\ rag.id = live
    <3>1. CASE preheat[b].pc = "retention"
      <4>1. rag.retr = live
        BY <3>1 DEF OfficialInv, BuildKept, Installing
      <4>2. \A c \in Builder : preheat[c].pc # "label"
        BY <3>1 DEF OfficialInv, OneBuild
      <4> QED
        BY <4>1, <4>2 DEF OfficialInv, IndexLabelled
    <3>2. CASE preheat[b].pc \in {"docs", "build"}
      BY <2>1, <3>2 DEF OfficialInv, BuildKept
    <3> QED
      BY <3>1, <3>2
  <2> QED
    BY <2>1, <2>2, <2>3, StepLabels
<1>2. CASE ~CanReusePrevious(p)
  <2>1. rag'.retr = rag.retr /\ rag'.id = rag.id /\ rag'.status = "failed"
    BY <1>2, Failing DEF OfficialInv
  <2> QED
    BY <2>1, StepInvalidates DEF Serving
<1> QED
  BY <1>1, <1>2

(* A build that begins leaves what is handed out, which was nothing when    *)
(* there was no index.                                                     *)
LEMMA BeginningServed ==
  ASSUME OfficialInv, NEW b \in Builder, NEW target \in Known, Begin(b, target),
         UNCHANGED live
  PROVE  ServedStep
<1>1. /\ rag'.retr = rag.retr /\ rag'.id = rag.id
      /\ rag.retr # None => rag'.status = rag.status
      /\ rag.retr = None => rag'.status = "building"
  BY Beginning DEF OfficialInv
<1>2. CASE rag.retr = None
  BY <1>1, <1>2, StepInvalidates DEF Serving
<1>3. CASE rag.retr # None
  BY <1>1, <1>3, StepStutters
<1> QED
  BY <1>2, <1>3

(* Every step changes what is shown and handed out the way the abstract     *)
(* specification allows.                                                   *)
LEMMA NextServed ==
  ASSUME OfficialInv, [OfficialNext]_officialVars
  PROVE  ServedStep
<1>1. ASSUME StartCollection PROVE ServedStep
  BY <1>1, StepStutters DEF StartCollection, apiVars
<1>2. ASSUME GiveUp PROVE ServedStep
  BY <1>2, StepStutters DEF GiveUp, apiVars
<1>3. ASSUME CooldownEnds PROVE ServedStep
  BY <1>3, StepStutters DEF CooldownEnds, apiVars
<1>4. ASSUME CompleteCollection PROVE ServedStep
  BY <1>4, StepStutters DEF CompleteCollection, apiVars
<1>5. ASSUME PublishFile PROVE ServedStep
  BY <1>5, StepStutters DEF PublishFile, apiVars
<1>6. ASSUME PublishArchive PROVE ServedStep
  BY <1>6, StepStutters DEF PublishArchive, apiVars
<1>7. ASSUME PublishPointer PROVE ServedStep
  BY <1>7, StepStutters DEF PublishPointer, apiVars
<1>8. ASSUME WeekPasses PROVE ServedStep
  BY <1>8, StepStutters DEF WeekPasses, apiVars
<1>9. ASSUME CollectorCrash PROVE ServedStep
  BY <1>9, StepStutters DEF CollectorCrash, apiVars
<1>10. ASSUME CollectorRestart PROVE ServedStep
  BY <1>10, StepStutters DEF CollectorRestart, apiVars
<1>11. ASSUME ReadCanonical PROVE ServedStep
  BY <1>11, StepStutters DEF ReadCanonical, collectorVars
<1>12. ASSUME CompareDocuments PROVE ServedStep
  BY <1>12, StepStutters DEF CompareDocuments, collectorVars
<1>13. ASSUME RepairFile PROVE ServedStep
  BY <1>13, StepStutters DEF RepairFile, collectorVars
<1>14. ASSUME RestoreSnapshot PROVE ServedStep
  <2>1. CASE follower.snap = None
    BY <1>14, <2>1, StepStutters DEF RestoreSnapshot, OfficialInv, Restored
  <2>2. CASE follower.snap # None
    BY <1>14, <2>2, StepShows
    DEF RestoreSnapshot, OfficialInv, OfficialTypeOK, FollowerState, Known
  <2> QED
    BY <2>1, <2>2
<1>15. ASSUME NothingNew PROVE ServedStep
  BY <1>15, StepStutters DEF NothingNew, collectorVars
<1>16. ASSUME FollowerPreheat PROVE ServedStep
  <2>1. CASE UNCHANGED <<rag, lock, preheat>>
    BY <1>16, <2>1, StepStutters DEF FollowerPreheat
  <2>2. CASE Begin("follower", follower.snap)
    BY <1>16, <2>2, BeginningServed
    DEF FollowerPreheat, OfficialInv, OfficialTypeOK, FollowerState, Builder
  <2> QED
    BY <1>16, <2>1, <2>2 DEF FollowerPreheat
<1>17. ASSUME RepairFails PROVE ServedStep
  BY <1>17, StepStutters DEF RepairFails, collectorVars
<1>18. ASSUME StartupPreheat PROVE ServedStep
  <2>1. CASE UNCHANGED <<rag, lock, preheat>>
    BY <1>18, <2>1, StepStutters DEF StartupPreheat
  <2>2. CASE Begin("startup", live)
    BY <1>18, <2>2, BeginningServed
    DEF StartupPreheat, OfficialInv, OfficialTypeOK, Builder
  <2> QED
    BY <1>18, <2>1, <2>2 DEF StartupPreheat
<1>19. ASSUME ApiRestart PROVE ServedStep
  <2>1. rag' = NoIndex /\ live' = None
    BY <1>19 DEF ApiRestart
  <2>2. (rag'.status \in Serving) = FALSE /\ rag'.retr = None /\ rag'.id = None
    BY <2>1 DEF NoIndex, Serving
  <2>3. Served!Restart
    BY <2>1, <2>2 DEF Served!Restart, Served!NoIndex
  <2> QED
    BY <2>3 DEF ServedStep, Served!Next, Shown
<1>20. ASSUME NEW b \in Builder, ValidateDocuments(b) PROVE ServedStep
  <2>0. OfficialTypeOK
    BY DEF OfficialInv
  <2>1. CASE FailBuild(b)
    BY <1>20, <2>0, <2>1, Validating, FailingServed
  <2>2. CASE /\ Reusable(b) /\ Finish(b) /\ rag'.status \in Serving
             /\ rag'.retr = rag.retr /\ rag'.id = rag.id /\ rag'.fp = rag.fp
    <3>1. UNCHANGED live /\ preheat[b].pc = "docs"
      BY <1>20, <2>0, Validating
    <3>2. live = preheat[b].target
      BY <2>2, <3>1 DEF Reusable, OfficialInv, BuildKept
    <3> QED
      BY <2>2, <3>1, <3>2, StepLabels DEF Reusable
  <2>3. CASE UNCHANGED rag
    BY <1>20, <2>0, <2>3, Validating, StepStutters
  <2> QED
    BY <1>20, <2>0, <2>1, <2>2, <2>3, Validating
<1>21. ASSUME NEW b \in Builder, BuildIndex(b) PROVE ServedStep
  BY <1>21, Building, StepStutters DEF OfficialInv
<1>22. ASSUME NEW b \in Builder, ActivateSnapshot(b) PROVE ServedStep
  <2>1. preheat[b].target \in Snapshots
    BY <1>22
    DEF ActivateSnapshot, OfficialInv, OfficialTypeOK, BuildKept, BuildState, Known
  <2> QED
    BY <1>22, <2>1, Activating, StepShows DEF OfficialInv
<1>23. ASSUME NEW b \in Builder, InstallRetriever(b) PROVE ServedStep
  <2>1. live = preheat[b].target
    BY <1>23 DEF InstallRetriever, OfficialInv, BuildKept, Installing
  <2> QED
    BY <1>23, <2>1, InstallingIndex, StepInstalls DEF OfficialInv
<1>24. ASSUME NEW b \in Builder, LabelIndex(b) PROVE ServedStep
  <2>1. /\ live = preheat[b].target /\ rag.retr = live /\ preheat[b].status \in Serving
    BY <1>24 DEF LabelIndex, OfficialInv, BuildKept, Installing
  <2> QED
    BY <1>24, <2>1, Labelling, StepLabels DEF OfficialInv
<1>25. ASSUME NEW b \in Builder, CleanUp(b) PROVE ServedStep
  BY <1>25, StepStutters DEF CleanUp
<1>26. ASSUME NEW b \in Builder, BuildFails(b) PROVE ServedStep
  BY <1>26, FailingServed DEF BuildFails
<1>27. ASSUME NEW b \in Builder, CleanUpFails(b) PROVE ServedStep
  BY <1>27, FailingServed DEF CleanUpFails
<1>28. CASE UNCHANGED officialVars
  BY <1>28, StepStutters DEF officialVars, collectorVars, apiVars
<1> QED
  BY <1>1, <1>2, <1>3, <1>4, <1>5, <1>6, <1>7, <1>8, <1>9, <1>10, <1>11, <1>12, <1>13,
     <1>14, <1>15, <1>16, <1>17, <1>18, <1>19, <1>20, <1>21, <1>22, <1>23, <1>24,
     <1>25, <1>26, <1>27, <1>28
  DEF OfficialNext, CollectorNext, FollowerNext, PreheatNext, PreheatStep

-----------------------------------------------------------------------------
LEMMA InitOfficial == OfficialInit => OfficialInv
<1> SUFFICES ASSUME OfficialInit PROVE OfficialInv
  OBVIOUS
<1>1. NoIndex \in IndexState /\ NoIndex.retr = NoIndex.id /\ NoIndex.retr = NoIndex.fp
  BY DEF NoIndex, IndexState, RagStatus, Known
<1>2. NoBuild \in BuildState /\ NoBuild.pc = "idle"
  BY <1>1 DEF NoBuild, BuildState, RagStatus, Known
<1>3. OfficialTypeOK
  <2>1. files \in [{"cards", "decks", "docs", "canonical", "pointer"} -> Known]
    BY DEF OfficialInit, Known
  <2>2. collector \in CollectorState /\ follower \in FollowerState
    BY DEF OfficialInit, CollectorState, FollowerState, Known
  <2>3. preheat \in [Builder -> BuildState] /\ rag \in IndexState
    BY <1>1, <1>2 DEF OfficialInit
  <2>4. faults \in 0 .. MaxFaults
    BY BoundsAssumption DEF OfficialInit
  <2> QED
    BY <2>1, <2>2, <2>3, <2>4 DEF OfficialInit, OfficialTypeOK, Known
<1>4. Collected /\ OneBuild /\ Restored
  BY <1>2 DEF OfficialInit, Collected, OneBuild, Restored, Builder
<1>5. ASSUME NEW b \in Builder PROVE BuildKept(b)
  BY <1>2 DEF OfficialInit, BuildKept, Installing
<1>6. IndexLabelled
  BY <1>1 DEF OfficialInit, IndexLabelled
<1> QED
  BY <1>3, <1>4, <1>5, <1>6 DEF OfficialInv

LEMMA NextOfficial == OfficialInv /\ [OfficialNext]_officialVars => OfficialInv'
<1> SUFFICES ASSUME OfficialInv, [OfficialNext]_officialVars PROVE OfficialInv'
  OBVIOUS
<1>1. OfficialTypeOK' /\ Collected' /\ OneBuild'
  BY NextTypes, NextCollected, NextOneBuild DEF OfficialInv
<1>2. Restored' /\ IndexLabelled'
  BY NextRestored, NextLabelled DEF OfficialInv
<1>3. \A c \in Builder : BuildKept(c)'
  BY NextBuildKept DEF OfficialInv
<1> QED
  BY <1>1, <1>2, <1>3 DEF OfficialInv

(* In every state of every execution at most one preheat task builds, the  *)
(* one that took the lock; it builds for the snapshot shown or about to be *)
(* shown; and until it installs its index the previous one is untouched.   *)
THEOREM OneBuilder == OfficialSpec => []OfficialInv
<1> QED
  BY InitOfficial, NextOfficial, PTL DEF OfficialSpec

(* What the API shows and hands out implements the abstract served         *)
(* snapshot that the answering requests rely on.                           *)
THEOREM ServesAbstractly == OfficialSpec => ImplementsServed
<1>1. OfficialInit => Served!Init
  <2> SUFFICES ASSUME OfficialInit PROVE Served!Init
    OBVIOUS
  <2> DEFINE u == rag.status \in Serving
  <2>1. u = FALSE /\ rag.retr = None /\ rag.id = None /\ live = None
    BY DEF OfficialInit, NoIndex, Serving
  <2> HIDE DEF u
  <2>2. [docs |-> rag.retr, label |-> rag.id, usable |-> u]
        = [docs |-> None, label |-> None, usable |-> FALSE]
    BY <2>1
  <2> QED
    BY <2>1, <2>2 DEF Served!Init, Served!NoIndex, u
<1>2. OfficialInv /\ [OfficialNext]_officialVars => [Served!Next]_<<live, Shown>>
  BY NextServed DEF ServedStep
<1>3. OfficialInv /\ [OfficialNext]_officialVars
      => [Served!Next]_<<live, [docs |-> rag.retr, label |-> rag.id,
                                usable |-> rag.status \in Serving]>>
  BY <1>2 DEF Shown
<1> QED
  BY <1>1, <1>3, OneBuilder, PTL DEF OfficialSpec, ImplementsServed, Served!Spec

(* A build that fails while an index is handed out leaves it there. *)
LEMMA FailingKeeps ==
  ASSUME OfficialInv, NEW b \in Builder, FailBuild(b), UNCHANGED live,
         preheat[b].pc \in {"docs", "build"}, FindActive # None
  PROVE  FindActive' # None
<1> DEFINE p == preheat[b].prev
<1>1. /\ rag.retr # None /\ rag.status \in Serving
      /\ rag.id = live /\ rag.fp = live /\ rag.retr = live
  BY DEF FindActive
<1>2. p.retr = rag.retr /\ p.id = rag.id /\ p.fp = rag.fp /\ p.status = rag.status
  BY <1>1 DEF OfficialInv, BuildKept
<1>3. CanReusePrevious(p)
  BY <1>1, <1>2 DEF CanReusePrevious
<1>4. rag'.retr = rag.retr /\ rag'.id = rag.id /\ rag'.fp = rag.fp /\ rag'.status = p.status
  BY <1>3, Failing DEF OfficialInv
<1> QED
  BY <1>1, <1>2, <1>4 DEF FindActive

KeptStep ==
  /\ FindActive # None /\ live' = live
  /\ ~follower'.restoring
  /\ \A b \in Builder : preheat[b].pc # "retention"
  => FindActive' # None

(* No step but a restart, an activation or a retention that fails takes a   *)
(* working index away.                                                     *)
LEMMA NextKept ==
  ASSUME OfficialInv, [OfficialNext]_officialVars
  PROVE  KeptStep
<1>1. ASSUME StartCollection PROVE KeptStep
  BY <1>1 DEF StartCollection, KeptStep, FindActive, apiVars
<1>2. ASSUME GiveUp PROVE KeptStep
  BY <1>2 DEF GiveUp, KeptStep, FindActive, apiVars
<1>3. ASSUME CooldownEnds PROVE KeptStep
  BY <1>3 DEF CooldownEnds, KeptStep, FindActive, apiVars
<1>4. ASSUME CompleteCollection PROVE KeptStep
  BY <1>4 DEF CompleteCollection, KeptStep, FindActive, apiVars
<1>5. ASSUME PublishFile PROVE KeptStep
  BY <1>5 DEF PublishFile, KeptStep, FindActive, apiVars
<1>6. ASSUME PublishArchive PROVE KeptStep
  BY <1>6 DEF PublishArchive, KeptStep, FindActive, apiVars
<1>7. ASSUME PublishPointer PROVE KeptStep
  BY <1>7 DEF PublishPointer, KeptStep, FindActive, apiVars
<1>8. ASSUME WeekPasses PROVE KeptStep
  BY <1>8 DEF WeekPasses, KeptStep, FindActive, apiVars
<1>9. ASSUME CollectorCrash PROVE KeptStep
  BY <1>9 DEF CollectorCrash, KeptStep, FindActive, apiVars
<1>10. ASSUME CollectorRestart PROVE KeptStep
  BY <1>10 DEF CollectorRestart, KeptStep, FindActive, apiVars
<1>11. ASSUME ReadCanonical PROVE KeptStep
  BY <1>11 DEF ReadCanonical, KeptStep, FindActive, collectorVars
<1>12. ASSUME CompareDocuments PROVE KeptStep
  BY <1>12 DEF CompareDocuments, KeptStep, FindActive, collectorVars
<1>13. ASSUME RepairFile PROVE KeptStep
  BY <1>13 DEF RepairFile, KeptStep, FindActive, collectorVars
<1>14. ASSUME RestoreSnapshot PROVE KeptStep
  <2>1. live = None
    BY <1>14 DEF RestoreSnapshot, OfficialInv, Restored
  <2> QED
    BY <2>1 DEF KeptStep, FindActive
<1>15. ASSUME NothingNew PROVE KeptStep
  BY <1>15 DEF NothingNew, KeptStep, FindActive, collectorVars
<1>16. ASSUME FollowerPreheat PROVE KeptStep
  <2>1. CASE UNCHANGED <<rag, lock, preheat>>
    BY <1>16, <2>1 DEF FollowerPreheat, KeptStep, FindActive
  <2>2. CASE Begin("follower", follower.snap)
    <3>1. /\ UNCHANGED live /\ rag'.retr = rag.retr /\ rag'.id = rag.id /\ rag'.fp = rag.fp
          /\ rag.retr # None => rag'.status = rag.status
      BY <1>16, <2>2, Beginning
      DEF FollowerPreheat, OfficialInv, OfficialTypeOK, FollowerState, Builder
    <3> QED
      BY <3>1 DEF KeptStep, FindActive
  <2> QED
    BY <1>16, <2>1, <2>2 DEF FollowerPreheat
<1>17. ASSUME RepairFails PROVE KeptStep
  BY <1>17 DEF RepairFails, KeptStep, FindActive, collectorVars
<1>18. ASSUME StartupPreheat PROVE KeptStep
  <2>1. CASE UNCHANGED <<rag, lock, preheat>>
    BY <1>18, <2>1 DEF StartupPreheat, KeptStep, FindActive
  <2>2. CASE Begin("startup", live)
    <3>1. /\ UNCHANGED live /\ rag'.retr = rag.retr /\ rag'.id = rag.id /\ rag'.fp = rag.fp
          /\ rag.retr # None => rag'.status = rag.status
      BY <1>18, <2>2, Beginning
      DEF StartupPreheat, OfficialInv, OfficialTypeOK, FollowerState, Builder
    <3> QED
      BY <3>1 DEF KeptStep, FindActive
  <2> QED
    BY <1>18, <2>1, <2>2 DEF StartupPreheat
<1>19. ASSUME ApiRestart PROVE KeptStep
  <2>1. follower'.restoring = TRUE
    BY <1>19 DEF ApiRestart
  <2> QED
    BY <2>1 DEF KeptStep
<1>20. ASSUME NEW b \in Builder, ValidateDocuments(b) PROVE KeptStep
  <2>0. OfficialTypeOK
    BY DEF OfficialInv
  <2>1. CASE FailBuild(b)
    BY <1>20, <2>0, <2>1, Validating, FailingKeeps DEF KeptStep
  <2>2. CASE ~FailBuild(b)
    <3>1. /\ UNCHANGED live /\ rag'.retr = rag.retr /\ rag'.id = rag.id /\ rag'.fp = rag.fp
          /\ rag'.status \in Serving \/ rag'.status = rag.status
      BY <1>20, <2>0, <2>2, Validating
    <3> QED
      BY <3>1 DEF KeptStep, FindActive
  <2> QED
    BY <2>1, <2>2
<1>21. ASSUME NEW b \in Builder, BuildIndex(b) PROVE KeptStep
  BY <1>21, Building DEF OfficialInv, KeptStep, FindActive
<1>22. ASSUME NEW b \in Builder, ActivateSnapshot(b) PROVE KeptStep
  BY <1>22, Activating DEF OfficialInv, KeptStep, FindActive
<1>23. ASSUME NEW b \in Builder, InstallRetriever(b) PROVE KeptStep
  <2>1. live = preheat[b].target
    BY <1>23 DEF InstallRetriever, OfficialInv, BuildKept, Installing
  <2> QED
    BY <1>23, <2>1, InstallingIndex DEF OfficialInv, KeptStep, FindActive
<1>24. ASSUME NEW b \in Builder, LabelIndex(b) PROVE KeptStep
  <2>1. /\ live = preheat[b].target /\ rag.retr = live /\ preheat[b].status \in Serving
    BY <1>24 DEF LabelIndex, OfficialInv, BuildKept, Installing
  <2> QED
    BY <1>24, <2>1, Labelling DEF OfficialInv, KeptStep, FindActive
<1>25. ASSUME NEW b \in Builder, CleanUp(b) PROVE KeptStep
  BY <1>25 DEF CleanUp, KeptStep, FindActive
<1>26. ASSUME NEW b \in Builder, BuildFails(b) PROVE KeptStep
  BY <1>26, FailingKeeps DEF BuildFails, KeptStep
<1>27. ASSUME NEW b \in Builder, CleanUpFails(b) PROVE KeptStep
  BY <1>27 DEF CleanUpFails, KeptStep
<1>28. CASE UNCHANGED officialVars
  BY <1>28 DEF officialVars, collectorVars, apiVars, KeptStep, FindActive
<1> QED
  BY <1>1, <1>2, <1>3, <1>4, <1>5, <1>6, <1>7, <1>8, <1>9, <1>10, <1>11, <1>12, <1>13,
     <1>14, <1>15, <1>16, <1>17, <1>18, <1>19, <1>20, <1>21, <1>22, <1>23, <1>24,
     <1>25, <1>26, <1>27, <1>28
  DEF OfficialNext, CollectorNext, FollowerNext, PreheatNext, PreheatStep

(* An index is never left with the label of another snapshot, and a build  *)
(* that fails before it published anything takes no working index away.    *)
THEOREM TruthfulService == OfficialSpec => ServiceTruthful
<1>1. OfficialInv => OfficialTypeOK /\ IndexLabelled
  BY DEF OfficialInv
<1>2. OfficialInv /\ [OfficialNext]_officialVars => [KeptStep]_officialVars
  BY NextKept
<1>3. OfficialSpec => [](OfficialTypeOK /\ IndexLabelled)
  BY <1>1, OneBuilder, PTL
<1>4. OfficialSpec => [][KeptStep]_officialVars
  BY <1>2, OneBuilder, PTL DEF OfficialSpec
<1>5. OfficialSpec => ServiceKept
  BY <1>4 DEF ServiceKept, KeptStep
<1> QED
  BY <1>3, <1>5, PTL DEF ServiceTruthful
===============================================================================
