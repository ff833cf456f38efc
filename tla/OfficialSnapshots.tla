-------------------------- MODULE OfficialSnapshots --------------------------
(***************************************************************************)
(* The weekly official snapshot: the collector process that publishes it   *)
(* as a row of files, and an API process that follows those files and      *)
(* prepares a retrieval index for the snapshot it serves.                  *)
(*                                                                         *)
(* A snapshot is the number of its publication; a file is the number of    *)
(* the snapshot it was derived from, None when it does not exist.  Every   *)
(* file is replaced atomically (snapshots/storage.py), so a step writes    *)
(* one file; the order of the files is the order of the code.              *)
(***************************************************************************)
EXTENDS Naturals, FiniteSets, FiniteSetsExt

CONSTANTS
  MaxSnapshot,      \* bound: snapshots that complete collection
  MaxFaults,        \* bound: crashes, failed writes, failed builds, weeks waited
  PersistentIndex   \* RAG_INDEX_MODE is not "memory": retention cleans up

ASSUME BoundsAssumption == MaxSnapshot \in Nat /\ MaxFaults \in Nat
ASSUME ModeAssumption == PersistentIndex \in BOOLEAN

None == 0
Snapshots == 1 .. MaxSnapshot
Known == {None} \cup Snapshots

VARIABLES
  files,       \* the derived files, the canonical snapshot and the pointer
  archives,    \* snapshots whose archive has its manifest
  collector,   \* the collector process
  due,         \* the published snapshot is a week old
  follower,    \* the API's loop that loads the published snapshot
  starting,    \* the API's start-up preheat has not begun
  live,        \* snapshot every structured view of the API shows
  rag,         \* published index: its documents, label, fingerprint, status
  lock,        \* preheat task that holds rag_preheat_lock
  preheat,     \* the two preheat tasks
  faults       \* faults so far

collectorVars == <<collector, due>>
apiVars == <<follower, starting, live, rag, lock, preheat>>
officialVars == <<files, archives, collectorVars, apiVars, faults>>

Serving == {"ready", "bm25_only"}
RagStatus == Serving \cup {"not_ready", "building", "failed"}
Builder == {"startup", "follower"}
NoIndex == [retr |-> None, id |-> None, fp |-> None, status |-> "not_ready"]
NoBuild == [pc |-> "idle", target |-> None, status |-> "not_ready", prev |-> NoIndex]

Fault == faults < MaxFaults /\ faults' = faults + 1

-----------------------------------------------------------------------------
(* The collector.                                                          *)

(* ensure_live_snapshot, called when the loop wakes up.  The snapshot a     *)
(* collector holds has no raw battles, whether it was just published or    *)
(* restored, so it never counts as a Path of Legend snapshot and the gate  *)
(* lets every call through that no cooldown stops: only the loop's sleep   *)
(* keeps it from collecting again before the week is over.                 *)
StartCollection ==
  /\ collector.pc = "idle"
  /\ ~collector.cooldown
  /\ collector.asleep => due
  /\ collector' = [collector EXCEPT !.pc = "collecting"]
  /\ UNCHANGED <<files, archives, due, apiVars, faults>>

(* Incomplete, exhausted or failed collections and failed writes all end   *)
(* in a cooldown; the files written so far stay.                           *)
GiveUp ==
  /\ collector.pc \notin {"idle", "down"}
  /\ Fault
  /\ collector' = [collector EXCEPT !.pc = "idle", !.cooldown = TRUE,
                                    !.asleep = FALSE]
  /\ UNCHANGED <<files, archives, due, apiVars>>

CooldownEnds ==
  /\ collector.cooldown
  /\ collector' = [collector EXCEPT !.cooldown = FALSE]
  /\ UNCHANGED <<files, archives, due, apiVars, faults>>

CompleteCollection ==
  /\ collector.pc = "collecting"
  /\ collector.snap < MaxSnapshot
  /\ collector' = [collector EXCEPT !.pc = "cards", !.snap = @ + 1]
  /\ UNCHANGED <<files, archives, due, apiVars, faults>>

NextFile == [cards |-> "decks", decks |-> "docs", docs |-> "archive",
             canonical |-> "pointer"]

PublishFile ==
  /\ collector.pc \in DOMAIN NextFile
  /\ files' = [files EXCEPT ![collector.pc] = collector.snap]
  /\ collector' = [collector EXCEPT !.pc = NextFile[@]]
  /\ UNCHANGED <<archives, due, apiVars, faults>>

(* The manifest is the archive's last file.                                *)
PublishArchive ==
  /\ collector.pc = "archive"
  /\ archives' = archives \cup {collector.snap}
  /\ collector' = [collector EXCEPT !.pc = "canonical"]
  /\ UNCHANGED <<files, due, apiVars, faults>>

(* With the pointer the snapshot is published and the loop sleeps a week.  *)
PublishPointer ==
  /\ collector.pc = "pointer"
  /\ files' = [files EXCEPT !.pointer = collector.snap]
  /\ due' = FALSE
  /\ collector' = [collector EXCEPT !.pc = "idle", !.asleep = TRUE]
  /\ UNCHANGED <<archives, apiVars, faults>>

WeekPasses ==
  /\ ~due
  /\ Fault
  /\ due' = TRUE
  /\ UNCHANGED <<files, archives, collector, apiVars>>

CollectorCrash ==
  /\ collector.pc # "down"
  /\ Fault
  /\ collector' = [collector EXCEPT !.pc = "down"]
  /\ UNCHANGED <<files, archives, due, apiVars>>

(* A restarted collector restores what it published and wakes up at once.  *)
CollectorRestart ==
  /\ collector.pc = "down"
  /\ collector' = [collector EXCEPT !.pc = "idle", !.cooldown = FALSE, !.asleep = FALSE]
  /\ UNCHANGED <<files, archives, due, apiVars, faults>>

-----------------------------------------------------------------------------
(* The API process: load_published_snapshot.                               *)

ReadCanonical ==
  /\ follower.pc = "load"
  /\ follower' = [follower EXCEPT !.pc = IF files.canonical = None THEN "loaded"
                                                                   ELSE "compare",
                                  !.snap = files.canonical]
  /\ UNCHANGED <<files, archives, collectorVars, starting, live, rag, lock, preheat, faults>>

(* The documents on disk are compared with those of the snapshot just      *)
(* read; when they differ, every derived file and the snapshot itself are  *)
(* written back.                                                           *)
CompareDocuments ==
  /\ follower.pc = "compare"
  /\ follower' = [follower EXCEPT !.pc = IF files.docs = follower.snap
                                         THEN "loaded" ELSE "cards"]
  /\ UNCHANGED <<files, archives, collectorVars, starting, live, rag, lock, preheat, faults>>

NextRepair == [cards |-> "decks", decks |-> "docs", docs |-> "canonical",
               canonical |-> "loaded"]

RepairFile ==
  /\ follower.pc \in DOMAIN NextRepair
  /\ files' = [files EXCEPT ![follower.pc] = follower.snap]
  /\ follower' = [follower EXCEPT !.pc = NextRepair[@]]
  /\ UNCHANGED <<archives, collectorVars, starting, live, rag, lock, preheat, faults>>

(* A file that cannot be replaced raises out of the loop, and its task is   *)
(* gone; while starting up the process ends instead.                       *)
RepairFails ==
  /\ follower.pc \in DOMAIN NextRepair /\ ~follower.restoring
  /\ Fault
  /\ follower' = [follower EXCEPT !.pc = "dead"]
  /\ UNCHANGED <<files, archives, collectorVars, starting, live, rag, lock, preheat>>

(* Start-up: the loaded snapshot becomes the live one, a preheat task is   *)
(* created for it and the follower begins its first round.                 *)
RestoreSnapshot ==
  /\ follower.pc = "loaded" /\ follower.restoring
  /\ live' = follower.snap
  /\ starting' = (follower.snap # None)
  /\ follower' = [follower EXCEPT !.pc = "load", !.restoring = FALSE]
  /\ UNCHANGED <<files, archives, collectorVars, rag, lock, preheat, faults>>

(* Seeded fault: only the identity of the snapshot shown is compared.            *)
NewlyPublishedById == follower.snap # None /\ follower.snap # live

NewlyPublished ==
  follower.snap # None /\ (follower.snap # live \/ follower.snap # rag.fp)

NothingNew ==
  /\ follower.pc = "loaded" /\ ~follower.restoring
  /\ ~NewlyPublished
  /\ follower' = [follower EXCEPT !.pc = "load"]
  /\ UNCHANGED <<files, archives, collectorVars, starting, live, rag, lock, preheat, faults>>

-----------------------------------------------------------------------------
(* preheat_rag_retriever, run in a worker thread by the follower, which    *)
(* activates its snapshot, or once at start-up for the restored snapshot.  *)

Begin(b, target) ==
  /\ lock' = b
  /\ preheat' = [preheat EXCEPT ![b] = [pc |-> "docs", target |-> target,
                                       status |-> "not_ready", prev |-> rag]]
  /\ rag' = [rag EXCEPT !.status = IF rag.retr = None THEN "building" ELSE @]

(* Seeded fault: the lock is not looked at. *)
LockIgnored == TRUE

(* The lock is not waited for: a preheat that finds it taken gives up.     *)
LockFree == lock = "free"

FollowerPreheat ==
  /\ follower.pc = "loaded" /\ ~follower.restoring /\ NewlyPublished
  /\ IF LockFree
     THEN /\ Begin("follower", follower.snap)
          /\ follower' = [follower EXCEPT !.pc = "preheating"]
     ELSE /\ follower' = [follower EXCEPT !.pc = "load"]
          /\ UNCHANGED <<rag, lock, preheat>>
  /\ UNCHANGED <<files, archives, collectorVars, starting, live, faults>>

StartupPreheat ==
  /\ starting
  /\ starting' = FALSE
  /\ IF LockFree THEN Begin("startup", live)
                 ELSE UNCHANGED <<rag, lock, preheat>>
  /\ UNCHANGED <<files, archives, collectorVars, follower, live, faults>>

(* The build ends: the lock is free and the follower's round is over.      *)
Finish(b) ==
  /\ lock' = "free"
  /\ preheat' = [preheat EXCEPT ![b] = NoBuild]
  /\ follower' = [follower EXCEPT !.pc = IF b = "follower" THEN "load" ELSE @]

(* Seeded fault: a failed build never falls back to the previous index. *)
NeverReusePrevious(p) == FALSE

CanReusePrevious(p) ==
  /\ p.status \in Serving /\ p.retr # None /\ p.id # None /\ p.fp # None
  /\ live = p.id /\ live = p.fp /\ p.retr = p.fp

FailBuild(b) ==
  /\ rag' = [rag EXCEPT !.status = IF CanReusePrevious(preheat[b].prev)
                                   THEN preheat[b].prev.status ELSE "failed"]
  /\ Finish(b)

Reusable(b) ==
  /\ b = "startup"
  /\ preheat[b].target = rag.retr
  /\ preheat[b].target = rag.id
  /\ preheat[b].target = rag.fp

(* The documents file is read again and must be the target's; the index    *)
(* that already is the target's is kept unless the snapshot is activated.  *)
ValidateDocuments(b) ==
  /\ preheat[b].pc = "docs"
  /\ IF files.docs # preheat[b].target THEN FailBuild(b)
     ELSE IF Reusable(b)
     THEN /\ \E status \in Serving : rag' = [rag EXCEPT !.status = status]
          /\ Finish(b)
     ELSE /\ preheat' = [preheat EXCEPT ![b].pc = "build"]
          /\ UNCHANGED <<rag, lock, follower>>
  /\ UNCHANGED <<files, archives, collectorVars, starting, live, faults>>

(* Seeded fault: the index is published before its snapshot is activated. *)
BuildIndexUnactivated(b) ==
  /\ preheat[b].pc = "build"
  /\ \E status \in Serving :
       preheat' = [preheat EXCEPT ![b].pc = "install", ![b].status = status]
  /\ UNCHANGED <<files, archives, collectorVars, follower, starting, live, rag, lock, faults>>

(* The index is built, dense or lexical only, and passes the quality gate. *)
BuildIndex(b) ==
  /\ preheat[b].pc = "build"
  /\ \E status \in Serving :
       preheat' = [preheat EXCEPT ![b].pc = IF b = "follower" THEN "activate" ELSE "install",
                                  ![b].status = status]
  /\ UNCHANGED <<files, archives, collectorVars, follower, starting, live, rag, lock, faults>>

BuildFails(b) ==
  /\ preheat[b].pc = "build"
  /\ Fault
  /\ FailBuild(b)
  /\ UNCHANGED <<files, archives, collectorVars, starting, live>>

ActivateSnapshot(b) ==
  /\ preheat[b].pc = "activate"
  /\ live' = preheat[b].target
  /\ preheat' = [preheat EXCEPT ![b].pc = "install"]
  /\ UNCHANGED <<files, archives, collectorVars, follower, starting, rag, lock, faults>>

(* publish_rag_candidate_index assigns the retriever, then its snapshot,   *)
(* its fingerprint and the status.                                         *)
InstallRetriever(b) ==
  /\ preheat[b].pc = "install"
  /\ rag' = [rag EXCEPT !.retr = preheat[b].target]
  /\ preheat' = [preheat EXCEPT ![b].pc = "label"]
  /\ UNCHANGED <<files, archives, collectorVars, follower, starting, live, lock, faults>>

LabelIndex(b) ==
  /\ preheat[b].pc = "label"
  /\ rag' = [rag EXCEPT !.id = preheat[b].target, !.fp = preheat[b].target,
                        !.status = preheat[b].status]
  /\ IF PersistentIndex
     THEN /\ preheat' = [preheat EXCEPT ![b].pc = "retention"]
          /\ UNCHANGED <<lock, follower>>
     ELSE Finish(b)
  /\ UNCHANGED <<files, archives, collectorVars, starting, live, faults>>

(* cleanup_snapshot_retention: the active archive and the newest other one.*)
Retained(active) ==
  LET others == archives \ {active}
  IN (archives \cap {active}) \cup (IF others = {} THEN {} ELSE {Max(others)})

CleanUp(b) ==
  /\ preheat[b].pc = "retention"
  /\ archives' = Retained(preheat[b].target)
  /\ Finish(b)
  /\ UNCHANGED <<files, collectorVars, starting, live, rag, faults>>

(* An archive that cannot be removed raises after the index is published.  *)
CleanUpFails(b) ==
  /\ preheat[b].pc = "retention"
  /\ Fault
  /\ FailBuild(b)
  /\ UNCHANGED <<files, archives, collectorVars, starting, live>>

(* A restarted API forgets everything and loads the published snapshot.    *)
ApiRestart ==
  /\ Fault
  /\ follower' = [pc |-> "load", snap |-> None, restoring |-> TRUE]
  /\ starting' = FALSE
  /\ live' = None
  /\ rag' = NoIndex
  /\ lock' = "free"
  /\ preheat' = [b \in Builder |-> NoBuild]
  /\ UNCHANGED <<files, archives, collectorVars>>

-----------------------------------------------------------------------------
OfficialInit ==
  /\ files = [cards |-> None, decks |-> None, docs |-> None,
              canonical |-> None, pointer |-> None]
  /\ archives = {}
  /\ collector = [pc |-> "idle", snap |-> None, asleep |-> FALSE, cooldown |-> FALSE]
  /\ due = FALSE
  /\ follower = [pc |-> "load", snap |-> None, restoring |-> TRUE]
  /\ starting = FALSE
  /\ live = None
  /\ rag = NoIndex
  /\ lock = "free"
  /\ preheat = [b \in Builder |-> NoBuild]
  /\ faults = 0

CollectorNext ==
  \/ StartCollection \/ GiveUp \/ CooldownEnds \/ CompleteCollection
  \/ PublishFile \/ PublishArchive \/ PublishPointer
  \/ WeekPasses \/ CollectorCrash \/ CollectorRestart

FollowerNext ==
  \/ ReadCanonical \/ CompareDocuments \/ RepairFile \/ RestoreSnapshot
  \/ NothingNew \/ FollowerPreheat

PreheatStep(b) ==
  \/ ValidateDocuments(b) \/ BuildIndex(b) \/ ActivateSnapshot(b)
  \/ InstallRetriever(b) \/ LabelIndex(b) \/ CleanUp(b)

PreheatNext ==
  \E b \in Builder : PreheatStep(b) \/ BuildFails(b) \/ CleanUpFails(b)

OfficialNext ==
  \/ CollectorNext \/ FollowerNext \/ RepairFails
  \/ StartupPreheat \/ PreheatNext \/ ApiRestart

(* The follower polls for ever and the worker thread finishes what it      *)
(* began; nothing is assumed of the collector.                             *)
OfficialSpec ==
  /\ OfficialInit /\ [][OfficialNext]_officialVars
  /\ WF_officialVars(FollowerNext)
  /\ WF_officialVars(StartupPreheat)
  /\ \A b \in Builder : WF_officialVars(PreheatStep(b))

-----------------------------------------------------------------------------
CollectorState ==
  [pc : {"idle", "down", "collecting", "cards", "decks", "docs", "archive",
         "canonical", "pointer"},
   snap : Known, asleep : BOOLEAN, cooldown : BOOLEAN]

FollowerState ==
  [pc : {"load", "compare", "cards", "decks", "docs", "canonical", "loaded", "preheating",
         "dead"},
   snap : Known, restoring : BOOLEAN]

IndexState == [retr : Known, id : Known, fp : Known, status : RagStatus]

BuildState ==
  [pc : {"idle", "docs", "build", "activate", "install", "label", "retention"},
   target : Known, status : RagStatus, prev : IndexState]

(* find_active_rag_retriever: the snapshot whose index a request gets.     *)
FindActive ==
  IF /\ rag.retr # None /\ rag.status \in Serving
     /\ rag.id = live /\ rag.fp = live /\ rag.retr = live
  THEN rag.retr ELSE None

(* State of the files, the two processes and the index. *)
OfficialTypeOK ==
  /\ files \in [{"cards", "decks", "docs", "canonical", "pointer"} -> Known]
  /\ archives \subseteq Snapshots
  /\ collector \in CollectorState
  /\ due \in BOOLEAN
  /\ follower \in FollowerState
  /\ starting \in BOOLEAN
  /\ live \in Known
  /\ rag \in IndexState
  /\ lock \in Builder \cup {"free"}
  /\ preheat \in [Builder -> BuildState]
  /\ faults \in 0 .. MaxFaults

(* An index is never left labelled with another snapshot than the one its  *)
(* documents come from, although two tasks build and two values are set:   *)
(* the lock of preheat_rag_retriever keeps the builds apart.               *)
IndexLabelled ==
  (\A b \in Builder : preheat[b].pc # "label") => rag.id = rag.retr /\ rag.fp = rag.retr

(* What makes that inductive.  The collector only publishes what it has;   *)
Collected == collector.pc \notin {"idle", "down", "collecting"} => collector.snap # None

(* only the preheat task that took the lock builds, and never before the   *)
(* process has restored its snapshot;                                      *)
OneBuild == \A b \in Builder : preheat[b].pc # "idle" <=> lock = b

Restored ==
  /\ follower.restoring => live = None /\ ~starting /\ lock = "free"
  /\ starting => live # None

(* what it builds for is the snapshot shown from the activation on, and    *)
(* until it installs its index the one that was there when it began stays. *)
Installing == {"install", "label", "retention"}

BuildKept(b) ==
  LET build == preheat[b]
  IN /\ build.pc # "idle" => build.target # None
     /\ build.pc # "idle" /\ (b = "startup" \/ build.pc \in Installing) => live = build.target
     /\ build.pc \in {"activate"} \cup Installing => build.status \in Serving
     /\ build.pc \in {"label", "retention"} => rag.retr = build.target
     /\ build.pc \in {"docs", "build", "activate", "install"} =>
          /\ rag.retr = build.prev.retr /\ rag.id = build.prev.id /\ rag.fp = build.prev.fp
          /\ rag.retr # None => rag.status = build.prev.status

OfficialInv ==
  /\ OfficialTypeOK /\ Collected /\ OneBuild /\ Restored
  /\ \A b \in Builder : BuildKept(b)
  /\ IndexLabelled

(* What the API shows and which index it hands out change the way the      *)
(* abstract served snapshot does.                                          *)
Served == INSTANCE ServedSnapshot WITH
  Snapshot <- Snapshots, NoSnapshot <- None,
  index <- [docs |-> rag.retr, label |-> rag.id, usable |-> rag.status \in Serving]

ImplementsServed == Served!Spec

(* A preheat that fails before it published anything takes no working      *)
(* index away: what requests get is lost only when a snapshot is activated,*)
(* when the process restarts or when the retention after it fails.         *)
ServiceKept ==
  [][/\ FindActive # None /\ live' = live
     /\ ~follower'.restoring
     /\ \A b \in Builder : preheat[b].pc # "retention"
     => FindActive' # None]_officialVars

(* Both of these: the index is the one its label names, and stays.         *)
ServiceTruthful == [](OfficialTypeOK /\ IndexLabelled) /\ ServiceKept

(* A retention that fails marks an index failed that is published and      *)
(* aligned; the follower sees nothing new and never builds another.        *)
LostToRetention == rag.status = "failed" /\ rag.retr # None /\ rag.retr = live

(* While the follower lives, the API ends up serving the canonical         *)
(* snapshot, whatever the collector left half published, whoever failed    *)
(* and however often the process was restarted.                            *)
ServesPublished ==
  \/ <>[](FindActive = files.canonical)
  \/ <>[](follower.pc = "dead")
  \/ <>[]LostToRetention

(* "API processes poll atomic snapshot files": the canonical snapshot is   *)
(* only ever replaced by a newer one.                                      *)
CanonicalNeverRegresses == [][files'.canonical >= files.canonical]_files

(* "Load once, then refresh a complete official dataset every week."       *)
NoEarlyRecollection ==
  [][collector.pc = "idle" /\ collector'.pc = "collecting"
       => due \/ files.pointer = None \/ files.pointer # collector.snap]_officialVars
=============================================================================
