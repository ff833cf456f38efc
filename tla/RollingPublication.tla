------------------------- MODULE RollingPublication -------------------------
(***************************************************************************)
(* Collection lanes, the corpus writer lock and the publication of         *)
(* snapshot groups (src/clashroyale_agent/collection/rolling_collector.py  *)
(* with rolling_materializer.py, publication_queue.py and                  *)
(* collector_staging.py).                                                  *)
(*                                                                         *)
(* Four processes share one data directory: a collector for each lane, the *)
(* --retry-publication-only run and the publication queue consumer.  Every *)
(* action is what a process does between two durable effects, so a crash   *)
(* may fall between any two of them.  A batch carries the facts it         *)
(* observed; the facts themselves are the subject of RollingCorpus.        *)
(***************************************************************************)
EXTENDS CorpusWindow, Sequences

CONSTANTS
  BatchId,     \* identifiers handed out by unique_batch_id
  NoBatch,     \* "no batch" in a status file or a job
  NoGroup,     \* no active_snapshot_group.json, no candidate
  NoProc,      \* nobody holds writer.lock
  MaxTime,     \* bound on the clock
  MaxFaults    \* bound on crashes and failing steps together

Procs == Lanes \cup {"retry", "queue"}

ASSUME PublicationAssumption ==
  /\ NoBatch \notin BatchId
  /\ NoProc \notin Procs
  /\ MaxTime \in Nat
  /\ MaxFaults \in Nat

Time == 0 .. MaxTime
Group == [at : Time, content : SUBSET BatchId]

ASSUME NoGroupAssumption == NoGroup \notin Group

VARIABLES
  clock,        \* the last instant any process read
  faults,       \* crashes and failures so far
  lock,         \* holder of corpus/writer.lock
  pc,           \* where each process is
  task,         \* what it is doing: collect, maintain, retry, consume
  now,          \* the timestamp it works with
  job,          \* the batch it imported, repairs or took from the queue
  outcome,      \* result of its publication attempt
  mode,         \* collection_batches.batch_type
  status,       \* collection_batches.status
  completed,    \* collection_batches.completed_at
  cutShort,     \* history: batches that a run with an older timestamp expired
  stage,        \* rolling_lanes/<mode>/active_batch.json exists
  laneStatus,   \* corpus/collection_status.<mode>.json
  globalStatus, \* corpus/collection_status.json
  queue,        \* corpus/pending_publications.json
  groups,       \* complete directories under snapshot_groups
  candidate,    \* the dot-directory being built
  active,       \* active_snapshot_group.json
  published,    \* history: batches contained in a group that was activated
  interrupted   \* history: batches whose collector died or failed before
                \* it recorded their publication

corpusVars == <<mode, status, completed, cutShort>>
groupVars  == <<groups, candidate, active, published>>
fileVars   == <<stage, laneStatus, globalStatus, queue>>
procVars   == <<lock, pc, task, now, job, outcome>>
vars == <<clock, faults, procVars, corpusVars, fileVars, groupVars, interrupted>>

-----------------------------------------------------------------------------

(* The program counters at which the writer lock is held. *)
Importing   == {"import", "finalize"}
Building    == {"build", "prune", "install", "switch", "finish"}
Publishing  == {"begin"} \cup Building
Settling    == {"enqueue", "reportLane", "reportGlobal", "discard", "repairGlobal",
                "repairCheck", "repairLane", "dequeue", "release"}
Critical    == Importing \cup {"retain"} \cup Publishing \cup Settling
Outside     == {"idle", "fetch", "wait", "enter", "error"}
PC          == Critical \cup Outside

StatusState == {"none", "fetching", "waiting", "processing", "accepted",
                "accepted_publication_failed", "rejected", "error"}
StatusFile  == [state : StatusState, batch : BatchId \cup {NoBatch}]
BatchStatus == {"absent", "collecting", "conflicted", "accepted", "rejected", "expired"}

TypeOK ==
  /\ clock \in Time
  /\ faults \in 0 .. MaxFaults
  /\ lock \in Procs \cup {NoProc}
  /\ pc \in [Procs -> PC]
  /\ task \in [Procs -> {"none", "collect", "maintain", "retry", "consume"}]
  /\ now \in [Procs -> Time]
  /\ job \in [Procs -> BatchId \cup {NoBatch}]
  /\ outcome \in [Procs -> {"none", "published", "failed"}]
  /\ mode \in [BatchId -> Lanes]
  /\ status \in [BatchId -> BatchStatus]
  /\ completed \in [BatchId -> Time]
  /\ cutShort \subseteq BatchId
  /\ stage \in [Lanes -> BOOLEAN]
  /\ laneStatus \in [Lanes -> StatusFile]
  /\ globalStatus \in StatusFile
  /\ queue \in Seq(BatchId)
  /\ groups \subseteq Group
  /\ candidate \in Group \cup {NoGroup}
  /\ active \in Group \cup {NoGroup}
  /\ published \subseteq BatchId
  /\ interrupted \subseteq BatchId

-----------------------------------------------------------------------------

Accepted == {b \in BatchId : status[b] = "accepted"}

(* The batches expire_and_prune keeps when it runs with timestamp t. *)
Retained(t) == RetainedBatches(Accepted, mode, completed, t)

(* What the thirty scopes of a group built at t are computed from. *)
Content(t) == {b \in Accepted : Inside(completed[b], t)}

RecentWeekly(t) == \E b \in Content(t) : mode[b] = "weekly_expanded"

(* prune_group_versions(keep = 2): the new identifier and the most recently *)
(* published complete directory are retained; the pointer is not consulted. *)
NewestGroups == {g \in groups : \A h \in groups : h.at <= g.at}
(* Seeded fault: only the new identifier is retained. *)
RemovableAll == groups

Removable == {g \in groups : \E h \in NewestGroups : g.at < h.at}

Failed(s) == s.state = "accepted_publication_failed"

(* pending_publications.json: enqueue() keeps its entries distinct. *)
Queued(b) == \E i \in 1 .. Len(queue) : queue[i] = b

Without(q, b) ==
  IF \A i \in 1 .. Len(q) : q[i] # b
  THEN q
  ELSE LET i == CHOOSE j \in 1 .. Len(q) : q[j] = b
       IN  SubSeq(q, 1, i - 1) \o SubSeq(q, i + 1, Len(q))

Goto(p, l) == pc' = [pc EXCEPT ![p] = l]
Fault == faults < MaxFaults /\ faults' = faults + 1

(* datetime.now(): strictly later than every instant read before. *)
ReadClock(p) ==
  \E t \in Time : /\ t > clock
                  /\ clock' = t
                  /\ now' = [now EXCEPT ![p] = t]

-----------------------------------------------------------------------------
(* Processes become idle; whatever they held in memory is gone. *)

Finished(p) ==
  /\ Goto(p, "idle")
  /\ task' = [task EXCEPT ![p] = "none"]
  /\ now' = [now EXCEPT ![p] = 0]
  /\ job' = [job EXCEPT ![p] = NoBatch]
  /\ outcome' = [outcome EXCEPT ![p] = "none"]

SetLaneStatus(m, state, b) ==
  laneStatus' = [laneStatus EXCEPT ![m] = [state |-> state, batch |-> b]]

Unlock(p) == lock' = IF lock = p THEN NoProc ELSE lock

Init ==
  /\ clock = 0
  /\ faults = 0
  /\ lock = NoProc
  /\ pc = [p \in Procs |-> "idle"]
  /\ task = [p \in Procs |-> "none"]
  /\ now = [p \in Procs |-> 0]
  /\ job = [p \in Procs |-> NoBatch]
  /\ outcome = [p \in Procs |-> "none"]
  /\ mode = [b \in BatchId |-> "daily_ranked"]
  /\ status = [b \in BatchId |-> "absent"]
  /\ completed = [b \in BatchId |-> 0]
  /\ cutShort = {}
  /\ stage = [m \in Lanes |-> FALSE]
  /\ laneStatus = [m \in Lanes |-> [state |-> "none", batch |-> NoBatch]]
  /\ globalStatus = [state |-> "none", batch |-> NoBatch]
  /\ queue = << >>
  /\ groups = {}
  /\ candidate = NoGroup
  /\ active = NoGroup
  /\ published = {}
  /\ interrupted = {}

-----------------------------------------------------------------------------
(* collect(): fetch into the lane's workspace without the lock, then merge. *)

(* Lanes between their start and unique_batch_id. *)
Collecting == {p \in Lanes : pc[p] \in {"fetch", "wait", "import"}}

(* _prepare_lane_stage resumes the tracked workspace or creates one.  The *)
(* first conjunct is the bound of the model: an identifier is left.       *)
StartCollect(p) ==
  /\ Cardinality(Collecting) < Cardinality({b \in BatchId : status[b] = "absent"})
  /\ pc[p] = "idle"
  /\ stage' = [stage EXCEPT ![p] = TRUE]
  /\ SetLaneStatus(p, "fetching", NoBatch)
  /\ Goto(p, "fetch")
  /\ task' = [task EXCEPT ![p] = "collect"]
  /\ UNCHANGED <<clock, faults, lock, now, job, outcome, corpusVars, globalStatus,
                 queue, groupVars, interrupted>>

(* completed_at is read here, before the wait for the writer lock. *)
FetchDone(p) ==
  /\ pc[p] = "fetch"
  /\ ReadClock(p)
  /\ Goto(p, "wait")
  /\ UNCHANGED <<faults, lock, task, job, outcome, corpusVars, fileVars, groupVars,
                 interrupted>>

(* Seeded fault: the merge does not look at the lock. *)
AcquireMergeUnlocked(p) ==
  /\ pc[p] = "wait"
  /\ lock' = p
  /\ Goto(p, "import")
  /\ UNCHANGED <<clock, faults, task, now, job, outcome, corpusVars, fileVars,
                 groupVars, interrupted>>

(* Seeded fault: the merge lets the publication queue drain first. *)
AcquireMergeYielding(p) ==
  /\ pc[p] = "wait"
  /\ lock = NoProc
  /\ queue = << >>
  /\ lock' = p
  /\ Goto(p, "import")
  /\ UNCHANGED <<clock, faults, task, now, job, outcome, corpusVars, fileVars,
                 groupVars, interrupted>>

AcquireMerge(p) ==
  /\ pc[p] = "wait"
  /\ lock = NoProc
  /\ lock' = p
  /\ Goto(p, "import")
  /\ UNCHANGED <<clock, faults, task, now, job, outcome, corpusVars, fileVars,
                 groupVars, interrupted>>

(* The lock is busy: report it and poll again five seconds later. *)
PollBusy(p) ==
  /\ pc[p] = "wait"
  /\ lock # NoProc
  /\ SetLaneStatus(p, "waiting", NoBatch)
  /\ UNCHANGED <<clock, faults, procVars, corpusVars, stage, globalStatus, queue,
                 groupVars, interrupted>>

(* Two hours later it still is: exit 4, the stage is kept. *)
MergeDeferred(p) ==
  /\ pc[p] = "wait"
  /\ lock # NoProc
  /\ Finished(p)
  /\ UNCHANGED <<clock, faults, lock, corpusVars, fileVars, groupVars, interrupted>>

(* Seeded fault: an identifier that is already taken is used again. *)
ImportReusingIdentifier(p) ==
  /\ pc[p] = "import"
  /\ \E b \in BatchId, s \in {"collecting", "conflicted"} :
       /\ status' = [status EXCEPT ![b] = s]
       /\ mode' = [mode EXCEPT ![b] = p]
       /\ job' = [job EXCEPT ![p] = b]
  /\ SetLaneStatus(p, "processing", NoBatch)
  /\ Goto(p, "finalize")
  /\ UNCHANGED <<clock, faults, lock, task, now, outcome, completed, cutShort, stage,
                 globalStatus, queue, groupVars, interrupted>>

(* unique_batch_id and import_workspace_batch; a conflicting fact marks the batch. *)
Import(p) ==
  /\ pc[p] = "import"
  /\ \E b \in BatchId, s \in {"collecting", "conflicted"} :
       /\ status[b] = "absent"
       /\ status' = [status EXCEPT ![b] = s]
       /\ mode' = [mode EXCEPT ![b] = p]
       /\ job' = [job EXCEPT ![p] = b]
  /\ SetLaneStatus(p, "processing", NoBatch)
  /\ Goto(p, "finalize")
  /\ UNCHANGED <<clock, faults, lock, task, now, outcome, completed, cutShort, stage,
                 globalStatus, queue, groupVars, interrupted>>

(* finalize_batch: a conflicted batch never passes. *)
Finalize(p) ==
  /\ pc[p] = "finalize"
  /\ \E s \in {"accepted", "rejected"} :
       /\ status[job[p]] = "conflicted" => s = "rejected"
       /\ status' = [status EXCEPT ![job[p]] = s]
  /\ completed' = [completed EXCEPT ![job[p]] = now[p]]
  /\ Goto(p, "retain")
  /\ UNCHANGED <<clock, faults, lock, task, now, job, outcome, mode, cutShort, fileVars,
                 groupVars, interrupted>>

(* The accepted batches whose time lies after t. *)
Later(t) == {b \in Accepted : completed[b] > t}

(* expire_and_prune with the process's own timestamp, then publication    *)
(* unless the lane's batch was rejected.  To the half-open window a batch *)
(* of a later time is as much outside as one that is too old.             *)
Retain(p) ==
  /\ pc[p] = "retain"
  /\ status' = [b \in BatchId |-> IF b \in Accepted \ Retained(now[p])
                                  THEN "expired" ELSE status[b]]
  /\ cutShort' = cutShort \cup Later(now[p])
  /\ Goto(p, IF task[p] = "collect" /\ status[job[p]] = "rejected"
             THEN "reportLane" ELSE "begin")
  /\ UNCHANGED <<clock, faults, lock, task, now, job, outcome, mode, completed,
                 fileVars, groupVars, interrupted>>

-----------------------------------------------------------------------------
(* build_snapshot_group(): called with the lock held by every process. *)

(* Seeded faults: the failed publication is not queued, or queued by every run. *)
AfterFailureUnqueued(p) ==
  IF task[p] = "collect" THEN "reportLane" ELSE "release"
AfterFailureQueuedByAll(p) == "enqueue"

AfterFailure(p) ==
  IF task[p] = "collect" THEN "enqueue" ELSE "release"

AfterSuccess(p) ==
  CASE task[p] = "collect"  -> "reportLane"
    [] task[p] = "maintain" -> "release"
    [] OTHER                -> "repairGlobal"

PublicationFails(p) ==
  /\ candidate' = NoGroup
  /\ outcome' = [outcome EXCEPT ![p] = "failed"]
  /\ Goto(p, AfterFailure(p))

(* No accepted weekly batch in the window: nothing can be published. *)
NoWeeklyBatch(p) ==
  /\ pc[p] = "begin"
  /\ ~RecentWeekly(now[p])
  /\ PublicationFails(p)
  /\ UNCHANGED <<clock, faults, lock, task, now, job, corpusVars, fileVars, groups,
                 active, published, interrupted>>

BeginGroup(p) ==
  /\ pc[p] = "begin"
  /\ RecentWeekly(now[p])
  /\ candidate' = [at |-> now[p], content |-> Content(now[p])]
  /\ Goto(p, "build")
  /\ UNCHANGED <<clock, faults, lock, task, now, job, outcome, corpusVars, fileVars,
                 groups, active, published, interrupted>>

(* Statistics, documents, vector index and the probe of every scope pass. *)
BuildGroup(p) ==
  /\ pc[p] = "build"
  /\ Goto(p, "prune")
  /\ UNCHANGED <<clock, faults, lock, task, now, job, outcome, corpusVars, fileVars,
                 groupVars, interrupted>>

(* Seeded fault: the pointer moves before the directory has its name. *)
PruneGroupsThenSwitch(p) ==
  /\ pc[p] = "prune"
  /\ \E removed \in SUBSET Removable : groups' = groups \ removed
  /\ Goto(p, "switch")
  /\ UNCHANGED <<clock, faults, lock, task, now, job, outcome, corpusVars, fileVars,
                 candidate, active, published, interrupted>>

(* _prune_group_versions; rmtree may fail on a directory that is in use. *)
PruneGroups(p) ==
  /\ pc[p] = "prune"
  /\ \E removed \in SUBSET Removable : groups' = groups \ removed
  /\ Goto(p, "install")
  /\ UNCHANGED <<clock, faults, lock, task, now, job, outcome, corpusVars, fileVars,
                 candidate, active, published, interrupted>>

(* Seeded fault: after the installation the two newest groups are retained. *)
InstallGroupThenPrune(p) ==
  /\ pc[p] = "install"
  /\ LET all == groups \cup {candidate}
     IN  groups' = {g \in all : Cardinality({h \in all : h.at > g.at}) < 2}
  /\ Goto(p, "switch")
  /\ UNCHANGED <<clock, faults, lock, task, now, job, outcome, corpusVars, fileVars,
                 candidate, active, published, interrupted>>

(* manifest.json, then os.replace(candidate, destination). *)
InstallGroup(p) ==
  /\ pc[p] = "install"
  /\ groups' = groups \cup {candidate}
  /\ Goto(p, "switch")
  /\ UNCHANGED <<clock, faults, lock, task, now, job, outcome, corpusVars, fileVars,
                 candidate, active, published, interrupted>>

(* The pointer file is replaced atomically. *)
SwitchPointer(p) ==
  /\ pc[p] = "switch"
  /\ active' = candidate
  /\ published' = published \cup candidate.content
  /\ Goto(p, "finish")
  /\ UNCHANGED <<clock, faults, lock, task, now, job, outcome, corpusVars, fileVars,
                 groups, candidate, interrupted>>

(* finish_publication_generation, and the manifest is returned. *)
FinishGroup(p) ==
  /\ pc[p] = "finish"
  /\ candidate' = NoGroup
  /\ outcome' = [outcome EXCEPT ![p] = "published"]
  /\ Goto(p, AfterSuccess(p))
  /\ UNCHANGED <<clock, faults, lock, task, now, job, corpusVars, fileVars, groups,
                 active, published, interrupted>>

(* A step after begin raises; what it already did to disk stays done. *)
PublicationStepFails(p) ==
  /\ pc[p] \in Building
  /\ Fault
  /\ PublicationFails(p)
  /\ UNCHANGED <<clock, lock, task, now, job, corpusVars, fileVars, groups, active,
                 published, interrupted>>

-----------------------------------------------------------------------------
(* The rest of collect(). *)

(* Seeded fault: an accepted batch is reported as published in any case. *)
ResultIgnoringPublication(p) ==
  [state |-> IF status[job[p]] = "rejected" THEN "rejected" ELSE "accepted",
   batch |-> job[p]]

Result(p) ==
  [state |-> CASE status[job[p]] = "rejected" -> "rejected"
               [] status[job[p]] # "rejected" /\ outcome[p] = "published" -> "accepted"
               [] OTHER -> "accepted_publication_failed",
   batch |-> job[p]]

Enqueue(p) ==
  /\ pc[p] = "enqueue"
  /\ queue' = IF Queued(job[p]) THEN queue ELSE Append(queue, job[p])
  /\ Goto(p, "reportLane")
  /\ UNCHANGED <<clock, faults, lock, task, now, job, outcome, corpusVars, stage,
                 laneStatus, globalStatus, groupVars, interrupted>>

(* Seeded fault: the workspace is discarded with one status file written. *)
ReportLaneOnly(p) ==
  /\ pc[p] = "reportLane"
  /\ laneStatus' = [laneStatus EXCEPT ![p] = Result(p)]
  /\ Goto(p, "discard")
  /\ UNCHANGED <<clock, faults, lock, task, now, job, outcome, corpusVars, stage,
                 globalStatus, queue, groupVars, interrupted>>

ReportLane(p) ==
  /\ pc[p] = "reportLane"
  /\ laneStatus' = [laneStatus EXCEPT ![p] = Result(p)]
  /\ Goto(p, "reportGlobal")
  /\ UNCHANGED <<clock, faults, lock, task, now, job, outcome, corpusVars, stage,
                 globalStatus, queue, groupVars, interrupted>>

ReportGlobal(p) ==
  /\ pc[p] = "reportGlobal"
  /\ globalStatus' = Result(p)
  /\ Goto(p, "discard")
  /\ UNCHANGED <<clock, faults, lock, task, now, job, outcome, corpusVars, stage,
                 laneStatus, queue, groupVars, interrupted>>

(* Seeded fault: the lock is not released after a complete collection. *)
DiscardStageLocked(p) ==
  /\ pc[p] = "discard"
  /\ stage' = [stage EXCEPT ![p] = FALSE]
  /\ Finished(p)
  /\ UNCHANGED <<clock, faults, lock, corpusVars, laneStatus, globalStatus, queue,
                 groupVars, interrupted>>

(* _discard_lane_stage, and the lock is released. *)
DiscardStage(p) ==
  /\ pc[p] = "discard"
  /\ stage' = [stage EXCEPT ![p] = FALSE]
  /\ Unlock(p)
  /\ Finished(p)
  /\ UNCHANGED <<clock, faults, corpusVars, laneStatus, globalStatus, queue, groupVars,
                 interrupted>>

-----------------------------------------------------------------------------
(* A collector that fails: main() catches every exception of collect(). *)

(* Its batch is not yet published, queued or rejected for good. *)
Unsettled(p) ==
  /\ task[p] = "collect"
  /\ job[p] # NoBatch
  /\ pc[p] \in {"finalize", "retain", "enqueue"} \cup Publishing

Interrupt(p) ==
  interrupted' = IF Unsettled(p) THEN interrupted \cup {job[p]} ELSE interrupted

(* The lock is released on the way out; the daily lane then maintains the *)
(* windows, with a timestamp read before it takes the lock again.         *)
LaneFailure(p) ==
  /\ task[p] = "collect"
  /\ pc[p] \in {"fetch", "wait", "import", "finalize", "retain", "begin", "enqueue",
                "reportLane", "reportGlobal", "discard"}
  /\ Fault
  /\ Unlock(p)
  /\ Interrupt(p)
  /\ job' = [job EXCEPT ![p] = NoBatch]
  /\ outcome' = [outcome EXCEPT ![p] = "none"]
  /\ \/ /\ p = "daily_ranked"
        /\ ReadClock(p)
        /\ task' = [task EXCEPT ![p] = "maintain"]
        /\ Goto(p, "enter")
     \/ /\ p = "weekly_expanded"
        /\ Goto(p, "error")
        /\ UNCHANGED <<clock, task, now>>
  /\ UNCHANGED <<corpusVars, fileVars, groupVars>>

(* The last thing main() does after a failure, with or without maintenance. *)
WriteError(p) ==
  /\ pc[p] = "error"
  /\ SetLaneStatus(p, "error", NoBatch)
  /\ Finished(p)
  /\ UNCHANGED <<clock, faults, lock, corpusVars, stage, globalStatus, queue, groupVars,
                 interrupted>>

-----------------------------------------------------------------------------
(* maintain_windows_after_failed_collection, retry_failed_publication and *)
(* process_publication_queue.                                             *)

StartRetry ==
  /\ pc["retry"] = "idle"
  /\ Failed(globalStatus)
  /\ task' = [task EXCEPT !["retry"] = "retry"]
  /\ Goto("retry", "enter")
  /\ UNCHANGED <<clock, faults, lock, now, job, outcome, corpusVars, fileVars, groupVars,
                 interrupted>>

(* The oldest entry is read before the lock is taken and not read again. *)
StartConsume ==
  /\ pc["queue"] = "idle"
  /\ queue # << >>
  /\ job' = [job EXCEPT !["queue"] = Head(queue)]
  /\ task' = [task EXCEPT !["queue"] = "consume"]
  /\ Goto("queue", "enter")
  /\ UNCHANGED <<clock, faults, lock, now, outcome, corpusVars, fileVars, groupVars,
                 interrupted>>

(* One non-blocking attempt at the lock. *)
EnterBusy(p) ==
  /\ pc[p] = "enter"
  /\ lock # NoProc
  /\ \/ /\ task[p] = "maintain"
        /\ Goto(p, "error")
        /\ UNCHANGED <<task, now, job, outcome>>
     \/ /\ task[p] # "maintain"
        /\ Finished(p)
  /\ UNCHANGED <<clock, faults, lock, corpusVars, fileVars, groupVars, interrupted>>

(* Seeded fault: maintenance does not look at the lock. *)
EnterMaintainUnlocked(p) ==
  /\ pc[p] = "enter"
  /\ task[p] = "maintain"
  /\ lock' = p
  /\ Goto(p, "retain")
  /\ UNCHANGED <<clock, faults, task, now, job, outcome, corpusVars, fileVars, groupVars,
                 interrupted>>

EnterMaintain(p) ==
  /\ pc[p] = "enter"
  /\ task[p] = "maintain"
  /\ lock = NoProc
  /\ lock' = p
  /\ Goto(p, "retain")
  /\ UNCHANGED <<clock, faults, task, now, job, outcome, corpusVars, fileVars, groupVars,
                 interrupted>>

(* The status is read again under the lock. *)
EnterRetry(p) ==
  /\ pc[p] = "enter"
  /\ task[p] = "retry"
  /\ lock = NoProc
  /\ Failed(globalStatus)
  /\ lock' = p
  /\ job' = [job EXCEPT ![p] = globalStatus.batch]
  /\ ReadClock(p)
  /\ Goto(p, "retain")
  /\ UNCHANGED <<faults, task, outcome, corpusVars, fileVars, groupVars, interrupted>>

RetryNotNeeded(p) ==
  /\ pc[p] = "enter"
  /\ task[p] = "retry"
  /\ lock = NoProc
  /\ ~Failed(globalStatus)
  /\ Finished(p)
  /\ UNCHANGED <<clock, faults, lock, corpusVars, fileVars, groupVars, interrupted>>

EnterConsume(p) ==
  /\ pc[p] = "enter"
  /\ task[p] = "consume"
  /\ lock = NoProc
  /\ lock' = p
  /\ ReadClock(p)
  /\ Goto(p, "retain")
  /\ UNCHANGED <<faults, task, job, outcome, corpusVars, fileVars, groupVars, interrupted>>

(* The retry repairs the file it read; the consumer only a file that still *)
(* reports the failure of its own batch.                                   *)
RepairGlobal(p) ==
  /\ pc[p] = "repairGlobal"
  /\ LET repairs == task[p] = "retry" \/ (Failed(globalStatus) /\ globalStatus.batch = job[p])
     IN  /\ globalStatus' = IF repairs THEN [state |-> "accepted", batch |-> job[p]]
                                       ELSE globalStatus
         /\ Goto(p, IF task[p] = "consume" /\ repairs THEN "repairCheck" ELSE "dequeue")
  /\ UNCHANGED <<clock, faults, lock, task, now, job, outcome, corpusVars, stage,
                 laneStatus, queue, groupVars, interrupted>>

AfterRepair(p) == IF task[p] = "retry" THEN "release" ELSE "dequeue"

(* The lane status is read here and written by the next step; the lane's *)
(* collector writes its progress to the same file without the lock.      *)
RepairCheck(p) ==
  /\ pc[p] = "repairCheck"
  /\ LET lane == laneStatus[mode[job[p]]]
     IN  Goto(p, IF Failed(lane) /\ lane.batch = job[p] THEN "repairLane" ELSE AfterRepair(p))
  /\ UNCHANGED <<clock, faults, lock, task, now, job, outcome, corpusVars, fileVars,
                 groupVars, interrupted>>

RepairLane(p) ==
  /\ pc[p] = "repairLane"
  /\ SetLaneStatus(mode[job[p]], "accepted", job[p])
  /\ Goto(p, AfterRepair(p))
  /\ UNCHANGED <<clock, faults, lock, task, now, job, outcome, corpusVars, stage,
                 globalStatus, queue, groupVars, interrupted>>

Dequeue(p) ==
  /\ pc[p] = "dequeue"
  /\ queue' = Without(queue, job[p])
  /\ Goto(p, IF task[p] = "retry" THEN "repairCheck" ELSE "release")
  /\ UNCHANGED <<clock, faults, lock, task, now, job, outcome, corpusVars, stage,
                 laneStatus, globalStatus, groupVars, interrupted>>

Release(p) ==
  /\ pc[p] = "release"
  /\ Unlock(p)
  /\ \/ /\ task[p] = "maintain"
        /\ Goto(p, "error")
        /\ UNCHANGED <<task, now, job, outcome>>
     \/ /\ task[p] # "maintain"
        /\ Finished(p)
  /\ UNCHANGED <<clock, faults, corpusVars, fileVars, groupVars, interrupted>>

(* An exception outside the publication: the run ends, the lock is released. *)
RepairStepFails(p) ==
  /\ task[p] \in {"maintain", "retry", "consume"}
  /\ pc[p] \in {"retain", "repairGlobal", "repairCheck", "repairLane", "dequeue"}
  /\ Fault
  /\ Goto(p, "release")
  /\ UNCHANGED <<clock, lock, task, now, job, outcome, corpusVars, fileVars, groupVars,
                 interrupted>>

(* The process dies; the operating system releases the lock, and the dot- *)
(* directory it was building is never looked at again.                    *)
Crash(p) ==
  /\ pc[p] # "idle"
  /\ Fault
  /\ Unlock(p)
  /\ candidate' = IF lock = p THEN NoGroup ELSE candidate
  /\ Interrupt(p)
  /\ Finished(p)
  /\ UNCHANGED <<clock, corpusVars, fileVars, groups, active, published>>

-----------------------------------------------------------------------------

Collect(p) ==
  \/ FetchDone(p) \/ AcquireMerge(p) \/ MergeDeferred(p)
  \/ Import(p) \/ Finalize(p) \/ Enqueue(p)
  \/ ReportLane(p) \/ ReportGlobal(p) \/ DiscardStage(p) \/ WriteError(p)

Publish(p) ==
  \/ Retain(p) \/ NoWeeklyBatch(p) \/ BeginGroup(p) \/ BuildGroup(p)
  \/ PruneGroups(p) \/ InstallGroup(p) \/ SwitchPointer(p) \/ FinishGroup(p)

Repair(p) ==
  \/ EnterBusy(p) \/ EnterMaintain(p) \/ EnterRetry(p) \/ RetryNotNeeded(p)
  \/ EnterConsume(p) \/ RepairGlobal(p) \/ RepairCheck(p) \/ RepairLane(p)
  \/ Dequeue(p) \/ Release(p)

Next ==
  \/ \E p \in Lanes : StartCollect(p) \/ PollBusy(p) \/ Collect(p) \/ LaneFailure(p)
  \/ StartRetry
  \/ StartConsume
  \/ \E p \in Procs : Publish(p) \/ Repair(p) \/ PublicationStepFails(p)
                      \/ RepairStepFails(p) \/ Crash(p)

Spec == Init /\ [][Next]_vars

(* A process that runs takes its next step: fetching and waiting for the *)
(* lock are both bounded by deadlines.  Nothing obliges a run to start.  *)
Fairness ==
  /\ \A p \in Lanes : WF_vars(Collect(p))
  /\ \A p \in Procs : WF_vars(Publish(p) \/ Repair(p))

FairSpec == Spec /\ Fairness
-----------------------------------------------------------------------------
(* Safety. *)

(* corpus/writer.lock admits one writer: a process is between taking and  *)
(* releasing the lock exactly when it holds it, whatever failed or died.  *)
SingleWriter == \A p \in Procs : pc[p] \in Critical <=> lock = p

(* A group, once on disk or named by the pointer, holds facts of batches  *)
(* that passed validation and fell inside its window: never those of a    *)
(* batch still being imported, conflicted or rejected.                    *)
OnlyValidatedFacts ==
  \A g \in groups \cup ({candidate, active} \ {NoGroup}) :
    \A b \in g.content :
      /\ status[b] \in {"accepted", "expired"}
      /\ Inside(completed[b], g.at)

(* The corpus does not move under a publication: until the group is       *)
(* finished, what it was built from is still what its window contains.    *)
CandidateCurrent ==
  candidate # NoGroup => candidate.content = Content(candidate.at)

(* An accepted batch that no group has shown yet is in the queue, or its  *)
(* collector is still on the way to publish or queue it, or that          *)
(* collector died or failed before it could.                              *)
AcceptedFactsTracked ==
  \A b \in Accepted \ published :
    \/ Queued(b)
    \/ b \in interrupted
    \/ \E p \in Lanes : Unsettled(p) /\ job[p] = b

(* A daily batch behind as many newer ones as the window keeps. *)
CrowdedOut(b) ==
  /\ mode[b] = "daily_ranked"
  /\ DailyCap <= Cardinality({c \in BatchId : /\ status[c] \in {"accepted", "expired"}
                                              /\ mode[c] = "daily_ranked"
                                              /\ completed[c] > completed[b]})

(* A status file that says "accepted" names a batch whose facts were in   *)
(* an activated group, whose 35 days are over, or which newer daily       *)
(* batches crowded out.  One way is left for a file to say so of facts    *)
(* nobody was shown: a run whose timestamp was older than the batch       *)
(* expired it first (NoEarlyExpiry), and a repair then found nothing of   *)
(* it left to publish.                                                    *)
StatusTruthful ==
  \A s \in {globalStatus} \cup {laneStatus[m] : m \in Lanes} :
    s.state = "accepted" =>
      \/ s.batch \in published
      \/ /\ status[s.batch] = "expired"
         /\ \/ completed[s.batch] + Window <= clock
            \/ CrowdedOut(s.batch)
            \/ s.batch \in cutShort

(* Without failures the pointer of an idle data directory names a group   *)
(* that is on disk, in whatever order the lanes published.                *)
ActivePresentWithoutFaults ==
  (faults = 0 /\ lock = NoProc /\ active # NoGroup) => active \in groups

(* The lane's workspace is discarded only after both status files report  *)
(* its batch, and a batch that was accepted but not published is queued.  *)
StageDiscardedOnlyWhenSettled ==
  [][\A m \in Lanes : (stage[m] /\ ~stage'[m]) =>
       /\ laneStatus[m] = globalStatus
       /\ globalStatus.state \in {"accepted", "accepted_publication_failed", "rejected"}
       /\ Failed(globalStatus) => Queued(globalStatus.batch)]_vars

(* What makes the invariants above inductive.  A candidate exists exactly *)
(* while a process builds it, and it is installed before the pointer      *)
(* moves.  A collector past its import knows its batch, and the batch is  *)
(* undecided until it is finalized.                                       *)
CandidateOwned ==
  /\ \A p \in Procs : pc[p] \in Building => candidate # NoGroup
  /\ candidate # NoGroup => \E p \in Procs : pc[p] \in Building

InstalledBeforeSwitch ==
  \A p \in Procs : pc[p] = "switch" => candidate \in groups

JobKnown ==
  \A p \in Procs :
    /\ pc[p] \in {"fetch", "wait", "import", "finalize", "enqueue"} => task[p] = "collect"
    /\ (task[p] = "collect" /\ pc[p] \in Critical \ {"import"}) => job[p] \in BatchId

JobUndecided ==
  \A p \in Procs : pc[p] = "finalize" => status[job[p]] \in {"collecting", "conflicted"}

PublicationInv ==
  /\ TypeOK
  /\ SingleWriter
  /\ CandidateOwned
  /\ InstalledBeforeSwitch
  /\ JobKnown
  /\ JobUndecided
  /\ CandidateCurrent
  /\ OnlyValidatedFacts

(* What makes AcceptedFactsTracked, StatusTruthful and the discarding of   *)
(* stages inductive.  The result of a publication is known only after it.  *)
Reporting == {"reportLane", "reportGlobal", "discard"}
Repairing == {"repairGlobal", "repairCheck", "repairLane", "dequeue"}

OutcomeKnown ==
  \A p \in Procs :
    /\ pc[p] \notin Settling \cup {"error"} => outcome[p] = "none"
    /\ pc[p] = "enqueue" => outcome[p] # "published"
    /\ pc[p] \in Reporting => task[p] = "collect"

(* The retention before a publication leaves only what its window holds,   *)
(* so a group that became active shows everything that is accepted, and    *)
(* nothing else is accepted until the lock is given back.                  *)
WindowApplied ==
  \A p \in Procs :
    /\ pc[p] \in Publishing => \A b \in Accepted : Inside(completed[b], now[p])
    /\ pc[p] \in Building => candidate.at = now[p]
    /\ pc[p] = "finish" => candidate.content \subseteq published

AcceptedShown ==
  \A p \in Procs :
    pc[p] \in Repairing \/ (pc[p] \in Reporting /\ outcome[p] = "published")
      => Accepted \subseteq published

(* Whoever publishes, queues or reports a batch has seen it accepted, and  *)
(* so has every file that says so or that its publication failed.          *)
Valid(b) == b \in BatchId /\ status[b] \in {"accepted", "expired"}

JobsDecided ==
  \A p \in Procs :
    /\ pc[p] # "idle" => task[p] # "none"
    /\ pc[p] \in Repairing => task[p] \in {"retry", "consume"}
    /\ task[p] = "collect" /\ pc[p] \in {"retain"} \cup Reporting =>
         Valid(job[p]) \/ status[job[p]] = "rejected"
    /\ task[p] = "collect" /\ pc[p] \in {"enqueue"} \cup Publishing => Valid(job[p])
    /\ task[p] = "retry" /\ pc[p] \in Critical => Valid(job[p])
    /\ task[p] = "consume" => job[p] \in BatchId
    /\ pc[p] = "repairLane" => Valid(job[p])

ReportsValid ==
  \A s \in {globalStatus} \cup {laneStatus[m] : m \in Lanes} :
    s.state = "accepted" \/ Failed(s) => Valid(s.batch)

(* A collector writes both files alike, after it queued what failed.       *)
ReportsSettled ==
  \A p \in Lanes :
    /\ pc[p] \in Reporting =>
         status[job[p]] = "rejected" \/ outcome[p] = "published" \/ Queued(job[p])
    /\ pc[p] \in {"reportGlobal", "discard"} => laneStatus[p] = Result(p)
    /\ pc[p] = "discard" => globalStatus = Result(p)

(* An "accepted" in a file was published or has expired; timestamps come   *)
(* from the clock; and what has expired did so for one of three reasons.   *)
ReportedShown ==
  \A s \in {globalStatus} \cup {laneStatus[m] : m \in Lanes} :
    s.state = "accepted" => s.batch \in published \/ status[s.batch] = "expired"

ReadFromClock == \A p \in Procs : now[p] <= clock

ExpiryExplained ==
  /\ IsFiniteSet({b \in BatchId : status[b] # "absent"})
  /\ \A b \in BatchId :
       status[b] = "expired" =>
         completed[b] + Window <= clock \/ CrowdedOut(b) \/ b \in cutShort

TrackingInv ==
  /\ OutcomeKnown
  /\ WindowApplied
  /\ AcceptedShown
  /\ JobsDecided
  /\ ReportsValid
  /\ ReportsSettled
  /\ AcceptedFactsTracked
  /\ ReportedShown
  /\ ReadFromClock
  /\ ExpiryExplained

(* Without failures the pointer's group is missing only while the run that *)
(* removed it goes on to install the group the pointer moves to.           *)
MissingWhileInstalling ==
  (faults = 0 /\ active # NoGroup /\ active \notin groups) =>
    \E p \in Procs : pc[p] \in {"install", "switch"}

(* The data directory is a catalogue of groups with a pointer. *)
Catalog == INSTANCE SnapshotCatalog WITH catalog <- groups

(* Publication implements the catalogue: groups appear complete, the      *)
(* pointer moves to one that is there, cleaning up keeps the newest.      *)
ImplementsCatalog == Catalog!Spec

(* What the documents say and the code does not do. *)

(* ARCHITECTURE.md: a failed publication keeps the previous active group. *)
FailedPublicationKeepsActive ==
  (lock = NoProc /\ active # NoGroup) => active \in groups

(* ADR-009 and ADR-012: a batch leaves the corpus when its 35 days are    *)
(* over, or, in the daily lane, when newer daily batches exceed the cap.  *)
NoEarlyExpiry ==
  [][\A b \in BatchId :
       (status[b] = "accepted" /\ status'[b] = "expired") =>
         \/ completed[b] + Window <= clock
         \/ CrowdedOut(b)]_vars

(* test_repair_publishes_accepted_facts_without_overwriting_a_newer_lane_status: *)
(* a repair replaces a lane status only while it reports the repaired failure.   *)
RepairKeepsNewerLaneStatus ==
  [][\A p \in Procs : RepairLane(p) =>
       LET lane == laneStatus[mode[job[p]]]
       IN  Failed(lane) /\ lane.batch = job[p]]_vars

-----------------------------------------------------------------------------
(* Liveness, under FairSpec. *)

(* Whoever takes the writer lock gives it back, by finishing or failing. *)
WriterLockReleased == \A p \in Procs : lock = p ~> lock # p

(* A lane that finished fetching merges, or gives up with its stage kept:  *)
(* no holder of the lock, dead, failing or slow, makes it wait for ever.   *)
MergeDecided == \A m \in Lanes : pc[m] = "wait" ~> pc[m] # "wait"

(* Nobody is stuck with the lock or behind it.                             *)
CollectionsProceed == WriterLockReleased /\ MergeDecided
=============================================================================
