---------------------- MODULE RollingPublication_proofs ----------------------
(* Proofs about RollingPublication, for every set of batches, window, cap *)
(* and bound.                                                             *)
EXTENDS RollingPublication, SequenceTheorems, FiniteSetTheorems, TLAPS

(* The lists a queue file may hold stay lists of batches when an entry is *)
(* removed.                                                               *)
LEMMA WithoutType ==
  ASSUME NEW S, NEW q \in Seq(S), NEW b
  PROVE  Without(q, b) \in Seq(S)
<1>1. CASE \A i \in 1 .. Len(q) : q[i] # b
  BY <1>1 DEF Without
<1>2. CASE \E i \in 1 .. Len(q) : q[i] = b
  <2> DEFINE i == CHOOSE j \in 1 .. Len(q) : q[j] = b
  <2>1. i \in 1 .. Len(q)
    BY <1>2
  <2> HIDE DEF i
  <2>2. SubSeq(q, 1, i - 1) \in Seq(S)
    BY <2>1, SubSeqProperties
  <2>3. SubSeq(q, i + 1, Len(q)) \in Seq(S)
    BY <2>1, SubSeqProperties
  <2>4. SubSeq(q, 1, i - 1) \o SubSeq(q, i + 1, Len(q)) \in Seq(S)
    BY <2>2, <2>3, ConcatProperties
  <2> QED
    BY <1>2, <2>4 DEF Without, i
<1> QED
  BY <1>1, <1>2

LEMMA Labels ==
  /\ "idle" \in PC /\ "fetch" \in PC /\ "wait" \in PC /\ "enter" \in PC
  /\ "error" \in PC /\ "import" \in PC /\ "finalize" \in PC /\ "retain" \in PC
  /\ "begin" \in PC /\ "build" \in PC /\ "prune" \in PC /\ "install" \in PC
  /\ "switch" \in PC /\ "finish" \in PC /\ "enqueue" \in PC /\ "reportLane" \in PC
  /\ "reportGlobal" \in PC /\ "discard" \in PC /\ "repairGlobal" \in PC /\ "repairCheck" \in PC
  /\ "repairLane" \in PC /\ "dequeue" \in PC /\ "release" \in PC
BY DEF PC, Critical, Importing, Publishing, Building, Settling, Outside

(* The writer may only be one of the processes. *)
LEMMA LaneProcs == Lanes \subseteq Procs /\ "retry" \in Procs /\ "queue" \in Procs
BY DEF Procs

(* Every variable starts with its type, and a step keeps it, given that a *)
(* collector knows its batch and a builder its candidate.                 *)
LEMMA InitTyping == Init => TypeOK
  BY PublicationAssumption, NoGroupAssumption, Labels, LaneProcs
  DEF Init, TypeOK, Time, Lanes, StatusFile, StatusState, BatchStatus

LEMMA NextTyping ==
  ASSUME TypeOK, JobKnown, CandidateOwned, [Next]_vars
  PROVE  TypeOK'
<1> USE Labels, LaneProcs, PublicationAssumption DEF TypeOK, Goto
<1>0. 0 \in Time
  BY DEF Time
<1>1. ASSUME NEW p \in Lanes, StartCollect(p) PROVE TypeOK'
  BY <1>1
  DEF StartCollect, SetLaneStatus, StatusFile, StatusState, corpusVars, groupVars
<1>2. ASSUME NEW p \in Lanes, PollBusy(p) PROVE TypeOK'
  BY <1>2 DEF PollBusy, SetLaneStatus, StatusFile, StatusState, corpusVars, groupVars,
                procVars
<1>3. ASSUME NEW p \in Lanes, FetchDone(p) PROVE TypeOK'
  BY <1>3 DEF FetchDone, ReadClock, Time, corpusVars, groupVars, fileVars
<1>4. ASSUME NEW p \in Lanes, AcquireMerge(p) PROVE TypeOK'
  BY <1>4 DEF AcquireMerge, corpusVars, groupVars, fileVars
<1>5. ASSUME NEW p \in Lanes, MergeDeferred(p) PROVE TypeOK'
  BY <1>0, <1>5 DEF MergeDeferred, Finished, corpusVars, groupVars, fileVars
<1>6. ASSUME NEW p \in Lanes, Import(p) PROVE TypeOK'
  BY <1>6 DEF Import, SetLaneStatus, StatusFile, StatusState, groupVars, BatchStatus
<1>7. ASSUME NEW p \in Lanes, Finalize(p) PROVE TypeOK'
  BY <1>7 DEF Finalize, groupVars, fileVars, BatchStatus
<1>8. ASSUME NEW p \in Lanes, Enqueue(p) PROVE TypeOK'
  <2>1. pc[p] = "enqueue" /\ pc[p] \in Critical \ {"import"}
    BY <1>8 DEF Enqueue, Critical, Settling
  <2>2. job[p] \in BatchId
    BY <2>1, LaneProcs DEF JobKnown
  <2> QED
    BY <1>8, <2>2 DEF Enqueue, corpusVars, groupVars
<1>9. ASSUME NEW p \in Lanes, ReportLane(p) PROVE TypeOK'
  BY <1>9 DEF ReportLane, Result, StatusFile, StatusState, corpusVars, groupVars
<1>10. ASSUME NEW p \in Lanes, ReportGlobal(p) PROVE TypeOK'
  BY <1>10 DEF ReportGlobal, Result, StatusFile, StatusState, corpusVars, groupVars
<1>11. ASSUME NEW p \in Lanes, DiscardStage(p) PROVE TypeOK'
  BY <1>0, <1>11 DEF DiscardStage, Finished, Unlock, corpusVars, groupVars
<1>12. ASSUME NEW p \in Lanes, WriteError(p) PROVE TypeOK'
  BY <1>0, <1>12
  DEF WriteError, Finished, SetLaneStatus, StatusFile, StatusState, corpusVars,
                 groupVars
<1>13. ASSUME NEW p \in Lanes, LaneFailure(p) PROVE TypeOK'
  <2>1. faults' \in 0 .. MaxFaults /\ lock' \in Procs \cup {NoProc}
    BY <1>13 DEF LaneFailure, Fault, Unlock
  <2>2. interrupted' \subseteq BatchId
    BY <1>13 DEF LaneFailure, Interrupt, Unsettled
  <2>3. /\ clock' \in Time /\ now' \in [Procs -> Time]
        /\ pc' \in [Procs -> PC]
        /\ task' \in [Procs -> {"none", "collect", "maintain", "retry", "consume"}]
    <3>1. CASE p = "daily_ranked"
      <4>1. /\ ReadClock(p) /\ task' = [task EXCEPT ![p] = "maintain"]
            /\ pc' = [pc EXCEPT ![p] = "enter"]
        BY <1>13, <3>1 DEF LaneFailure
      <4>2. clock' \in Time /\ now' \in [Procs -> Time]
        BY <4>1 DEF ReadClock
      <4> QED
        BY <4>1, <4>2
    <3>2. CASE p = "weekly_expanded"
      BY <1>13, <3>2 DEF LaneFailure
    <3> QED
      BY <1>13, <3>1, <3>2 DEF LaneFailure
  <2> QED
    BY <1>13, <2>1, <2>2, <2>3 DEF LaneFailure, corpusVars, groupVars, fileVars
<1>14. ASSUME StartRetry PROVE TypeOK'
  BY <1>14 DEF StartRetry, corpusVars, groupVars, fileVars
<1>15. ASSUME StartConsume PROVE TypeOK'
  BY <1>15 DEF StartConsume, corpusVars, groupVars, fileVars
<1>16. ASSUME NEW p \in Procs, Retain(p) PROVE TypeOK'
  <2>1. cutShort' \subseteq BatchId
    BY <1>16 DEF Retain, Later, Accepted
  <2>2. status' \in [BatchId -> BatchStatus]
    BY <1>16 DEF Retain, BatchStatus
  <2>3. pc' \in [Procs -> PC]
    BY <1>16 DEF Retain
  <2> QED
    BY <1>16, <2>1, <2>2, <2>3 DEF Retain, groupVars, fileVars
<1>17. ASSUME NEW p \in Procs, NoWeeklyBatch(p) PROVE TypeOK'
  BY <1>17 DEF NoWeeklyBatch, PublicationFails, AfterFailure, corpusVars, fileVars
<1>18. ASSUME NEW p \in Procs, BeginGroup(p) PROVE TypeOK'
  BY <1>18 DEF BeginGroup, Content, Accepted, Group, corpusVars, fileVars
<1>19. ASSUME NEW p \in Procs, BuildGroup(p) PROVE TypeOK'
  BY <1>19 DEF BuildGroup, corpusVars, groupVars, fileVars
<1>20. ASSUME NEW p \in Procs, PruneGroups(p) PROVE TypeOK'
  BY <1>20 DEF PruneGroups, corpusVars, fileVars
<1>21. ASSUME NEW p \in Procs, InstallGroup(p) PROVE TypeOK'
  <2>1. candidate \in Group
    BY <1>21 DEF InstallGroup, CandidateOwned, Building
  <2> QED
    BY <1>21, <2>1 DEF InstallGroup, corpusVars, fileVars
<1>22. ASSUME NEW p \in Procs, SwitchPointer(p) PROVE TypeOK'
  <2>1. candidate \in Group
    BY <1>22 DEF SwitchPointer, CandidateOwned, Building
  <2> QED
    BY <1>22, <2>1 DEF SwitchPointer, Group, corpusVars, fileVars
<1>23. ASSUME NEW p \in Procs, FinishGroup(p) PROVE TypeOK'
  BY <1>23 DEF FinishGroup, AfterSuccess, corpusVars, fileVars
<1>24. ASSUME NEW p \in Procs, EnterBusy(p) PROVE TypeOK'
  <2>1. CASE task[p] = "maintain"
    BY <1>24, <2>1 DEF EnterBusy, corpusVars, groupVars, fileVars
  <2>2. CASE task[p] # "maintain"
    <3>1. Finished(p)
      BY <1>24, <2>2 DEF EnterBusy
    <3>2. UNCHANGED <<clock, faults, lock, corpusVars, fileVars, groupVars, interrupted>>
      BY <1>24 DEF EnterBusy
    <3> QED
      BY <1>0, <3>1, <3>2 DEF Finished, corpusVars, groupVars, fileVars
  <2> QED
    BY <2>1, <2>2
<1>25. ASSUME NEW p \in Procs, EnterMaintain(p) PROVE TypeOK'
  BY <1>25 DEF EnterMaintain, corpusVars, groupVars, fileVars
<1>26. ASSUME NEW p \in Procs, EnterRetry(p) PROVE TypeOK'
  BY <1>26
  DEF EnterRetry, ReadClock, Time, StatusFile, corpusVars, groupVars, fileVars
<1>27. ASSUME NEW p \in Procs, RetryNotNeeded(p) PROVE TypeOK'
  BY <1>0, <1>27 DEF RetryNotNeeded, Finished, corpusVars, groupVars, fileVars
<1>28. ASSUME NEW p \in Procs, EnterConsume(p) PROVE TypeOK'
  BY <1>28 DEF EnterConsume, ReadClock, Time, corpusVars, groupVars, fileVars
<1>29. ASSUME NEW p \in Procs, RepairGlobal(p) PROVE TypeOK'
  BY <1>29 DEF RepairGlobal, corpusVars, groupVars, StatusFile, StatusState
<1>30. ASSUME NEW p \in Procs, RepairCheck(p) PROVE TypeOK'
  BY <1>30 DEF RepairCheck, AfterRepair, corpusVars, groupVars, fileVars
<1>31. ASSUME NEW p \in Procs, RepairLane(p) PROVE TypeOK'
  BY <1>31 DEF RepairLane, SetLaneStatus, StatusFile, StatusState, AfterRepair,
                 corpusVars, groupVars
<1>32. ASSUME NEW p \in Procs, Dequeue(p) PROVE TypeOK'
  BY <1>32, WithoutType DEF Dequeue, corpusVars, groupVars
<1>33. ASSUME NEW p \in Procs, Release(p) PROVE TypeOK'
  <2>1. /\ pc' \in [Procs -> PC] /\ now' \in [Procs -> Time]
        /\ task' \in [Procs -> {"none", "collect", "maintain", "retry", "consume"}]
        /\ job' \in [Procs -> BatchId \cup {NoBatch}]
        /\ outcome' \in [Procs -> {"none", "published", "failed"}]
    <3>1. CASE task[p] = "maintain"
      BY <1>33, <3>1 DEF Release
    <3>2. CASE task[p] # "maintain"
      <4>1. Finished(p)
        BY <1>33, <3>2 DEF Release
      <4> QED
        BY <1>0, <4>1 DEF Finished
    <3> QED
      BY <3>1, <3>2
  <2>2. lock' \in Procs \cup {NoProc}
    BY <1>33 DEF Release, Unlock
  <2> QED
    BY <1>33, <2>1, <2>2 DEF Release, corpusVars, groupVars, fileVars
<1>34. ASSUME NEW p \in Procs, PublicationStepFails(p) PROVE TypeOK'
  BY <1>34 DEF PublicationStepFails, Fault, PublicationFails,
      AfterFailure, corpusVars, fileVars
<1>35. ASSUME NEW p \in Procs, RepairStepFails(p) PROVE TypeOK'
  BY <1>35 DEF RepairStepFails, Fault, corpusVars, groupVars,
      fileVars
<1>36. ASSUME NEW p \in Procs, Crash(p) PROVE TypeOK'
  BY <1>0, <1>36 DEF Crash, Finished, Unlock, Fault, Interrupt,
      Unsettled, corpusVars, fileVars
<1>37. CASE UNCHANGED vars
  BY <1>37 DEF vars, corpusVars, groupVars, fileVars, procVars
<1> QED
  BY <1>1, <1>2, <1>3, <1>4, <1>5, <1>6, <1>7, <1>8, <1>9, <1>10, <1>11, <1>12,
     <1>13, <1>14, <1>15, <1>16, <1>17, <1>18, <1>19, <1>20, <1>21, <1>22,
     <1>23, <1>24, <1>25, <1>26, <1>27, <1>28, <1>29, <1>30, <1>31, <1>32,
     <1>33, <1>34, <1>35, <1>36, <1>37
  DEF Next, Collect, Publish, Repair

LEMMA CriticalLabels ==
  /\ "import" \in Critical /\ "finalize" \in Critical /\ "retain" \in Critical
  /\ "begin" \in Critical /\ "build" \in Critical /\ "prune" \in Critical
  /\ "install" \in Critical /\ "switch" \in Critical /\ "finish" \in Critical
  /\ "enqueue" \in Critical /\ "reportLane" \in Critical /\ "reportGlobal" \in Critical
  /\ "discard" \in Critical /\ "repairGlobal" \in Critical /\ "repairCheck" \in Critical
  /\ "repairLane" \in Critical /\ "dequeue" \in Critical /\ "release" \in Critical
BY DEF Critical, Importing, Publishing, Building, Settling

LEMMA OutsideLabels ==
  /\ "idle" \notin Critical /\ "fetch" \notin Critical /\ "wait" \notin Critical
  /\ "enter" \notin Critical /\ "error" \notin Critical
BY DEF Critical, Importing, Publishing, Building, Settling

(* A step takes the lock when it is free, keeps it between two critical    *)
(* steps, or releases its own on the way out: nobody else's is touched.    *)
LEMMA NextWriter ==
  ASSUME TypeOK, SingleWriter, [Next]_vars
  PROVE  SingleWriter'
<1> USE CriticalLabels, OutsideLabels, LaneProcs, PublicationAssumption
    DEF SingleWriter, Goto
<1>0. pc \in [Procs -> PC] /\ lock \in Procs \cup {NoProc}
  BY DEF TypeOK
<1>1. ASSUME NEW p \in Lanes, StartCollect(p) PROVE SingleWriter'
  BY <1>0, <1>1 DEF StartCollect
<1>2. ASSUME NEW p \in Lanes, PollBusy(p) PROVE SingleWriter'
  BY <1>0, <1>2 DEF PollBusy, procVars
<1>3. ASSUME NEW p \in Lanes, FetchDone(p) PROVE SingleWriter'
  BY <1>0, <1>3 DEF FetchDone
<1>4. ASSUME NEW p \in Lanes, AcquireMerge(p) PROVE SingleWriter'
  BY <1>0, <1>4 DEF AcquireMerge
<1>5. ASSUME NEW p \in Lanes, MergeDeferred(p) PROVE SingleWriter'
  BY <1>0, <1>5 DEF MergeDeferred, Finished
<1>6. ASSUME NEW p \in Lanes, Import(p) PROVE SingleWriter'
  BY <1>0, <1>6 DEF Import
<1>7. ASSUME NEW p \in Lanes, Finalize(p) PROVE SingleWriter'
  BY <1>0, <1>7 DEF Finalize
<1>8. ASSUME NEW p \in Lanes, Enqueue(p) PROVE SingleWriter'
  BY <1>0, <1>8 DEF Enqueue
<1>9. ASSUME NEW p \in Lanes, ReportLane(p) PROVE SingleWriter'
  BY <1>0, <1>9 DEF ReportLane
<1>10. ASSUME NEW p \in Lanes, ReportGlobal(p) PROVE SingleWriter'
  BY <1>0, <1>10 DEF ReportGlobal
<1>11. ASSUME NEW p \in Lanes, DiscardStage(p) PROVE SingleWriter'
  BY <1>0, <1>11 DEF DiscardStage, Finished, Unlock
<1>12. ASSUME NEW p \in Lanes, WriteError(p) PROVE SingleWriter'
  BY <1>0, <1>12 DEF WriteError, Finished
<1>13. ASSUME NEW p \in Lanes, LaneFailure(p) PROVE SingleWriter'
  BY <1>0, <1>13 DEF LaneFailure, Unlock
<1>14. ASSUME StartRetry PROVE SingleWriter'
  BY <1>0, <1>14 DEF StartRetry
<1>15. ASSUME StartConsume PROVE SingleWriter'
  BY <1>0, <1>15 DEF StartConsume
<1>16. ASSUME NEW p \in Procs, Retain(p) PROVE SingleWriter'
  BY <1>0, <1>16 DEF Retain
<1>17. ASSUME NEW p \in Procs, NoWeeklyBatch(p) PROVE SingleWriter'
  BY <1>0, <1>17 DEF NoWeeklyBatch, PublicationFails, AfterFailure
<1>18. ASSUME NEW p \in Procs, BeginGroup(p) PROVE SingleWriter'
  BY <1>0, <1>18 DEF BeginGroup
<1>19. ASSUME NEW p \in Procs, BuildGroup(p) PROVE SingleWriter'
  BY <1>0, <1>19 DEF BuildGroup
<1>20. ASSUME NEW p \in Procs, PruneGroups(p) PROVE SingleWriter'
  BY <1>0, <1>20 DEF PruneGroups
<1>21. ASSUME NEW p \in Procs, InstallGroup(p) PROVE SingleWriter'
  BY <1>0, <1>21 DEF InstallGroup
<1>22. ASSUME NEW p \in Procs, SwitchPointer(p) PROVE SingleWriter'
  BY <1>0, <1>22 DEF SwitchPointer
<1>23. ASSUME NEW p \in Procs, FinishGroup(p) PROVE SingleWriter'
  BY <1>0, <1>23 DEF FinishGroup, AfterSuccess
<1>24. ASSUME NEW p \in Procs, EnterBusy(p) PROVE SingleWriter'
  BY <1>0, <1>24 DEF EnterBusy, Finished
<1>25. ASSUME NEW p \in Procs, EnterMaintain(p) PROVE SingleWriter'
  BY <1>0, <1>25 DEF EnterMaintain
<1>26. ASSUME NEW p \in Procs, EnterRetry(p) PROVE SingleWriter'
  BY <1>0, <1>26 DEF EnterRetry
<1>27. ASSUME NEW p \in Procs, RetryNotNeeded(p) PROVE SingleWriter'
  BY <1>0, <1>27 DEF RetryNotNeeded, Finished
<1>28. ASSUME NEW p \in Procs, EnterConsume(p) PROVE SingleWriter'
  BY <1>0, <1>28 DEF EnterConsume
<1>29. ASSUME NEW p \in Procs, RepairGlobal(p) PROVE SingleWriter'
  BY <1>0, <1>29 DEF RepairGlobal
<1>30. ASSUME NEW p \in Procs, RepairCheck(p) PROVE SingleWriter'
  BY <1>0, <1>30 DEF RepairCheck, AfterRepair
<1>31. ASSUME NEW p \in Procs, RepairLane(p) PROVE SingleWriter'
  BY <1>0, <1>31 DEF RepairLane, AfterRepair
<1>32. ASSUME NEW p \in Procs, Dequeue(p) PROVE SingleWriter'
  BY <1>0, <1>32 DEF Dequeue
<1>33. ASSUME NEW p \in Procs, Release(p) PROVE SingleWriter'
  BY <1>0, <1>33 DEF Release, Finished, Unlock
<1>34. ASSUME NEW p \in Procs, PublicationStepFails(p) PROVE SingleWriter'
  BY <1>0, <1>34 DEF PublicationStepFails, PublicationFails, AfterFailure, Building
<1>35. ASSUME NEW p \in Procs, RepairStepFails(p) PROVE SingleWriter'
  BY <1>0, <1>35 DEF RepairStepFails
<1>36. ASSUME NEW p \in Procs, Crash(p) PROVE SingleWriter'
  BY <1>0, <1>36 DEF Crash, Finished, Unlock
<1>37. CASE UNCHANGED vars
  BY <1>37 DEF vars, procVars
<1> QED
  BY <1>1, <1>2, <1>3, <1>4, <1>5, <1>6, <1>7, <1>8, <1>9, <1>10, <1>11, <1>12,
     <1>13, <1>14, <1>15, <1>16, <1>17, <1>18, <1>19, <1>20, <1>21, <1>22,
     <1>23, <1>24, <1>25, <1>26, <1>27, <1>28, <1>29, <1>30, <1>31, <1>32,
     <1>33, <1>34, <1>35, <1>36, <1>37
  DEF Next, Collect, Publish, Repair

(* Collecting labels are only reached by a collector, and past the import it *)
(* knows its batch.                                                          *)
LEMMA NextJobKnown ==
  ASSUME TypeOK, JobKnown, [Next]_vars
  PROVE  JobKnown'
<1> USE CriticalLabels, OutsideLabels, LaneProcs, PublicationAssumption
    DEF JobKnown, Goto
<1>0. /\ pc \in [Procs -> PC]
      /\ task \in [Procs -> {"none", "collect", "maintain", "retry", "consume"}]
      /\ job \in [Procs -> BatchId \cup {NoBatch}]
  BY DEF TypeOK
<1>1. ASSUME NEW p \in Lanes, StartCollect(p) PROVE JobKnown'
  BY <1>0, <1>1 DEF StartCollect
<1>2. ASSUME NEW p \in Lanes, PollBusy(p) PROVE JobKnown'
  BY <1>0, <1>2 DEF PollBusy, procVars
<1>3. ASSUME NEW p \in Lanes, FetchDone(p) PROVE JobKnown'
  BY <1>0, <1>3 DEF FetchDone
<1>4. ASSUME NEW p \in Lanes, AcquireMerge(p) PROVE JobKnown'
  BY <1>0, <1>4 DEF AcquireMerge
<1>5. ASSUME NEW p \in Lanes, MergeDeferred(p) PROVE JobKnown'
  BY <1>0, <1>5 DEF MergeDeferred, Finished
<1>6. ASSUME NEW p \in Lanes, Import(p) PROVE JobKnown'
  BY <1>0, <1>6 DEF Import
<1>7. ASSUME NEW p \in Lanes, Finalize(p) PROVE JobKnown'
  BY <1>0, <1>7 DEF Finalize
<1>8. ASSUME NEW p \in Lanes, Enqueue(p) PROVE JobKnown'
  BY <1>0, <1>8 DEF Enqueue
<1>9. ASSUME NEW p \in Lanes, ReportLane(p) PROVE JobKnown'
  BY <1>0, <1>9 DEF ReportLane
<1>10. ASSUME NEW p \in Lanes, ReportGlobal(p) PROVE JobKnown'
  BY <1>0, <1>10 DEF ReportGlobal
<1>11. ASSUME NEW p \in Lanes, DiscardStage(p) PROVE JobKnown'
  BY <1>0, <1>11 DEF DiscardStage, Finished
<1>12. ASSUME NEW p \in Lanes, WriteError(p) PROVE JobKnown'
  BY <1>0, <1>12 DEF WriteError, Finished
<1>13. ASSUME NEW p \in Lanes, LaneFailure(p) PROVE JobKnown'
  BY <1>0, <1>13 DEF LaneFailure
<1>14. ASSUME StartRetry PROVE JobKnown'
  BY <1>0, <1>14 DEF StartRetry
<1>15. ASSUME StartConsume PROVE JobKnown'
  BY <1>0, <1>15 DEF StartConsume
<1>16. ASSUME NEW p \in Procs, Retain(p) PROVE JobKnown'
  BY <1>0, <1>16 DEF Retain
<1>17. ASSUME NEW p \in Procs, NoWeeklyBatch(p) PROVE JobKnown'
  BY <1>0, <1>17 DEF NoWeeklyBatch, PublicationFails, AfterFailure
<1>18. ASSUME NEW p \in Procs, BeginGroup(p) PROVE JobKnown'
  BY <1>0, <1>18 DEF BeginGroup
<1>19. ASSUME NEW p \in Procs, BuildGroup(p) PROVE JobKnown'
  BY <1>0, <1>19 DEF BuildGroup
<1>20. ASSUME NEW p \in Procs, PruneGroups(p) PROVE JobKnown'
  BY <1>0, <1>20 DEF PruneGroups
<1>21. ASSUME NEW p \in Procs, InstallGroup(p) PROVE JobKnown'
  BY <1>0, <1>21 DEF InstallGroup
<1>22. ASSUME NEW p \in Procs, SwitchPointer(p) PROVE JobKnown'
  BY <1>0, <1>22 DEF SwitchPointer
<1>23. ASSUME NEW p \in Procs, FinishGroup(p) PROVE JobKnown'
  BY <1>0, <1>23 DEF FinishGroup, AfterSuccess
<1>24. ASSUME NEW p \in Procs, EnterBusy(p) PROVE JobKnown'
  BY <1>0, <1>24 DEF EnterBusy, Finished
<1>25. ASSUME NEW p \in Procs, EnterMaintain(p) PROVE JobKnown'
  BY <1>0, <1>25 DEF EnterMaintain
<1>26. ASSUME NEW p \in Procs, EnterRetry(p) PROVE JobKnown'
  BY <1>0, <1>26 DEF EnterRetry
<1>27. ASSUME NEW p \in Procs, RetryNotNeeded(p) PROVE JobKnown'
  BY <1>0, <1>27 DEF RetryNotNeeded, Finished
<1>28. ASSUME NEW p \in Procs, EnterConsume(p) PROVE JobKnown'
  BY <1>0, <1>28 DEF EnterConsume
<1>29. ASSUME NEW p \in Procs, RepairGlobal(p) PROVE JobKnown'
  BY <1>0, <1>29 DEF RepairGlobal
<1>30. ASSUME NEW p \in Procs, RepairCheck(p) PROVE JobKnown'
  BY <1>0, <1>30 DEF RepairCheck, AfterRepair
<1>31. ASSUME NEW p \in Procs, RepairLane(p) PROVE JobKnown'
  BY <1>0, <1>31 DEF RepairLane, AfterRepair
<1>32. ASSUME NEW p \in Procs, Dequeue(p) PROVE JobKnown'
  BY <1>0, <1>32 DEF Dequeue
<1>33. ASSUME NEW p \in Procs, Release(p) PROVE JobKnown'
  BY <1>0, <1>33 DEF Release, Finished
<1>34. ASSUME NEW p \in Procs, PublicationStepFails(p) PROVE JobKnown'
  BY <1>0, <1>34 DEF PublicationStepFails, PublicationFails, AfterFailure, Building
<1>35. ASSUME NEW p \in Procs, RepairStepFails(p) PROVE JobKnown'
  BY <1>0, <1>35 DEF RepairStepFails
<1>36. ASSUME NEW p \in Procs, Crash(p) PROVE JobKnown'
  BY <1>0, <1>36 DEF Crash, Finished
<1>37. CASE UNCHANGED vars
  BY <1>37 DEF vars, procVars
<1> QED
  BY <1>1, <1>2, <1>3, <1>4, <1>5, <1>6, <1>7, <1>8, <1>9, <1>10, <1>11, <1>12,
     <1>13, <1>14, <1>15, <1>16, <1>17, <1>18, <1>19, <1>20, <1>21, <1>22,
     <1>23, <1>24, <1>25, <1>26, <1>27, <1>28, <1>29, <1>30, <1>31, <1>32,
     <1>33, <1>34, <1>35, <1>36, <1>37
  DEF Next, Collect, Publish, Repair

LEMMA BuildingLabels ==
  /\ "build" \in Building /\ "prune" \in Building /\ "install" \in Building
  /\ "switch" \in Building /\ "finish" \in Building
  /\ "import" \notin Building /\ "finalize" \notin Building /\ "retain" \notin Building
  /\ "begin" \notin Building /\ "enqueue" \notin Building /\ "reportLane" \notin Building
  /\ "reportGlobal" \notin Building /\ "discard" \notin Building /\ "repairGlobal" \notin Building
  /\ "repairCheck" \notin Building /\ "repairLane" \notin Building /\ "dequeue" \notin Building
  /\ "release" \notin Building /\ "idle" \notin Building /\ "fetch" \notin Building
  /\ "wait" \notin Building /\ "enter" \notin Building /\ "error" \notin Building
BY DEF Building

LEMMA OneBuilder ==
  ASSUME SingleWriter, NEW p \in Procs, NEW q \in Procs,
         pc[p] \in Building, pc[q] \in Critical
  PROVE  p = q
<1>1. pc[p] \in Critical
  BY DEF Critical, Publishing
<1> QED
  BY <1>1 DEF SingleWriter

(* The candidate belongs to the one process that builds a group, which     *)
(* installs it before it moves the pointer.                                *)
LEMMA NextCandidate ==
  ASSUME TypeOK, SingleWriter, CandidateOwned, InstalledBeforeSwitch, [Next]_vars
  PROVE  CandidateOwned' /\ InstalledBeforeSwitch'
<1> DEFINE Owned == CandidateOwned' /\ InstalledBeforeSwitch'
<1> USE BuildingLabels, CriticalLabels, OneBuilder, LaneProcs, NoGroupAssumption
    DEF CandidateOwned, InstalledBeforeSwitch, Goto
<1>0. /\ pc \in [Procs -> PC]
      /\ candidate \in Group \cup {NoGroup}
      /\ groups \subseteq Group
  BY DEF TypeOK
<1>1. ASSUME NEW p \in Lanes, StartCollect(p) PROVE Owned
  BY <1>0, <1>1 DEF StartCollect, groupVars
<1>2. ASSUME NEW p \in Lanes, PollBusy(p) PROVE Owned
  BY <1>0, <1>2 DEF PollBusy, procVars, groupVars
<1>3. ASSUME NEW p \in Lanes, FetchDone(p) PROVE Owned
  BY <1>0, <1>3 DEF FetchDone, groupVars
<1>4. ASSUME NEW p \in Lanes, AcquireMerge(p) PROVE Owned
  BY <1>0, <1>4 DEF AcquireMerge, groupVars
<1>5. ASSUME NEW p \in Lanes, MergeDeferred(p) PROVE Owned
  BY <1>0, <1>5 DEF MergeDeferred, Finished, groupVars
<1>6. ASSUME NEW p \in Lanes, Import(p) PROVE Owned
  BY <1>0, <1>6 DEF Import, groupVars
<1>7. ASSUME NEW p \in Lanes, Finalize(p) PROVE Owned
  BY <1>0, <1>7 DEF Finalize, groupVars
<1>8. ASSUME NEW p \in Lanes, Enqueue(p) PROVE Owned
  BY <1>0, <1>8 DEF Enqueue, groupVars
<1>9. ASSUME NEW p \in Lanes, ReportLane(p) PROVE Owned
  BY <1>0, <1>9 DEF ReportLane, groupVars
<1>10. ASSUME NEW p \in Lanes, ReportGlobal(p) PROVE Owned
  BY <1>0, <1>10 DEF ReportGlobal, groupVars
<1>11. ASSUME NEW p \in Lanes, DiscardStage(p) PROVE Owned
  BY <1>0, <1>11 DEF DiscardStage, Finished, groupVars
<1>12. ASSUME NEW p \in Lanes, WriteError(p) PROVE Owned
  BY <1>0, <1>12 DEF WriteError, Finished, groupVars
<1>13. ASSUME NEW p \in Lanes, LaneFailure(p) PROVE Owned
  BY <1>0, <1>13 DEF LaneFailure, groupVars
<1>14. ASSUME StartRetry PROVE Owned
  BY <1>0, <1>14 DEF StartRetry, groupVars
<1>15. ASSUME StartConsume PROVE Owned
  BY <1>0, <1>15 DEF StartConsume, groupVars
<1>16. ASSUME NEW p \in Procs, Retain(p) PROVE Owned
  BY <1>0, <1>16 DEF Retain, groupVars
<1>17. ASSUME NEW p \in Procs, NoWeeklyBatch(p) PROVE Owned
  BY <1>0, <1>17 DEF NoWeeklyBatch, PublicationFails, AfterFailure
<1>18. ASSUME NEW p \in Procs, BeginGroup(p) PROVE Owned
  <2>1. now[p] \in Time /\ Content(now[p]) \in SUBSET BatchId
    BY DEF TypeOK, Content, Accepted
  <2>2. candidate' \in Group
    BY <1>18, <2>1 DEF BeginGroup, Group
  <2> QED
    BY <1>0, <1>18, <2>2 DEF BeginGroup
<1>19. ASSUME NEW p \in Procs, BuildGroup(p) PROVE Owned
  BY <1>0, <1>19 DEF BuildGroup, groupVars
<1>20. ASSUME NEW p \in Procs, PruneGroups(p) PROVE Owned
  BY <1>0, <1>20 DEF PruneGroups
<1>21. ASSUME NEW p \in Procs, InstallGroup(p) PROVE Owned
  BY <1>0, <1>21 DEF InstallGroup
<1>22. ASSUME NEW p \in Procs, SwitchPointer(p) PROVE Owned
  BY <1>0, <1>22 DEF SwitchPointer
<1>23. ASSUME NEW p \in Procs, FinishGroup(p) PROVE Owned
  BY <1>0, <1>23 DEF FinishGroup, AfterSuccess
<1>24. ASSUME NEW p \in Procs, EnterBusy(p) PROVE Owned
  BY <1>0, <1>24 DEF EnterBusy, Finished, groupVars
<1>25. ASSUME NEW p \in Procs, EnterMaintain(p) PROVE Owned
  BY <1>0, <1>25 DEF EnterMaintain, groupVars
<1>26. ASSUME NEW p \in Procs, EnterRetry(p) PROVE Owned
  BY <1>0, <1>26 DEF EnterRetry, groupVars
<1>27. ASSUME NEW p \in Procs, RetryNotNeeded(p) PROVE Owned
  BY <1>0, <1>27 DEF RetryNotNeeded, Finished, groupVars
<1>28. ASSUME NEW p \in Procs, EnterConsume(p) PROVE Owned
  BY <1>0, <1>28 DEF EnterConsume, groupVars
<1>29. ASSUME NEW p \in Procs, RepairGlobal(p) PROVE Owned
  BY <1>0, <1>29 DEF RepairGlobal, groupVars
<1>30. ASSUME NEW p \in Procs, RepairCheck(p) PROVE Owned
  BY <1>0, <1>30 DEF RepairCheck, AfterRepair, groupVars
<1>31. ASSUME NEW p \in Procs, RepairLane(p) PROVE Owned
  BY <1>0, <1>31 DEF RepairLane, AfterRepair, groupVars
<1>32. ASSUME NEW p \in Procs, Dequeue(p) PROVE Owned
  BY <1>0, <1>32 DEF Dequeue, groupVars
<1>33. ASSUME NEW p \in Procs, Release(p) PROVE Owned
  BY <1>0, <1>33 DEF Release, Finished, groupVars
<1>34. ASSUME NEW p \in Procs, PublicationStepFails(p) PROVE Owned
  <2>1. \A q \in Procs : pc'[q] \notin Building
    <3> SUFFICES ASSUME NEW q \in Procs, q # p PROVE pc[q] \notin Building
      BY <1>0, <1>34 DEF PublicationStepFails, PublicationFails, AfterFailure
    <3> QED
      BY <1>34, OneBuilder DEF PublicationStepFails, Critical, Publishing
  <2> QED
    BY <1>34, <2>1 DEF PublicationStepFails, PublicationFails
<1>35. ASSUME NEW p \in Procs, RepairStepFails(p) PROVE Owned
  BY <1>0, <1>35 DEF RepairStepFails, groupVars
<1>36. ASSUME NEW p \in Procs, Crash(p) PROVE Owned
  <2>1. CASE lock = p
    <3>1. \A q \in Procs : pc'[q] \notin Building
      <4> SUFFICES ASSUME NEW q \in Procs, q # p PROVE pc[q] \notin Building
        BY <1>0, <1>36 DEF Crash, Finished
      <4> QED
        BY <2>1 DEF SingleWriter, Critical, Publishing
    <3> QED
      BY <1>36, <2>1, <3>1 DEF Crash
  <2>2. CASE lock # p
    <3>1. pc[p] \notin Building
      BY <2>2 DEF SingleWriter, Critical, Publishing
    <3> QED
      BY <1>0, <1>36, <2>2, <3>1 DEF Crash, Finished
  <2> QED
    BY <2>1, <2>2
<1>37. CASE UNCHANGED vars
  BY <1>37 DEF vars, procVars, groupVars
<1> QED
  BY <1>1, <1>2, <1>3, <1>4, <1>5, <1>6, <1>7, <1>8, <1>9, <1>10, <1>11, <1>12,
     <1>13, <1>14, <1>15, <1>16, <1>17, <1>18, <1>19, <1>20, <1>21, <1>22,
     <1>23, <1>24, <1>25, <1>26, <1>27, <1>28, <1>29, <1>30, <1>31, <1>32,
     <1>33, <1>34, <1>35, <1>36, <1>37
  DEF Next, Collect, Publish, Repair

(* A batch is decided once, by the collector that imported it. *)
LEMMA NextJobUndecided ==
  ASSUME TypeOK, SingleWriter, JobKnown, JobUndecided, [Next]_vars
  PROVE  JobUndecided'
<1> USE CriticalLabels, LaneProcs DEF JobUndecided, Goto
<1>0. /\ pc \in [Procs -> PC]
      /\ job \in [Procs -> BatchId \cup {NoBatch}]
      /\ status \in [BatchId -> BatchStatus]
  BY DEF TypeOK
<1>1. ASSUME NEW p \in Lanes, StartCollect(p) PROVE JobUndecided'
  BY <1>0, <1>1 DEF StartCollect, corpusVars
<1>2. ASSUME NEW p \in Lanes, PollBusy(p) PROVE JobUndecided'
  BY <1>0, <1>2 DEF PollBusy, procVars, corpusVars
<1>3. ASSUME NEW p \in Lanes, FetchDone(p) PROVE JobUndecided'
  BY <1>0, <1>3 DEF FetchDone, corpusVars
<1>4. ASSUME NEW p \in Lanes, AcquireMerge(p) PROVE JobUndecided'
  BY <1>0, <1>4 DEF AcquireMerge, corpusVars
<1>5. ASSUME NEW p \in Lanes, MergeDeferred(p) PROVE JobUndecided'
  BY <1>0, <1>5 DEF MergeDeferred, Finished, corpusVars
<1>6. ASSUME NEW p \in Lanes, Import(p) PROVE JobUndecided'
  BY <1>0, <1>6 DEF Import, SingleWriter, JobKnown
<1>7. ASSUME NEW p \in Lanes, Finalize(p) PROVE JobUndecided'
  BY <1>0, <1>7 DEF Finalize, SingleWriter, JobKnown
<1>8. ASSUME NEW p \in Lanes, Enqueue(p) PROVE JobUndecided'
  BY <1>0, <1>8 DEF Enqueue, corpusVars
<1>9. ASSUME NEW p \in Lanes, ReportLane(p) PROVE JobUndecided'
  BY <1>0, <1>9 DEF ReportLane, corpusVars
<1>10. ASSUME NEW p \in Lanes, ReportGlobal(p) PROVE JobUndecided'
  BY <1>0, <1>10 DEF ReportGlobal, corpusVars
<1>11. ASSUME NEW p \in Lanes, DiscardStage(p) PROVE JobUndecided'
  BY <1>0, <1>11 DEF DiscardStage, Finished, corpusVars
<1>12. ASSUME NEW p \in Lanes, WriteError(p) PROVE JobUndecided'
  BY <1>0, <1>12 DEF WriteError, Finished, corpusVars
<1>13. ASSUME NEW p \in Lanes, LaneFailure(p) PROVE JobUndecided'
  BY <1>0, <1>13 DEF LaneFailure, corpusVars, JobKnown
<1>14. ASSUME StartRetry PROVE JobUndecided'
  BY <1>0, <1>14 DEF StartRetry, corpusVars
<1>15. ASSUME StartConsume PROVE JobUndecided'
  BY <1>0, <1>15 DEF StartConsume, corpusVars
<1>16. ASSUME NEW p \in Procs, Retain(p) PROVE JobUndecided'
  <2> SUFFICES ASSUME NEW q \in Procs, pc'[q] = "finalize"
               PROVE  status'[job'[q]] \in {"collecting", "conflicted"}
    OBVIOUS
  <2>1. pc[q] = "finalize" /\ job'[q] = job[q]
    BY <1>0, <1>16 DEF Retain
  <2>2. job[q] \in BatchId /\ status[job[q]] \in {"collecting", "conflicted"}
    BY <2>1 DEF JobKnown
  <2> QED
    BY <1>16, <2>1, <2>2 DEF Retain, Accepted
<1>17. ASSUME NEW p \in Procs, NoWeeklyBatch(p) PROVE JobUndecided'
  BY <1>0, <1>17 DEF NoWeeklyBatch, corpusVars, PublicationFails, AfterFailure
<1>18. ASSUME NEW p \in Procs, BeginGroup(p) PROVE JobUndecided'
  BY <1>0, <1>18 DEF BeginGroup, corpusVars
<1>19. ASSUME NEW p \in Procs, BuildGroup(p) PROVE JobUndecided'
  BY <1>0, <1>19 DEF BuildGroup, corpusVars
<1>20. ASSUME NEW p \in Procs, PruneGroups(p) PROVE JobUndecided'
  BY <1>0, <1>20 DEF PruneGroups, corpusVars
<1>21. ASSUME NEW p \in Procs, InstallGroup(p) PROVE JobUndecided'
  BY <1>0, <1>21 DEF InstallGroup, corpusVars
<1>22. ASSUME NEW p \in Procs, SwitchPointer(p) PROVE JobUndecided'
  BY <1>0, <1>22 DEF SwitchPointer, corpusVars
<1>23. ASSUME NEW p \in Procs, FinishGroup(p) PROVE JobUndecided'
  BY <1>0, <1>23 DEF FinishGroup, AfterSuccess, corpusVars
<1>24. ASSUME NEW p \in Procs, EnterBusy(p) PROVE JobUndecided'
  BY <1>0, <1>24 DEF EnterBusy, Finished, corpusVars
<1>25. ASSUME NEW p \in Procs, EnterMaintain(p) PROVE JobUndecided'
  BY <1>0, <1>25 DEF EnterMaintain, corpusVars
<1>26. ASSUME NEW p \in Procs, EnterRetry(p) PROVE JobUndecided'
  BY <1>0, <1>26 DEF EnterRetry, corpusVars
<1>27. ASSUME NEW p \in Procs, RetryNotNeeded(p) PROVE JobUndecided'
  BY <1>0, <1>27 DEF RetryNotNeeded, Finished, corpusVars
<1>28. ASSUME NEW p \in Procs, EnterConsume(p) PROVE JobUndecided'
  BY <1>0, <1>28 DEF EnterConsume, corpusVars
<1>29. ASSUME NEW p \in Procs, RepairGlobal(p) PROVE JobUndecided'
  BY <1>0, <1>29 DEF RepairGlobal, corpusVars
<1>30. ASSUME NEW p \in Procs, RepairCheck(p) PROVE JobUndecided'
  BY <1>0, <1>30 DEF RepairCheck, AfterRepair, corpusVars
<1>31. ASSUME NEW p \in Procs, RepairLane(p) PROVE JobUndecided'
  BY <1>0, <1>31 DEF RepairLane, AfterRepair, corpusVars
<1>32. ASSUME NEW p \in Procs, Dequeue(p) PROVE JobUndecided'
  BY <1>0, <1>32 DEF Dequeue, corpusVars
<1>33. ASSUME NEW p \in Procs, Release(p) PROVE JobUndecided'
  BY <1>0, <1>33 DEF Release, Finished, corpusVars
<1>34. ASSUME NEW p \in Procs, PublicationStepFails(p) PROVE JobUndecided'
  BY <1>0, <1>34 DEF PublicationStepFails, corpusVars, PublicationFails,
      AfterFailure
<1>35. ASSUME NEW p \in Procs, RepairStepFails(p) PROVE JobUndecided'
  BY <1>0, <1>35 DEF RepairStepFails, corpusVars
<1>36. ASSUME NEW p \in Procs, Crash(p) PROVE JobUndecided'
  BY <1>0, <1>36 DEF Crash, Finished, corpusVars
<1>37. CASE UNCHANGED vars
  BY <1>37 DEF vars, procVars, corpusVars
<1> QED
  BY <1>1, <1>2, <1>3, <1>4, <1>5, <1>6, <1>7, <1>8, <1>9, <1>10, <1>11, <1>12,
     <1>13, <1>14, <1>15, <1>16, <1>17, <1>18, <1>19, <1>20, <1>21, <1>22,
     <1>23, <1>24, <1>25, <1>26, <1>27, <1>28, <1>29, <1>30, <1>31, <1>32,
     <1>33, <1>34, <1>35, <1>36, <1>37
  DEF Next, Collect, Publish, Repair

(* Nothing changes the corpus while a group is being built from it. *)
LEMMA NextCandidateCurrent ==
  ASSUME TypeOK, SingleWriter, CandidateOwned, CandidateCurrent, [Next]_vars
  PROVE  CandidateCurrent'
<1> USE CriticalLabels, LaneProcs DEF CandidateCurrent, Content, Accepted
<1>1. ASSUME NEW p \in Lanes, StartCollect(p) PROVE CandidateCurrent'
  BY <1>1 DEF StartCollect, corpusVars, groupVars
<1>2. ASSUME NEW p \in Lanes, PollBusy(p) PROVE CandidateCurrent'
  BY <1>2 DEF PollBusy, corpusVars, groupVars
<1>3. ASSUME NEW p \in Lanes, FetchDone(p) PROVE CandidateCurrent'
  BY <1>3 DEF FetchDone, corpusVars, groupVars
<1>4. ASSUME NEW p \in Lanes, AcquireMerge(p) PROVE CandidateCurrent'
  BY <1>4 DEF AcquireMerge, corpusVars, groupVars
<1>5. ASSUME NEW p \in Lanes, MergeDeferred(p) PROVE CandidateCurrent'
  BY <1>5 DEF MergeDeferred, corpusVars, groupVars
<1>6. ASSUME NEW p \in Lanes, Import(p) PROVE CandidateCurrent'
  <2>1. candidate = NoGroup
    BY <1>6, OneBuilder, BuildingLabels DEF Import, CandidateOwned
  <2> QED
    BY <1>6, <2>1 DEF Import, groupVars
<1>7. ASSUME NEW p \in Lanes, Finalize(p) PROVE CandidateCurrent'
  <2>1. candidate = NoGroup
    BY <1>7, OneBuilder, BuildingLabels DEF Finalize, CandidateOwned
  <2> QED
    BY <1>7, <2>1 DEF Finalize, groupVars
<1>8. ASSUME NEW p \in Lanes, Enqueue(p) PROVE CandidateCurrent'
  BY <1>8 DEF Enqueue, corpusVars, groupVars
<1>9. ASSUME NEW p \in Lanes, ReportLane(p) PROVE CandidateCurrent'
  BY <1>9 DEF ReportLane, corpusVars, groupVars
<1>10. ASSUME NEW p \in Lanes, ReportGlobal(p) PROVE CandidateCurrent'
  BY <1>10 DEF ReportGlobal, corpusVars, groupVars
<1>11. ASSUME NEW p \in Lanes, DiscardStage(p) PROVE CandidateCurrent'
  BY <1>11 DEF DiscardStage, corpusVars, groupVars
<1>12. ASSUME NEW p \in Lanes, WriteError(p) PROVE CandidateCurrent'
  BY <1>12 DEF WriteError, corpusVars, groupVars
<1>13. ASSUME NEW p \in Lanes, LaneFailure(p) PROVE CandidateCurrent'
  BY <1>13 DEF LaneFailure, corpusVars, groupVars
<1>14. ASSUME StartRetry PROVE CandidateCurrent'
  BY <1>14 DEF StartRetry, corpusVars, groupVars
<1>15. ASSUME StartConsume PROVE CandidateCurrent'
  BY <1>15 DEF StartConsume, corpusVars, groupVars
<1>16. ASSUME NEW p \in Procs, Retain(p) PROVE CandidateCurrent'
  <2>1. candidate = NoGroup
    BY <1>16, OneBuilder, BuildingLabels DEF Retain, CandidateOwned
  <2> QED
    BY <1>16, <2>1 DEF Retain, groupVars
<1>17. ASSUME NEW p \in Procs, NoWeeklyBatch(p) PROVE CandidateCurrent'
  BY <1>17 DEF NoWeeklyBatch, corpusVars, PublicationFails
<1>18. ASSUME NEW p \in Procs, BeginGroup(p) PROVE CandidateCurrent'
  BY <1>18 DEF BeginGroup, corpusVars
<1>19. ASSUME NEW p \in Procs, BuildGroup(p) PROVE CandidateCurrent'
  BY <1>19 DEF BuildGroup, corpusVars, groupVars
<1>20. ASSUME NEW p \in Procs, PruneGroups(p) PROVE CandidateCurrent'
  BY <1>20 DEF PruneGroups, corpusVars
<1>21. ASSUME NEW p \in Procs, InstallGroup(p) PROVE CandidateCurrent'
  BY <1>21 DEF InstallGroup, corpusVars
<1>22. ASSUME NEW p \in Procs, SwitchPointer(p) PROVE CandidateCurrent'
  BY <1>22 DEF SwitchPointer, corpusVars
<1>23. ASSUME NEW p \in Procs, FinishGroup(p) PROVE CandidateCurrent'
  BY <1>23 DEF FinishGroup, corpusVars
<1>24. ASSUME NEW p \in Procs, EnterBusy(p) PROVE CandidateCurrent'
  BY <1>24 DEF EnterBusy, corpusVars, groupVars
<1>25. ASSUME NEW p \in Procs, EnterMaintain(p) PROVE CandidateCurrent'
  BY <1>25 DEF EnterMaintain, corpusVars, groupVars
<1>26. ASSUME NEW p \in Procs, EnterRetry(p) PROVE CandidateCurrent'
  BY <1>26 DEF EnterRetry, corpusVars, groupVars
<1>27. ASSUME NEW p \in Procs, RetryNotNeeded(p) PROVE CandidateCurrent'
  BY <1>27 DEF RetryNotNeeded, corpusVars, groupVars
<1>28. ASSUME NEW p \in Procs, EnterConsume(p) PROVE CandidateCurrent'
  BY <1>28 DEF EnterConsume, corpusVars, groupVars
<1>29. ASSUME NEW p \in Procs, RepairGlobal(p) PROVE CandidateCurrent'
  BY <1>29 DEF RepairGlobal, corpusVars, groupVars
<1>30. ASSUME NEW p \in Procs, RepairCheck(p) PROVE CandidateCurrent'
  BY <1>30 DEF RepairCheck, corpusVars, groupVars
<1>31. ASSUME NEW p \in Procs, RepairLane(p) PROVE CandidateCurrent'
  BY <1>31 DEF RepairLane, corpusVars, groupVars
<1>32. ASSUME NEW p \in Procs, Dequeue(p) PROVE CandidateCurrent'
  BY <1>32 DEF Dequeue, corpusVars, groupVars
<1>33. ASSUME NEW p \in Procs, Release(p) PROVE CandidateCurrent'
  BY <1>33 DEF Release, corpusVars, groupVars
<1>34. ASSUME NEW p \in Procs, PublicationStepFails(p) PROVE CandidateCurrent'
  BY <1>34 DEF PublicationStepFails, corpusVars, PublicationFails
<1>35. ASSUME NEW p \in Procs, RepairStepFails(p) PROVE CandidateCurrent'
  BY <1>35 DEF RepairStepFails, corpusVars, groupVars
<1>36. ASSUME NEW p \in Procs, Crash(p) PROVE CandidateCurrent'
  BY <1>36 DEF Crash, corpusVars
<1>37. CASE UNCHANGED vars
  BY <1>37 DEF vars, groupVars, corpusVars
<1> QED
  BY <1>1, <1>2, <1>3, <1>4, <1>5, <1>6, <1>7, <1>8, <1>9, <1>10, <1>11, <1>12,
     <1>13, <1>14, <1>15, <1>16, <1>17, <1>18, <1>19, <1>20, <1>21, <1>22,
     <1>23, <1>24, <1>25, <1>26, <1>27, <1>28, <1>29, <1>30, <1>31, <1>32,
     <1>33, <1>34, <1>35, <1>36, <1>37
  DEF Next, Collect, Publish, Repair

(* What groups contain was accepted when they were built, and an accepted  *)
(* batch can only expire afterwards.                                       *)
LEMMA NextOnlyValidatedFacts ==
  ASSUME TypeOK, SingleWriter, CandidateOwned, JobKnown, JobUndecided,
         OnlyValidatedFacts,
         [Next]_vars
  PROVE  OnlyValidatedFacts'
<1> USE LaneProcs, NoGroupAssumption DEF OnlyValidatedFacts
<1>1. ASSUME NEW p \in Lanes, StartCollect(p) PROVE OnlyValidatedFacts'
  BY <1>1 DEF StartCollect, corpusVars, groupVars
<1>2. ASSUME NEW p \in Lanes, PollBusy(p) PROVE OnlyValidatedFacts'
  BY <1>2 DEF PollBusy, corpusVars, groupVars
<1>3. ASSUME NEW p \in Lanes, FetchDone(p) PROVE OnlyValidatedFacts'
  BY <1>3 DEF FetchDone, corpusVars, groupVars
<1>4. ASSUME NEW p \in Lanes, AcquireMerge(p) PROVE OnlyValidatedFacts'
  BY <1>4 DEF AcquireMerge, corpusVars, groupVars
<1>5. ASSUME NEW p \in Lanes, MergeDeferred(p) PROVE OnlyValidatedFacts'
  BY <1>5 DEF MergeDeferred, corpusVars, groupVars
<1>6. ASSUME NEW p \in Lanes, Import(p) PROVE OnlyValidatedFacts'
  BY <1>6 DEF Import, groupVars, TypeOK, Group, BatchStatus, Accepted
<1>7. ASSUME NEW p \in Lanes, Finalize(p) PROVE OnlyValidatedFacts'
  BY <1>7 DEF Finalize, groupVars, TypeOK, Group, BatchStatus, Accepted,
      JobUndecided
<1>8. ASSUME NEW p \in Lanes, Enqueue(p) PROVE OnlyValidatedFacts'
  BY <1>8 DEF Enqueue, corpusVars, groupVars
<1>9. ASSUME NEW p \in Lanes, ReportLane(p) PROVE OnlyValidatedFacts'
  BY <1>9 DEF ReportLane, corpusVars, groupVars
<1>10. ASSUME NEW p \in Lanes, ReportGlobal(p) PROVE OnlyValidatedFacts'
  BY <1>10 DEF ReportGlobal, corpusVars, groupVars
<1>11. ASSUME NEW p \in Lanes, DiscardStage(p) PROVE OnlyValidatedFacts'
  BY <1>11 DEF DiscardStage, corpusVars, groupVars
<1>12. ASSUME NEW p \in Lanes, WriteError(p) PROVE OnlyValidatedFacts'
  BY <1>12 DEF WriteError, corpusVars, groupVars
<1>13. ASSUME NEW p \in Lanes, LaneFailure(p) PROVE OnlyValidatedFacts'
  BY <1>13 DEF LaneFailure, corpusVars, groupVars
<1>14. ASSUME StartRetry PROVE OnlyValidatedFacts'
  BY <1>14 DEF StartRetry, corpusVars, groupVars
<1>15. ASSUME StartConsume PROVE OnlyValidatedFacts'
  BY <1>15 DEF StartConsume, corpusVars, groupVars
<1>16. ASSUME NEW p \in Procs, Retain(p) PROVE OnlyValidatedFacts'
  BY <1>16 DEF Retain, groupVars, TypeOK, Group, BatchStatus, Accepted
<1>17. ASSUME NEW p \in Procs, NoWeeklyBatch(p) PROVE OnlyValidatedFacts'
  BY <1>17 DEF NoWeeklyBatch, corpusVars, PublicationFails
<1>18. ASSUME NEW p \in Procs, BeginGroup(p) PROVE OnlyValidatedFacts'
  BY <1>18 DEF BeginGroup, corpusVars, Content, Accepted
<1>19. ASSUME NEW p \in Procs, BuildGroup(p) PROVE OnlyValidatedFacts'
  BY <1>19 DEF BuildGroup, corpusVars, groupVars
<1>20. ASSUME NEW p \in Procs, PruneGroups(p) PROVE OnlyValidatedFacts'
  BY <1>20 DEF PruneGroups, corpusVars
<1>21. ASSUME NEW p \in Procs, InstallGroup(p) PROVE OnlyValidatedFacts'
  BY <1>21, BuildingLabels DEF InstallGroup, corpusVars, CandidateOwned
<1>22. ASSUME NEW p \in Procs, SwitchPointer(p) PROVE OnlyValidatedFacts'
  BY <1>22, BuildingLabels DEF SwitchPointer, corpusVars, CandidateOwned
<1>23. ASSUME NEW p \in Procs, FinishGroup(p) PROVE OnlyValidatedFacts'
  BY <1>23 DEF FinishGroup, corpusVars
<1>24. ASSUME NEW p \in Procs, EnterBusy(p) PROVE OnlyValidatedFacts'
  BY <1>24 DEF EnterBusy, corpusVars, groupVars
<1>25. ASSUME NEW p \in Procs, EnterMaintain(p) PROVE OnlyValidatedFacts'
  BY <1>25 DEF EnterMaintain, corpusVars, groupVars
<1>26. ASSUME NEW p \in Procs, EnterRetry(p) PROVE OnlyValidatedFacts'
  BY <1>26 DEF EnterRetry, corpusVars, groupVars
<1>27. ASSUME NEW p \in Procs, RetryNotNeeded(p) PROVE OnlyValidatedFacts'
  BY <1>27 DEF RetryNotNeeded, corpusVars, groupVars
<1>28. ASSUME NEW p \in Procs, EnterConsume(p) PROVE OnlyValidatedFacts'
  BY <1>28 DEF EnterConsume, corpusVars, groupVars
<1>29. ASSUME NEW p \in Procs, RepairGlobal(p) PROVE OnlyValidatedFacts'
  BY <1>29 DEF RepairGlobal, corpusVars, groupVars
<1>30. ASSUME NEW p \in Procs, RepairCheck(p) PROVE OnlyValidatedFacts'
  BY <1>30 DEF RepairCheck, corpusVars, groupVars
<1>31. ASSUME NEW p \in Procs, RepairLane(p) PROVE OnlyValidatedFacts'
  BY <1>31 DEF RepairLane, corpusVars, groupVars
<1>32. ASSUME NEW p \in Procs, Dequeue(p) PROVE OnlyValidatedFacts'
  BY <1>32 DEF Dequeue, corpusVars, groupVars
<1>33. ASSUME NEW p \in Procs, Release(p) PROVE OnlyValidatedFacts'
  BY <1>33 DEF Release, corpusVars, groupVars
<1>34. ASSUME NEW p \in Procs, PublicationStepFails(p) PROVE OnlyValidatedFacts'
  BY <1>34 DEF PublicationStepFails, corpusVars, PublicationFails
<1>35. ASSUME NEW p \in Procs, RepairStepFails(p) PROVE OnlyValidatedFacts'
  BY <1>35 DEF RepairStepFails, corpusVars, groupVars
<1>36. ASSUME NEW p \in Procs, Crash(p) PROVE OnlyValidatedFacts'
  BY <1>36 DEF Crash, corpusVars
<1>37. CASE UNCHANGED vars
  BY <1>37 DEF vars, groupVars, corpusVars
<1> QED
  BY <1>1, <1>2, <1>3, <1>4, <1>5, <1>6, <1>7, <1>8, <1>9, <1>10, <1>11, <1>12,
     <1>13, <1>14, <1>15, <1>16, <1>17, <1>18, <1>19, <1>20, <1>21, <1>22,
     <1>23, <1>24, <1>25, <1>26, <1>27, <1>28, <1>29, <1>30, <1>31, <1>32,
     <1>33, <1>34, <1>35, <1>36, <1>37
  DEF Next, Collect, Publish, Repair

(* The inductive invariant. *)
THEOREM Invariance == Spec => []PublicationInv
<1>1. Init => PublicationInv
  <2> SUFFICES ASSUME Init PROVE PublicationInv
    OBVIOUS
  <2>1. TypeOK
    BY InitTyping
  <2>2. SingleWriter
    BY PublicationAssumption, OutsideLabels DEF Init, SingleWriter
  <2>3. CandidateOwned /\ InstalledBeforeSwitch /\ JobKnown /\ JobUndecided
    BY BuildingLabels
    DEF Init, CandidateOwned, InstalledBeforeSwitch, JobKnown, JobUndecided
  <2>4. CandidateCurrent /\ OnlyValidatedFacts
    BY DEF Init, CandidateCurrent, OnlyValidatedFacts
  <2> QED
    BY <2>1, <2>2, <2>3, <2>4 DEF PublicationInv
<1>2. PublicationInv /\ [Next]_vars => PublicationInv'
  BY NextTyping, NextWriter, NextCandidate, NextJobKnown, NextJobUndecided,
     NextCandidateCurrent, NextOnlyValidatedFacts
  DEF PublicationInv
<1> QED
  BY <1>1, <1>2, PTL DEF Spec

(* Every variable keeps its type. *)
THEOREM Typing == Spec => []TypeOK
BY Invariance, PTL DEF PublicationInv

(* Two processes are never both between taking and releasing writer.lock. *)
THEOREM MutualExclusion == Spec => []SingleWriter
BY Invariance, PTL DEF PublicationInv

(* No group on disk, under construction or active holds facts of a batch   *)
(* that did not pass validation, or from outside the group's window.       *)
THEOREM ValidatedContent == Spec => []OnlyValidatedFacts
BY Invariance, PTL DEF PublicationInv

(* A group describes the corpus as it is when the group is finished. *)
THEOREM CurrentContent == Spec => []CandidateCurrent
BY Invariance, PTL DEF PublicationInv

(* A step of the collectors and repairs is a step of the catalogue or      *)
(* leaves it alone.                                                        *)
LEMMA CatalogStep ==
  ASSUME PublicationInv, [Next]_vars
  PROVE  [Catalog!Next]_<<groups, active>>
<1> DEFINE Step == [Catalog!Next]_<<groups, active>>
<1> USE LaneProcs
<1>1. ASSUME NEW p \in Lanes, StartCollect(p) PROVE Step
  BY <1>1 DEF StartCollect, groupVars
<1>2. ASSUME NEW p \in Lanes, PollBusy(p) PROVE Step
  BY <1>2 DEF PollBusy, groupVars
<1>3. ASSUME NEW p \in Lanes, FetchDone(p) PROVE Step
  BY <1>3 DEF FetchDone, groupVars
<1>4. ASSUME NEW p \in Lanes, AcquireMerge(p) PROVE Step
  BY <1>4 DEF AcquireMerge, groupVars
<1>5. ASSUME NEW p \in Lanes, MergeDeferred(p) PROVE Step
  BY <1>5 DEF MergeDeferred, groupVars
<1>6. ASSUME NEW p \in Lanes, Import(p) PROVE Step
  BY <1>6 DEF Import, groupVars
<1>7. ASSUME NEW p \in Lanes, Finalize(p) PROVE Step
  BY <1>7 DEF Finalize, groupVars
<1>8. ASSUME NEW p \in Lanes, Enqueue(p) PROVE Step
  BY <1>8 DEF Enqueue, groupVars
<1>9. ASSUME NEW p \in Lanes, ReportLane(p) PROVE Step
  BY <1>9 DEF ReportLane, groupVars
<1>10. ASSUME NEW p \in Lanes, ReportGlobal(p) PROVE Step
  BY <1>10 DEF ReportGlobal, groupVars
<1>11. ASSUME NEW p \in Lanes, DiscardStage(p) PROVE Step
  BY <1>11 DEF DiscardStage, groupVars
<1>12. ASSUME NEW p \in Lanes, WriteError(p) PROVE Step
  BY <1>12 DEF WriteError, groupVars
<1>13. ASSUME NEW p \in Lanes, LaneFailure(p) PROVE Step
  BY <1>13 DEF LaneFailure, groupVars
<1>14. ASSUME StartRetry PROVE Step
  BY <1>14 DEF StartRetry, groupVars
<1>15. ASSUME StartConsume PROVE Step
  BY <1>15 DEF StartConsume, groupVars
<1>16. ASSUME NEW p \in Procs, Retain(p) PROVE Step
  BY <1>16 DEF Retain, groupVars
<1>17. ASSUME NEW p \in Procs, NoWeeklyBatch(p) PROVE Step
  BY <1>17 DEF NoWeeklyBatch
<1>18. ASSUME NEW p \in Procs, BeginGroup(p) PROVE Step
  BY <1>18 DEF BeginGroup
<1>19. ASSUME NEW p \in Procs, BuildGroup(p) PROVE Step
  BY <1>19 DEF BuildGroup, groupVars
<1>20. ASSUME NEW p \in Procs, PruneGroups(p) PROVE Step
  <2>1. PICK gone \in SUBSET Removable : groups' = groups \ gone
    BY <1>20 DEF PruneGroups
  <2>2. \A g \in gone : \E h \in groups \ gone : h.at > g.at
    <3> SUFFICES ASSUME NEW g \in gone PROVE \E h \in groups \ gone : h.at > g.at
      OBVIOUS
    <3>1. PICK h \in NewestGroups : g.at < h.at
      BY DEF Removable
    <3>2. h \notin Removable
      BY DEF Removable, NewestGroups, PublicationInv, TypeOK, Group, Time
    <3> QED
      BY <2>1, <3>1, <3>2 DEF NewestGroups, PublicationInv, TypeOK, Group, Time
  <2>3. gone \in SUBSET groups
    BY <2>1 DEF Removable
  <2>4. Catalog!Retire(gone)
    BY <1>20, <2>1, <2>2 DEF PruneGroups, Catalog!Retire
  <2> QED
    BY <2>3, <2>4 DEF Catalog!Next
<1>21. ASSUME NEW p \in Procs, InstallGroup(p) PROVE Step
  <2>1. candidate \in Group
    BY <1>21, BuildingLabels DEF InstallGroup, PublicationInv, TypeOK, CandidateOwned
  <2>2. Catalog!Install(candidate)
    BY <1>21 DEF InstallGroup, Catalog!Install
  <2> QED
    BY <2>1, <2>2 DEF Catalog!Next
<1>22. ASSUME NEW p \in Procs, SwitchPointer(p) PROVE Step
  <2>1. candidate \in groups
    BY <1>22 DEF SwitchPointer, PublicationInv, InstalledBeforeSwitch
  <2>2. Catalog!Activate(candidate)
    BY <1>22, <2>1 DEF SwitchPointer, Catalog!Activate
  <2> QED
    BY <2>1, <2>2 DEF Catalog!Next
<1>23. ASSUME NEW p \in Procs, FinishGroup(p) PROVE Step
  BY <1>23 DEF FinishGroup
<1>24. ASSUME NEW p \in Procs, EnterBusy(p) PROVE Step
  BY <1>24 DEF EnterBusy, groupVars
<1>25. ASSUME NEW p \in Procs, EnterMaintain(p) PROVE Step
  BY <1>25 DEF EnterMaintain, groupVars
<1>26. ASSUME NEW p \in Procs, EnterRetry(p) PROVE Step
  BY <1>26 DEF EnterRetry, groupVars
<1>27. ASSUME NEW p \in Procs, RetryNotNeeded(p) PROVE Step
  BY <1>27 DEF RetryNotNeeded, groupVars
<1>28. ASSUME NEW p \in Procs, EnterConsume(p) PROVE Step
  BY <1>28 DEF EnterConsume, groupVars
<1>29. ASSUME NEW p \in Procs, RepairGlobal(p) PROVE Step
  BY <1>29 DEF RepairGlobal, groupVars
<1>30. ASSUME NEW p \in Procs, RepairCheck(p) PROVE Step
  BY <1>30 DEF RepairCheck, groupVars
<1>31. ASSUME NEW p \in Procs, RepairLane(p) PROVE Step
  BY <1>31 DEF RepairLane, groupVars
<1>32. ASSUME NEW p \in Procs, Dequeue(p) PROVE Step
  BY <1>32 DEF Dequeue, groupVars
<1>33. ASSUME NEW p \in Procs, Release(p) PROVE Step
  BY <1>33 DEF Release, groupVars
<1>34. ASSUME NEW p \in Procs, PublicationStepFails(p) PROVE Step
  BY <1>34 DEF PublicationStepFails
<1>35. ASSUME NEW p \in Procs, RepairStepFails(p) PROVE Step
  BY <1>35 DEF RepairStepFails, groupVars
<1>36. ASSUME NEW p \in Procs, Crash(p) PROVE Step
  BY <1>36 DEF Crash
<1>37. CASE UNCHANGED vars
  BY <1>37 DEF vars, groupVars
<1> QED
  BY <1>1, <1>2, <1>3, <1>4, <1>5, <1>6, <1>7, <1>8, <1>9, <1>10, <1>11, <1>12,
     <1>13, <1>14, <1>15, <1>16, <1>17, <1>18, <1>19, <1>20, <1>21, <1>22,
     <1>23, <1>24, <1>25, <1>26, <1>27, <1>28, <1>29, <1>30, <1>31, <1>32,
     <1>33, <1>34, <1>35, <1>36, <1>37
  DEF Next, Collect, Publish, Repair

(* Publication implements the catalogue with its pointer. *)
THEOREM Refinement == Spec => ImplementsCatalog
<1>1. Init => Catalog!Init
  BY DEF Init, Catalog!Init
<1>2. PublicationInv /\ [Next]_vars => [Catalog!Next]_<<groups, active>>
  BY CatalogStep
<1> QED
  BY <1>1, <1>2, Invariance, PTL DEF Spec, ImplementsCatalog, Catalog!Spec

-----------------------------------------------------------------------------
(* The outcome of a publication is set when it ended and forgotten with   *)
(* the run.                                                               *)
LEMMA NextOutcomeKnown ==
  ASSUME TypeOK, JobKnown, OutcomeKnown, [Next]_vars
  PROVE  OutcomeKnown'
<1> USE LaneProcs
    DEF OutcomeKnown, Critical, Importing, Publishing, Building, Settling, Reporting,
        Repairing, Goto
<1>0. /\ pc \in [Procs -> PC]
      /\ task \in [Procs -> {"none", "collect", "maintain", "retry", "consume"}]
      /\ outcome \in [Procs -> {"none", "published", "failed"}]
      /\ job \in [Procs -> BatchId \cup {NoBatch}]
      /\ now \in [Procs -> Time]
      /\ status \in [BatchId -> BatchStatus]
      /\ laneStatus \in [Lanes -> StatusFile]
  BY DEF TypeOK
<1>1. ASSUME NEW p \in Lanes, StartCollect(p) PROVE OutcomeKnown'
  BY <1>0, <1>1
  DEF StartCollect, SetLaneStatus, JobKnown, corpusVars, fileVars, groupVars
<1>2. ASSUME NEW p \in Lanes, PollBusy(p) PROVE OutcomeKnown'
  BY <1>0, <1>2
  DEF PollBusy, SetLaneStatus, procVars, JobKnown, corpusVars, fileVars, groupVars
<1>3. ASSUME NEW p \in Lanes, FetchDone(p) PROVE OutcomeKnown'
  BY <1>0, <1>3 DEF FetchDone, ReadClock, JobKnown, corpusVars, fileVars, groupVars
<1>4. ASSUME NEW p \in Lanes, AcquireMerge(p) PROVE OutcomeKnown'
  BY <1>0, <1>4 DEF AcquireMerge, JobKnown, corpusVars, fileVars, groupVars
<1>5. ASSUME NEW p \in Lanes, MergeDeferred(p) PROVE OutcomeKnown'
  BY <1>0, <1>5 DEF MergeDeferred, Finished, JobKnown, corpusVars, fileVars, groupVars
<1>6. ASSUME NEW p \in Lanes, Import(p) PROVE OutcomeKnown'
  BY <1>0, <1>6 DEF Import, SetLaneStatus, JobKnown, corpusVars, fileVars, groupVars
<1>7. ASSUME NEW p \in Lanes, Finalize(p) PROVE OutcomeKnown'
  BY <1>0, <1>7 DEF Finalize, JobKnown, corpusVars, fileVars, groupVars
<1>8. ASSUME NEW p \in Lanes, Enqueue(p) PROVE OutcomeKnown'
  BY <1>0, <1>8 DEF Enqueue, JobKnown, corpusVars, fileVars, groupVars
<1>9. ASSUME NEW p \in Lanes, ReportLane(p) PROVE OutcomeKnown'
  BY <1>0, <1>9 DEF ReportLane, JobKnown, corpusVars, fileVars, groupVars
<1>10. ASSUME NEW p \in Lanes, ReportGlobal(p) PROVE OutcomeKnown'
  BY <1>0, <1>10 DEF ReportGlobal, JobKnown, corpusVars, fileVars, groupVars
<1>11. ASSUME NEW p \in Lanes, DiscardStage(p) PROVE OutcomeKnown'
  BY <1>0, <1>11
  DEF DiscardStage, Finished, Unlock, JobKnown, corpusVars, fileVars, groupVars
<1>12. ASSUME NEW p \in Lanes, WriteError(p) PROVE OutcomeKnown'
  BY <1>0, <1>12
  DEF WriteError, Finished, SetLaneStatus, JobKnown, corpusVars, fileVars, groupVars
<1>13. ASSUME NEW p \in Lanes, LaneFailure(p) PROVE OutcomeKnown'
  BY <1>0, <1>13
  DEF LaneFailure, Unlock, Interrupt, ReadClock, JobKnown, corpusVars, fileVars,
      groupVars
<1>14. ASSUME StartRetry PROVE OutcomeKnown'
  BY <1>0, <1>14 DEF StartRetry, JobKnown, corpusVars, fileVars, groupVars
<1>15. ASSUME StartConsume PROVE OutcomeKnown'
  BY <1>0, <1>15 DEF StartConsume, JobKnown, corpusVars, fileVars, groupVars
<1>16. ASSUME NEW p \in Procs, Retain(p) PROVE OutcomeKnown'
  BY <1>0, <1>16 DEF Retain, JobKnown, corpusVars, fileVars, groupVars
<1>17. ASSUME NEW p \in Procs, NoWeeklyBatch(p) PROVE OutcomeKnown'
  BY <1>0, <1>17
  DEF NoWeeklyBatch, PublicationFails, AfterFailure, JobKnown, corpusVars, fileVars,
      groupVars
<1>18. ASSUME NEW p \in Procs, BeginGroup(p) PROVE OutcomeKnown'
  BY <1>0, <1>18 DEF BeginGroup, JobKnown, corpusVars, fileVars, groupVars
<1>19. ASSUME NEW p \in Procs, BuildGroup(p) PROVE OutcomeKnown'
  BY <1>0, <1>19 DEF BuildGroup, JobKnown, corpusVars, fileVars, groupVars
<1>20. ASSUME NEW p \in Procs, PruneGroups(p) PROVE OutcomeKnown'
  BY <1>0, <1>20 DEF PruneGroups, JobKnown, corpusVars, fileVars, groupVars
<1>21. ASSUME NEW p \in Procs, InstallGroup(p) PROVE OutcomeKnown'
  BY <1>0, <1>21 DEF InstallGroup, JobKnown, corpusVars, fileVars, groupVars
<1>22. ASSUME NEW p \in Procs, SwitchPointer(p) PROVE OutcomeKnown'
  BY <1>0, <1>22 DEF SwitchPointer, JobKnown, corpusVars, fileVars, groupVars
<1>23. ASSUME NEW p \in Procs, FinishGroup(p) PROVE OutcomeKnown'
  BY <1>0, <1>23
  DEF FinishGroup, AfterSuccess, JobKnown, corpusVars, fileVars, groupVars
<1>24. ASSUME NEW p \in Procs, EnterBusy(p) PROVE OutcomeKnown'
  BY <1>0, <1>24 DEF EnterBusy, Finished, JobKnown, corpusVars, fileVars, groupVars
<1>25. ASSUME NEW p \in Procs, EnterMaintain(p) PROVE OutcomeKnown'
  BY <1>0, <1>25 DEF EnterMaintain, JobKnown, corpusVars, fileVars, groupVars
<1>26. ASSUME NEW p \in Procs, EnterRetry(p) PROVE OutcomeKnown'
  BY <1>0, <1>26 DEF EnterRetry, ReadClock, JobKnown, corpusVars, fileVars, groupVars
<1>27. ASSUME NEW p \in Procs, RetryNotNeeded(p) PROVE OutcomeKnown'
  BY <1>0, <1>27
  DEF RetryNotNeeded, Finished, JobKnown, corpusVars, fileVars, groupVars
<1>28. ASSUME NEW p \in Procs, EnterConsume(p) PROVE OutcomeKnown'
  BY <1>0, <1>28
  DEF EnterConsume, ReadClock, JobKnown, corpusVars, fileVars, groupVars
<1>29. ASSUME NEW p \in Procs, RepairGlobal(p) PROVE OutcomeKnown'
  BY <1>0, <1>29 DEF RepairGlobal, JobKnown, corpusVars, fileVars, groupVars
<1>30. ASSUME NEW p \in Procs, RepairCheck(p) PROVE OutcomeKnown'
  BY <1>0, <1>30
  DEF RepairCheck, AfterRepair, JobKnown, corpusVars, fileVars, groupVars
<1>31. ASSUME NEW p \in Procs, RepairLane(p) PROVE OutcomeKnown'
  BY <1>0, <1>31
  DEF RepairLane, AfterRepair, SetLaneStatus, JobKnown, corpusVars, fileVars,
      groupVars
<1>32. ASSUME NEW p \in Procs, Dequeue(p) PROVE OutcomeKnown'
  BY <1>0, <1>32 DEF Dequeue, JobKnown, corpusVars, fileVars, groupVars
<1>33. ASSUME NEW p \in Procs, Release(p) PROVE OutcomeKnown'
  BY <1>0, <1>33
  DEF Release, Finished, Unlock, JobKnown, corpusVars, fileVars, groupVars
<1>34. ASSUME NEW p \in Procs, PublicationStepFails(p) PROVE OutcomeKnown'
  BY <1>0, <1>34
  DEF PublicationStepFails, PublicationFails, AfterFailure, JobKnown, corpusVars,
      fileVars, groupVars
<1>35. ASSUME NEW p \in Procs, RepairStepFails(p) PROVE OutcomeKnown'
  BY <1>0, <1>35 DEF RepairStepFails, JobKnown, corpusVars, fileVars, groupVars
<1>36. ASSUME NEW p \in Procs, Crash(p) PROVE OutcomeKnown'
  BY <1>0, <1>36
  DEF Crash, Finished, Unlock, Interrupt, JobKnown, corpusVars, fileVars, groupVars
<1>37. CASE UNCHANGED vars
  BY <1>37 DEF vars, procVars, corpusVars, fileVars, groupVars, JobKnown
<1> QED
  BY <1>1, <1>2, <1>3, <1>4, <1>5, <1>6, <1>7, <1>8, <1>9, <1>10, <1>11,
     <1>12, <1>13, <1>14, <1>15, <1>16, <1>17, <1>18, <1>19, <1>20, <1>21,
     <1>22, <1>23, <1>24, <1>25, <1>26, <1>27, <1>28, <1>29, <1>30, <1>31,
     <1>32, <1>33, <1>34, <1>35, <1>36, <1>37
  DEF Next, Collect, Publish, Repair

(* The batches of the corpus change by an import, a verdict or retention. *)
LEMMA CorpusWriters ==
  ASSUME [Next]_vars
  PROVE  \/ UNCHANGED corpusVars
         \/ \E p \in Lanes : Import(p) \/ Finalize(p)
         \/ \E p \in Procs : Retain(p)
BY DEF Next, Collect, Publish, Repair, StartCollect, PollBusy, FetchDone,
       AcquireMerge,
       MergeDeferred, Enqueue, ReportLane, ReportGlobal, DiscardStage, WriteError,
       LaneFailure, StartRetry, StartConsume, NoWeeklyBatch, BeginGroup, BuildGroup,
       PruneGroups, InstallGroup, SwitchPointer, FinishGroup, EnterBusy, EnterMaintain,
       EnterRetry, RetryNotNeeded, EnterConsume, RepairGlobal, RepairCheck, RepairLane,
       Dequeue, Release, PublicationStepFails, RepairStepFails, Crash, vars

(* Verdicts are final: only retention changes a decided batch, and only   *)
(* from accepted to expired.                                              *)
LEMMA StatusStays ==
  ASSUME TypeOK, JobKnown, JobUndecided, [Next]_vars
  PROVE  /\ \A b : Valid(b) => Valid(b)'
         /\ \A b \in BatchId : status[b] \in {"rejected", "expired"} => status'[b] = status[b]
         /\ Accepted' \subseteq Accepted \/ \E p \in Lanes : Finalize(p)
<1> USE DEF Valid, Accepted
<1>0. status \in [BatchId -> BatchStatus]
  BY DEF TypeOK
<1>1. CASE UNCHANGED corpusVars
  BY <1>1 DEF corpusVars
<1>2. ASSUME NEW p \in Lanes, Import(p)
      PROVE  /\ \A b \in BatchId : status[b] # "absent" => status'[b] = status[b]
             /\ \A b \in BatchId : status'[b] # "accepted" \/ status[b] = "accepted"
  BY <1>0, <1>2 DEF Import
<1>3. ASSUME NEW p \in Lanes, Finalize(p)
      PROVE  \A b \in BatchId : status[b] \notin {"collecting", "conflicted"} =>
               status'[b] = status[b]
  <2>1. status[job[p]] \in {"collecting", "conflicted"}
    BY <1>3, LaneProcs DEF Finalize, JobUndecided
  <2> QED
    BY <1>0, <1>3, <2>1 DEF Finalize
<1>4. ASSUME NEW p \in Procs, Retain(p)
      PROVE  \A b \in BatchId :
               \/ status'[b] = status[b]
               \/ status[b] = "accepted" /\ status'[b] = "expired"
  BY <1>0, <1>4 DEF Retain
<1> QED
  BY <1>0, <1>1, <1>2, <1>3, <1>4, CorpusWriters

(* All three hold the lock: while it is held after the retention, nothing *)
(* else is accepted and nothing expires.                                  *)
LEMMA AcceptedStays ==
  ASSUME SingleWriter, [Next]_vars,
         NEW q \in Procs, pc[q] \in Publishing \cup Reporting \cup Repairing
  PROVE  Accepted' = Accepted /\ UNCHANGED <<status, completed>>
<1> USE CriticalLabels, LaneProcs
    DEF SingleWriter, Publishing, Building, Reporting, Repairing
<1>0. pc[q] \in Critical
  OBVIOUS
<1>1. ASSUME NEW p \in Lanes, Import(p) PROVE FALSE
  BY <1>0, <1>1 DEF Import
<1>2. ASSUME NEW p \in Lanes, Finalize(p) PROVE FALSE
  BY <1>0, <1>2 DEF Finalize
<1>3. ASSUME NEW p \in Procs, Retain(p) PROVE FALSE
  BY <1>0, <1>3 DEF Retain
<1> QED
  BY <1>1, <1>2, <1>3, CorpusWriters DEF Accepted, corpusVars

(* The retention is run with the timestamp of the publication, and nobody *)
(* but the builder touches its candidate.                                 *)
LEMMA NextWindowApplied ==
  ASSUME TypeOK, SingleWriter, CandidateOwned, WindowApplied, [Next]_vars
  PROVE  WindowApplied'
<1> USE LaneProcs, CriticalLabels, OneBuilder, NoGroupAssumption
    DEF WindowApplied, CandidateOwned, Publishing, Building, Goto
<1>0. /\ pc \in [Procs -> PC]
      /\ task \in [Procs -> {"none", "collect", "maintain", "retry", "consume"}]
      /\ outcome \in [Procs -> {"none", "published", "failed"}]
      /\ job \in [Procs -> BatchId \cup {NoBatch}]
      /\ now \in [Procs -> Time]
      /\ status \in [BatchId -> BatchStatus]
      /\ laneStatus \in [Lanes -> StatusFile]
  BY DEF TypeOK
<1>a. \A q \in Procs : pc[q] \in Publishing => Accepted' = Accepted /\ completed' = completed
  BY AcceptedStays
<1>1. ASSUME NEW p \in Lanes, StartCollect(p) PROVE WindowApplied'
  BY <1>0, <1>a, <1>1 DEF StartCollect, SetLaneStatus, corpusVars, fileVars, groupVars
<1>2. ASSUME NEW p \in Lanes, PollBusy(p) PROVE WindowApplied'
  BY <1>0, <1>a, <1>2
  DEF PollBusy, SetLaneStatus, procVars, corpusVars, fileVars, groupVars
<1>3. ASSUME NEW p \in Lanes, FetchDone(p) PROVE WindowApplied'
  BY <1>0, <1>a, <1>3 DEF FetchDone, ReadClock, corpusVars, fileVars, groupVars
<1>4. ASSUME NEW p \in Lanes, AcquireMerge(p) PROVE WindowApplied'
  BY <1>0, <1>a, <1>4 DEF AcquireMerge, corpusVars, fileVars, groupVars
<1>5. ASSUME NEW p \in Lanes, MergeDeferred(p) PROVE WindowApplied'
  BY <1>0, <1>a, <1>5 DEF MergeDeferred, Finished, corpusVars, fileVars, groupVars
<1>6. ASSUME NEW p \in Lanes, Import(p) PROVE WindowApplied'
  BY <1>0, <1>a, <1>6 DEF Import, SetLaneStatus, corpusVars, fileVars, groupVars
<1>7. ASSUME NEW p \in Lanes, Finalize(p) PROVE WindowApplied'
  BY <1>0, <1>a, <1>7 DEF Finalize, corpusVars, fileVars, groupVars
<1>8. ASSUME NEW p \in Lanes, Enqueue(p) PROVE WindowApplied'
  BY <1>0, <1>a, <1>8 DEF Enqueue, corpusVars, fileVars, groupVars
<1>9. ASSUME NEW p \in Lanes, ReportLane(p) PROVE WindowApplied'
  BY <1>0, <1>a, <1>9 DEF ReportLane, corpusVars, fileVars, groupVars
<1>10. ASSUME NEW p \in Lanes, ReportGlobal(p) PROVE WindowApplied'
  BY <1>0, <1>a, <1>10 DEF ReportGlobal, corpusVars, fileVars, groupVars
<1>11. ASSUME NEW p \in Lanes, DiscardStage(p) PROVE WindowApplied'
  BY <1>0, <1>a, <1>11
  DEF DiscardStage, Finished, Unlock, corpusVars, fileVars, groupVars
<1>12. ASSUME NEW p \in Lanes, WriteError(p) PROVE WindowApplied'
  BY <1>0, <1>a, <1>12
  DEF WriteError, Finished, SetLaneStatus, corpusVars, fileVars, groupVars
<1>13. ASSUME NEW p \in Lanes, LaneFailure(p) PROVE WindowApplied'
  BY <1>0, <1>a, <1>13
  DEF LaneFailure, Unlock, Interrupt, ReadClock, corpusVars, fileVars, groupVars
<1>14. ASSUME StartRetry PROVE WindowApplied'
  BY <1>0, <1>a, <1>14 DEF StartRetry, corpusVars, fileVars, groupVars
<1>15. ASSUME StartConsume PROVE WindowApplied'
  BY <1>0, <1>a, <1>15 DEF StartConsume, corpusVars, fileVars, groupVars
<1>16. ASSUME NEW p \in Procs, Retain(p) PROVE WindowApplied'
  <2>1. \A q \in Procs \ {p} : pc[q] \notin Publishing /\ pc'[q] = pc[q]
    BY <1>0, <1>16 DEF Retain, SingleWriter, Critical
  <2>2. pc'[p] \in Publishing => pc'[p] = "begin"
    BY <1>0, <1>16 DEF Retain
  <2>3. Accepted' \subseteq Retained(now[p]) /\ completed' = completed /\ now' = now
    BY <1>0, <1>16 DEF Retain, Accepted
  <2>4. \A b \in Accepted' : Inside(completed'[b], now'[p])
    BY <2>3 DEF Retained, RetainedBatches
  <2> QED
    BY <2>1, <2>2, <2>4
<1>17. ASSUME NEW p \in Procs, NoWeeklyBatch(p) PROVE WindowApplied'
  BY <1>0, <1>a, <1>17
  DEF NoWeeklyBatch, PublicationFails, AfterFailure, corpusVars, fileVars, groupVars
<1>18. ASSUME NEW p \in Procs, BeginGroup(p) PROVE WindowApplied'
  BY <1>0, <1>a, <1>18 DEF BeginGroup, corpusVars, fileVars, groupVars
<1>19. ASSUME NEW p \in Procs, BuildGroup(p) PROVE WindowApplied'
  BY <1>0, <1>a, <1>19 DEF BuildGroup, corpusVars, fileVars, groupVars
<1>20. ASSUME NEW p \in Procs, PruneGroups(p) PROVE WindowApplied'
  BY <1>0, <1>a, <1>20 DEF PruneGroups, corpusVars, fileVars, groupVars
<1>21. ASSUME NEW p \in Procs, InstallGroup(p) PROVE WindowApplied'
  BY <1>0, <1>a, <1>21 DEF InstallGroup, corpusVars, fileVars, groupVars
<1>22. ASSUME NEW p \in Procs, SwitchPointer(p) PROVE WindowApplied'
  BY <1>0, <1>a, <1>22 DEF SwitchPointer, corpusVars, fileVars, groupVars
<1>23. ASSUME NEW p \in Procs, FinishGroup(p) PROVE WindowApplied'
  BY <1>0, <1>a, <1>23 DEF FinishGroup, AfterSuccess, corpusVars, fileVars, groupVars
<1>24. ASSUME NEW p \in Procs, EnterBusy(p) PROVE WindowApplied'
  BY <1>0, <1>a, <1>24 DEF EnterBusy, Finished, corpusVars, fileVars, groupVars
<1>25. ASSUME NEW p \in Procs, EnterMaintain(p) PROVE WindowApplied'
  BY <1>0, <1>a, <1>25 DEF EnterMaintain, corpusVars, fileVars, groupVars
<1>26. ASSUME NEW p \in Procs, EnterRetry(p) PROVE WindowApplied'
  BY <1>0, <1>a, <1>26 DEF EnterRetry, ReadClock, corpusVars, fileVars, groupVars
<1>27. ASSUME NEW p \in Procs, RetryNotNeeded(p) PROVE WindowApplied'
  BY <1>0, <1>a, <1>27 DEF RetryNotNeeded, Finished, corpusVars, fileVars, groupVars
<1>28. ASSUME NEW p \in Procs, EnterConsume(p) PROVE WindowApplied'
  BY <1>0, <1>a, <1>28 DEF EnterConsume, ReadClock, corpusVars, fileVars, groupVars
<1>29. ASSUME NEW p \in Procs, RepairGlobal(p) PROVE WindowApplied'
  BY <1>0, <1>a, <1>29 DEF RepairGlobal, corpusVars, fileVars, groupVars
<1>30. ASSUME NEW p \in Procs, RepairCheck(p) PROVE WindowApplied'
  BY <1>0, <1>a, <1>30 DEF RepairCheck, AfterRepair, corpusVars, fileVars, groupVars
<1>31. ASSUME NEW p \in Procs, RepairLane(p) PROVE WindowApplied'
  BY <1>0, <1>a, <1>31
  DEF RepairLane, AfterRepair, SetLaneStatus, corpusVars, fileVars, groupVars
<1>32. ASSUME NEW p \in Procs, Dequeue(p) PROVE WindowApplied'
  BY <1>0, <1>a, <1>32 DEF Dequeue, corpusVars, fileVars, groupVars
<1>33. ASSUME NEW p \in Procs, Release(p) PROVE WindowApplied'
  BY <1>0, <1>a, <1>33 DEF Release, Finished, Unlock, corpusVars, fileVars, groupVars
<1>34. ASSUME NEW p \in Procs, PublicationStepFails(p) PROVE WindowApplied'
  BY <1>0, <1>a, <1>34
  DEF PublicationStepFails, PublicationFails, AfterFailure, corpusVars, fileVars,
      groupVars
<1>35. ASSUME NEW p \in Procs, RepairStepFails(p) PROVE WindowApplied'
  BY <1>0, <1>a, <1>35 DEF RepairStepFails, corpusVars, fileVars, groupVars
<1>36. ASSUME NEW p \in Procs, Crash(p) PROVE WindowApplied'
  <2>1. \A q \in Procs : pc'[q] \in Publishing => pc'[q] = pc[q] /\ now'[q] = now[q] /\ q # p
    BY <1>0, <1>36 DEF Crash, Finished
  <2>2. \A q \in Procs : pc'[q] \in Publishing => candidate' = candidate /\ published' = published
    BY <1>36, <2>1 DEF Crash, SingleWriter, Critical
  <2> QED
    BY <1>a, <2>1, <2>2
<1>37. CASE UNCHANGED vars
  BY <1>37 DEF vars, procVars, corpusVars, fileVars, groupVars, Accepted
<1> QED
  BY <1>1, <1>2, <1>3, <1>4, <1>5, <1>6, <1>7, <1>8, <1>9, <1>10, <1>11,
     <1>12, <1>13, <1>14, <1>15, <1>16, <1>17, <1>18, <1>19, <1>20, <1>21,
     <1>22, <1>23, <1>24, <1>25, <1>26, <1>27, <1>28, <1>29, <1>30, <1>31,
     <1>32, <1>33, <1>34, <1>35, <1>36, <1>37
  DEF Next, Collect, Publish, Repair

(* When the pointer has moved, everything that is accepted is shown. *)
LEMMA ShownAtFinish ==
  ASSUME TypeOK, CandidateOwned, CandidateCurrent, WindowApplied,
         NEW p \in Procs, pc[p] = "finish"
  PROVE  Accepted \subseteq published
<1> USE DEF Building, Publishing
<1>1. candidate # NoGroup /\ candidate.at = now[p] /\ candidate.content \subseteq published
  BY DEF CandidateOwned, WindowApplied
<1>2. \A b \in Accepted : Inside(completed[b], candidate.at)
  BY <1>1 DEF WindowApplied
<1> QED
  BY <1>1, <1>2 DEF CandidateCurrent, Content

(* Between the switch of the pointer and the release of the lock nothing   *)
(* is accepted, so everything accepted stays shown.                        *)
LEMMA NextAcceptedShown ==
  ASSUME TypeOK, SingleWriter, CandidateOwned, CandidateCurrent, OutcomeKnown,
         WindowApplied, AcceptedShown, [Next]_vars
  PROVE  AcceptedShown'
<1> USE LaneProcs DEF AcceptedShown, Publishing, Building, Reporting, Repairing, Goto
<1>0. /\ pc \in [Procs -> PC]
      /\ task \in [Procs -> {"none", "collect", "maintain", "retry", "consume"}]
      /\ outcome \in [Procs -> {"none", "published", "failed"}]
      /\ job \in [Procs -> BatchId \cup {NoBatch}]
      /\ now \in [Procs -> Time]
      /\ status \in [BatchId -> BatchStatus]
      /\ laneStatus \in [Lanes -> StatusFile]
  BY DEF TypeOK
<1>a. \A q \in Procs : pc[q] \in Publishing \cup Reporting \cup Repairing =>
        Accepted' = Accepted /\ status' = status
  BY AcceptedStays
<1>b. \A q \in Procs : pc[q] = "finish" => Accepted \subseteq published
  BY ShownAtFinish
<1>c. \A q \in Procs : pc[q] = "retain" => outcome[q] = "none"
  BY DEF OutcomeKnown, Settling
<1>d. \A q \in Procs : pc[q] = "enqueue" => outcome[q] # "published"
  BY DEF OutcomeKnown
<1>1. ASSUME NEW p \in Lanes, StartCollect(p) PROVE AcceptedShown'
  BY <1>0, <1>a, <1>b, <1>c, <1>d, <1>1
  DEF StartCollect, SetLaneStatus, corpusVars, fileVars, groupVars
<1>2. ASSUME NEW p \in Lanes, PollBusy(p) PROVE AcceptedShown'
  BY <1>0, <1>a, <1>b, <1>c, <1>d, <1>2
  DEF PollBusy, SetLaneStatus, procVars, corpusVars, fileVars, groupVars
<1>3. ASSUME NEW p \in Lanes, FetchDone(p) PROVE AcceptedShown'
  BY <1>0, <1>a, <1>b, <1>c, <1>d, <1>3
  DEF FetchDone, ReadClock, corpusVars, fileVars, groupVars
<1>4. ASSUME NEW p \in Lanes, AcquireMerge(p) PROVE AcceptedShown'
  BY <1>0, <1>a, <1>b, <1>c, <1>d, <1>4
  DEF AcquireMerge, corpusVars, fileVars, groupVars
<1>5. ASSUME NEW p \in Lanes, MergeDeferred(p) PROVE AcceptedShown'
  BY <1>0, <1>a, <1>b, <1>c, <1>d, <1>5
  DEF MergeDeferred, Finished, corpusVars, fileVars, groupVars
<1>6. ASSUME NEW p \in Lanes, Import(p) PROVE AcceptedShown'
  BY <1>0, <1>a, <1>b, <1>c, <1>d, <1>6
  DEF Import, SetLaneStatus, corpusVars, fileVars, groupVars
<1>7. ASSUME NEW p \in Lanes, Finalize(p) PROVE AcceptedShown'
  BY <1>0, <1>a, <1>b, <1>c, <1>d, <1>7 DEF Finalize, corpusVars, fileVars, groupVars
<1>8. ASSUME NEW p \in Lanes, Enqueue(p) PROVE AcceptedShown'
  BY <1>0, <1>a, <1>b, <1>c, <1>d, <1>8 DEF Enqueue, corpusVars, fileVars, groupVars
<1>9. ASSUME NEW p \in Lanes, ReportLane(p) PROVE AcceptedShown'
  BY <1>0, <1>a, <1>b, <1>c, <1>d, <1>9
  DEF ReportLane, corpusVars, fileVars, groupVars
<1>10. ASSUME NEW p \in Lanes, ReportGlobal(p) PROVE AcceptedShown'
  BY <1>0, <1>a, <1>b, <1>c, <1>d, <1>10
  DEF ReportGlobal, corpusVars, fileVars, groupVars
<1>11. ASSUME NEW p \in Lanes, DiscardStage(p) PROVE AcceptedShown'
  BY <1>0, <1>a, <1>b, <1>c, <1>d, <1>11
  DEF DiscardStage, Finished, Unlock, corpusVars, fileVars, groupVars
<1>12. ASSUME NEW p \in Lanes, WriteError(p) PROVE AcceptedShown'
  BY <1>0, <1>a, <1>b, <1>c, <1>d, <1>12
  DEF WriteError, Finished, SetLaneStatus, corpusVars, fileVars, groupVars
<1>13. ASSUME NEW p \in Lanes, LaneFailure(p) PROVE AcceptedShown'
  BY <1>0, <1>a, <1>b, <1>c, <1>d, <1>13
  DEF LaneFailure, Unlock, Interrupt, ReadClock, corpusVars, fileVars, groupVars
<1>14. ASSUME StartRetry PROVE AcceptedShown'
  BY <1>0, <1>a, <1>b, <1>c, <1>d, <1>14
  DEF StartRetry, corpusVars, fileVars, groupVars
<1>15. ASSUME StartConsume PROVE AcceptedShown'
  BY <1>0, <1>a, <1>b, <1>c, <1>d, <1>15
  DEF StartConsume, corpusVars, fileVars, groupVars
<1>16. ASSUME NEW p \in Procs, Retain(p) PROVE AcceptedShown'
  BY <1>0, <1>a, <1>b, <1>c, <1>d, <1>16 DEF Retain, corpusVars, fileVars, groupVars
<1>17. ASSUME NEW p \in Procs, NoWeeklyBatch(p) PROVE AcceptedShown'
  BY <1>0, <1>a, <1>b, <1>c, <1>d, <1>17
  DEF NoWeeklyBatch, PublicationFails, AfterFailure, corpusVars, fileVars, groupVars
<1>18. ASSUME NEW p \in Procs, BeginGroup(p) PROVE AcceptedShown'
  BY <1>0, <1>a, <1>b, <1>c, <1>d, <1>18
  DEF BeginGroup, corpusVars, fileVars, groupVars
<1>19. ASSUME NEW p \in Procs, BuildGroup(p) PROVE AcceptedShown'
  BY <1>0, <1>a, <1>b, <1>c, <1>d, <1>19
  DEF BuildGroup, corpusVars, fileVars, groupVars
<1>20. ASSUME NEW p \in Procs, PruneGroups(p) PROVE AcceptedShown'
  BY <1>0, <1>a, <1>b, <1>c, <1>d, <1>20
  DEF PruneGroups, corpusVars, fileVars, groupVars
<1>21. ASSUME NEW p \in Procs, InstallGroup(p) PROVE AcceptedShown'
  BY <1>0, <1>a, <1>b, <1>c, <1>d, <1>21
  DEF InstallGroup, corpusVars, fileVars, groupVars
<1>22. ASSUME NEW p \in Procs, SwitchPointer(p) PROVE AcceptedShown'
  BY <1>0, <1>a, <1>b, <1>c, <1>d, <1>22
  DEF SwitchPointer, corpusVars, fileVars, groupVars
<1>23. ASSUME NEW p \in Procs, FinishGroup(p) PROVE AcceptedShown'
  BY <1>0, <1>a, <1>b, <1>c, <1>d, <1>23
  DEF FinishGroup, AfterSuccess, corpusVars, fileVars, groupVars
<1>24. ASSUME NEW p \in Procs, EnterBusy(p) PROVE AcceptedShown'
  BY <1>0, <1>a, <1>b, <1>c, <1>d, <1>24
  DEF EnterBusy, Finished, corpusVars, fileVars, groupVars
<1>25. ASSUME NEW p \in Procs, EnterMaintain(p) PROVE AcceptedShown'
  BY <1>0, <1>a, <1>b, <1>c, <1>d, <1>25
  DEF EnterMaintain, corpusVars, fileVars, groupVars
<1>26. ASSUME NEW p \in Procs, EnterRetry(p) PROVE AcceptedShown'
  BY <1>0, <1>a, <1>b, <1>c, <1>d, <1>26
  DEF EnterRetry, ReadClock, corpusVars, fileVars, groupVars
<1>27. ASSUME NEW p \in Procs, RetryNotNeeded(p) PROVE AcceptedShown'
  BY <1>0, <1>a, <1>b, <1>c, <1>d, <1>27
  DEF RetryNotNeeded, Finished, corpusVars, fileVars, groupVars
<1>28. ASSUME NEW p \in Procs, EnterConsume(p) PROVE AcceptedShown'
  BY <1>0, <1>a, <1>b, <1>c, <1>d, <1>28
  DEF EnterConsume, ReadClock, corpusVars, fileVars, groupVars
<1>29. ASSUME NEW p \in Procs, RepairGlobal(p) PROVE AcceptedShown'
  BY <1>0, <1>a, <1>b, <1>c, <1>d, <1>29
  DEF RepairGlobal, corpusVars, fileVars, groupVars
<1>30. ASSUME NEW p \in Procs, RepairCheck(p) PROVE AcceptedShown'
  BY <1>0, <1>a, <1>b, <1>c, <1>d, <1>30
  DEF RepairCheck, AfterRepair, corpusVars, fileVars, groupVars
<1>31. ASSUME NEW p \in Procs, RepairLane(p) PROVE AcceptedShown'
  BY <1>0, <1>a, <1>b, <1>c, <1>d, <1>31
  DEF RepairLane, AfterRepair, SetLaneStatus, corpusVars, fileVars, groupVars
<1>32. ASSUME NEW p \in Procs, Dequeue(p) PROVE AcceptedShown'
  BY <1>0, <1>a, <1>b, <1>c, <1>d, <1>32 DEF Dequeue, corpusVars, fileVars, groupVars
<1>33. ASSUME NEW p \in Procs, Release(p) PROVE AcceptedShown'
  BY <1>0, <1>a, <1>b, <1>c, <1>d, <1>33
  DEF Release, Finished, Unlock, corpusVars, fileVars, groupVars
<1>34. ASSUME NEW p \in Procs, PublicationStepFails(p) PROVE AcceptedShown'
  BY <1>0, <1>a, <1>b, <1>c, <1>d, <1>34
  DEF PublicationStepFails, PublicationFails, AfterFailure, corpusVars, fileVars,
      groupVars
<1>35. ASSUME NEW p \in Procs, RepairStepFails(p) PROVE AcceptedShown'
  BY <1>0, <1>a, <1>b, <1>c, <1>d, <1>35
  DEF RepairStepFails, corpusVars, fileVars, groupVars
<1>36. ASSUME NEW p \in Procs, Crash(p) PROVE AcceptedShown'
  BY <1>0, <1>a, <1>b, <1>c, <1>d, <1>36
  DEF Crash, Finished, Unlock, Interrupt, corpusVars, fileVars, groupVars
<1>37. CASE UNCHANGED vars
  BY <1>37 DEF vars, procVars, corpusVars, fileVars, groupVars, Accepted
<1> QED
  BY <1>1, <1>2, <1>3, <1>4, <1>5, <1>6, <1>7, <1>8, <1>9, <1>10, <1>11,
     <1>12, <1>13, <1>14, <1>15, <1>16, <1>17, <1>18, <1>19, <1>20, <1>21,
     <1>22, <1>23, <1>24, <1>25, <1>26, <1>27, <1>28, <1>29, <1>30, <1>31,
     <1>32, <1>33, <1>34, <1>35, <1>36, <1>37
  DEF Next, Collect, Publish, Repair

(* Nobody publishes, queues or reports a batch before its verdict. *)
LEMMA NextJobsDecided ==
  ASSUME TypeOK, SingleWriter, JobKnown, JobUndecided, OutcomeKnown, ReportsValid,
         JobsDecided, [Next]_vars
  PROVE  JobsDecided'
<1> USE LaneProcs, CriticalLabels, OutsideLabels
    DEF JobsDecided, ReportsValid, Valid, Failed, Repairing, Publishing, Building,
        Reporting, Goto
<1>0. /\ pc \in [Procs -> PC]
      /\ task \in [Procs -> {"none", "collect", "maintain", "retry", "consume"}]
      /\ outcome \in [Procs -> {"none", "published", "failed"}]
      /\ job \in [Procs -> BatchId \cup {NoBatch}]
      /\ now \in [Procs -> Time]
      /\ status \in [BatchId -> BatchStatus]
      /\ laneStatus \in [Lanes -> StatusFile]
  BY DEF TypeOK
<1>s. \A b \in BatchId :
        /\ status[b] \in {"accepted", "expired"} => status'[b] \in {"accepted", "expired"}
        /\ status[b] \in {"rejected", "expired"} => status'[b] = status[b]
  BY StatusStays DEF Valid
<1>j. \A q \in Procs :
        /\ pc[q] \in {"fetch", "wait", "import", "finalize", "enqueue"} => task[q] = "collect"
        /\ task[q] = "collect" /\ pc[q] \in Critical \ {"import"} => job[q] \in BatchId
  BY DEF JobKnown
<1>k. mode \in [BatchId -> Lanes] /\ queue \in Seq(BatchId)
  BY DEF TypeOK
<1>1. ASSUME NEW p \in Lanes, StartCollect(p) PROVE JobsDecided'
  BY <1>0, <1>s, <1>j, <1>k, <1>1
  DEF StartCollect, SetLaneStatus, corpusVars, fileVars, groupVars
<1>2. ASSUME NEW p \in Lanes, PollBusy(p) PROVE JobsDecided'
  BY <1>0, <1>s, <1>j, <1>k, <1>2
  DEF PollBusy, SetLaneStatus, procVars, corpusVars, fileVars, groupVars
<1>3. ASSUME NEW p \in Lanes, FetchDone(p) PROVE JobsDecided'
  BY <1>0, <1>s, <1>j, <1>k, <1>3
  DEF FetchDone, ReadClock, corpusVars, fileVars, groupVars
<1>4. ASSUME NEW p \in Lanes, AcquireMerge(p) PROVE JobsDecided'
  BY <1>0, <1>s, <1>j, <1>k, <1>4 DEF AcquireMerge, corpusVars, fileVars, groupVars
<1>5. ASSUME NEW p \in Lanes, MergeDeferred(p) PROVE JobsDecided'
  BY <1>0, <1>s, <1>j, <1>k, <1>5
  DEF MergeDeferred, Finished, corpusVars, fileVars, groupVars
<1>6. ASSUME NEW p \in Lanes, Import(p) PROVE JobsDecided'
  BY <1>0, <1>s, <1>j, <1>k, <1>6
  DEF Import, SetLaneStatus, corpusVars, fileVars, groupVars
<1>7. ASSUME NEW p \in Lanes, Finalize(p) PROVE JobsDecided'
  BY <1>0, <1>s, <1>j, <1>k, <1>7 DEF Finalize, corpusVars, fileVars, groupVars
<1>8. ASSUME NEW p \in Lanes, Enqueue(p) PROVE JobsDecided'
  BY <1>0, <1>s, <1>j, <1>k, <1>8 DEF Enqueue, corpusVars, fileVars, groupVars
<1>9. ASSUME NEW p \in Lanes, ReportLane(p) PROVE JobsDecided'
  BY <1>0, <1>s, <1>j, <1>k, <1>9 DEF ReportLane, corpusVars, fileVars, groupVars
<1>10. ASSUME NEW p \in Lanes, ReportGlobal(p) PROVE JobsDecided'
  BY <1>0, <1>s, <1>j, <1>k, <1>10 DEF ReportGlobal, corpusVars, fileVars, groupVars
<1>11. ASSUME NEW p \in Lanes, DiscardStage(p) PROVE JobsDecided'
  BY <1>0, <1>s, <1>j, <1>k, <1>11
  DEF DiscardStage, Finished, Unlock, corpusVars, fileVars, groupVars
<1>12. ASSUME NEW p \in Lanes, WriteError(p) PROVE JobsDecided'
  BY <1>0, <1>s, <1>j, <1>k, <1>12
  DEF WriteError, Finished, SetLaneStatus, corpusVars, fileVars, groupVars
<1>13. ASSUME NEW p \in Lanes, LaneFailure(p) PROVE JobsDecided'
  BY <1>0, <1>s, <1>j, <1>k, <1>13
  DEF LaneFailure, Unlock, Interrupt, ReadClock, corpusVars, fileVars, groupVars
<1>14. ASSUME StartRetry PROVE JobsDecided'
  BY <1>0, <1>s, <1>j, <1>k, <1>14 DEF StartRetry, corpusVars, fileVars, groupVars
<1>15. ASSUME StartConsume PROVE JobsDecided'
  BY <1>0, <1>s, <1>j, <1>k, <1>15 DEF StartConsume, corpusVars, fileVars, groupVars
<1>16. ASSUME NEW p \in Procs, Retain(p) PROVE JobsDecided'
  BY <1>0, <1>s, <1>j, <1>k, <1>16 DEF Retain, corpusVars, fileVars, groupVars
<1>17. ASSUME NEW p \in Procs, NoWeeklyBatch(p) PROVE JobsDecided'
  BY <1>0, <1>s, <1>j, <1>k, <1>17
  DEF NoWeeklyBatch, PublicationFails, AfterFailure, corpusVars, fileVars, groupVars
<1>18. ASSUME NEW p \in Procs, BeginGroup(p) PROVE JobsDecided'
  BY <1>0, <1>s, <1>j, <1>k, <1>18 DEF BeginGroup, corpusVars, fileVars, groupVars
<1>19. ASSUME NEW p \in Procs, BuildGroup(p) PROVE JobsDecided'
  BY <1>0, <1>s, <1>j, <1>k, <1>19 DEF BuildGroup, corpusVars, fileVars, groupVars
<1>20. ASSUME NEW p \in Procs, PruneGroups(p) PROVE JobsDecided'
  BY <1>0, <1>s, <1>j, <1>k, <1>20 DEF PruneGroups, corpusVars, fileVars, groupVars
<1>21. ASSUME NEW p \in Procs, InstallGroup(p) PROVE JobsDecided'
  BY <1>0, <1>s, <1>j, <1>k, <1>21 DEF InstallGroup, corpusVars, fileVars, groupVars
<1>22. ASSUME NEW p \in Procs, SwitchPointer(p) PROVE JobsDecided'
  BY <1>0, <1>s, <1>j, <1>k, <1>22 DEF SwitchPointer, corpusVars, fileVars, groupVars
<1>23. ASSUME NEW p \in Procs, FinishGroup(p) PROVE JobsDecided'
  BY <1>0, <1>s, <1>j, <1>k, <1>23
  DEF FinishGroup, AfterSuccess, corpusVars, fileVars, groupVars
<1>24. ASSUME NEW p \in Procs, EnterBusy(p) PROVE JobsDecided'
  BY <1>0, <1>s, <1>j, <1>k, <1>24
  DEF EnterBusy, Finished, corpusVars, fileVars, groupVars
<1>25. ASSUME NEW p \in Procs, EnterMaintain(p) PROVE JobsDecided'
  BY <1>0, <1>s, <1>j, <1>k, <1>25 DEF EnterMaintain, corpusVars, fileVars, groupVars
<1>26. ASSUME NEW p \in Procs, EnterRetry(p) PROVE JobsDecided'
  BY <1>0, <1>s, <1>j, <1>k, <1>26
  DEF EnterRetry, ReadClock, corpusVars, fileVars, groupVars
<1>27. ASSUME NEW p \in Procs, RetryNotNeeded(p) PROVE JobsDecided'
  BY <1>0, <1>s, <1>j, <1>k, <1>27
  DEF RetryNotNeeded, Finished, corpusVars, fileVars, groupVars
<1>28. ASSUME NEW p \in Procs, EnterConsume(p) PROVE JobsDecided'
  BY <1>0, <1>s, <1>j, <1>k, <1>28
  DEF EnterConsume, ReadClock, corpusVars, fileVars, groupVars
<1>29. ASSUME NEW p \in Procs, RepairGlobal(p) PROVE JobsDecided'
  BY <1>0, <1>s, <1>j, <1>k, <1>29 DEF RepairGlobal, corpusVars, fileVars, groupVars
<1>30. ASSUME NEW p \in Procs, RepairCheck(p) PROVE JobsDecided'
  BY <1>0, <1>s, <1>j, <1>k, <1>30
  DEF RepairCheck, AfterRepair, corpusVars, fileVars, groupVars
<1>31. ASSUME NEW p \in Procs, RepairLane(p) PROVE JobsDecided'
  BY <1>0, <1>s, <1>j, <1>k, <1>31
  DEF RepairLane, AfterRepair, SetLaneStatus, corpusVars, fileVars, groupVars
<1>32. ASSUME NEW p \in Procs, Dequeue(p) PROVE JobsDecided'
  BY <1>0, <1>s, <1>j, <1>k, <1>32 DEF Dequeue, corpusVars, fileVars, groupVars
<1>33. ASSUME NEW p \in Procs, Release(p) PROVE JobsDecided'
  BY <1>0, <1>s, <1>j, <1>k, <1>33
  DEF Release, Finished, Unlock, corpusVars, fileVars, groupVars
<1>34. ASSUME NEW p \in Procs, PublicationStepFails(p) PROVE JobsDecided'
  BY <1>0, <1>s, <1>j, <1>k, <1>34
  DEF PublicationStepFails, PublicationFails, AfterFailure, corpusVars, fileVars,
      groupVars
<1>35. ASSUME NEW p \in Procs, RepairStepFails(p) PROVE JobsDecided'
  BY <1>0, <1>s, <1>j, <1>k, <1>35
  DEF RepairStepFails, corpusVars, fileVars, groupVars
<1>36. ASSUME NEW p \in Procs, Crash(p) PROVE JobsDecided'
  BY <1>0, <1>s, <1>j, <1>k, <1>36
  DEF Crash, Finished, Unlock, Interrupt, corpusVars, fileVars, groupVars
<1>37. CASE UNCHANGED vars
  BY <1>37 DEF vars, procVars, corpusVars, fileVars, groupVars
<1> QED
  BY <1>1, <1>2, <1>3, <1>4, <1>5, <1>6, <1>7, <1>8, <1>9, <1>10, <1>11,
     <1>12, <1>13, <1>14, <1>15, <1>16, <1>17, <1>18, <1>19, <1>20, <1>21,
     <1>22, <1>23, <1>24, <1>25, <1>26, <1>27, <1>28, <1>29, <1>30, <1>31,
     <1>32, <1>33, <1>34, <1>35, <1>36, <1>37
  DEF Next, Collect, Publish, Repair

(* A file that claims a verdict names a batch that has it. *)
LEMMA NextReportsValid ==
  ASSUME TypeOK, SingleWriter, JobKnown, JobUndecided, OutcomeKnown, JobsDecided,
         ReportsValid, [Next]_vars
  PROVE  ReportsValid'
<1> USE LaneProcs DEF ReportsValid, Valid, Reporting, Goto, Failed
<1>0. /\ pc \in [Procs -> PC]
      /\ task \in [Procs -> {"none", "collect", "maintain", "retry", "consume"}]
      /\ outcome \in [Procs -> {"none", "published", "failed"}]
      /\ job \in [Procs -> BatchId \cup {NoBatch}]
      /\ now \in [Procs -> Time]
      /\ status \in [BatchId -> BatchStatus]
      /\ laneStatus \in [Lanes -> StatusFile]
  BY DEF TypeOK
<1>s. \A b \in BatchId :
        /\ status[b] \in {"accepted", "expired"} => status'[b] \in {"accepted", "expired"}
        /\ status[b] \in {"rejected", "expired"} => status'[b] = status[b]
  BY StatusStays DEF Valid
<1>j. \A q \in Procs :
        /\ pc[q] \in Reporting => Valid(job[q]) \/ status[job[q]] = "rejected"
        /\ task[q] = "retry" /\ pc[q] = "repairGlobal" => Valid(job[q])
        /\ pc[q] = "repairLane" => Valid(job[q])
  BY CriticalLabels DEF JobsDecided, OutcomeKnown, Reporting
<1>1. ASSUME NEW p \in Lanes, StartCollect(p) PROVE ReportsValid'
  BY <1>0, <1>s, <1>j, <1>1
  DEF StartCollect, SetLaneStatus, Result, corpusVars, fileVars, groupVars
<1>2. ASSUME NEW p \in Lanes, PollBusy(p) PROVE ReportsValid'
  BY <1>0, <1>s, <1>j, <1>2
  DEF PollBusy, SetLaneStatus, procVars, Result, corpusVars, fileVars, groupVars
<1>3. ASSUME NEW p \in Lanes, FetchDone(p) PROVE ReportsValid'
  BY <1>0, <1>s, <1>j, <1>3
  DEF FetchDone, ReadClock, Result, corpusVars, fileVars, groupVars
<1>4. ASSUME NEW p \in Lanes, AcquireMerge(p) PROVE ReportsValid'
  BY <1>0, <1>s, <1>j, <1>4 DEF AcquireMerge, Result, corpusVars, fileVars, groupVars
<1>5. ASSUME NEW p \in Lanes, MergeDeferred(p) PROVE ReportsValid'
  BY <1>0, <1>s, <1>j, <1>5
  DEF MergeDeferred, Finished, Result, corpusVars, fileVars, groupVars
<1>6. ASSUME NEW p \in Lanes, Import(p) PROVE ReportsValid'
  <2>1. /\ \A m \in Lanes : laneStatus'[m] = laneStatus[m] \/ laneStatus'[m].state = "processing"
        /\ globalStatus' = globalStatus /\ published' = published
    BY <1>0, <1>6 DEF Import, SetLaneStatus, groupVars
  <2> QED
    BY <1>0, <1>s, <2>1
<1>7. ASSUME NEW p \in Lanes, Finalize(p) PROVE ReportsValid'
  <2>1. laneStatus' = laneStatus /\ globalStatus' = globalStatus /\ published' = published
    BY <1>7 DEF Finalize, groupVars, fileVars
  <2> QED
    BY <1>0, <1>s, <2>1
<1>8. ASSUME NEW p \in Lanes, Enqueue(p) PROVE ReportsValid'
  BY <1>0, <1>s, <1>j, <1>8 DEF Enqueue, Result, corpusVars, fileVars, groupVars
<1>9. ASSUME NEW p \in Lanes, ReportLane(p) PROVE ReportsValid'
  BY <1>0, <1>s, <1>j, <1>9 DEF ReportLane, Result, corpusVars, fileVars, groupVars
<1>10. ASSUME NEW p \in Lanes, ReportGlobal(p) PROVE ReportsValid'
  BY <1>0, <1>s, <1>j, <1>10 DEF ReportGlobal, Result, corpusVars, fileVars, groupVars
<1>11. ASSUME NEW p \in Lanes, DiscardStage(p) PROVE ReportsValid'
  BY <1>0, <1>s, <1>j, <1>11
  DEF DiscardStage, Finished, Unlock, Result, corpusVars, fileVars, groupVars
<1>12. ASSUME NEW p \in Lanes, WriteError(p) PROVE ReportsValid'
  BY <1>0, <1>s, <1>j, <1>12
  DEF WriteError, Finished, SetLaneStatus, Result, corpusVars, fileVars, groupVars
<1>13. ASSUME NEW p \in Lanes, LaneFailure(p) PROVE ReportsValid'
  BY <1>0, <1>s, <1>j, <1>13
  DEF LaneFailure, Unlock, Interrupt, ReadClock, Result, corpusVars, fileVars,
      groupVars
<1>14. ASSUME StartRetry PROVE ReportsValid'
  BY <1>0, <1>s, <1>j, <1>14 DEF StartRetry, Result, corpusVars, fileVars, groupVars
<1>15. ASSUME StartConsume PROVE ReportsValid'
  BY <1>0, <1>s, <1>j, <1>15 DEF StartConsume, Result, corpusVars, fileVars, groupVars
<1>16. ASSUME NEW p \in Procs, Retain(p) PROVE ReportsValid'
  BY <1>0, <1>s, <1>j, <1>16 DEF Retain, Result, corpusVars, fileVars, groupVars
<1>17. ASSUME NEW p \in Procs, NoWeeklyBatch(p) PROVE ReportsValid'
  BY <1>0, <1>s, <1>j, <1>17
  DEF NoWeeklyBatch, PublicationFails, AfterFailure, Result, corpusVars, fileVars,
      groupVars
<1>18. ASSUME NEW p \in Procs, BeginGroup(p) PROVE ReportsValid'
  BY <1>0, <1>s, <1>j, <1>18 DEF BeginGroup, Result, corpusVars, fileVars, groupVars
<1>19. ASSUME NEW p \in Procs, BuildGroup(p) PROVE ReportsValid'
  BY <1>0, <1>s, <1>j, <1>19 DEF BuildGroup, Result, corpusVars, fileVars, groupVars
<1>20. ASSUME NEW p \in Procs, PruneGroups(p) PROVE ReportsValid'
  BY <1>0, <1>s, <1>j, <1>20 DEF PruneGroups, Result, corpusVars, fileVars, groupVars
<1>21. ASSUME NEW p \in Procs, InstallGroup(p) PROVE ReportsValid'
  BY <1>0, <1>s, <1>j, <1>21 DEF InstallGroup, Result, corpusVars, fileVars, groupVars
<1>22. ASSUME NEW p \in Procs, SwitchPointer(p) PROVE ReportsValid'
  BY <1>0, <1>s, <1>j, <1>22
  DEF SwitchPointer, Result, corpusVars, fileVars, groupVars
<1>23. ASSUME NEW p \in Procs, FinishGroup(p) PROVE ReportsValid'
  BY <1>0, <1>s, <1>j, <1>23
  DEF FinishGroup, AfterSuccess, Result, corpusVars, fileVars, groupVars
<1>24. ASSUME NEW p \in Procs, EnterBusy(p) PROVE ReportsValid'
  BY <1>0, <1>s, <1>j, <1>24
  DEF EnterBusy, Finished, Result, corpusVars, fileVars, groupVars
<1>25. ASSUME NEW p \in Procs, EnterMaintain(p) PROVE ReportsValid'
  BY <1>0, <1>s, <1>j, <1>25
  DEF EnterMaintain, Result, corpusVars, fileVars, groupVars
<1>26. ASSUME NEW p \in Procs, EnterRetry(p) PROVE ReportsValid'
  BY <1>0, <1>s, <1>j, <1>26
  DEF EnterRetry, ReadClock, Result, corpusVars, fileVars, groupVars
<1>27. ASSUME NEW p \in Procs, RetryNotNeeded(p) PROVE ReportsValid'
  BY <1>0, <1>s, <1>j, <1>27
  DEF RetryNotNeeded, Finished, Result, corpusVars, fileVars, groupVars
<1>28. ASSUME NEW p \in Procs, EnterConsume(p) PROVE ReportsValid'
  BY <1>0, <1>s, <1>j, <1>28
  DEF EnterConsume, ReadClock, Result, corpusVars, fileVars, groupVars
<1>29. ASSUME NEW p \in Procs, RepairGlobal(p) PROVE ReportsValid'
  BY <1>0, <1>s, <1>j, <1>29 DEF RepairGlobal, Result, corpusVars, fileVars, groupVars
<1>30. ASSUME NEW p \in Procs, RepairCheck(p) PROVE ReportsValid'
  BY <1>0, <1>s, <1>j, <1>30
  DEF RepairCheck, AfterRepair, Result, corpusVars, fileVars, groupVars
<1>31. ASSUME NEW p \in Procs, RepairLane(p) PROVE ReportsValid'
  BY <1>0, <1>s, <1>j, <1>31
  DEF RepairLane, AfterRepair, SetLaneStatus, Result, corpusVars, fileVars, groupVars
<1>32. ASSUME NEW p \in Procs, Dequeue(p) PROVE ReportsValid'
  BY <1>0, <1>s, <1>j, <1>32 DEF Dequeue, Result, corpusVars, fileVars, groupVars
<1>33. ASSUME NEW p \in Procs, Release(p) PROVE ReportsValid'
  BY <1>0, <1>s, <1>j, <1>33
  DEF Release, Finished, Unlock, Result, corpusVars, fileVars, groupVars
<1>34. ASSUME NEW p \in Procs, PublicationStepFails(p) PROVE ReportsValid'
  BY <1>0, <1>s, <1>j, <1>34
  DEF PublicationStepFails, PublicationFails, AfterFailure, Result, corpusVars,
      fileVars, groupVars
<1>35. ASSUME NEW p \in Procs, RepairStepFails(p) PROVE ReportsValid'
  BY <1>0, <1>s, <1>j, <1>35
  DEF RepairStepFails, Result, corpusVars, fileVars, groupVars
<1>36. ASSUME NEW p \in Procs, Crash(p) PROVE ReportsValid'
  BY <1>0, <1>s, <1>j, <1>36
  DEF Crash, Finished, Unlock, Interrupt, Result, corpusVars, fileVars, groupVars
<1>37. CASE UNCHANGED vars
  BY <1>37 DEF vars, procVars, corpusVars, fileVars, groupVars, Result
<1> QED
  BY <1>1, <1>2, <1>3, <1>4, <1>5, <1>6, <1>7, <1>8, <1>9, <1>10, <1>11,
     <1>12, <1>13, <1>14, <1>15, <1>16, <1>17, <1>18, <1>19, <1>20, <1>21,
     <1>22, <1>23, <1>24, <1>25, <1>26, <1>27, <1>28, <1>29, <1>30, <1>31,
     <1>32, <1>33, <1>34, <1>35, <1>36, <1>37
  DEF Next, Collect, Publish, Repair

(* The files of a batch are written by its collector, under the lock. *)
LEMMA NextReportsSettled ==
  ASSUME TypeOK, SingleWriter, JobKnown, JobUndecided, OutcomeKnown, ReportsSettled,
         [Next]_vars
  PROVE  ReportsSettled'
<1> USE LaneProcs, CriticalLabels DEF ReportsSettled, Queued, Reporting, Goto, Result
<1>0. /\ pc \in [Procs -> PC]
      /\ task \in [Procs -> {"none", "collect", "maintain", "retry", "consume"}]
      /\ outcome \in [Procs -> {"none", "published", "failed"}]
      /\ job \in [Procs -> BatchId \cup {NoBatch}]
      /\ now \in [Procs -> Time]
      /\ status \in [BatchId -> BatchStatus]
      /\ laneStatus \in [Lanes -> StatusFile]
  BY DEF TypeOK
<1>a. \A q \in Procs : pc[q] \in Publishing \cup Reporting \cup Repairing =>
        Accepted' = Accepted /\ status' = status
  BY AcceptedStays
<1>b. \A q, r \in Procs : pc[q] \in Critical /\ pc[r] \in Critical => q = r
  BY DEF SingleWriter
<1>1. ASSUME NEW p \in Lanes, StartCollect(p) PROVE ReportsSettled'
  BY <1>0, <1>a, <1>1
  DEF StartCollect, SetLaneStatus, Publishing, corpusVars, fileVars, groupVars
<1>2. ASSUME NEW p \in Lanes, PollBusy(p) PROVE ReportsSettled'
  BY <1>0, <1>a, <1>2
  DEF PollBusy, SetLaneStatus, procVars, Publishing, corpusVars, fileVars, groupVars
<1>3. ASSUME NEW p \in Lanes, FetchDone(p) PROVE ReportsSettled'
  BY <1>0, <1>a, <1>3
  DEF FetchDone, ReadClock, Publishing, corpusVars, fileVars, groupVars
<1>4. ASSUME NEW p \in Lanes, AcquireMerge(p) PROVE ReportsSettled'
  BY <1>0, <1>a, <1>4 DEF AcquireMerge, Publishing, corpusVars, fileVars, groupVars
<1>5. ASSUME NEW p \in Lanes, MergeDeferred(p) PROVE ReportsSettled'
  BY <1>0, <1>a, <1>5
  DEF MergeDeferred, Finished, Publishing, corpusVars, fileVars, groupVars
<1>6. ASSUME NEW p \in Lanes, Import(p) PROVE ReportsSettled'
  BY <1>0, <1>a, <1>6
  DEF Import, SetLaneStatus, Publishing, corpusVars, fileVars, groupVars
<1>7. ASSUME NEW p \in Lanes, Finalize(p) PROVE ReportsSettled'
  BY <1>0, <1>a, <1>7 DEF Finalize, Publishing, corpusVars, fileVars, groupVars
<1>8. ASSUME NEW p \in Lanes, Enqueue(p) PROVE ReportsSettled'
  BY <1>0, <1>a, <1>8 DEF Enqueue, Publishing, corpusVars, fileVars, groupVars
<1>9. ASSUME NEW p \in Lanes, ReportLane(p) PROVE ReportsSettled'
  BY <1>0, <1>a, <1>9 DEF ReportLane, Publishing, corpusVars, fileVars, groupVars
<1>10. ASSUME NEW p \in Lanes, ReportGlobal(p) PROVE ReportsSettled'
  <2>1. \A q \in Lanes : pc'[q] \in Reporting => q = p
    BY <1>0, <1>b, <1>10 DEF ReportGlobal
  <2>2. UNCHANGED <<status, job, outcome, queue, laneStatus>>
    BY <1>10 DEF ReportGlobal, corpusVars
  <2>3. globalStatus' = Result(p)
    BY <1>10 DEF ReportGlobal
  <2> QED
    BY <1>0, <2>1, <2>2, <2>3, <1>10 DEF ReportGlobal
<1>11. ASSUME NEW p \in Lanes, DiscardStage(p) PROVE ReportsSettled'
  BY <1>0, <1>a, <1>11
  DEF DiscardStage, Finished, Unlock, Publishing, corpusVars, fileVars, groupVars
<1>12. ASSUME NEW p \in Lanes, WriteError(p) PROVE ReportsSettled'
  BY <1>0, <1>a, <1>12
  DEF WriteError, Finished, SetLaneStatus, Publishing, corpusVars, fileVars, groupVars
<1>13. ASSUME NEW p \in Lanes, LaneFailure(p) PROVE ReportsSettled'
  BY <1>0, <1>a, <1>13
  DEF LaneFailure, Unlock, Interrupt, ReadClock, Publishing, corpusVars, fileVars,
      groupVars
<1>14. ASSUME StartRetry PROVE ReportsSettled'
  BY <1>0, <1>a, <1>14 DEF StartRetry, Publishing, corpusVars, fileVars, groupVars
<1>15. ASSUME StartConsume PROVE ReportsSettled'
  BY <1>0, <1>a, <1>15 DEF StartConsume, Publishing, corpusVars, fileVars, groupVars
<1>16. ASSUME NEW p \in Procs, Retain(p) PROVE ReportsSettled'
  <2>1. \A q \in Procs : pc[q] \notin Reporting
    BY <1>b, <1>16 DEF Retain
  <2>2. \A q \in Procs : pc'[q] \in Reporting => q = p /\ pc'[q] = "reportLane"
    BY <1>0, <2>1, <1>16 DEF Retain
  <2>3. pc'[p] = "reportLane" => status'[job'[p]] = "rejected"
    BY <1>0, <1>16 DEF Retain, Accepted, JobKnown
  <2> QED
    BY <2>2, <2>3
<1>17. ASSUME NEW p \in Procs, NoWeeklyBatch(p) PROVE ReportsSettled'
  BY <1>0, <1>a, <1>17
  DEF NoWeeklyBatch, PublicationFails, AfterFailure, Publishing, corpusVars, fileVars,
      groupVars
<1>18. ASSUME NEW p \in Procs, BeginGroup(p) PROVE ReportsSettled'
  BY <1>0, <1>a, <1>18 DEF BeginGroup, Publishing, corpusVars, fileVars, groupVars
<1>19. ASSUME NEW p \in Procs, BuildGroup(p) PROVE ReportsSettled'
  BY <1>0, <1>a, <1>19 DEF BuildGroup, Publishing, corpusVars, fileVars, groupVars
<1>20. ASSUME NEW p \in Procs, PruneGroups(p) PROVE ReportsSettled'
  BY <1>0, <1>a, <1>20 DEF PruneGroups, Publishing, corpusVars, fileVars, groupVars
<1>21. ASSUME NEW p \in Procs, InstallGroup(p) PROVE ReportsSettled'
  BY <1>0, <1>a, <1>21 DEF InstallGroup, Publishing, corpusVars, fileVars, groupVars
<1>22. ASSUME NEW p \in Procs, SwitchPointer(p) PROVE ReportsSettled'
  BY <1>0, <1>a, <1>22 DEF SwitchPointer, Publishing, corpusVars, fileVars, groupVars
<1>23. ASSUME NEW p \in Procs, FinishGroup(p) PROVE ReportsSettled'
  BY <1>0, <1>a, <1>23
  DEF FinishGroup, AfterSuccess, Publishing, corpusVars, fileVars, groupVars
<1>24. ASSUME NEW p \in Procs, EnterBusy(p) PROVE ReportsSettled'
  BY <1>0, <1>a, <1>24
  DEF EnterBusy, Finished, Publishing, corpusVars, fileVars, groupVars
<1>25. ASSUME NEW p \in Procs, EnterMaintain(p) PROVE ReportsSettled'
  BY <1>0, <1>a, <1>25 DEF EnterMaintain, Publishing, corpusVars, fileVars, groupVars
<1>26. ASSUME NEW p \in Procs, EnterRetry(p) PROVE ReportsSettled'
  BY <1>0, <1>a, <1>26
  DEF EnterRetry, ReadClock, Publishing, corpusVars, fileVars, groupVars
<1>27. ASSUME NEW p \in Procs, RetryNotNeeded(p) PROVE ReportsSettled'
  BY <1>0, <1>a, <1>27
  DEF RetryNotNeeded, Finished, Publishing, corpusVars, fileVars, groupVars
<1>28. ASSUME NEW p \in Procs, EnterConsume(p) PROVE ReportsSettled'
  BY <1>0, <1>a, <1>28
  DEF EnterConsume, ReadClock, Publishing, corpusVars, fileVars, groupVars
<1>29. ASSUME NEW p \in Procs, RepairGlobal(p) PROVE ReportsSettled'
  <2>1. \A q \in Procs : pc[q] \notin Reporting
    BY <1>b, <1>29 DEF RepairGlobal
  <2>2. \A q \in Procs : pc'[q] \notin Reporting
    BY <1>0, <2>1, <1>29 DEF RepairGlobal, AfterRepair
  <2> QED
    BY <2>2
<1>30. ASSUME NEW p \in Procs, RepairCheck(p) PROVE ReportsSettled'
  BY <1>0, <1>a, <1>30
  DEF RepairCheck, AfterRepair, Publishing, corpusVars, fileVars, groupVars
<1>31. ASSUME NEW p \in Procs, RepairLane(p) PROVE ReportsSettled'
  <2>1. \A q \in Procs : pc[q] \notin Reporting
    BY <1>b, <1>31 DEF RepairLane
  <2>2. \A q \in Procs : pc'[q] \notin Reporting
    BY <1>0, <2>1, <1>31 DEF RepairLane, AfterRepair
  <2> QED
    BY <2>2
<1>32. ASSUME NEW p \in Procs, Dequeue(p) PROVE ReportsSettled'
  <2>1. \A q \in Procs : pc[q] \notin Reporting
    BY <1>b, <1>32 DEF Dequeue
  <2>2. \A q \in Procs : pc'[q] \notin Reporting
    BY <1>0, <2>1, <1>32 DEF Dequeue, AfterRepair
  <2> QED
    BY <2>2
<1>33. ASSUME NEW p \in Procs, Release(p) PROVE ReportsSettled'
  BY <1>0, <1>a, <1>33
  DEF Release, Finished, Unlock, Publishing, corpusVars, fileVars, groupVars
<1>34. ASSUME NEW p \in Procs, PublicationStepFails(p) PROVE ReportsSettled'
  BY <1>0, <1>a, <1>34
  DEF PublicationStepFails, PublicationFails, AfterFailure, Publishing, corpusVars,
      fileVars, groupVars
<1>35. ASSUME NEW p \in Procs, RepairStepFails(p) PROVE ReportsSettled'
  BY <1>0, <1>a, <1>35
  DEF RepairStepFails, Publishing, corpusVars, fileVars, groupVars
<1>36. ASSUME NEW p \in Procs, Crash(p) PROVE ReportsSettled'
  BY <1>0, <1>a, <1>36
  DEF Crash, Finished, Unlock, Interrupt, Publishing, corpusVars, fileVars, groupVars
<1>37. CASE UNCHANGED vars
  BY <1>37 DEF vars, procVars, corpusVars, fileVars, groupVars, Publishing
<1> HIDE DEF ReportsSettled, Queued, Result, Goto
<1> QED
  BY <1>1, <1>2, <1>3, <1>4, <1>5, <1>6, <1>7, <1>8, <1>9, <1>10, <1>11,
     <1>12, <1>13, <1>14, <1>15, <1>16, <1>17, <1>18, <1>19, <1>20, <1>21,
     <1>22, <1>23, <1>24, <1>25, <1>26, <1>27, <1>28, <1>29, <1>30, <1>31,
     <1>32, <1>33, <1>34, <1>35, <1>36, <1>37
  DEF Next, Collect, Publish, Repair

(* An accepted batch is shown before its trace is removed. *)
LEMMA NextTracked ==
  ASSUME TypeOK, SingleWriter, JobKnown, JobUndecided, CandidateOwned,
         CandidateCurrent,
         OutcomeKnown, WindowApplied, AcceptedShown, AcceptedFactsTracked, [Next]_vars
  PROVE  AcceptedFactsTracked'
<1> USE LaneProcs DEF AcceptedFactsTracked, Publishing, Building, Unsettled, Goto
<1>0. /\ pc \in [Procs -> PC]
      /\ task \in [Procs -> {"none", "collect", "maintain", "retry", "consume"}]
      /\ outcome \in [Procs -> {"none", "published", "failed"}]
      /\ job \in [Procs -> BatchId \cup {NoBatch}]
      /\ now \in [Procs -> Time]
      /\ status \in [BatchId -> BatchStatus]
      /\ laneStatus \in [Lanes -> StatusFile]
  BY DEF TypeOK
<1>a. \A q \in Procs : pc[q] \in Repairing => Accepted \subseteq published
  BY DEF AcceptedShown
<1>b. \A q \in Procs : pc[q] = "finish" => Accepted \subseteq published
  BY ShownAtFinish
<1>1. ASSUME NEW p \in Lanes, StartCollect(p) PROVE AcceptedFactsTracked'
  BY <1>0, <1>1
  DEF StartCollect, SetLaneStatus, Queued, Accepted, corpusVars, fileVars, groupVars
<1>2. ASSUME NEW p \in Lanes, PollBusy(p) PROVE AcceptedFactsTracked'
  BY <1>0, <1>2
  DEF PollBusy, SetLaneStatus, procVars, Queued, Accepted, corpusVars, fileVars,
      groupVars
<1>3. ASSUME NEW p \in Lanes, FetchDone(p) PROVE AcceptedFactsTracked'
  BY <1>0, <1>3
  DEF FetchDone, ReadClock, Queued, Accepted, corpusVars, fileVars, groupVars
<1>4. ASSUME NEW p \in Lanes, AcquireMerge(p) PROVE AcceptedFactsTracked'
  BY <1>0, <1>4 DEF AcquireMerge, Queued, Accepted, corpusVars, fileVars, groupVars
<1>5. ASSUME NEW p \in Lanes, MergeDeferred(p) PROVE AcceptedFactsTracked'
  BY <1>0, <1>5
  DEF MergeDeferred, Finished, Queued, Accepted, corpusVars, fileVars, groupVars
<1>6. ASSUME NEW p \in Lanes, Import(p) PROVE AcceptedFactsTracked'
  BY <1>0, <1>6
  DEF Import, SetLaneStatus, Queued, Accepted, corpusVars, fileVars, groupVars
<1>7. ASSUME NEW p \in Lanes, Finalize(p) PROVE AcceptedFactsTracked'
  <2>1. Accepted' \subseteq Accepted \cup {job[p]}
    BY <1>0, <1>7 DEF Finalize, Accepted
  <2>2. Unsettled(p)' /\ job' = job
    BY <1>0, <1>7, LaneProcs, PublicationAssumption
    DEF Finalize, JobKnown, Critical, Importing
  <2>3. \A q \in Lanes : Unsettled(q) => Unsettled(q)'
    BY <1>0, <1>7, <2>2 DEF Finalize
  <2>4. UNCHANGED <<queue, interrupted, published>>
    BY <1>7 DEF Finalize, fileVars, groupVars
  <2> QED
    BY <2>1, <2>2, <2>3, <2>4 DEF Queued, Accepted
<1>8. ASSUME NEW p \in Lanes, Enqueue(p) PROVE AcceptedFactsTracked'
  BY <1>0, <1>8 DEF Enqueue, Queued, Accepted, corpusVars, fileVars, groupVars
<1>9. ASSUME NEW p \in Lanes, ReportLane(p) PROVE AcceptedFactsTracked'
  BY <1>0, <1>9 DEF ReportLane, Queued, Accepted, corpusVars, fileVars, groupVars
<1>10. ASSUME NEW p \in Lanes, ReportGlobal(p) PROVE AcceptedFactsTracked'
  BY <1>0, <1>10 DEF ReportGlobal, Queued, Accepted, corpusVars, fileVars, groupVars
<1>11. ASSUME NEW p \in Lanes, DiscardStage(p) PROVE AcceptedFactsTracked'
  BY <1>0, <1>11
  DEF DiscardStage, Finished, Unlock, Queued, Accepted, corpusVars, fileVars,
      groupVars
<1>12. ASSUME NEW p \in Lanes, WriteError(p) PROVE AcceptedFactsTracked'
  BY <1>0, <1>12
  DEF WriteError, Finished, SetLaneStatus, Queued, Accepted, corpusVars, fileVars,
      groupVars
<1>13. ASSUME NEW p \in Lanes, LaneFailure(p) PROVE AcceptedFactsTracked'
  BY <1>0, <1>13
  DEF LaneFailure, Unlock, Interrupt, ReadClock, Queued, Accepted, corpusVars,
      fileVars, groupVars
<1>14. ASSUME StartRetry PROVE AcceptedFactsTracked'
  BY <1>0, <1>14 DEF StartRetry, Queued, Accepted, corpusVars, fileVars, groupVars
<1>15. ASSUME StartConsume PROVE AcceptedFactsTracked'
  BY <1>0, <1>15 DEF StartConsume, Queued, Accepted, corpusVars, fileVars, groupVars
<1>16. ASSUME NEW p \in Procs, Retain(p) PROVE AcceptedFactsTracked'
  BY <1>0, <1>16 DEF Retain, Queued, Accepted, corpusVars, fileVars, groupVars
<1>17. ASSUME NEW p \in Procs, NoWeeklyBatch(p) PROVE AcceptedFactsTracked'
  BY <1>0, <1>17
  DEF NoWeeklyBatch, PublicationFails, AfterFailure, Queued, Accepted, corpusVars,
      fileVars, groupVars
<1>18. ASSUME NEW p \in Procs, BeginGroup(p) PROVE AcceptedFactsTracked'
  BY <1>0, <1>18 DEF BeginGroup, Queued, Accepted, corpusVars, fileVars, groupVars
<1>19. ASSUME NEW p \in Procs, BuildGroup(p) PROVE AcceptedFactsTracked'
  BY <1>0, <1>19 DEF BuildGroup, Queued, Accepted, corpusVars, fileVars, groupVars
<1>20. ASSUME NEW p \in Procs, PruneGroups(p) PROVE AcceptedFactsTracked'
  BY <1>0, <1>20 DEF PruneGroups, Queued, Accepted, corpusVars, fileVars, groupVars
<1>21. ASSUME NEW p \in Procs, InstallGroup(p) PROVE AcceptedFactsTracked'
  BY <1>0, <1>21 DEF InstallGroup, Queued, Accepted, corpusVars, fileVars, groupVars
<1>22. ASSUME NEW p \in Procs, SwitchPointer(p) PROVE AcceptedFactsTracked'
  BY <1>0, <1>22 DEF SwitchPointer, Queued, Accepted, corpusVars, fileVars, groupVars
<1>23. ASSUME NEW p \in Procs, FinishGroup(p) PROVE AcceptedFactsTracked'
  BY <1>b, <1>23 DEF FinishGroup, Accepted, corpusVars
<1>24. ASSUME NEW p \in Procs, EnterBusy(p) PROVE AcceptedFactsTracked'
  BY <1>0, <1>24
  DEF EnterBusy, Finished, Queued, Accepted, corpusVars, fileVars, groupVars
<1>25. ASSUME NEW p \in Procs, EnterMaintain(p) PROVE AcceptedFactsTracked'
  BY <1>0, <1>25 DEF EnterMaintain, Queued, Accepted, corpusVars, fileVars, groupVars
<1>26. ASSUME NEW p \in Procs, EnterRetry(p) PROVE AcceptedFactsTracked'
  BY <1>0, <1>26
  DEF EnterRetry, ReadClock, Queued, Accepted, corpusVars, fileVars, groupVars
<1>27. ASSUME NEW p \in Procs, RetryNotNeeded(p) PROVE AcceptedFactsTracked'
  BY <1>0, <1>27
  DEF RetryNotNeeded, Finished, Queued, Accepted, corpusVars, fileVars, groupVars
<1>28. ASSUME NEW p \in Procs, EnterConsume(p) PROVE AcceptedFactsTracked'
  BY <1>0, <1>28
  DEF EnterConsume, ReadClock, Queued, Accepted, corpusVars, fileVars, groupVars
<1>29. ASSUME NEW p \in Procs, RepairGlobal(p) PROVE AcceptedFactsTracked'
  BY <1>0, <1>29 DEF RepairGlobal, Queued, Accepted, corpusVars, fileVars, groupVars
<1>30. ASSUME NEW p \in Procs, RepairCheck(p) PROVE AcceptedFactsTracked'
  BY <1>0, <1>30
  DEF RepairCheck, AfterRepair, Queued, Accepted, corpusVars, fileVars, groupVars
<1>31. ASSUME NEW p \in Procs, RepairLane(p) PROVE AcceptedFactsTracked'
  BY <1>0, <1>31
  DEF RepairLane, AfterRepair, SetLaneStatus, Queued, Accepted, corpusVars, fileVars,
      groupVars
<1>32. ASSUME NEW p \in Procs, Dequeue(p) PROVE AcceptedFactsTracked'
  BY <1>a, <1>32 DEF Dequeue, Repairing, Accepted, corpusVars, groupVars
<1>33. ASSUME NEW p \in Procs, Release(p) PROVE AcceptedFactsTracked'
  BY <1>0, <1>33
  DEF Release, Finished, Unlock, Queued, Accepted, corpusVars, fileVars, groupVars
<1>34. ASSUME NEW p \in Procs, PublicationStepFails(p) PROVE AcceptedFactsTracked'
  BY <1>0, <1>34
  DEF PublicationStepFails, PublicationFails, AfterFailure, Queued, Accepted,
      corpusVars, fileVars, groupVars
<1>35. ASSUME NEW p \in Procs, RepairStepFails(p) PROVE AcceptedFactsTracked'
  BY <1>0, <1>35
  DEF RepairStepFails, Queued, Accepted, corpusVars, fileVars, groupVars
<1>36. ASSUME NEW p \in Procs, Crash(p) PROVE AcceptedFactsTracked'
  BY <1>0, <1>36
  DEF Crash, Finished, Unlock, Interrupt, Queued, Accepted, corpusVars, fileVars,
      groupVars
<1>37. CASE UNCHANGED vars
  BY <1>37 DEF vars, procVars, corpusVars, fileVars, groupVars, Queued, Accepted
<1> QED
  BY <1>1, <1>2, <1>3, <1>4, <1>5, <1>6, <1>7, <1>8, <1>9, <1>10, <1>11,
     <1>12, <1>13, <1>14, <1>15, <1>16, <1>17, <1>18, <1>19, <1>20, <1>21,
     <1>22, <1>23, <1>24, <1>25, <1>26, <1>27, <1>28, <1>29, <1>30, <1>31,
     <1>32, <1>33, <1>34, <1>35, <1>36, <1>37
  DEF Next, Collect, Publish, Repair

(* Nothing says "accepted" before the batch is shown. *)
LEMMA NextReported ==
  ASSUME TypeOK, SingleWriter, JobKnown, JobUndecided, OutcomeKnown, AcceptedShown,
         JobsDecided, ReportsValid, ReportedShown, [Next]_vars
  PROVE  ReportedShown'
<1> USE LaneProcs DEF ReportedShown, ReportsValid, Valid, Failed, Goto
<1>0. /\ pc \in [Procs -> PC]
      /\ task \in [Procs -> {"none", "collect", "maintain", "retry", "consume"}]
      /\ outcome \in [Procs -> {"none", "published", "failed"}]
      /\ job \in [Procs -> BatchId \cup {NoBatch}]
      /\ now \in [Procs -> Time]
      /\ status \in [BatchId -> BatchStatus]
      /\ laneStatus \in [Lanes -> StatusFile]
  BY DEF TypeOK
<1>s. \A b \in BatchId :
        /\ status[b] \in {"accepted", "expired"} => status'[b] \in {"accepted", "expired"}
        /\ status[b] \in {"rejected", "expired"} => status'[b] = status[b]
  BY StatusStays DEF Valid
<1>j. \A q \in Procs :
        /\ pc[q] \in Reporting => Valid(job[q]) \/ status[job[q]] = "rejected"
        /\ task[q] = "retry" /\ pc[q] = "repairGlobal" => Valid(job[q])
        /\ pc[q] = "repairLane" => Valid(job[q])
  BY CriticalLabels DEF JobsDecided, OutcomeKnown, Reporting
<1>a. \A q \in Procs : pc[q] \in Repairing \/ (pc[q] \in Reporting /\ outcome[q] = "published") =>
        \A b \in BatchId : status[b] = "accepted" => b \in published
  BY DEF AcceptedShown, Accepted
<1>1. ASSUME NEW p \in Lanes, StartCollect(p) PROVE ReportedShown'
  BY <1>0, <1>s, <1>j, <1>a, <1>1
  DEF StartCollect, SetLaneStatus, Result, Reporting, Repairing, corpusVars, fileVars,
      groupVars
<1>2. ASSUME NEW p \in Lanes, PollBusy(p) PROVE ReportedShown'
  BY <1>0, <1>s, <1>j, <1>a, <1>2
  DEF PollBusy, SetLaneStatus, procVars, Result, Reporting, Repairing, corpusVars,
      fileVars, groupVars
<1>3. ASSUME NEW p \in Lanes, FetchDone(p) PROVE ReportedShown'
  BY <1>0, <1>s, <1>j, <1>a, <1>3
  DEF FetchDone, ReadClock, Result, Reporting, Repairing, corpusVars, fileVars,
      groupVars
<1>4. ASSUME NEW p \in Lanes, AcquireMerge(p) PROVE ReportedShown'
  BY <1>0, <1>s, <1>j, <1>a, <1>4
  DEF AcquireMerge, Result, Reporting, Repairing, corpusVars, fileVars, groupVars
<1>5. ASSUME NEW p \in Lanes, MergeDeferred(p) PROVE ReportedShown'
  BY <1>0, <1>s, <1>j, <1>a, <1>5
  DEF MergeDeferred, Finished, Result, Reporting, Repairing, corpusVars, fileVars,
      groupVars
<1>6. ASSUME NEW p \in Lanes, Import(p) PROVE ReportedShown'
  <2>1. /\ \A m \in Lanes : laneStatus'[m] = laneStatus[m] \/ laneStatus'[m].state = "processing"
        /\ globalStatus' = globalStatus /\ published' = published
    BY <1>0, <1>6 DEF Import, SetLaneStatus, groupVars
  <2> QED
    BY <1>0, <1>s, <2>1
<1>7. ASSUME NEW p \in Lanes, Finalize(p) PROVE ReportedShown'
  <2>1. laneStatus' = laneStatus /\ globalStatus' = globalStatus /\ published' = published
    BY <1>7 DEF Finalize, groupVars, fileVars
  <2> QED
    BY <1>0, <1>s, <2>1
<1>8. ASSUME NEW p \in Lanes, Enqueue(p) PROVE ReportedShown'
  BY <1>0, <1>s, <1>j, <1>a, <1>8
  DEF Enqueue, Result, Reporting, Repairing, corpusVars, fileVars, groupVars
<1>9. ASSUME NEW p \in Lanes, ReportLane(p) PROVE ReportedShown'
  BY <1>0, <1>s, <1>j, <1>a, <1>9
  DEF ReportLane, Result, Reporting, Repairing, corpusVars, fileVars, groupVars
<1>10. ASSUME NEW p \in Lanes, ReportGlobal(p) PROVE ReportedShown'
  BY <1>0, <1>s, <1>j, <1>a, <1>10
  DEF ReportGlobal, Result, Reporting, Repairing, corpusVars, fileVars, groupVars
<1>11. ASSUME NEW p \in Lanes, DiscardStage(p) PROVE ReportedShown'
  BY <1>0, <1>s, <1>j, <1>a, <1>11
  DEF DiscardStage, Finished, Unlock, Result, Reporting, Repairing, corpusVars,
      fileVars, groupVars
<1>12. ASSUME NEW p \in Lanes, WriteError(p) PROVE ReportedShown'
  BY <1>0, <1>s, <1>j, <1>a, <1>12
  DEF WriteError, Finished, SetLaneStatus, Result, Reporting, Repairing, corpusVars,
      fileVars, groupVars
<1>13. ASSUME NEW p \in Lanes, LaneFailure(p) PROVE ReportedShown'
  BY <1>0, <1>s, <1>j, <1>a, <1>13
  DEF LaneFailure, Unlock, Interrupt, ReadClock, Result, Reporting, Repairing,
      corpusVars, fileVars, groupVars
<1>14. ASSUME StartRetry PROVE ReportedShown'
  BY <1>0, <1>s, <1>j, <1>a, <1>14
  DEF StartRetry, Result, Reporting, Repairing, corpusVars, fileVars, groupVars
<1>15. ASSUME StartConsume PROVE ReportedShown'
  BY <1>0, <1>s, <1>j, <1>a, <1>15
  DEF StartConsume, Result, Reporting, Repairing, corpusVars, fileVars, groupVars
<1>16. ASSUME NEW p \in Procs, Retain(p) PROVE ReportedShown'
  BY <1>0, <1>s, <1>j, <1>a, <1>16
  DEF Retain, Result, Reporting, Repairing, corpusVars, fileVars, groupVars
<1>17. ASSUME NEW p \in Procs, NoWeeklyBatch(p) PROVE ReportedShown'
  BY <1>0, <1>s, <1>j, <1>a, <1>17
  DEF NoWeeklyBatch, PublicationFails, AfterFailure, Result, Reporting, Repairing,
      corpusVars, fileVars, groupVars
<1>18. ASSUME NEW p \in Procs, BeginGroup(p) PROVE ReportedShown'
  BY <1>0, <1>s, <1>j, <1>a, <1>18
  DEF BeginGroup, Result, Reporting, Repairing, corpusVars, fileVars, groupVars
<1>19. ASSUME NEW p \in Procs, BuildGroup(p) PROVE ReportedShown'
  BY <1>0, <1>s, <1>j, <1>a, <1>19
  DEF BuildGroup, Result, Reporting, Repairing, corpusVars, fileVars, groupVars
<1>20. ASSUME NEW p \in Procs, PruneGroups(p) PROVE ReportedShown'
  BY <1>0, <1>s, <1>j, <1>a, <1>20
  DEF PruneGroups, Result, Reporting, Repairing, corpusVars, fileVars, groupVars
<1>21. ASSUME NEW p \in Procs, InstallGroup(p) PROVE ReportedShown'
  BY <1>0, <1>s, <1>j, <1>a, <1>21
  DEF InstallGroup, Result, Reporting, Repairing, corpusVars, fileVars, groupVars
<1>22. ASSUME NEW p \in Procs, SwitchPointer(p) PROVE ReportedShown'
  BY <1>0, <1>s, <1>j, <1>a, <1>22
  DEF SwitchPointer, Result, Reporting, Repairing, corpusVars, fileVars, groupVars
<1>23. ASSUME NEW p \in Procs, FinishGroup(p) PROVE ReportedShown'
  BY <1>0, <1>s, <1>j, <1>a, <1>23
  DEF FinishGroup, AfterSuccess, Result, Reporting, Repairing, corpusVars, fileVars,
      groupVars
<1>24. ASSUME NEW p \in Procs, EnterBusy(p) PROVE ReportedShown'
  BY <1>0, <1>s, <1>j, <1>a, <1>24
  DEF EnterBusy, Finished, Result, Reporting, Repairing, corpusVars, fileVars,
      groupVars
<1>25. ASSUME NEW p \in Procs, EnterMaintain(p) PROVE ReportedShown'
  BY <1>0, <1>s, <1>j, <1>a, <1>25
  DEF EnterMaintain, Result, Reporting, Repairing, corpusVars, fileVars, groupVars
<1>26. ASSUME NEW p \in Procs, EnterRetry(p) PROVE ReportedShown'
  BY <1>0, <1>s, <1>j, <1>a, <1>26
  DEF EnterRetry, ReadClock, Result, Reporting, Repairing, corpusVars, fileVars,
      groupVars
<1>27. ASSUME NEW p \in Procs, RetryNotNeeded(p) PROVE ReportedShown'
  BY <1>0, <1>s, <1>j, <1>a, <1>27
  DEF RetryNotNeeded, Finished, Result, Reporting, Repairing, corpusVars, fileVars,
      groupVars
<1>28. ASSUME NEW p \in Procs, EnterConsume(p) PROVE ReportedShown'
  BY <1>0, <1>s, <1>j, <1>a, <1>28
  DEF EnterConsume, ReadClock, Result, Reporting, Repairing, corpusVars, fileVars,
      groupVars
<1>29. ASSUME NEW p \in Procs, RepairGlobal(p) PROVE ReportedShown'
  BY <1>0, <1>s, <1>j, <1>a, <1>29
  DEF RepairGlobal, Result, Reporting, Repairing, corpusVars, fileVars, groupVars
<1>30. ASSUME NEW p \in Procs, RepairCheck(p) PROVE ReportedShown'
  BY <1>0, <1>s, <1>j, <1>a, <1>30
  DEF RepairCheck, AfterRepair, Result, Reporting, Repairing, corpusVars, fileVars,
      groupVars
<1>31. ASSUME NEW p \in Procs, RepairLane(p) PROVE ReportedShown'
  BY <1>0, <1>s, <1>j, <1>a, <1>31
  DEF RepairLane, AfterRepair, SetLaneStatus, Result, Reporting, Repairing,
      corpusVars, fileVars, groupVars
<1>32. ASSUME NEW p \in Procs, Dequeue(p) PROVE ReportedShown'
  BY <1>0, <1>s, <1>j, <1>a, <1>32
  DEF Dequeue, Result, Reporting, Repairing, corpusVars, fileVars, groupVars
<1>33. ASSUME NEW p \in Procs, Release(p) PROVE ReportedShown'
  BY <1>0, <1>s, <1>j, <1>a, <1>33
  DEF Release, Finished, Unlock, Result, Reporting, Repairing, corpusVars, fileVars,
      groupVars
<1>34. ASSUME NEW p \in Procs, PublicationStepFails(p) PROVE ReportedShown'
  BY <1>0, <1>s, <1>j, <1>a, <1>34
  DEF PublicationStepFails, PublicationFails, AfterFailure, Result, Reporting,
      Repairing, corpusVars, fileVars, groupVars
<1>35. ASSUME NEW p \in Procs, RepairStepFails(p) PROVE ReportedShown'
  BY <1>0, <1>s, <1>j, <1>a, <1>35
  DEF RepairStepFails, Result, Reporting, Repairing, corpusVars, fileVars, groupVars
<1>36. ASSUME NEW p \in Procs, Crash(p) PROVE ReportedShown'
  BY <1>0, <1>s, <1>j, <1>a, <1>36
  DEF Crash, Finished, Unlock, Interrupt, Result, Reporting, Repairing, corpusVars,
      fileVars, groupVars
<1>37. CASE UNCHANGED vars
  BY <1>37
  DEF vars, procVars, corpusVars, fileVars, groupVars, Result, Reporting, Repairing
<1> QED
  BY <1>1, <1>2, <1>3, <1>4, <1>5, <1>6, <1>7, <1>8, <1>9, <1>10, <1>11,
     <1>12, <1>13, <1>14, <1>15, <1>16, <1>17, <1>18, <1>19, <1>20, <1>21,
     <1>22, <1>23, <1>24, <1>25, <1>26, <1>27, <1>28, <1>29, <1>30, <1>31,
     <1>32, <1>33, <1>34, <1>35, <1>36, <1>37
  DEF Next, Collect, Publish, Repair

(* A timestamp was read from the clock, and the clock only moves on. *)
LEMMA NextFromClock ==
  ASSUME TypeOK, ReadFromClock, [Next]_vars
  PROVE  ReadFromClock' /\ clock <= clock'
<1> USE LaneProcs DEF Finished
<1>0. /\ clock \in Nat /\ now \in [Procs -> Nat]
      /\ \A q \in Procs : now[q] <= clock
  BY PublicationAssumption DEF TypeOK, Time, ReadFromClock
<1>1. ASSUME NEW p \in Procs, ReadClock(p) PROVE ReadFromClock' /\ clock <= clock'
  <2>1. PICK t \in Time : t > clock /\ clock' = t /\ now' = [now EXCEPT ![p] = t]
    BY <1>1 DEF ReadClock
  <2>t. t \in Nat
    BY PublicationAssumption DEF Time
  <2>2. \A q \in Procs : now'[q] <= clock'
    BY <1>0, <2>1, <2>t
  <2> QED
    BY <1>0, <2>1, <2>t, <2>2 DEF ReadFromClock
<1>2. CASE clock' = clock /\ (now' = now \/ \E p \in Procs : now' = [now EXCEPT ![p] = 0])
  BY <1>0, <1>2 DEF ReadFromClock
<1>3. \/ clock' = clock /\ (now' = now \/ \E p \in Procs : now' = [now EXCEPT ![p] = 0])
      \/ \E p \in Procs : ReadClock(p)
  <2>1. ASSUME NEW p \in Lanes,
               StartCollect(p) \/ PollBusy(p) \/ Collect(p) \/ LaneFailure(p)
        PROVE  <1>3!1 \/ <1>3!2
    BY <2>1 DEF Collect, StartCollect, PollBusy, FetchDone, AcquireMerge, MergeDeferred,
                Import, Finalize, Enqueue, ReportLane, ReportGlobal, DiscardStage,
                WriteError, LaneFailure, procVars
  <2>2. ASSUME NEW p \in Procs, Publish(p) \/ PublicationStepFails(p)
        PROVE  <1>3!1 \/ <1>3!2
    BY <2>2 DEF Publish, Retain, NoWeeklyBatch, BeginGroup, BuildGroup, PruneGroups,
                InstallGroup, SwitchPointer, FinishGroup, PublicationStepFails
  <2>3. ASSUME NEW p \in Procs, Repair(p) \/ RepairStepFails(p) \/ Crash(p)
        PROVE  <1>3!1 \/ <1>3!2
    BY <2>3 DEF Repair, EnterBusy, EnterMaintain, EnterRetry, RetryNotNeeded,
                EnterConsume, RepairGlobal, RepairCheck, RepairLane, Dequeue, Release,
                RepairStepFails, Crash
  <2>4. StartRetry \/ StartConsume => clock' = clock /\ now' = now
    BY DEF StartRetry, StartConsume
  <2>5. UNCHANGED vars => clock' = clock /\ now' = now
    BY DEF vars, procVars
  <2> QED
    BY <2>1, <2>2, <2>3, <2>4, <2>5 DEF Next
<1> QED
  BY <1>1, <1>2, <1>3

(* Only finitely many identifiers were ever handed out. *)
Known == {b \in BatchId : status[b] # "absent"}

(* The newer daily batches that crowd one out are decided: nothing takes  *)
(* them away, and nothing moves their times.                              *)
NewerDecided(b) ==
  {c \in BatchId : /\ status[c] \in {"accepted", "expired"}
                  /\ mode[c] = "daily_ranked"
                  /\ completed[c] > completed[b]}

LEMMA CrowdStays ==
  ASSUME NEW b \in BatchId, CrowdedOut(b), IsFiniteSet(Known'),
         NewerDecided(b) \subseteq NewerDecided(b)',
         mode'[b] = mode[b]
  PROVE  CrowdedOut(b)'
<1>1. NewerDecided(b)' \subseteq Known'
  BY DEF NewerDecided, Known
<1>2. IsFiniteSet(NewerDecided(b)') /\ IsFiniteSet(NewerDecided(b))
  BY <1>1, FS_Subset
<1>3. /\ Cardinality(NewerDecided(b)) <= Cardinality(NewerDecided(b)')
      /\ Cardinality(NewerDecided(b)) \in Nat
      /\ Cardinality(NewerDecided(b)') \in Nat
  BY <1>2, FS_Subset, FS_CardinalityType
<1> QED
  BY <1>3, WindowAssumption DEF CrowdedOut, NewerDecided

(* A batch expires only in a retention, and the retention lets it go for   *)
(* one of three reasons: its days are over at a time that the clock has    *)
(* passed, its rank among the daily ones is beyond the cap, or its time    *)
(* lies after the timestamp the retention works with.                      *)
LEMMA NextExplained ==
  ASSUME TypeOK, CandidateOwned, JobKnown, JobUndecided, ReadFromClock,
         ExpiryExplained, [Next]_vars
  PROVE  ExpiryExplained'
<1> USE LaneProcs
<1>0. /\ status \in [BatchId -> BatchStatus] /\ mode \in [BatchId -> Lanes]
      /\ completed \in [BatchId -> Nat] /\ now \in [Procs -> Nat]
      /\ clock \in Nat /\ clock' \in Nat
      /\ clock <= clock' /\ Window \in Nat /\ DailyCap \in Nat
  <2>1. clock' \in Nat
    BY NextTyping, PublicationAssumption DEF TypeOK, Time
  <2> QED
    BY <2>1, NextFromClock, PublicationAssumption, WindowAssumption DEF TypeOK, Time
<1>1. /\ IsFiniteSet(Known)
      /\ \A b \in BatchId : status[b] = "expired" =>
           completed[b] + Window <= clock \/ CrowdedOut(b) \/ b \in cutShort
  BY DEF ExpiryExplained, Known
<1>2. CASE UNCHANGED corpusVars
  <2>1. status' = status /\ mode' = mode /\ completed' = completed /\ cutShort' = cutShort
    BY <1>2 DEF corpusVars
  <2>2. Known' = Known /\ \A b : CrowdedOut(b)' = CrowdedOut(b)
    BY <2>1 DEF Known, CrowdedOut
  <2>3. ASSUME NEW b \in BatchId, status'[b] = "expired"
        PROVE  completed'[b] + Window <= clock' \/ CrowdedOut(b)' \/ b \in cutShort'
    BY <1>0, <1>1, <2>1, <2>2, <2>3
  <2> QED
    BY <1>1, <2>2, <2>3 DEF ExpiryExplained, Known
<1>3. ASSUME NEW p \in Lanes, Import(p) PROVE ExpiryExplained'
  <2>1. PICK i \in BatchId, v \in {"collecting", "conflicted"} :
          /\ status[i] = "absent" /\ status' = [status EXCEPT ![i] = v]
          /\ mode' = [mode EXCEPT ![i] = p]
    BY <1>3 DEF Import
  <2>2. completed' = completed /\ cutShort' = cutShort
    BY <1>3 DEF Import
  <2>3. IsFiniteSet(Known')
    <3>1. Known' \subseteq Known \cup {i}
      BY <1>0, <2>1 DEF Known
    <3> QED
      BY <1>1, <3>1, FS_AddElement, FS_Subset
  <2>4. ASSUME NEW b \in BatchId, status'[b] = "expired"
        PROVE  completed'[b] + Window <= clock' \/ CrowdedOut(b)' \/ b \in cutShort'
    <3>1. status[b] = "expired" /\ mode'[b] = mode[b]
      BY <1>0, <2>1, <2>4
    <3>2. NewerDecided(b) \subseteq NewerDecided(b)'
      BY <1>0, <2>1, <2>2 DEF NewerDecided
    <3> QED
      BY <1>0, <1>1, <2>2, <2>3, <3>1, <3>2, CrowdStays
  <2> QED
    BY <2>3, <2>4 DEF ExpiryExplained, Known
<1>4. ASSUME NEW p \in Lanes, Finalize(p) PROVE ExpiryExplained'
  <2> DEFINE i == job[p]
  <2>1. i \in BatchId /\ status[i] \in {"collecting", "conflicted"}
    BY <1>4, CriticalLabels DEF Finalize, JobKnown, JobUndecided
  <2>2. PICK v \in {"accepted", "rejected"} : status' = [status EXCEPT ![i] = v]
    BY <1>4 DEF Finalize
  <2>3. /\ completed' = [completed EXCEPT ![i] = now[p]]
        /\ mode' = mode /\ cutShort' = cutShort
    BY <1>4 DEF Finalize
  <2> HIDE DEF i
  <2>4. IsFiniteSet(Known')
    <3>1. Known' \subseteq Known
      BY <1>0, <2>1, <2>2 DEF Known
    <3> QED
      BY <1>1, <3>1, FS_Subset
  <2>5. ASSUME NEW b \in BatchId, status'[b] = "expired"
        PROVE  completed'[b] + Window <= clock' \/ CrowdedOut(b)' \/ b \in cutShort'
    <3>1. b # i /\ status[b] = "expired" /\ completed'[b] = completed[b]
      BY <1>0, <2>2, <2>3, <2>5
    <3>2. NewerDecided(b) \subseteq NewerDecided(b)'
      BY <1>0, <2>1, <2>2, <2>3, <3>1 DEF NewerDecided
    <3> QED
      BY <1>0, <1>1, <2>3, <2>4, <3>1, <3>2, CrowdStays
  <2> QED
    BY <2>4, <2>5 DEF ExpiryExplained, Known
<1>5. ASSUME NEW p \in Procs, Retain(p) PROVE ExpiryExplained'
  <2> DEFINE Gone == Accepted \ Retained(now[p])
  <2>1. /\ status' = [b \in BatchId |-> IF b \in Gone THEN "expired" ELSE status[b]]
        /\ cutShort' = cutShort \cup Later(now[p])
        /\ completed' = completed /\ mode' = mode
    BY <1>5 DEF Retain
  <2>2. \A b \in Gone : b \in BatchId /\ status[b] = "accepted"
    BY DEF Accepted
  <2> HIDE DEF Gone
  <2>3. IsFiniteSet(Known')
    <3>1. Known' \subseteq Known
      BY <1>0, <2>1, <2>2 DEF Known
    <3> QED
      BY <1>1, <3>1, FS_Subset
  <2>4. \A b \in BatchId : NewerDecided(b) \subseteq NewerDecided(b)'
    BY <1>0, <2>1, <2>2 DEF NewerDecided
  <2>5. ASSUME NEW b \in Gone, Inside(completed[b], now[p])
        PROVE  CrowdedOut(b)'
    <3>1. b \in Accepted /\ b \notin Retained(now[p]) /\ b \in BatchId
      BY <2>2 DEF Gone
    <3> DEFINE N == NewerDaily(Accepted, mode, completed, b, now[p])
    <3>2. mode[b] = "daily_ranked" /\ ~(Cardinality(N) < DailyCap)
      BY <2>5, <3>1 DEF Retained, RetainedBatches
    <3>3. N \subseteq NewerDecided(b)'
      BY <1>0, <2>1, <2>2 DEF NewerDaily, NewerDecided, Accepted
    <3> HIDE DEF N
    <3>4. NewerDecided(b)' \subseteq Known'
      BY DEF NewerDecided, Known
    <3>5. IsFiniteSet(N) /\ IsFiniteSet(NewerDecided(b)')
      BY <2>3, <3>3, <3>4, FS_Subset
    <3>6. /\ Cardinality(N) <= Cardinality(NewerDecided(b)')
          /\ Cardinality(N) \in Nat /\ Cardinality(NewerDecided(b)') \in Nat
      BY <3>3, <3>5, FS_Subset, FS_CardinalityType
    <3>7. DailyCap <= Cardinality(NewerDecided(b)')
      BY <1>0, <3>2, <3>6
    <3>8. mode'[b] = "daily_ranked"
      BY <2>1, <3>2
    <3> QED
      BY <3>7, <3>8 DEF CrowdedOut, NewerDecided
  <2>6. ASSUME NEW b \in BatchId, status'[b] = "expired"
        PROVE  completed'[b] + Window <= clock' \/ CrowdedOut(b)' \/ b \in cutShort'
    <3>1. CASE b \in Gone
      <4>1. now[p] <= clock
        BY DEF ReadFromClock
      <4>2. CASE completed[b] + Window <= now[p]
        BY <1>0, <2>1, <4>1, <4>2
      <4>3. CASE completed[b] > now[p]
        BY <2>1, <2>2, <3>1, <4>3 DEF Later, Accepted
      <4>4. CASE Inside(completed[b], now[p])
        BY <2>5, <3>1, <4>4
      <4> QED
        BY <1>0, <4>2, <4>3, <4>4 DEF Inside
    <3>2. CASE b \notin Gone
      <4>1. status[b] = "expired"
        BY <2>1, <2>6, <3>2
      <4>2. CASE CrowdedOut(b)
        BY <2>1, <2>3, <2>4, <4>2, CrowdStays
      <4> QED
        BY <1>0, <1>1, <2>1, <4>1, <4>2
    <3> QED
      BY <3>1, <3>2
  <2> QED
    BY <2>3, <2>6 DEF ExpiryExplained, Known
<1> QED
  BY <1>2, <1>3, <1>4, <1>5, CorpusWriters

(* The conjunction of the tracking invariants is inductive relative to     *)
(* PublicationInv, and so holds in every reachable state: it says what     *)
(* each collector and repair knows of its batch while it holds the lock.   *)
THEOREM Tracking == Spec => []TrackingInv
<1>1. Init => TrackingInv
  <2> SUFFICES ASSUME Init PROVE TrackingInv
    OBVIOUS
  <2> USE DEF Init, Reporting, Repairing, Settling, Publishing, Building
  <2>1. \A p \in Procs : pc[p] = "idle" /\ task[p] = "none" /\ outcome[p] = "none"
    OBVIOUS
  <2>2. OutcomeKnown /\ WindowApplied /\ AcceptedShown
    BY <2>1 DEF OutcomeKnown, WindowApplied, AcceptedShown
  <2>3. JobsDecided /\ ReportsSettled
    BY <2>1, LaneProcs, OutsideLabels DEF JobsDecided, ReportsSettled
  <2>4. ReportsValid /\ ReportedShown /\ AcceptedFactsTracked
    BY DEF ReportsValid, ReportedShown, AcceptedFactsTracked, Accepted, Failed
  <2>5. ReadFromClock
    BY DEF ReadFromClock
  <2>6. {b \in BatchId : status[b] # "absent"} = {} /\ \A b \in BatchId : status[b] # "expired"
    OBVIOUS
  <2>7. ExpiryExplained
    BY <2>6, FS_EmptySet DEF ExpiryExplained
  <2> QED
    BY <2>2, <2>3, <2>4, <2>5, <2>7 DEF TrackingInv
<1>2. PublicationInv /\ TrackingInv /\ [Next]_vars => TrackingInv'
  BY NextOutcomeKnown, NextWindowApplied, NextAcceptedShown, NextJobsDecided,
     NextReportsValid, NextReportsSettled, NextTracked, NextReported, NextFromClock,
     NextExplained
  DEF PublicationInv, TrackingInv
<1> QED
  BY <1>1, <1>2, Invariance, PTL DEF Spec

(* No accepted batch is lost on its way into a group: until a group that   *)
(* became active has shown it, it is queued, or its collector is still on  *)
(* the way, or that collector died or failed before it could.              *)
THEOREM FactsTracked == Spec => []AcceptedFactsTracked
BY Tracking, PTL DEF TrackingInv

(* A status file says "accepted" only of a batch whose facts were in an    *)
(* activated group, whose 35 days are over, which newer daily batches      *)
(* crowded out, or which a run with an older timestamp let go.             *)
THEOREM TruthfulStatus == Spec => []StatusTruthful
<1>1. TrackingInv => StatusTruthful
  <2> SUFFICES ASSUME TrackingInv,
                      NEW s \in {globalStatus} \cup {laneStatus[m] : m \in Lanes},
                      s.state = "accepted", s.batch \notin published
               PROVE  /\ status[s.batch] = "expired"
                      /\ \/ completed[s.batch] + Window <= clock
                         \/ CrowdedOut(s.batch)
                         \/ s.batch \in cutShort
    BY DEF StatusTruthful
  <2>1. s.batch \in BatchId
    BY DEF TrackingInv, ReportsValid, Valid
  <2>2. status[s.batch] = "expired"
    BY DEF TrackingInv, ReportedShown
  <2> QED
    BY <2>1, <2>2 DEF TrackingInv, ExpiryExplained
<1> QED
  BY <1>1, Tracking, PTL

(* A workspace is discarded by its collector alone, after both files say   *)
(* what became of its batch and after a failed publication was queued.     *)
LEMMA StageSettled ==
  ASSUME TypeOK, ReportsSettled, [Next]_vars, NEW m \in Lanes, stage[m], ~stage'[m]
  PROVE  /\ laneStatus[m] = globalStatus
         /\ globalStatus.state \in {"accepted", "accepted_publication_failed", "rejected"}
         /\ Failed(globalStatus) => Queued(globalStatus.batch)
<1>0. stage \in [Lanes -> BOOLEAN]
  BY DEF TypeOK
<1>1. UNCHANGED stage \/ \E p \in Lanes : StartCollect(p) \/ DiscardStage(p)
  BY DEF Next, Collect, Publish, Repair, PollBusy, FetchDone, AcquireMerge,
         MergeDeferred, Import, Finalize, Enqueue, ReportLane, ReportGlobal, WriteError,
         LaneFailure, StartRetry, StartConsume, Retain, NoWeeklyBatch, BeginGroup,
         BuildGroup, PruneGroups, InstallGroup, SwitchPointer, FinishGroup, EnterBusy,
         EnterMaintain, EnterRetry, RetryNotNeeded, EnterConsume, RepairGlobal,
         RepairCheck, RepairLane, Dequeue, Release, PublicationStepFails,
         RepairStepFails, Crash, SetLaneStatus, vars, fileVars
<1>2. pc[m] = "discard"
  BY <1>0, <1>1 DEF StartCollect, DiscardStage
<1>3. laneStatus[m] = Result(m) /\ globalStatus = Result(m)
  BY <1>2 DEF ReportsSettled
<1>4. status[job[m]] = "rejected" \/ outcome[m] = "published" \/ Queued(job[m])
  BY <1>2 DEF ReportsSettled, Reporting
<1> QED
  BY <1>3, <1>4 DEF Result, Failed

(* A workspace goes only after both status files agree on its batch, and   *)
(* what was accepted but not published is queued.                          *)
THEOREM StageKept == Spec => StageDiscardedOnlyWhenSettled
<1>1. PublicationInv /\ TrackingInv /\ [Next]_vars =>
        [\A m \in Lanes : (stage[m] /\ ~stage'[m]) =>
           /\ laneStatus[m] = globalStatus
           /\ globalStatus.state \in {"accepted", "accepted_publication_failed", "rejected"}
           /\ Failed(globalStatus) => Queued(globalStatus.batch)]_vars
  BY StageSettled DEF PublicationInv, TrackingInv
<1> QED
  BY <1>1, Invariance, Tracking, PTL DEF Spec, StageDiscardedOnlyWhenSettled

(* Only a failure between the pruning and the switch leaves the pointer    *)
(* without its group.                                                      *)
LEMMA NextMissing ==
  ASSUME TypeOK, SingleWriter, InstalledBeforeSwitch, MissingWhileInstalling,
         [Next]_vars
  PROVE  MissingWhileInstalling'
<1> USE LaneProcs, CriticalLabels DEF MissingWhileInstalling, Fault, Goto
<1>0. /\ pc \in [Procs -> PC] /\ faults \in Nat /\ MaxFaults \in Nat
      /\ groups \subseteq Group
  BY PublicationAssumption DEF TypeOK
<1>b. \A q, r \in Procs : pc[q] \in Critical /\ pc[r] \in Critical => q = r
  BY DEF SingleWriter
<1>c. \A q \in Procs : pc[q] = "switch" => candidate \in groups
  BY DEF InstalledBeforeSwitch
<1>1. ASSUME NEW p \in Lanes, StartCollect(p) PROVE MissingWhileInstalling'
  BY <1>0, <1>b, <1>c, <1>1
  DEF StartCollect, SetLaneStatus, corpusVars, fileVars, groupVars
<1>2. ASSUME NEW p \in Lanes, PollBusy(p) PROVE MissingWhileInstalling'
  BY <1>0, <1>b, <1>c, <1>2
  DEF PollBusy, SetLaneStatus, procVars, corpusVars, fileVars, groupVars
<1>3. ASSUME NEW p \in Lanes, FetchDone(p) PROVE MissingWhileInstalling'
  BY <1>0, <1>b, <1>c, <1>3 DEF FetchDone, ReadClock, corpusVars, fileVars, groupVars
<1>4. ASSUME NEW p \in Lanes, AcquireMerge(p) PROVE MissingWhileInstalling'
  BY <1>0, <1>b, <1>c, <1>4 DEF AcquireMerge, corpusVars, fileVars, groupVars
<1>5. ASSUME NEW p \in Lanes, MergeDeferred(p) PROVE MissingWhileInstalling'
  BY <1>0, <1>b, <1>c, <1>5
  DEF MergeDeferred, Finished, corpusVars, fileVars, groupVars
<1>6. ASSUME NEW p \in Lanes, Import(p) PROVE MissingWhileInstalling'
  BY <1>0, <1>b, <1>c, <1>6 DEF Import, SetLaneStatus, corpusVars, fileVars, groupVars
<1>7. ASSUME NEW p \in Lanes, Finalize(p) PROVE MissingWhileInstalling'
  BY <1>0, <1>b, <1>c, <1>7 DEF Finalize, corpusVars, fileVars, groupVars
<1>8. ASSUME NEW p \in Lanes, Enqueue(p) PROVE MissingWhileInstalling'
  BY <1>0, <1>b, <1>c, <1>8 DEF Enqueue, corpusVars, fileVars, groupVars
<1>9. ASSUME NEW p \in Lanes, ReportLane(p) PROVE MissingWhileInstalling'
  BY <1>0, <1>b, <1>c, <1>9 DEF ReportLane, corpusVars, fileVars, groupVars
<1>10. ASSUME NEW p \in Lanes, ReportGlobal(p) PROVE MissingWhileInstalling'
  BY <1>0, <1>b, <1>c, <1>10 DEF ReportGlobal, corpusVars, fileVars, groupVars
<1>11. ASSUME NEW p \in Lanes, DiscardStage(p) PROVE MissingWhileInstalling'
  BY <1>0, <1>b, <1>c, <1>11
  DEF DiscardStage, Finished, Unlock, corpusVars, fileVars, groupVars
<1>12. ASSUME NEW p \in Lanes, WriteError(p) PROVE MissingWhileInstalling'
  BY <1>0, <1>b, <1>c, <1>12
  DEF WriteError, Finished, SetLaneStatus, corpusVars, fileVars, groupVars
<1>13. ASSUME NEW p \in Lanes, LaneFailure(p) PROVE MissingWhileInstalling'
  BY <1>0, <1>b, <1>c, <1>13
  DEF LaneFailure, Unlock, Interrupt, ReadClock, corpusVars, fileVars, groupVars
<1>14. ASSUME StartRetry PROVE MissingWhileInstalling'
  BY <1>0, <1>b, <1>c, <1>14 DEF StartRetry, corpusVars, fileVars, groupVars
<1>15. ASSUME StartConsume PROVE MissingWhileInstalling'
  BY <1>0, <1>b, <1>c, <1>15 DEF StartConsume, corpusVars, fileVars, groupVars
<1>16. ASSUME NEW p \in Procs, Retain(p) PROVE MissingWhileInstalling'
  BY <1>0, <1>b, <1>c, <1>16 DEF Retain, corpusVars, fileVars, groupVars
<1>17. ASSUME NEW p \in Procs, NoWeeklyBatch(p) PROVE MissingWhileInstalling'
  BY <1>0, <1>b, <1>c, <1>17
  DEF NoWeeklyBatch, PublicationFails, AfterFailure, corpusVars, fileVars, groupVars
<1>18. ASSUME NEW p \in Procs, BeginGroup(p) PROVE MissingWhileInstalling'
  BY <1>0, <1>b, <1>c, <1>18 DEF BeginGroup, corpusVars, fileVars, groupVars
<1>19. ASSUME NEW p \in Procs, BuildGroup(p) PROVE MissingWhileInstalling'
  BY <1>0, <1>b, <1>c, <1>19 DEF BuildGroup, corpusVars, fileVars, groupVars
<1>20. ASSUME NEW p \in Procs, PruneGroups(p) PROVE MissingWhileInstalling'
  BY <1>0, <1>b, <1>c, <1>20 DEF PruneGroups, corpusVars, fileVars, groupVars
<1>21. ASSUME NEW p \in Procs, InstallGroup(p) PROVE MissingWhileInstalling'
  BY <1>0, <1>b, <1>c, <1>21 DEF InstallGroup, corpusVars, fileVars, groupVars
<1>22. ASSUME NEW p \in Procs, SwitchPointer(p) PROVE MissingWhileInstalling'
  BY <1>0, <1>b, <1>c, <1>22 DEF SwitchPointer, corpusVars, fileVars, groupVars
<1>23. ASSUME NEW p \in Procs, FinishGroup(p) PROVE MissingWhileInstalling'
  BY <1>0, <1>b, <1>c, <1>23
  DEF FinishGroup, AfterSuccess, corpusVars, fileVars, groupVars
<1>24. ASSUME NEW p \in Procs, EnterBusy(p) PROVE MissingWhileInstalling'
  BY <1>0, <1>b, <1>c, <1>24 DEF EnterBusy, Finished, corpusVars, fileVars, groupVars
<1>25. ASSUME NEW p \in Procs, EnterMaintain(p) PROVE MissingWhileInstalling'
  BY <1>0, <1>b, <1>c, <1>25 DEF EnterMaintain, corpusVars, fileVars, groupVars
<1>26. ASSUME NEW p \in Procs, EnterRetry(p) PROVE MissingWhileInstalling'
  BY <1>0, <1>b, <1>c, <1>26
  DEF EnterRetry, ReadClock, corpusVars, fileVars, groupVars
<1>27. ASSUME NEW p \in Procs, RetryNotNeeded(p) PROVE MissingWhileInstalling'
  BY <1>0, <1>b, <1>c, <1>27
  DEF RetryNotNeeded, Finished, corpusVars, fileVars, groupVars
<1>28. ASSUME NEW p \in Procs, EnterConsume(p) PROVE MissingWhileInstalling'
  BY <1>0, <1>b, <1>c, <1>28
  DEF EnterConsume, ReadClock, corpusVars, fileVars, groupVars
<1>29. ASSUME NEW p \in Procs, RepairGlobal(p) PROVE MissingWhileInstalling'
  BY <1>0, <1>b, <1>c, <1>29 DEF RepairGlobal, corpusVars, fileVars, groupVars
<1>30. ASSUME NEW p \in Procs, RepairCheck(p) PROVE MissingWhileInstalling'
  BY <1>0, <1>b, <1>c, <1>30
  DEF RepairCheck, AfterRepair, corpusVars, fileVars, groupVars
<1>31. ASSUME NEW p \in Procs, RepairLane(p) PROVE MissingWhileInstalling'
  BY <1>0, <1>b, <1>c, <1>31
  DEF RepairLane, AfterRepair, SetLaneStatus, corpusVars, fileVars, groupVars
<1>32. ASSUME NEW p \in Procs, Dequeue(p) PROVE MissingWhileInstalling'
  BY <1>0, <1>b, <1>c, <1>32 DEF Dequeue, corpusVars, fileVars, groupVars
<1>33. ASSUME NEW p \in Procs, Release(p) PROVE MissingWhileInstalling'
  BY <1>0, <1>b, <1>c, <1>33
  DEF Release, Finished, Unlock, corpusVars, fileVars, groupVars
<1>34. ASSUME NEW p \in Procs, PublicationStepFails(p) PROVE MissingWhileInstalling'
  BY <1>0, <1>b, <1>c, <1>34
  DEF PublicationStepFails, PublicationFails, AfterFailure, corpusVars, fileVars,
      groupVars
<1>35. ASSUME NEW p \in Procs, RepairStepFails(p) PROVE MissingWhileInstalling'
  BY <1>0, <1>b, <1>c, <1>35 DEF RepairStepFails, corpusVars, fileVars, groupVars
<1>36. ASSUME NEW p \in Procs, Crash(p) PROVE MissingWhileInstalling'
  BY <1>0, <1>b, <1>c, <1>36
  DEF Crash, Finished, Unlock, Interrupt, corpusVars, fileVars, groupVars
<1>37. CASE UNCHANGED vars
  BY <1>37 DEF vars, procVars, corpusVars, fileVars, groupVars
<1> QED
  BY <1>1, <1>2, <1>3, <1>4, <1>5, <1>6, <1>7, <1>8, <1>9, <1>10, <1>11,
     <1>12, <1>13, <1>14, <1>15, <1>16, <1>17, <1>18, <1>19, <1>20, <1>21,
     <1>22, <1>23, <1>24, <1>25, <1>26, <1>27, <1>28, <1>29, <1>30, <1>31,
     <1>32, <1>33, <1>34, <1>35, <1>36, <1>37
  DEF Next, Collect, Publish, Repair

(* In whatever order the lanes publish, the pointer of a data directory    *)
(* nobody is writing to names a group that is on disk, unless a step       *)
(* failed or a process died: the cleaning that ignores the pointer never   *)
(* leaves it dangling by itself.                                           *)
THEOREM ActivePresent == Spec => []ActivePresentWithoutFaults
<1>1. Init => MissingWhileInstalling
  BY DEF Init, MissingWhileInstalling
<1>2. PublicationInv /\ MissingWhileInstalling /\ [Next]_vars => MissingWhileInstalling'
  BY NextMissing DEF PublicationInv
<1>3. PublicationInv /\ MissingWhileInstalling => ActivePresentWithoutFaults
  BY CriticalLabels, PublicationAssumption
  DEF PublicationInv, SingleWriter, MissingWhileInstalling, ActivePresentWithoutFaults
<1> QED
  BY <1>1, <1>2, <1>3, Invariance, PTL DEF Spec
=============================================================================
