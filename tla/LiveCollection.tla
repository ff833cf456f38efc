--------------------------- MODULE LiveCollection ---------------------------
(***************************************************************************)
(* One collection from the official API: a queue of ranked players, and in *)
(* the weekly mode of the opponents met in their battle logs, is fetched   *)
(* in batches into a resumable workspace on disk, from which the snapshot  *)
(* is built and handed on.  A run may stop anywhere; the next one resumes  *)
(* what the workspace holds.                                               *)
(***************************************************************************)
EXTENDS Integers, Sequences, FiniteSets, SequencesExt

CONSTANTS
  Leaderboard,  \* the players of the official ranking, in its order
  Rank,         \* the rank the ranking itself gives them, 0 for none
  Opponents,    \* players outside the ranking
  Battle,       \* records: between (two players), timed, usable
  Log,          \* Log[p]: the battle log of player p, a sequence
  Expand,       \* weekly mode: the opponents of ranked players are queued
  Target,       \* target_battles
  SeedLimit,    \* seed_player_limit
  PlayerLimit,  \* player_limit
  PerPlayer,    \* battles_per_player
  Concurrency,
  RetryRounds,  \* ranked_tail_retry_rounds
  Storage,      \* max_workspace_bytes, counted in observations
  MaxFaults     \* bound on failed requests, 429s, crashes, removals that fail

(* The ranking names nobody twice (fetch_global_rankings drops repeated     *)
(* tags and items without one), but its ranks are taken as they come: they  *)
(* need not be positions.  Every battle of a log was fought by its owner    *)
(* against somebody.                                                        *)
ASSUME CollectionAssumption ==
  /\ Leaderboard \in Seq(Range(Leaderboard)) /\ IsInjective(Leaderboard)
  /\ Rank \in [Range(Leaderboard) -> Nat]
  /\ {Target, SeedLimit, PlayerLimit, PerPlayer, RetryRounds, Storage, MaxFaults} \subseteq Nat
  /\ Concurrency \in Nat \ {0}
  /\ \A b \in Battle : /\ b.between \subseteq Range(Leaderboard) \cup Opponents
                       /\ b.usable \in BOOLEAN /\ b.timed \in BOOLEAN
  /\ Log \in [Range(Leaderboard) \cup Opponents -> Seq(Battle)]
  /\ \A p \in Range(Leaderboard) \cup Opponents :
       \A b \in Range(Log[p]) : \E o \in b.between : o # p

VARIABLES
  ws,           \* the workspace: SQLite tables and players.json
  run,          \* the collection that runs, in memory
  delivered,    \* history: workspaces whose snapshot was handed on
  faults

vars == <<ws, run, delivered, faults>>

Player == Range(Leaderboard) \cup Opponents
Entry == [tag : Player, ranked : BOOLEAN]
Queue == SeqOf(Entry, PlayerLimit)
NoQueue == <<[tag |-> "unreadable"]>>

AtMost(a, b) == IF a < b THEN a ELSE b
AtLeast(a, b) == IF a > b THEN a ELSE b

(* The key of a stored battle: sides and time, whoever reports it; without *)
(* a time the report itself.                                               *)
Fact(b, p) == [battle |-> b, by |-> IF b.timed THEN b.between ELSE {p}]
Facts == {Fact(b, p) : b \in Battle, p \in Player}

EmptyWorkspace(id) ==
  [id |-> id, queue |-> NoQueue, requests |-> [p \in Player |-> "none"],
   facts |-> {}, counted |-> 0, observed |-> {}, processed |-> 0,
   limited |-> FALSE, old |-> FALSE]

Idle ==
  [pc |-> "idle", queue |-> <<>>, start |-> 0, next |-> 0, fetched |-> <<>>,
   usable |-> 0, limited |-> FALSE, spent |-> FALSE, round |-> 0, retry |-> {}, exhausted |-> FALSE]

Init ==
  /\ ws = EmptyWorkspace(1) /\ run = Idle
  /\ delivered = <<>> /\ faults = 0

Fault(n) == faults + n <= MaxFaults /\ faults' = faults + n

OverBudget(w) == Cardinality(w.observed) > Storage

-----------------------------------------------------------------------------
(* Opening and seeding.                                                    *)

(* A workspace older than a fortnight, or one that met a rate limit, is    *)
(* replaced; so is one whose player queue cannot be read although players  *)
(* were processed.                                                         *)
Opened ==
  LET w == IF ws.limited \/ ws.old THEN EmptyWorkspace(ws.id + 1) ELSE ws
  IN IF ~OverBudget(w) /\ w.queue = NoQueue /\ w.processed > 0
     THEN EmptyWorkspace(w.id + 1) ELSE w

(* Seeded fault: a resumed run starts at the head of the queue. *)
ResumedAtHead(w) ==
  [Idle EXCEPT !.pc = "batch", !.queue = w.queue,
               !.usable = Cardinality(w.facts)]

Resumed(w) ==
  [Idle EXCEPT !.pc = "batch", !.queue = w.queue, !.start = w.processed,
               !.usable = Cardinality(w.facts)]

OpenWorkspace ==
  /\ run.pc = "idle" /\ Len(delivered) < 2
  /\ ws' = Opened
  /\ run' = IF OverBudget(ws') THEN Idle
            ELSE IF ws'.queue = NoQueue THEN [Idle EXCEPT !.pc = "seed"]
            ELSE Resumed(ws')
  /\ UNCHANGED <<delivered, faults>>

Seeds ==
  [i \in 1 .. AtMost(Len(Leaderboard), AtMost(SeedLimit, PlayerLimit)) |->
     [tag |-> Leaderboard[i], ranked |-> TRUE]]

(* fetch_global_rankings, then save_players; a 429 that a retry overcame   *)
(* is remembered.                                                          *)
SeedPlayers ==
  /\ run.pc = "seed"
  /\ \E limited \in BOOLEAN :
       /\ Fault(IF limited THEN 1 ELSE 0)
       /\ run' = [run EXCEPT !.pc = "batch", !.queue = Seeds, !.limited = limited]
  /\ ws' = [ws EXCEPT !.queue = Seeds]
  /\ UNCHANGED delivered

SeedingFails ==
  /\ run.pc = "seed" /\ Fault(1)
  /\ run' = Idle
  /\ UNCHANGED <<ws, delivered>>

-----------------------------------------------------------------------------
(* Fetching and recording.                                                 *)

NoPlayerLeft ==
  /\ run.pc = "batch" /\ run.start >= Len(run.queue)
  /\ run' = [run EXCEPT !.pc = "tail"]
  /\ UNCHANGED <<ws, delivered, faults>>

(* max_duration_seconds have passed. *)
TimeIsUp ==
  /\ run.pc = "batch" /\ run.start < Len(run.queue) /\ Fault(1)
  /\ run' = [run EXCEPT !.pc = "tail", !.spent = TRUE]
  /\ UNCHANGED <<ws, delivered>>

(* The requests of a batch run in parallel; they are recorded in order.    *)
FetchBatch ==
  /\ run.pc = "batch" /\ run.start < Len(run.queue)
  /\ \E failing \in SUBSET (run.start + 1 .. AtMost(run.start + Concurrency, Len(run.queue))),
        limited \in BOOLEAN :
       /\ Fault(Cardinality(failing) + IF limited THEN 1 ELSE 0)
       /\ run' = [run EXCEPT
            !.pc = "record", !.limited = @ \/ limited,
            !.next = AtMost(run.start + Concurrency, Len(run.queue)),
            !.fetched = [i \in 1 .. AtMost(Concurrency, Len(run.queue) - run.start) |->
                           [index |-> run.start + i, failed |-> run.start + i \in failing]]]
  /\ UNCHANGED <<ws, delivered>>

(* select_usable_battles: the first distinct usable battles of a log. *)
Kept(kept, b) ==
  IF Len(kept) = PerPlayer \/ ~b.usable \/ b \in Range(kept)
  THEN kept ELSE Append(kept, b)

Selected(p) ==
  LET kept[n \in 0 .. Len(Log[p])] ==
        IF n = 0 THEN <<>> ELSE Kept(kept[n - 1], Log[p][n])
  IN kept[Len(Log[p])]

(* Battles up to the target are new facts; those already stored are        *)
(* observed once more.                                                     *)
Added(facts, fact) ==
  IF Cardinality(facts) < Target THEN facts \cup {fact} ELSE facts

Stored(facts, p, battles) ==
  LET stored[n \in 0 .. Len(battles)] ==
        IF n = 0 THEN facts ELSE Added(stored[n - 1], Fact(battles[n], p))
  IN stored[Len(battles)]

(* Seeded fault: statistics count a battle each time it is observed. *)
RecordedEachTime(w, index, p, battles, failed) ==
  LET facts == Stored(w.facts, p, battles)
      seen == {Fact(b, p) : b \in Range(battles)} \cap facts
  IN [w EXCEPT !.facts = facts,
               !.observed = @ \cup (seen \X {p}),
               !.counted = @ + Cardinality(seen),
               !.requests = [@ EXCEPT ![p] = IF failed THEN "failed" ELSE "success"],
               !.processed = AtLeast(@, index)]

(* record_player: one transaction. *)
Recorded(w, index, p, battles, failed) ==
  LET facts == Stored(w.facts, p, battles)
      seen == {Fact(b, p) : b \in Range(battles)} \cap facts
  IN [w EXCEPT !.facts = facts,
               !.observed = @ \cup (seen \X {p}),
               !.counted = @ + Cardinality(facts \ w.facts),
               !.requests = [@ EXCEPT ![p] = IF failed THEN "failed" ELSE "success"],
               !.processed = AtLeast(@, index)]

(* The queue with the opponents of a log, as far as there is room. *)
Queued(queue, other) ==
  IF Len(queue) >= PlayerLimit \/ \E i \in DOMAIN queue : queue[i].tag = other
  THEN queue ELSE Append(queue, [tag |-> other, ranked |-> FALSE])

Opponent(b, p) == CHOOSE q \in b.between : q # p

Expanded(queue, p) ==
  LET battles == Selected(p)
      longer[n \in 0 .. Len(battles)] ==
        IF n = 0 THEN queue ELSE Queued(longer[n - 1], Opponent(battles[n], p))
  IN longer[Len(battles)]

Met(p) == {Opponent(b, p) : b \in Range(Selected(p))}

RecordPlayer ==
  /\ run.pc = "record" /\ run.fetched # <<>>
  /\ LET result == Head(run.fetched)
         entry == run.queue[result.index]
         battles == IF result.failed THEN <<>> ELSE Selected(entry.tag)
         queue == IF Expand /\ entry.ranked /\ ~result.failed
                  THEN Expanded(run.queue, entry.tag) ELSE run.queue
     IN /\ ws' = Recorded(ws, result.index, entry.tag, battles, result.failed)
        /\ run' = IF OverBudget(ws') THEN Idle
                  ELSE [run EXCEPT
                    !.pc = IF queue # run.queue THEN "expand" ELSE "record",
                    !.queue = queue,
                    !.usable = @ + Cardinality(ws'.facts \ ws.facts),
                    !.fetched = Tail(@)]
  /\ UNCHANGED <<delivered, faults>>

(* save_players replaces players.json after the transaction. *)
SaveQueue ==
  /\ run.pc = "expand"
  /\ ws' = [ws EXCEPT !.queue = run.queue]
  /\ run' = [run EXCEPT !.pc = "record"]
  /\ UNCHANGED <<delivered, faults>>

(* Seeded fault: a batch that reached nothing is fetched again. *)
NextBatchStuck ==
  /\ run.pc = "record" /\ run.fetched = <<>>
  /\ ws' = [ws EXCEPT !.limited = @ \/ run.limited]
  /\ run' = [run EXCEPT !.pc = IF run.limited \/ run.usable >= Target THEN "tail" ELSE "batch"]
  /\ UNCHANGED <<delivered, faults>>

NextBatch ==
  /\ run.pc = "record" /\ run.fetched = <<>>
  /\ ws' = [ws EXCEPT !.limited = @ \/ run.limited]
  /\ run' = IF run.limited \/ run.usable >= Target
            THEN [run EXCEPT !.pc = "tail"]
            ELSE [run EXCEPT !.pc = "batch", !.start = run.next]
  /\ UNCHANGED <<delivered, faults>>

-----------------------------------------------------------------------------
(* The ranked players whose request failed are asked again, best first.    *)

FailedRanked ==
  {p \in Range(Leaderboard) :
     /\ ws.requests[p] = "failed"
     /\ \E i \in DOMAIN run.queue : run.queue[i] = [tag |-> p, ranked |-> TRUE]}

(* Among players of one rank the order of the tags decides. *)
BestRanked(players) == {p \in players : \A q \in players : Rank[p] <= Rank[q]}

(* A retry is recorded at the player's rank, wherever it stands in the     *)
(* queue.                                                                  *)
RetriedAt(p) == AtLeast(Rank[p], 1)

StartRound ==
  /\ run.pc = "tail"
  /\ run' = IF run.limited \/ run.spent \/ run.round = RetryRounds \/ FailedRanked = {}
            THEN [run EXCEPT !.pc = "finish"]
            ELSE [run EXCEPT !.pc = "retry", !.round = @ + 1, !.retry = FailedRanked]
  /\ UNCHANGED <<ws, delivered, faults>>

EndRound ==
  /\ run.pc = "retry" /\ run.retry = {}
  /\ run' = [run EXCEPT !.pc = "tail"]
  /\ UNCHANGED <<ws, delivered, faults>>

RetryTimeIsUp ==
  /\ run.pc = "retry" /\ run.retry # {} /\ Fault(1)
  /\ run' = [run EXCEPT !.pc = "finish", !.spent = TRUE]
  /\ UNCHANGED <<ws, delivered>>

RetryFails ==
  /\ run.pc = "retry" /\ run.retry # {}
  /\ \E limited \in BOOLEAN :
       /\ Fault(IF limited THEN 2 ELSE 1)
       /\ ws' = [ws EXCEPT !.limited = @ \/ limited]
       /\ \E p \in BestRanked(run.retry) :
            run' = IF limited THEN [run EXCEPT !.pc = "finish", !.limited = TRUE]
                   ELSE [run EXCEPT !.retry = @ \ {p}]
  /\ UNCHANGED delivered

RetryPlayer ==
  /\ run.pc = "retry" /\ run.retry # {}
  /\ \E limited \in BOOLEAN, p \in BestRanked(run.retry) :
       LET w == Recorded(ws, RetriedAt(p), p, Selected(p), FALSE)
       IN /\ Fault(IF limited THEN 1 ELSE 0)
          /\ ws' = [w EXCEPT !.limited = @ \/ (limited /\ ~OverBudget(w))]
          /\ run' = IF OverBudget(w) THEN Idle
                    ELSE [run EXCEPT !.usable = @ + Cardinality(w.facts \ ws.facts),
                                     !.retry = @ \ {p},
                                     !.limited = limited,
                                     !.pc = IF limited THEN "finish" ELSE "retry"]
  /\ UNCHANGED delivered

-----------------------------------------------------------------------------
(* Building, handing on, clearing away.                                    *)

(* Seeded fault: the source counts as exhausted whenever the run ended. *)
SourceExhaustedAlways == run.usable < Target

SourceExhausted ==
  /\ run.usable < Target
  /\ ~run.spent /\ ~run.limited
  /\ run.start >= Len(run.queue)

(* A snapshot without battles is refused. *)
BuildSnapshot ==
  /\ run.pc = "finish"
  /\ run' = IF ws.facts = {} THEN Idle
            ELSE [run EXCEPT !.pc = "deliver", !.exhausted = SourceExhausted]
  /\ UNCHANGED <<ws, delivered, faults>>

(* The caller publishes or imports it; a snapshot it refuses stays behind. *)
Deliver ==
  /\ run.pc = "deliver"
  /\ delivered' = Append(delivered, ws.id)
  /\ run' = [run EXCEPT !.pc = "discard"]
  /\ UNCHANGED <<ws, faults>>

Refused ==
  /\ run.pc = "deliver" /\ Fault(1)
  /\ run' = Idle
  /\ UNCHANGED <<ws, delivered>>

DiscardWorkspace ==
  /\ run.pc = "discard"
  /\ \/ ws' = EmptyWorkspace(ws.id + 1) /\ UNCHANGED faults
     \/ Fault(1) /\ UNCHANGED ws
  /\ run' = Idle
  /\ UNCHANGED delivered

(* The process dies; a queue that was not flushed may be gone. *)
Crash ==
  /\ run.pc # "idle" /\ Fault(1)
  /\ run' = Idle
  /\ ws' \in {ws, [ws EXCEPT !.queue = NoQueue]}
  /\ UNCHANGED delivered

FortnightPasses ==
  /\ run.pc = "idle" /\ ~ws.old /\ Fault(1)
  /\ ws' = [ws EXCEPT !.old = TRUE]
  /\ UNCHANGED <<run, delivered>>

CollectorStep ==
  \/ SeedPlayers \/ SeedingFails \/ NoPlayerLeft \/ TimeIsUp \/ FetchBatch
  \/ RecordPlayer \/ SaveQueue \/ NextBatch \/ StartRound \/ EndRound
  \/ RetryTimeIsUp \/ RetryFails \/ RetryPlayer \/ BuildSnapshot
  \/ Deliver \/ Refused \/ DiscardWorkspace

Next == OpenWorkspace \/ CollectorStep \/ Crash \/ FortnightPasses

Spec == Init /\ [][Next]_vars

(* A collection that runs goes on: its waits are bounded by timeouts. *)
FairSpec == Spec /\ WF_vars(CollectorStep)

-----------------------------------------------------------------------------
Phases == {"idle", "seed", "batch", "record", "expand", "tail", "retry", "finish",
           "deliver", "discard"}

(* The tables of the workspace and the state of the run; the saved queue   *)
(* names nobody twice.                                                     *)
CollectionTypeOK ==
  /\ \/ ws.queue = NoQueue
     \/ ws.queue \in Queue /\ IsInjective([i \in DOMAIN ws.queue |-> ws.queue[i].tag])
  /\ ws.requests \in [Player -> {"none", "failed", "success"}]
  /\ ws.facts \subseteq Facts /\ ws.observed \subseteq Facts \X Player
  /\ ws.processed \in Nat
  /\ run.pc \in Phases /\ run.start \in Nat

Running(r) == r.pc \notin {"idle", "seed"}

(* However often a run was stopped and resumed and whoever reported it, a  *)
(* battle is counted once in the statistics, no more than the target are   *)
(* stored, each has an observer, and the run's count is the workspace's.   *)
CountedOnce(w, r) ==
  /\ w.counted = Cardinality(w.facts) /\ w.counted <= Target
  /\ {o[1] : o \in w.observed} = w.facts
  /\ Running(r) => r.usable = w.counted

EachBattleCountedOnce == CountedOnce(ws, run)

(* With the types, over every sequence of runs.                            *)
CollectionInv == CollectionTypeOK /\ EachBattleCountedOnce

(* While the target is not reached the checkpoint skips nobody: every      *)
(* player before it was asked; and when the source is reported exhausted   *)
(* every queued player was, whatever the ranks were and however often the  *)
(* run was stopped.  (Once the target is reached a retry may move the      *)
(* checkpoint, by its player's rank, past players nobody asked.)           *)
NobodySkipped ==
  /\ ws.queue # NoQueue /\ Cardinality(ws.facts) < Target =>
       \A i \in 1 .. AtMost(ws.processed, Len(ws.queue)) : ws.requests[ws.queue[i].tag] # "none"
  /\ run.pc \in {"deliver", "discard"} /\ run.exhausted =>
       \A i \in DOMAIN run.queue : ws.requests[run.queue[i].tag] # "none"

(* The inductive invariant behind the three.                               *)
Workspace ==
  [id : Nat, queue : Queue \cup {NoQueue}, requests : [Player -> {"none", "failed", "success"}],
   facts : SUBSET Facts, counted : Nat, observed : SUBSET (Facts \X Player),
   processed : Nat, limited : BOOLEAN, old : BOOLEAN]

Result == [index : 1 .. PlayerLimit, failed : BOOLEAN]

Run ==
  [pc : Phases, queue : Queue, start : Nat, next : 0 .. PlayerLimit,
   fetched : Seq(Result), usable : Nat, limited : BOOLEAN, spent : BOOLEAN,
   round : Nat, retry : SUBSET Range(Leaderboard), exhausted : BOOLEAN]

(* A queue names nobody twice, and its ranked players come in the order of *)
(* the ranking.                                                            *)
Sound(queue) ==
  /\ queue \in Queue
  /\ \A i, j \in DOMAIN queue : queue[i].tag = queue[j].tag => i = j
  /\ \A i \in DOMAIN queue :
       queue[i].ranked => i \in DOMAIN Leaderboard /\ queue[i].tag = Leaderboard[i]

(* Nobody behind the checkpoint was asked, and nobody before it was left   *)
(* out while the target is not reached.                                    *)
Asked(w, queue) ==
  /\ w.counted < Target =>
       \A i \in DOMAIN queue : i <= w.processed => w.requests[queue[i].tag] # "none"
  /\ \A p \in Player : w.requests[p] # "none" =>
       \E i \in DOMAIN queue : i <= w.processed /\ queue[i].tag = p

QueuesAgree(w, r) ==
  /\ w.queue # NoQueue => Sound(w.queue) /\ Asked(w, w.queue)
  /\ Running(r) => Sound(r.queue) /\ Asked(w, r.queue)
  /\ Running(r) /\ r.pc # "expand" => w.queue = r.queue
  /\ w.processed = 0 =>
       w.facts = {} /\ w.observed = {} /\ \A p \in Player : w.requests[p] = "none"
  /\ r.pc = "seed" => w.queue = NoQueue /\ w.processed = 0 /\ r.start = 0 /\ r.usable = 0

(* What was fetched follows the checkpoint, position by position; a player *)
(* is only asked again when the target is reached or the queue is empty.   *)
PositionsAgree(w, r) ==
  /\ Running(r) => r.start <= w.processed
  /\ r.pc = "batch" => r.start = w.processed
  /\ r.pc \in {"record", "expand"} =>
       /\ r.next <= Len(r.queue) /\ r.next = w.processed + Len(r.fetched)
       /\ \A i \in DOMAIN r.fetched : r.fetched[i].index = w.processed + i
  /\ r.pc = "retry" =>
       \A p \in r.retry : w.requests[p] # "none"
  /\ r.pc \in {"tail", "retry"} =>
       r.spent \/ r.limited \/ r.usable >= Target \/ r.start >= Len(r.queue)
  /\ r.pc = "retry" => ~r.spent /\ ~r.limited
  /\ r.pc \in {"deliver", "discard"} /\ r.exhausted =>
       r.start >= Len(r.queue) /\ r.usable < Target

Consistent(w, r) ==
  /\ w \in Workspace /\ r \in Run /\ IsFiniteSet(w.facts)
  /\ QueuesAgree(w, r) /\ PositionsAgree(w, r) /\ CountedOnce(w, r)

CheckpointInv == Consistent(ws, run)

(* A player whose log was recorded is never asked again by a later run     *)
(* over the same workspace.                                                *)
AnsweredStaysAnswered ==
  [][\A p \in Player :
       ws.requests[p] = "success" /\ ws'.id = ws.id =>
         /\ ws'.requests[p] = "success"
         /\ RecordPlayer => run.queue[Head(run.fetched).index].tag # p]_vars

(* Every collection comes to an end. *)
CollectionEnds == run.pc # "idle" ~> run.pc = "idle"

(* It ends by progress, not by asking again.                               *)
CollectionProgresses == AnsweredStaysAnswered /\ CollectionEnds

(* "A stopped run resumes from its per-player SQLite checkpoint": while    *)
(* there is room, the opponents of every recorded ranked player are queued *)
(* once the batch is over.                                                 *)
OpponentsQueued ==
  Expand /\ run.pc \in {"batch", "tail"} /\ Len(run.queue) < PlayerLimit =>
    \A i \in DOMAIN run.queue :
      run.queue[i].ranked /\ ws.requests[run.queue[i].tag] = "success" =>
        Met(run.queue[i].tag) \subseteq {run.queue[j].tag : j \in DOMAIN run.queue}

(* One workspace is handed on once. *)
HandedOnOnce == IsInjective(delivered)
=============================================================================
