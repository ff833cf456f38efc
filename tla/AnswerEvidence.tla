--------------------------- MODULE AnswerEvidence ---------------------------
(***************************************************************************)
(* Which evidence one answer of the API process is made of.  A request     *)
(* reads the active snapshot group anew for its data, for its label and    *)
(* twice for its retriever, and falls back to the official snapshot and    *)
(* its index while no group was ever published.                            *)
(*                                                                         *)
(* Requests are coroutines of one event loop: between two awaits only the  *)
(* publishing processes and the preheat thread act.  They are taken from   *)
(* their abstract specifications: SnapshotCatalog, which the rolling       *)
(* publication implements, and ServedSnapshot, which the official one does.*)
(***************************************************************************)
EXTENDS Integers

CONSTANTS
  Group,       \* snapshot groups: records with their timestamp "at" and the
               \* turn their publication had at the writer lock
  NoGroup,     \* no group was ever activated: its turn is 0
  Snapshot,    \* official snapshots
  NoSnapshot,
  Request

VARIABLES
  catalog,     \* complete groups on disk
  active,      \* group named by the pointer
  live,        \* official snapshot shown by the API process
  index,       \* its retrieval index
  repository,  \* app.state.structured_group_repositories: the one cached group
  rolling,     \* app.state.rolling_retriever: the group it was built from
  loop,        \* request that runs on the event loop
  requests

Groups == INSTANCE SnapshotCatalog
Served == INSTANCE ServedSnapshot

NoRequest == "none"
Nothing == [turn |-> -1]   \* not read, not given

(* A snapshot is told from a group and from its absence: a group has a     *)
(* directory name, an official snapshot a snapshot identifier.             *)
ASSUME EvidenceAssumption ==
  /\ \A g \in Group : g.at \in Nat /\ g.turn \in Nat \ {0}
  /\ NoGroup.turn = 0
  /\ NoGroup \notin Group /\ NoSnapshot \notin Group \cup Snapshot
  /\ Nothing \notin Group \cup Snapshot
  /\ Group \cap Snapshot = {}
  /\ NoRequest \notin Request

Sources == Group \cup Snapshot \cup {Nothing}

vars == <<catalog, active, live, index, repository, rolling, loop, requests>>
published == <<catalog, active, live, index>>
caches == <<repository, rolling>>

Idle == {"new", "done", "not_ready", "unavailable"}
OnLoop == {"pointer", "manifest", "select", "open", "label"}
NewRequest ==
  [pc |-> "new", read |-> 1, needs |-> {}, group |-> NoGroup, manifest |-> NoGroup,
   data |-> Nothing, label |-> Nothing, retriever |-> Nothing, moved |-> FALSE]

Init ==
  /\ Groups!Init /\ Served!Init
  /\ repository = NoGroup /\ rolling = NoGroup
  /\ loop = NoRequest
  /\ requests = [r \in Request |-> NewRequest]

-----------------------------------------------------------------------------
(* The publishers.  The writer lock lets one publication after another     *)
(* install a group and move the pointer to it, and no group is published   *)
(* twice.  The timestamp of a group was read before its lane waited for    *)
(* the lock: it says nothing about its turn, the pointer may move to an    *)
(* older timestamp, and cleaning up, which goes by timestamps, may take    *)
(* the group that the pointer names.                                       *)

Moved == requests' = [r \in Request |->
                        [requests[r] EXCEPT !.moved = @ \/ requests[r].pc \notin Idle]]
Unmoved == UNCHANGED requests

PublishGroup ==
  \E g \in Group :
    /\ \A h \in catalog \cup {active} : h.turn < g.turn
    /\ Groups!Install(g)
    /\ UNCHANGED <<live, index, caches, loop>> /\ Unmoved

ActivateGroup ==
  \E g \in catalog :
    /\ g.turn > active.turn
    /\ Groups!Activate(g)
    /\ UNCHANGED <<live, index, caches, loop>> /\ Moved

RetireGroups ==
  \E gone \in SUBSET catalog \ {{}} :
    /\ Groups!Retire(gone)
    /\ UNCHANGED <<live, index, caches, loop>> /\ Moved

ShowSnapshot ==
  \E s \in Snapshot :
    /\ s # live
    /\ Served!Show(s)
    /\ UNCHANGED <<catalog, active, caches, loop>> /\ Moved

UpdateIndex ==
  /\ Served!Install \/ Served!Label \/ Served!Invalidate
  /\ UNCHANGED <<catalog, active, caches, loop>> /\ Moved

-----------------------------------------------------------------------------
(* The event loop.                                                         *)

Becomes(r, q) == requests' = [requests EXCEPT ![r] = q]
Goto(r, pc) == Becomes(r, [requests[r] EXCEPT !.pc = pc])

(* The query is parsed; what it needs decides how the context is prepared. *)
BeginContext(r) ==
  /\ requests[r].pc = "new" /\ loop = NoRequest
  /\ \E needs \in SUBSET {"data", "rag"} :
       Becomes(r, [requests[r] EXCEPT !.pc = "pointer", !.needs = needs])
  /\ loop' = r
  /\ UNCHANGED <<published, caches>>

(* An answer, a refusal or an exception ends the request and what it held. *)
End(r, outcome) == Becomes(r, [NewRequest EXCEPT !.pc = outcome])

Refuse(r, outcome) == End(r, outcome) /\ loop' = NoRequest

(* load_active_snapshot_group_manifest: first the pointer ...              *)
ReadPointer(r) ==
  /\ requests[r].pc = "pointer"
  /\ Becomes(r, [requests[r] EXCEPT !.pc = "manifest", !.group = active])
  /\ UNCHANGED <<published, caches, loop>>

(* ... and then the manifest it names; without a pointer there is none.    *)
ReadManifest(r) ==
  /\ requests[r].pc = "manifest"
  /\ LET g == requests[r].group
     IN IF g # NoGroup /\ g \notin catalog THEN Refuse(r, "not_ready")
        ELSE /\ Becomes(r, [requests[r] EXCEPT
                  !.pc = IF requests[r].read = 1 THEN "select" ELSE "open",
                  !.manifest = IF requests[r].read = 1 THEN g ELSE @])
             /\ UNCHANGED loop
  /\ UNCHANGED <<published, caches>>

(* select_answer_data_context: rolling data, or the official snapshot      *)
(* after an event was sent, or no data at all.                             *)
SelectData(r) ==
  /\ requests[r].pc = "select"
  /\ IF "data" \in requests[r].needs
     THEN IF requests[r].manifest # NoGroup
          THEN /\ Becomes(r, [requests[r] EXCEPT !.pc = "pointer", !.read = 2])
               /\ UNCHANGED loop
          ELSE Goto(r, "shown") /\ loop' = NoRequest
     ELSE /\ Becomes(r, [requests[r] EXCEPT
               !.pc = IF "rag" \in requests[r].needs THEN "pointer" ELSE "label",
               !.read = 3])
          /\ UNCHANGED loop
  /\ UNCHANGED <<published, caches>>

ReadShown(r) ==
  /\ requests[r].pc = "shown" /\ loop = NoRequest
  /\ IF live = NoSnapshot THEN End(r, "unavailable")
     ELSE Becomes(r, [requests[r] EXCEPT !.pc = "sent", !.data = live])
  /\ UNCHANGED <<published, caches, loop>>

(* The event that the snapshot is usable was sent. *)
ResumeContext(r) ==
  /\ requests[r].pc = "sent" /\ loop = NoRequest
  /\ Becomes(r, [requests[r] EXCEPT
       !.pc = IF "rag" \in requests[r].needs THEN "pointer" ELSE "label", !.read = 3])
  /\ loop' = r
  /\ UNCHANGED <<published, caches>>

(* Seeded fault: a cached repository is used whatever group it is of. *)
OpenRepositoryStale(r) ==
  /\ requests[r].pc = "open" /\ requests[r].read = 2
  /\ LET g == requests[r].group
     IN IF repository = NoGroup /\ g \notin catalog
        THEN Refuse(r, "not_ready") /\ UNCHANGED caches
        ELSE /\ repository' = IF repository = NoGroup THEN g ELSE repository
             /\ Becomes(r, [requests[r] EXCEPT
                  !.pc = IF "rag" \in requests[r].needs THEN "pointer" ELSE "label",
                  !.data = repository', !.read = 3])
             /\ UNCHANGED <<rolling, loop>>
  /\ UNCHANGED published

(* resolve_structured_group_repository: one group is cached. *)
OpenRepository(r) ==
  /\ requests[r].pc = "open" /\ requests[r].read = 2
  /\ LET g == requests[r].group
     IN IF repository # g /\ g \notin catalog
        THEN Refuse(r, "not_ready") /\ UNCHANGED caches
        ELSE /\ repository' = g
             /\ Becomes(r, [requests[r] EXCEPT
                  !.pc = IF "rag" \in requests[r].needs THEN "pointer" ELSE "label",
                  !.data = repository', !.read = 3])
             /\ UNCHANGED <<rolling, loop>>
  /\ UNCHANGED published

(* ensure_dataset_retriever: the index of the active group, opened when    *)
(* another group's is installed, whose retriever is closed then; without a *)
(* group the official index, if it is that of the snapshot shown.          *)
Given(r, source) ==
  Becomes(r, [requests[r] EXCEPT
    !.pc = IF requests[r].read = 3 THEN "label" ELSE "answering",
    !.retriever = source])

(* Seeded fault: the installed retriever is used whatever group it is of. *)
OpenRetrieverStale(r) ==
  /\ requests[r].pc = "open" /\ requests[r].read \in {3, 4}
  /\ LET g == requests[r].group
     IN IF g = NoGroup
        THEN /\ Given(r, IF Served!Active = NoSnapshot THEN Nothing ELSE Served!Active)
             /\ UNCHANGED caches
        ELSE /\ rolling' = IF rolling = NoGroup THEN g ELSE rolling
             /\ Given(r, rolling')
             /\ UNCHANGED repository
  /\ loop' = IF requests[r].read = 4 THEN NoRequest ELSE loop
  /\ UNCHANGED published

OpenRetriever(r) ==
  /\ requests[r].pc = "open" /\ requests[r].read \in {3, 4}
  /\ LET g == requests[r].group
     IN IF g = NoGroup
        THEN /\ Given(r, IF Served!Active = NoSnapshot THEN Nothing ELSE Served!Active)
             /\ loop' = IF requests[r].read = 4 THEN NoRequest ELSE loop
             /\ UNCHANGED caches
        ELSE IF rolling # g /\ g \notin catalog
        THEN Refuse(r, "not_ready") /\ UNCHANGED caches
        ELSE /\ rolling' = g
             /\ Given(r, rolling')
             /\ loop' = IF requests[r].read = 4 THEN NoRequest ELSE loop
             /\ UNCHANGED repository
  /\ UNCHANGED published

(* The answer is labelled with the manifest read first, or with the label  *)
(* of the official index at this moment.                                   *)
LabelAnswer(r) ==
  /\ requests[r].pc = "label"
  /\ LET rag == "rag" \in requests[r].needs
     IN /\ Becomes(r, [requests[r] EXCEPT
             !.label = IF requests[r].manifest # NoGroup THEN requests[r].manifest
                       ELSE IF index.label = NoSnapshot THEN Nothing ELSE index.label,
             !.pc = IF rag THEN "pointer" ELSE "answering",
             !.read = 4])
        /\ loop' = IF rag THEN loop ELSE NoRequest
  /\ UNCHANGED <<published, caches>>

(* Retrieval, model calls and streaming; then the answer is complete. *)
Complete(r) ==
  /\ requests[r].pc = "answering" /\ loop = NoRequest
  /\ End(r, "done")
  /\ UNCHANGED <<published, caches, loop>>

RequestNext(r) ==
  \/ BeginContext(r) \/ ReadPointer(r) \/ ReadManifest(r) \/ SelectData(r)
  \/ ReadShown(r) \/ ResumeContext(r) \/ OpenRepository(r) \/ OpenRetriever(r)
  \/ LabelAnswer(r) \/ Complete(r)

Next ==
  \/ PublishGroup \/ ActivateGroup \/ RetireGroups \/ ShowSnapshot \/ UpdateIndex
  \/ \E r \in Request : RequestNext(r)

Spec == Init /\ [][Next]_vars

-----------------------------------------------------------------------------
(* State of the published data, the caches and the requests; the loop is   *)
(* held by a request that is preparing its context.                        *)
EvidenceTypeOK ==
  /\ catalog \subseteq Group /\ active \in Group \cup {NoGroup}
  /\ live \in Snapshot \cup {NoSnapshot}
  /\ index \in [docs : Served!Known, label : Served!Known, usable : BOOLEAN]
  /\ {repository, rolling} \subseteq Group \cup {NoGroup}
  /\ loop \in Request \cup {NoRequest}
  /\ \A r \in Request :
       /\ requests[r].pc \in {"shown", "sent", "answering"} \cup Idle \cup OnLoop
       /\ requests[r].pc \in OnLoop <=> loop = r
       /\ {requests[r].group, requests[r].manifest} \subseteq Group \cup {NoGroup}
       /\ {requests[r].data, requests[r].label, requests[r].retriever} \subseteq Sources

Answering(r) == requests[r].pc = "answering"

Agree(r) ==
  LET q == requests[r]
  IN /\ q.retriever # Nothing => q.label = q.retriever /\ q.data \in {Nothing, q.retriever}
     /\ q.data \in Group => q.label = q.data

(* When nothing is published while a request runs, its data, its retriever *)
(* and its label are of one snapshot and the retriever it searches is      *)
(* still open, although each is read for itself and both are cached for    *)
(* all requests.                                                           *)
EvidenceAgrees ==
  \A r \in Request :
    Answering(r) /\ ~requests[r].moved
      => Agree(r) /\ (requests[r].retriever \in Group => rolling = requests[r].retriever)

(* With the types, for every interleaving of requests and publications.    *)
EvidenceInv == EvidenceTypeOK /\ EvidenceAgrees

(* When something is published while a request runs, the answer's evidence *)
(* is of publications after the one its label names and never of earlier   *)
(* ones: first the label, then the data, then the retriever is read, and   *)
(* no cache gives back a group that a publication has replaced.  (After    *)
(* the label in the order of publication: by the groups' own timestamps    *)
(* the evidence can be the older.)                                         *)
EvidenceOnlyNewer ==
  \A r \in Request :
    LET q == requests[r]
    IN Answering(r) =>
         /\ {q.data, q.label} \subseteq Group => q.label.turn <= q.data.turn
         /\ {q.data, q.retriever} \subseteq Group => q.data.turn <= q.retriever.turn
         /\ {q.label, q.retriever} \subseteq Group => q.label.turn <= q.retriever.turn

(* What makes both inductive.  The reads of a request and what it has      *)
(* gathered when it is at each of them:                                    *)
RequestState ==
  [pc : {"shown", "sent", "answering"} \cup Idle \cup OnLoop, read : 1 .. 4,
   needs : SUBSET {"data", "rag"},
   group : Group \cup {NoGroup}, manifest : Group \cup {NoGroup},
   data : Sources, label : Sources, retriever : Sources, moved : BOOLEAN]

Reading(q) == q.pc \in {"manifest", "open"}
PastManifest(q) == q.read > 1 \/ q.pc \in {"select", "shown", "sent"}

ReadsInOrder(q) ==
  /\ q.pc \in Idle =>
       /\ q.read = 1 /\ q.group = NoGroup /\ q.manifest = NoGroup /\ q.data = Nothing
       /\ q.label = Nothing /\ q.retriever = Nothing /\ q.moved = FALSE
  /\ q.pc \in {"select", "shown", "sent"} => q.read = 1
  /\ q.pc \in {"shown", "sent"} => q.manifest = NoGroup
  /\ q.pc = "open" => q.read > 1
  /\ q.pc = "label" => q.read = 3
  /\ q.pc = "answering" => q.read = 4
  /\ q.read = 2 => q.manifest # NoGroup
  /\ q.read < 3 => q.retriever = Nothing /\ q.label = Nothing
  /\ q.read < 3 /\ q.pc # "sent" => q.data = Nothing

(* the pointer only moves to later publications, so what is read later is  *)
(* of a later one;                                                         *)
NoLater(x, y) == x \in Group => y \in Group /\ x.turn <= y.turn

ReadLaterNewer(q, pointer) ==
  /\ NoLater(q.group, pointer) /\ NoLater(q.manifest, pointer)
  /\ NoLater(q.data, pointer) /\ NoLater(q.retriever, pointer)
  /\ Reading(q) => NoLater(q.manifest, q.group) /\ NoLater(q.data, q.group)
  /\ q.label \in Group => q.label = q.manifest
  /\ {q.data, q.manifest} \subseteq Group => q.manifest.turn <= q.data.turn
  /\ {q.data, q.retriever} \subseteq Group => q.data.turn <= q.retriever.turn
  /\ {q.manifest, q.retriever} \subseteq Group => q.manifest.turn <= q.retriever.turn

(* and while nothing is published, everything read is what is current.     *)
Now == [active |-> active, live |-> live, label |-> index.label, rolling |-> rolling]

Current(q, now) ==
  (q.pc \notin Idle /\ ~q.moved) =>
    /\ Reading(q) => q.group = now.active
    /\ PastManifest(q) => q.manifest = now.active
    /\ q.data # Nothing =>
         q.data = IF now.active # NoGroup THEN now.active ELSE now.live
    /\ q.retriever # Nothing =>
         IF now.active # NoGroup
         THEN q.retriever = now.active /\ now.rolling = now.active
         ELSE q.retriever = now.live /\ now.label = now.live /\ now.live # NoSnapshot
    /\ q.read = 4 =>
         q.label = IF now.active # NoGroup THEN now.active
                   ELSE IF now.label = NoSnapshot THEN Nothing ELSE now.label

(* A request about to install the retriever of a group that is no longer   *)
(* active was overtaken by a publication, which every request noticed that *)
(* was under way: no other request began since, for the loop is taken.     *)
OvertakenTogether ==
  \A r, s \in Request :
    Reading(requests[s]) /\ requests[s].group # active /\ requests[r].pc \notin Idle
      => requests[r].moved

LoopHeld == \A r \in Request : requests[r].pc \in OnLoop <=> loop = r

SharedTypes ==
  /\ catalog \subseteq Group /\ active \in Group \cup {NoGroup}
  /\ live \in Snapshot \cup {NoSnapshot}
  /\ index \in [docs : Served!Known, label : Served!Known, usable : BOOLEAN]
  /\ repository \in Group \cup {NoGroup} /\ rolling \in Group \cup {NoGroup}
  /\ loop \in Request \cup {NoRequest}

GatheringInv ==
  /\ SharedTypes
  /\ requests \in [Request -> RequestState]
  /\ LoopHeld
  /\ \A r \in Request :
       /\ ReadsInOrder(requests[r])
       /\ ReadLaterNewer(requests[r], active)
       /\ Current(requests[r], Now)
  /\ OvertakenTogether

(* "Requests only use an activated retriever that matches the active       *)
(* snapshot": the retriever of an answer is that of its data and label.    *)
EvidenceOfOneSnapshot == \A r \in Request : Answering(r) => Agree(r)
=============================================================================
