------------------------ MODULE AnswerEvidence_proofs ------------------------
(***************************************************************************)
(* Proofs about AnswerEvidence, for any groups, official snapshots and     *)
(* number of requests.                                                     *)
(***************************************************************************)
EXTENDS AnswerEvidence, TLAPS

Types == SharedTypes /\ requests \in [Request -> RequestState]

(* A new request has gathered nothing. *)
LEMMA NewRequestType == NewRequest \in RequestState
<1> DEFINE N == Nothing
<1>1. N \in Sources
  BY DEF Sources
<1>2. NewRequest = [pc |-> "new", read |-> 1, needs |-> {}, group |-> NoGroup,
                    manifest |-> NoGroup, data |-> N, label |-> N, retriever |-> N,
                    moved |-> FALSE]
  BY DEF NewRequest
<1> HIDE DEF N
<1> QED
  BY <1>1, <1>2 DEF RequestState, Idle

(* A request that ended holds nothing. *)
Ended(p, outcome) ==
  /\ p.pc = outcome /\ p.read = 1 /\ p.group = NoGroup /\ p.manifest = NoGroup
  /\ p.data = Nothing /\ p.label = Nothing /\ p.retriever = Nothing /\ p.moved = FALSE

LEMMA Ending ==
  ASSUME Types, NEW r \in Request, NEW outcome \in Idle, End(r, outcome)
  PROVE  /\ requests' \in [Request -> RequestState]
         /\ \A s \in Request \ {r} : requests'[s] = requests[s]
         /\ Ended(requests'[r], outcome)
<1> DEFINE n == [NewRequest EXCEPT !.pc = outcome]
<1>1. n \in RequestState /\ Ended(n, outcome)
  <2>1. /\ NewRequest.read = 1 /\ NewRequest.group = NoGroup /\ NewRequest.manifest = NoGroup
        /\ NewRequest.data = Nothing /\ NewRequest.label = Nothing
        /\ NewRequest.retriever = Nothing /\ NewRequest.moved = FALSE
    BY DEF NewRequest
  <2> QED
    BY <2>1, NewRequestType DEF RequestState, Ended
<1>2. requests' = [requests EXCEPT ![r] = n] /\ requests'[r] = n
  BY DEF End, Becomes, Types
<1> HIDE DEF n
<1> QED
  BY <1>1, <1>2 DEF Types

(* A context is begun with a blank request and takes the loop. *)
BeginContextPost(q, p) ==
  /\ p.pc = "pointer" /\ p.read = q.read /\ p.group = q.group
  /\ p.manifest = q.manifest /\ p.data = q.data /\ p.label = q.label
  /\ p.retriever = q.retriever /\ p.moved = q.moved
  /\ loop = NoRequest /\ q.pc = "new"

LEMMA BeginContextEffect ==
  ASSUME Types, NEW r \in Request, BeginContext(r)
  PROVE  /\ requests' \in [Request -> RequestState]
         /\ \A s \in Request \ {r} : requests'[s] = requests[s]
         /\ BeginContextPost(requests[r], requests'[r])
         /\ loop' = r
<1> DEFINE q == requests[r]
            p == requests'[r]
<1>0. q \in RequestState /\ requests \in [Request -> RequestState]
  BY DEF Types
<1>1. /\ requests' \in [Request -> RequestState]
      /\ \A s \in Request \ {r} : requests'[s] = requests[s]
      /\ p.pc = "pointer" /\ p.read = q.read /\ p.group = q.group
      /\ p.manifest = q.manifest /\ p.data = q.data /\ p.label = q.label
      /\ p.retriever = q.retriever /\ p.moved = q.moved
      /\ loop = NoRequest /\ q.pc = "new" /\ loop' = r
  <2>0. PICK needs \in SUBSET {"data", "rag"} :
          Becomes(r, [q EXCEPT !.pc = "pointer", !.needs = needs])
    BY DEF BeginContext
  <2> DEFINE n == [q EXCEPT !.pc = "pointer", !.needs = needs]
  <2>2. requests' = [requests EXCEPT ![r] = n] /\ p = n /\ loop = NoRequest /\ q.pc = "new" /\ loop' = r
    BY <1>0, <2>0 DEF BeginContext, Goto, Becomes, caches
  <2>3. n \in RequestState
    BY <1>0 DEF RequestState, OnLoop, Types, SharedTypes
  <2>4. /\ n.pc = "pointer" /\ n.read = q.read /\ n.group = q.group
        /\ n.manifest = q.manifest /\ n.data = q.data /\ n.label = q.label
        /\ n.retriever = q.retriever /\ n.moved = q.moved
    BY <1>0 DEF RequestState
  <2> HIDE DEF n
  <2> QED
    BY <1>0, <2>2, <2>3, <2>4
<1> HIDE DEF p
<1> QED
  BY <1>0, <1>1 DEF p, BeginContextPost

(* The pointer is read. *)
ReadPointerPost(q, p) ==
  /\ p.pc = "manifest" /\ p.read = q.read /\ p.needs = q.needs
  /\ p.group = active /\ p.manifest = q.manifest /\ p.data = q.data
  /\ p.label = q.label /\ p.retriever = q.retriever /\ p.moved = q.moved
  /\ q.pc = "pointer" /\ loop' = loop

LEMMA ReadPointerEffect ==
  ASSUME Types, NEW r \in Request, ReadPointer(r)
  PROVE  /\ requests' \in [Request -> RequestState]
         /\ \A s \in Request \ {r} : requests'[s] = requests[s]
         /\ ReadPointerPost(requests[r], requests'[r])
<1> DEFINE q == requests[r]
            p == requests'[r]
<1>0. q \in RequestState /\ requests \in [Request -> RequestState]
  BY DEF Types
<1>1. /\ requests' \in [Request -> RequestState]
      /\ \A s \in Request \ {r} : requests'[s] = requests[s]
      /\ p.pc = "manifest" /\ p.read = q.read /\ p.needs = q.needs
      /\ p.group = active /\ p.manifest = q.manifest /\ p.data = q.data
      /\ p.label = q.label /\ p.retriever = q.retriever /\ p.moved = q.moved
      /\ q.pc = "pointer" /\ loop' = loop
  <2> DEFINE n == [q EXCEPT !.pc = "manifest", !.group = active]
  <2>2. requests' = [requests EXCEPT ![r] = n] /\ p = n /\ q.pc = "pointer" /\ loop' = loop
    BY <1>0 DEF ReadPointer, Goto, Becomes, caches
  <2>3. n \in RequestState
    BY <1>0 DEF RequestState, OnLoop, Types, SharedTypes
  <2>4. /\ n.pc = "manifest" /\ n.read = q.read /\ n.needs = q.needs
        /\ n.group = active /\ n.manifest = q.manifest /\ n.data = q.data
        /\ n.label = q.label /\ n.retriever = q.retriever /\ n.moved = q.moved
    BY <1>0 DEF RequestState
  <2> HIDE DEF n
  <2> QED
    BY <1>0, <2>2, <2>3, <2>4
<1> HIDE DEF p
<1> QED
  BY <1>0, <1>1 DEF p, ReadPointerPost

(* A group that is gone ends the request. *)
ReadManifestPost(q, p) ==
  /\ q.pc = "manifest"
  /\ ~(q.group # NoGroup /\ q.group \notin catalog) =>
       /\ p.pc = (IF q.read = 1 THEN "select" ELSE "open") /\ p.read = q.read
       /\ p.needs = q.needs /\ p.group = q.group
       /\ p.manifest = (IF q.read = 1 THEN q.group ELSE q.manifest)
       /\ p.data = q.data /\ p.label = q.label /\ p.retriever = q.retriever
       /\ p.moved = q.moved
       /\ loop' = loop
  /\ q.group # NoGroup /\ q.group \notin catalog =>
       /\ Ended(p, "not_ready")
       /\ loop' = NoRequest

LEMMA ReadManifestEffect ==
  ASSUME Types, NEW r \in Request, ReadManifest(r)
  PROVE  /\ requests' \in [Request -> RequestState]
         /\ \A s \in Request \ {r} : requests'[s] = requests[s]
         /\ ReadManifestPost(requests[r], requests'[r])
<1> DEFINE q == requests[r]
            p == requests'[r]
<1>0. q \in RequestState /\ requests \in [Request -> RequestState]
  BY DEF Types
<1>1. ASSUME ~(q.group # NoGroup /\ q.group \notin catalog)
     PROVE  /\ requests' \in [Request -> RequestState]
            /\ \A s \in Request \ {r} : requests'[s] = requests[s]
            /\ p.pc = (IF q.read = 1 THEN "select" ELSE "open") /\ p.read = q.read
            /\ p.needs = q.needs /\ p.group = q.group
            /\ p.manifest = (IF q.read = 1 THEN q.group ELSE q.manifest)
            /\ p.data = q.data /\ p.label = q.label /\ p.retriever = q.retriever
            /\ p.moved = q.moved
            /\ loop' = loop
  <2> DEFINE c == IF q.read = 1 THEN "select" ELSE "open"
            m == IF q.read = 1 THEN q.group ELSE q.manifest
  <2> DEFINE n == [q EXCEPT !.pc = c, !.manifest = m]
  <2>1. c \in {"pointer", "label", "answering", "select", "open"} /\ m \in Group \cup {NoGroup}
    BY <1>0, <1>1 DEF ReadManifest, Types, SharedTypes, RequestState
  <2>2. requests' = [requests EXCEPT ![r] = n] /\ p = n /\ loop' = loop
    BY <1>0, <1>1 DEF ReadManifest, Goto, Becomes, caches
  <2> HIDE DEF c, m
  <2>3. n \in RequestState
    BY <1>0, <2>1 DEF RequestState, OnLoop, Types, SharedTypes
  <2>4. /\ n.pc = c /\ n.read = q.read /\ n.needs = q.needs /\ n.group = q.group
        /\ n.manifest = m /\ n.data = q.data /\ n.label = q.label
        /\ n.retriever = q.retriever /\ n.moved = q.moved
    BY <1>0 DEF RequestState
  <2> HIDE DEF n
  <2> QED
    BY <1>0, <2>2, <2>3, <2>4 DEF c, m
<1>2. ASSUME q.group # NoGroup /\ q.group \notin catalog
     PROVE  /\ requests' \in [Request -> RequestState]
            /\ \A s \in Request \ {r} : requests'[s] = requests[s]
            /\ Ended(p, "not_ready")
            /\ loop' = NoRequest
  <2>1. End(r, "not_ready") /\ loop' = NoRequest
    BY <1>0, <1>2 DEF ReadManifest, Refuse, caches
  <2> QED
    BY <2>1, Ending DEF Idle
<1> HIDE DEF p
<1> QED
  BY <1>0, <1>1, <1>2 DEF p, ReadManifestPost, ReadManifest

(* The data is chosen by the manifest. *)
SelectDataPost(q, p) ==
  /\ q.pc = "select"
  /\ "data" \in q.needs /\ q.manifest # NoGroup =>
       /\ p.pc = "pointer" /\ p.read = 2 /\ p.needs = q.needs
       /\ p.group = q.group /\ p.manifest = q.manifest /\ p.data = q.data
       /\ p.label = q.label /\ p.retriever = q.retriever /\ p.moved = q.moved
       /\ loop' = loop
  /\ "data" \in q.needs /\ q.manifest = NoGroup =>
       /\ p.pc = "shown" /\ p.read = q.read /\ p.needs = q.needs
       /\ p.group = q.group /\ p.manifest = q.manifest /\ p.data = q.data
       /\ p.label = q.label /\ p.retriever = q.retriever /\ p.moved = q.moved
       /\ loop' = NoRequest
  /\ "data" \notin q.needs =>
       /\ p.pc = (IF "rag" \in q.needs THEN "pointer" ELSE "label")
       /\ p.read = 3 /\ p.needs = q.needs /\ p.group = q.group
       /\ p.manifest = q.manifest /\ p.data = q.data /\ p.label = q.label
       /\ p.retriever = q.retriever /\ p.moved = q.moved
       /\ loop' = loop

LEMMA SelectDataEffect ==
  ASSUME Types, NEW r \in Request, SelectData(r)
  PROVE  /\ requests' \in [Request -> RequestState]
         /\ \A s \in Request \ {r} : requests'[s] = requests[s]
         /\ SelectDataPost(requests[r], requests'[r])
<1> DEFINE q == requests[r]
            p == requests'[r]
<1>0. q \in RequestState /\ requests \in [Request -> RequestState]
  BY DEF Types
<1>1. ASSUME "data" \in q.needs /\ q.manifest # NoGroup
     PROVE  /\ requests' \in [Request -> RequestState]
            /\ \A s \in Request \ {r} : requests'[s] = requests[s]
            /\ p.pc = "pointer" /\ p.read = 2 /\ p.needs = q.needs
            /\ p.group = q.group /\ p.manifest = q.manifest /\ p.data = q.data
            /\ p.label = q.label /\ p.retriever = q.retriever /\ p.moved = q.moved
            /\ loop' = loop
  <2> DEFINE k == 2
  <2> DEFINE n == [q EXCEPT !.pc = "pointer", !.read = k]
  <2>1. k \in 1 .. 4
    BY <1>0, <1>1 DEF SelectData, Types, SharedTypes, RequestState
  <2>2. requests' = [requests EXCEPT ![r] = n] /\ p = n /\ loop' = loop
    BY <1>0, <1>1 DEF SelectData, Goto, Becomes, caches
  <2> HIDE DEF k
  <2>3. n \in RequestState
    BY <1>0, <2>1 DEF RequestState, OnLoop, Types, SharedTypes
  <2>4. /\ n.pc = "pointer" /\ n.read = k /\ n.needs = q.needs
        /\ n.group = q.group /\ n.manifest = q.manifest /\ n.data = q.data
        /\ n.label = q.label /\ n.retriever = q.retriever /\ n.moved = q.moved
    BY <1>0 DEF RequestState
  <2> HIDE DEF n
  <2> QED
    BY <1>0, <2>2, <2>3, <2>4 DEF k
<1>2. ASSUME "data" \in q.needs /\ q.manifest = NoGroup
     PROVE  /\ requests' \in [Request -> RequestState]
            /\ \A s \in Request \ {r} : requests'[s] = requests[s]
            /\ p.pc = "shown" /\ p.read = q.read /\ p.needs = q.needs
            /\ p.group = q.group /\ p.manifest = q.manifest /\ p.data = q.data
            /\ p.label = q.label /\ p.retriever = q.retriever /\ p.moved = q.moved
            /\ loop' = NoRequest
  <2> DEFINE n == [q EXCEPT !.pc = "shown"]
  <2>2. requests' = [requests EXCEPT ![r] = n] /\ p = n /\ loop' = NoRequest
    BY <1>0, <1>2 DEF SelectData, Goto, Becomes, caches
  <2>3. n \in RequestState
    BY <1>0 DEF RequestState, OnLoop, Types, SharedTypes
  <2>4. /\ n.pc = "shown" /\ n.read = q.read /\ n.needs = q.needs
        /\ n.group = q.group /\ n.manifest = q.manifest /\ n.data = q.data
        /\ n.label = q.label /\ n.retriever = q.retriever /\ n.moved = q.moved
    BY <1>0 DEF RequestState
  <2> HIDE DEF n
  <2> QED
    BY <1>0, <2>2, <2>3, <2>4
<1>3. ASSUME "data" \notin q.needs
     PROVE  /\ requests' \in [Request -> RequestState]
            /\ \A s \in Request \ {r} : requests'[s] = requests[s]
            /\ p.pc = (IF "rag" \in q.needs THEN "pointer" ELSE "label")
            /\ p.read = 3 /\ p.needs = q.needs /\ p.group = q.group
            /\ p.manifest = q.manifest /\ p.data = q.data /\ p.label = q.label
            /\ p.retriever = q.retriever /\ p.moved = q.moved
            /\ loop' = loop
  <2> DEFINE c == IF "rag" \in q.needs THEN "pointer" ELSE "label"
            k == 3
  <2> DEFINE n == [q EXCEPT !.pc = c, !.read = k]
  <2>1. c \in {"pointer", "label", "answering", "select", "open"} /\ k \in 1 .. 4
    BY <1>0, <1>3 DEF SelectData, Types, SharedTypes, RequestState
  <2>2. requests' = [requests EXCEPT ![r] = n] /\ p = n /\ loop' = loop
    BY <1>0, <1>3 DEF SelectData, Goto, Becomes, caches
  <2> HIDE DEF c, k
  <2>3. n \in RequestState
    BY <1>0, <2>1 DEF RequestState, OnLoop, Types, SharedTypes
  <2>4. /\ n.pc = c /\ n.read = k /\ n.needs = q.needs /\ n.group = q.group
        /\ n.manifest = q.manifest /\ n.data = q.data /\ n.label = q.label
        /\ n.retriever = q.retriever /\ n.moved = q.moved
    BY <1>0 DEF RequestState
  <2> HIDE DEF n
  <2> QED
    BY <1>0, <2>2, <2>3, <2>4 DEF c, k
<1> HIDE DEF p
<1> QED
  BY <1>0, <1>1, <1>2, <1>3 DEF p, SelectDataPost, SelectData

(* The snapshot shown is taken, if there is one. *)
ReadShownPost(q, p) ==
  /\ q.pc = "shown"
  /\ live # NoSnapshot =>
       /\ p.pc = "sent" /\ p.read = q.read /\ p.needs = q.needs
       /\ p.group = q.group /\ p.manifest = q.manifest /\ p.data = live
       /\ p.label = q.label /\ p.retriever = q.retriever /\ p.moved = q.moved
       /\ loop' = loop
  /\ live = NoSnapshot =>
       /\ Ended(p, "unavailable")
       /\ loop' = loop

LEMMA ReadShownEffect ==
  ASSUME Types, NEW r \in Request, ReadShown(r)
  PROVE  /\ requests' \in [Request -> RequestState]
         /\ \A s \in Request \ {r} : requests'[s] = requests[s]
         /\ ReadShownPost(requests[r], requests'[r])
<1> DEFINE q == requests[r]
            p == requests'[r]
<1>0. q \in RequestState /\ requests \in [Request -> RequestState]
  BY DEF Types
<1>1. ASSUME live # NoSnapshot
     PROVE  /\ requests' \in [Request -> RequestState]
            /\ \A s \in Request \ {r} : requests'[s] = requests[s]
            /\ p.pc = "sent" /\ p.read = q.read /\ p.needs = q.needs
            /\ p.group = q.group /\ p.manifest = q.manifest /\ p.data = live
            /\ p.label = q.label /\ p.retriever = q.retriever /\ p.moved = q.moved
            /\ loop' = loop
  <2> DEFINE d == live
  <2> DEFINE n == [q EXCEPT !.pc = "sent", !.data = d]
  <2>1. d \in Sources
    BY <1>0, <1>1 DEF ReadShown, Types, SharedTypes, RequestState, Sources
  <2>2. requests' = [requests EXCEPT ![r] = n] /\ p = n /\ loop' = loop
    BY <1>0, <1>1 DEF ReadShown, Goto, Becomes, caches
  <2> HIDE DEF d
  <2>3. n \in RequestState
    BY <1>0, <2>1 DEF RequestState, OnLoop, Types, SharedTypes
  <2>4. /\ n.pc = "sent" /\ n.read = q.read /\ n.needs = q.needs
        /\ n.group = q.group /\ n.manifest = q.manifest /\ n.data = d
        /\ n.label = q.label /\ n.retriever = q.retriever /\ n.moved = q.moved
    BY <1>0 DEF RequestState
  <2> HIDE DEF n
  <2> QED
    BY <1>0, <2>2, <2>3, <2>4 DEF d
<1>2. ASSUME live = NoSnapshot
     PROVE  /\ requests' \in [Request -> RequestState]
            /\ \A s \in Request \ {r} : requests'[s] = requests[s]
            /\ Ended(p, "unavailable")
            /\ loop' = loop
  <2>1. End(r, "unavailable") /\ loop' = loop
    BY <1>0, <1>2 DEF ReadShown, Refuse, caches
  <2> QED
    BY <2>1, Ending DEF Idle
<1> HIDE DEF p
<1> QED
  BY <1>0, <1>1, <1>2 DEF p, ReadShownPost, ReadShown

(* The context is resumed on a free loop. *)
ResumeContextPost(q, p) ==
  /\ p.pc = (IF "rag" \in q.needs THEN "pointer" ELSE "label")
  /\ p.read = 3 /\ p.needs = q.needs /\ p.group = q.group
  /\ p.manifest = q.manifest /\ p.data = q.data /\ p.label = q.label
  /\ p.retriever = q.retriever /\ p.moved = q.moved
  /\ q.pc = "sent" /\ loop = NoRequest

LEMMA ResumeContextEffect ==
  ASSUME Types, NEW r \in Request, ResumeContext(r)
  PROVE  /\ requests' \in [Request -> RequestState]
         /\ \A s \in Request \ {r} : requests'[s] = requests[s]
         /\ ResumeContextPost(requests[r], requests'[r])
         /\ loop' = r
<1> DEFINE q == requests[r]
            p == requests'[r]
<1>0. q \in RequestState /\ requests \in [Request -> RequestState]
  BY DEF Types
<1>1. /\ requests' \in [Request -> RequestState]
      /\ \A s \in Request \ {r} : requests'[s] = requests[s]
      /\ p.pc = (IF "rag" \in q.needs THEN "pointer" ELSE "label")
      /\ p.read = 3 /\ p.needs = q.needs /\ p.group = q.group
      /\ p.manifest = q.manifest /\ p.data = q.data /\ p.label = q.label
      /\ p.retriever = q.retriever /\ p.moved = q.moved
      /\ q.pc = "sent" /\ loop = NoRequest /\ loop' = r
  <2> DEFINE c == IF "rag" \in q.needs THEN "pointer" ELSE "label"
            k == 3
  <2> DEFINE n == [q EXCEPT !.pc = c, !.read = k]
  <2>1. c \in {"pointer", "label", "answering", "select", "open"} /\ k \in 1 .. 4
    BY <1>0 DEF ResumeContext, Types, SharedTypes, RequestState
  <2>2. requests' = [requests EXCEPT ![r] = n] /\ p = n /\ q.pc = "sent" /\ loop = NoRequest /\ loop' = r
    BY <1>0 DEF ResumeContext, Goto, Becomes, caches
  <2> HIDE DEF c, k
  <2>3. n \in RequestState
    BY <1>0, <2>1 DEF RequestState, OnLoop, Types, SharedTypes
  <2>4. /\ n.pc = c /\ n.read = k /\ n.needs = q.needs /\ n.group = q.group
        /\ n.manifest = q.manifest /\ n.data = q.data /\ n.label = q.label
        /\ n.retriever = q.retriever /\ n.moved = q.moved
    BY <1>0 DEF RequestState
  <2> HIDE DEF n
  <2> QED
    BY <1>0, <2>2, <2>3, <2>4 DEF c, k
<1> HIDE DEF p
<1> QED
  BY <1>0, <1>1 DEF p, ResumeContextPost

(* The repository of the group read is opened or found in the cache. *)
OpenRepositoryPost(q, p) ==
  /\ q.pc = "open" /\ q.read = 2
  /\ ~(repository # q.group /\ q.group \notin catalog) =>
       /\ p.pc = (IF "rag" \in q.needs THEN "pointer" ELSE "label")
       /\ p.read = 3 /\ p.needs = q.needs /\ p.group = q.group
       /\ p.manifest = q.manifest /\ p.data = q.group /\ p.label = q.label
       /\ p.retriever = q.retriever /\ p.moved = q.moved
       /\ loop' = loop
  /\ repository # q.group /\ q.group \notin catalog =>
       /\ Ended(p, "not_ready")
       /\ loop' = NoRequest

LEMMA OpenRepositoryEffect ==
  ASSUME Types, NEW r \in Request, OpenRepository(r),
         ReadsInOrder(requests[r]), ReadLaterNewer(requests[r], active)
  PROVE  /\ requests' \in [Request -> RequestState]
         /\ \A s \in Request \ {r} : requests'[s] = requests[s]
         /\ OpenRepositoryPost(requests[r], requests'[r])
<1> DEFINE q == requests[r]
            p == requests'[r]
<1>0. q \in RequestState /\ requests \in [Request -> RequestState]
  BY DEF Types
<1>1. ASSUME ~(repository # q.group /\ q.group \notin catalog)
     PROVE  /\ requests' \in [Request -> RequestState]
            /\ \A s \in Request \ {r} : requests'[s] = requests[s]
            /\ p.pc = (IF "rag" \in q.needs THEN "pointer" ELSE "label")
            /\ p.read = 3 /\ p.needs = q.needs /\ p.group = q.group
            /\ p.manifest = q.manifest /\ p.data = q.group /\ p.label = q.label
            /\ p.retriever = q.retriever /\ p.moved = q.moved
            /\ loop' = loop
  <2> DEFINE c == IF "rag" \in q.needs THEN "pointer" ELSE "label"
            d == q.group
            k == 3
  <2> DEFINE n == [q EXCEPT !.pc = c, !.data = d, !.read = k]
  <2>1. c \in {"pointer", "label", "answering", "select", "open"} /\ d \in Sources /\ k \in 1 .. 4
    BY <1>0, <1>1, EvidenceAssumption
    DEF OpenRepository, Types, SharedTypes, RequestState, Sources, ReadsInOrder,
        ReadLaterNewer, NoLater, Reading
  <2>2. requests' = [requests EXCEPT ![r] = n] /\ p = n /\ loop' = loop
    BY <1>0, <1>1 DEF OpenRepository, Goto, Becomes, caches
  <2> HIDE DEF c, d, k
  <2>3. n \in RequestState
    BY <1>0, <2>1 DEF RequestState, OnLoop, Types, SharedTypes
  <2>4. /\ n.pc = c /\ n.read = k /\ n.needs = q.needs /\ n.group = q.group
        /\ n.manifest = q.manifest /\ n.data = d /\ n.label = q.label
        /\ n.retriever = q.retriever /\ n.moved = q.moved
    BY <1>0 DEF RequestState
  <2> HIDE DEF n
  <2> QED
    BY <1>0, <2>2, <2>3, <2>4 DEF c, d, k
<1>2. ASSUME repository # q.group /\ q.group \notin catalog
     PROVE  /\ requests' \in [Request -> RequestState]
            /\ \A s \in Request \ {r} : requests'[s] = requests[s]
            /\ Ended(p, "not_ready")
            /\ loop' = NoRequest
  <2>1. End(r, "not_ready") /\ loop' = NoRequest
    BY <1>0, <1>2 DEF OpenRepository, Refuse, caches
  <2> QED
    BY <2>1, Ending DEF Idle
<1> HIDE DEF p
<1> QED
  BY <1>0, <1>1, <1>2 DEF p, OpenRepositoryPost, OpenRepository

(* The retriever of the group read, or that of the snapshot shown. *)
OpenRetrieverPost(q, p) ==
  /\ q.pc = "open" /\ q.read \in {3, 4}
  /\ q.group = NoGroup =>
       /\ p.pc = (IF q.read = 3 THEN "label" ELSE "answering")
       /\ p.read = q.read /\ p.needs = q.needs /\ p.group = q.group
       /\ p.manifest = q.manifest /\ p.data = q.data /\ p.label = q.label
       /\ p.retriever = (IF Served!Active = NoSnapshot THEN Nothing ELSE Served!Active)
       /\ p.moved = q.moved
       /\ loop' = (IF q.read = 4 THEN NoRequest ELSE loop) /\ rolling' = rolling
  /\ q.group # NoGroup /\ ~(rolling # q.group /\ q.group \notin catalog) =>
       /\ p.pc = (IF q.read = 3 THEN "label" ELSE "answering")
       /\ p.read = q.read /\ p.needs = q.needs /\ p.group = q.group
       /\ p.manifest = q.manifest /\ p.data = q.data /\ p.label = q.label
       /\ p.retriever = q.group /\ p.moved = q.moved
       /\ loop' = (IF q.read = 4 THEN NoRequest ELSE loop) /\ rolling' = q.group
  /\ q.group # NoGroup /\ rolling # q.group /\ q.group \notin catalog =>
       /\ Ended(p, "not_ready")
       /\ loop' = NoRequest /\ rolling' = rolling

LEMMA OpenRetrieverEffect ==
  ASSUME Types, NEW r \in Request, OpenRetriever(r)
  PROVE  /\ requests' \in [Request -> RequestState]
         /\ \A s \in Request \ {r} : requests'[s] = requests[s]
         /\ OpenRetrieverPost(requests[r], requests'[r])
<1> DEFINE q == requests[r]
            p == requests'[r]
<1>0. q \in RequestState /\ requests \in [Request -> RequestState]
  BY DEF Types
<1>1. ASSUME q.group = NoGroup
     PROVE  /\ requests' \in [Request -> RequestState]
            /\ \A s \in Request \ {r} : requests'[s] = requests[s]
            /\ p.pc = (IF q.read = 3 THEN "label" ELSE "answering")
            /\ p.read = q.read /\ p.needs = q.needs /\ p.group = q.group
            /\ p.manifest = q.manifest /\ p.data = q.data /\ p.label = q.label
            /\ p.retriever = (IF Served!Active = NoSnapshot THEN Nothing ELSE Served!Active)
            /\ p.moved = q.moved
            /\ loop' = (IF q.read = 4 THEN NoRequest ELSE loop) /\ rolling' = rolling
  <2> DEFINE c == IF q.read = 3 THEN "label" ELSE "answering"
            x == IF Served!Active = NoSnapshot THEN Nothing ELSE Served!Active
  <2> DEFINE n == [q EXCEPT !.pc = c, !.retriever = x]
  <2>1. c \in {"pointer", "label", "answering", "select", "open"} /\ x \in Sources
    BY <1>0, <1>1
    DEF OpenRetriever, Types, SharedTypes, RequestState, Served!Active, Served!Known,
        Sources
  <2>2. requests' = [requests EXCEPT ![r] = n] /\ p = n /\ loop' = (IF q.read = 4 THEN NoRequest ELSE loop) /\ rolling' = rolling
    BY <1>0, <1>1 DEF OpenRetriever, Given, Goto, Becomes, caches
  <2> HIDE DEF c, x
  <2>3. n \in RequestState
    BY <1>0, <2>1 DEF RequestState, OnLoop, Types, SharedTypes
  <2>4. /\ n.pc = c /\ n.read = q.read /\ n.needs = q.needs /\ n.group = q.group
        /\ n.manifest = q.manifest /\ n.data = q.data /\ n.label = q.label
        /\ n.retriever = x /\ n.moved = q.moved
    BY <1>0 DEF RequestState
  <2> HIDE DEF n
  <2> QED
    BY <1>0, <2>2, <2>3, <2>4 DEF c, x
<1>2. ASSUME q.group # NoGroup /\ ~(rolling # q.group /\ q.group \notin catalog)
     PROVE  /\ requests' \in [Request -> RequestState]
            /\ \A s \in Request \ {r} : requests'[s] = requests[s]
            /\ p.pc = (IF q.read = 3 THEN "label" ELSE "answering")
            /\ p.read = q.read /\ p.needs = q.needs /\ p.group = q.group
            /\ p.manifest = q.manifest /\ p.data = q.data /\ p.label = q.label
            /\ p.retriever = q.group /\ p.moved = q.moved
            /\ loop' = (IF q.read = 4 THEN NoRequest ELSE loop) /\ rolling' = q.group
  <2> DEFINE c == IF q.read = 3 THEN "label" ELSE "answering"
            x == q.group
  <2> DEFINE n == [q EXCEPT !.pc = c, !.retriever = x]
  <2>1. c \in {"pointer", "label", "answering", "select", "open"} /\ x \in Sources
    BY <1>0, <1>2
    DEF OpenRetriever, Types, SharedTypes, RequestState, Served!Active, Served!Known,
        Sources
  <2>2. requests' = [requests EXCEPT ![r] = n] /\ p = n /\ loop' = (IF q.read = 4 THEN NoRequest ELSE loop) /\ rolling' = q.group
    BY <1>0, <1>2 DEF OpenRetriever, Given, Goto, Becomes, caches
  <2> HIDE DEF c, x
  <2>3. n \in RequestState
    BY <1>0, <2>1 DEF RequestState, OnLoop, Types, SharedTypes
  <2>4. /\ n.pc = c /\ n.read = q.read /\ n.needs = q.needs /\ n.group = q.group
        /\ n.manifest = q.manifest /\ n.data = q.data /\ n.label = q.label
        /\ n.retriever = x /\ n.moved = q.moved
    BY <1>0 DEF RequestState
  <2> HIDE DEF n
  <2> QED
    BY <1>0, <2>2, <2>3, <2>4 DEF c, x
<1>3. ASSUME q.group # NoGroup /\ rolling # q.group /\ q.group \notin catalog
     PROVE  /\ requests' \in [Request -> RequestState]
            /\ \A s \in Request \ {r} : requests'[s] = requests[s]
            /\ Ended(p, "not_ready")
            /\ loop' = NoRequest /\ rolling' = rolling
  <2>1. End(r, "not_ready") /\ loop' = NoRequest /\ rolling' = rolling
    BY <1>0, <1>3 DEF OpenRetriever, Refuse, caches
  <2> QED
    BY <2>1, Ending DEF Idle
<1> HIDE DEF p
<1> QED
  BY <1>0, <1>1, <1>2, <1>3 DEF p, OpenRetrieverPost, OpenRetriever

(* The label is the manifest, or what the index is labelled with. *)
LabelAnswerPost(q, p) ==
  /\ p.pc = (IF "rag" \in q.needs THEN "pointer" ELSE "answering")
  /\ p.read = 4 /\ p.needs = q.needs /\ p.group = q.group
  /\ p.manifest = q.manifest /\ p.data = q.data
  /\ p.label = (IF q.manifest # NoGroup THEN q.manifest
                 ELSE IF index.label = NoSnapshot THEN Nothing ELSE index.label)
  /\ p.retriever = q.retriever /\ p.moved = q.moved
  /\ q.pc = "label" /\ loop' = IF "rag" \in q.needs THEN loop ELSE NoRequest

LEMMA LabelAnswerEffect ==
  ASSUME Types, NEW r \in Request, LabelAnswer(r)
  PROVE  /\ requests' \in [Request -> RequestState]
         /\ \A s \in Request \ {r} : requests'[s] = requests[s]
         /\ LabelAnswerPost(requests[r], requests'[r])
<1> DEFINE q == requests[r]
            p == requests'[r]
<1>0. q \in RequestState /\ requests \in [Request -> RequestState]
  BY DEF Types
<1>1. /\ requests' \in [Request -> RequestState]
      /\ \A s \in Request \ {r} : requests'[s] = requests[s]
      /\ p.pc = (IF "rag" \in q.needs THEN "pointer" ELSE "answering")
      /\ p.read = 4 /\ p.needs = q.needs /\ p.group = q.group
      /\ p.manifest = q.manifest /\ p.data = q.data
      /\ p.label = (IF q.manifest # NoGroup THEN q.manifest
                 ELSE IF index.label = NoSnapshot THEN Nothing ELSE index.label)
      /\ p.retriever = q.retriever /\ p.moved = q.moved
      /\ q.pc = "label" /\ loop' = IF "rag" \in q.needs THEN loop ELSE NoRequest
  <2> DEFINE l == IF q.manifest # NoGroup THEN q.manifest ELSE IF index.label = NoSnapshot THEN Nothing ELSE index.label
            c == IF "rag" \in q.needs THEN "pointer" ELSE "answering"
            k == 4
  <2> DEFINE n == [q EXCEPT !.label = l, !.pc = c, !.read = k]
  <2>1. l \in Sources /\ c \in {"pointer", "label", "answering", "select", "open"} /\ k \in 1 .. 4
    BY <1>0 DEF LabelAnswer, Types, SharedTypes, RequestState, Served!Known, Sources
  <2>2. requests' = [requests EXCEPT ![r] = n] /\ p = n /\ q.pc = "label" /\ loop' = IF "rag" \in q.needs THEN loop ELSE NoRequest
    BY <1>0 DEF LabelAnswer, Goto, Becomes, caches
  <2> HIDE DEF l, c, k
  <2>3. n \in RequestState
    BY <1>0, <2>1 DEF RequestState, OnLoop, Types, SharedTypes
  <2>4. /\ n.pc = c /\ n.read = k /\ n.needs = q.needs /\ n.group = q.group
        /\ n.manifest = q.manifest /\ n.data = q.data /\ n.label = l
        /\ n.retriever = q.retriever /\ n.moved = q.moved
    BY <1>0 DEF RequestState
  <2> HIDE DEF n
  <2> QED
    BY <1>0, <2>2, <2>3, <2>4 DEF l, c, k
<1> HIDE DEF p
<1> QED
  BY <1>0, <1>1 DEF p, LabelAnswerPost

(* The answer is complete. *)
CompletePost(q, p) ==
  /\ Ended(p, "done")
  /\ q.pc = "answering" /\ loop' = loop

LEMMA CompleteEffect ==
  ASSUME Types, NEW r \in Request, Complete(r)
  PROVE  /\ requests' \in [Request -> RequestState]
         /\ \A s \in Request \ {r} : requests'[s] = requests[s]
         /\ CompletePost(requests[r], requests'[r])
<1> DEFINE q == requests[r]
            p == requests'[r]
<1>0. q \in RequestState /\ requests \in [Request -> RequestState]
  BY DEF Types
<1>1. /\ requests' \in [Request -> RequestState]
      /\ \A s \in Request \ {r} : requests'[s] = requests[s]
      /\ Ended(p, "done")
      /\ q.pc = "answering" /\ loop' = loop
  <2>1. End(r, "done") /\ q.pc = "answering" /\ loop' = loop
    BY <1>0 DEF Complete, Refuse, caches
  <2> QED
    BY <2>1, Ending DEF Idle
<1> HIDE DEF p
<1> QED
  BY <1>0, <1>1 DEF p, CompletePost

(* What a publication does to the requests: those under way notice it. *)
MovedPost(q, p) ==
  /\ p.pc = q.pc /\ p.read = q.read /\ p.needs = q.needs
  /\ p.group = q.group /\ p.manifest = q.manifest /\ p.data = q.data
  /\ p.label = q.label /\ p.retriever = q.retriever
  /\ q.pc \notin Idle => p.moved = TRUE
  /\ q.pc \in Idle => p.moved = q.moved

LEMMA MovedEffect ==
  ASSUME Types, Moved, NEW r \in Request
  PROVE  /\ requests'[r] \in RequestState
         /\ MovedPost(requests[r], requests'[r])
<1> DEFINE q == requests[r]
           m == q.moved \/ q.pc \notin Idle
           n == [q EXCEPT !.moved = m]
<1>0. q \in RequestState
  BY DEF Types
<1>1. requests'[r] = n
  BY DEF Moved
<1>2. m \in BOOLEAN
  OBVIOUS
<1>3. q.pc \notin Idle => m = TRUE
  OBVIOUS
<1>4. q.pc \in Idle => m = q.moved
  <2>1. q.moved \in BOOLEAN
    BY <1>0 DEF RequestState
  <2> QED
    BY <2>1
<1> HIDE DEF m
<1>5. n \in RequestState
  BY <1>0, <1>2 DEF RequestState
<1>6. /\ n.pc = q.pc /\ n.read = q.read /\ n.needs = q.needs
      /\ n.group = q.group /\ n.manifest = q.manifest /\ n.data = q.data
      /\ n.label = q.label /\ n.retriever = q.retriever /\ n.moved = m
  BY <1>0 DEF RequestState
<1> HIDE DEF n
<1> QED
  BY <1>1, <1>3, <1>4, <1>5, <1>6 DEF MovedPost

LEMMA MovedTypes ==
  ASSUME Types, Moved
  PROVE  requests' \in [Request -> RequestState]
<1>1. \A r \in Request : requests'[r] \in RequestState
  BY MovedEffect
<1> QED
  BY <1>1 DEF Moved

(* Publications either leave the requests alone or move all of them. *)
Publication ==
  PublishGroup \/ ActivateGroup \/ RetireGroups \/ ShowSnapshot \/ UpdateIndex

LEMMA PublicationEffect ==
  ASSUME SharedTypes, Publication
  PROVE  /\ UNCHANGED <<caches, loop>>
         /\ \/ Moved
            \/ UNCHANGED <<requests, active, live, index>>
         /\ \/ active' = active
            \/ active' \in Group /\ active'.turn > active.turn
BY DEF Publication, PublishGroup, ActivateGroup, RetireGroups, ShowSnapshot,
       UpdateIndex,
       Unmoved, caches, Groups!Install, Groups!Activate, Groups!Retire,
       Served!Show, Served!Install, Served!Label, Served!Invalidate, SharedTypes

(* The published data, the caches and the loop keep their types. *)
LEMMA NextSharedTypes ==
  ASSUME Types, [Next]_vars
  PROVE  SharedTypes'
<1> USE DEF SharedTypes, Types
<1>0. SharedTypes /\ \A r \in Request : requests[r].group \in Group \cup {NoGroup}
  BY DEF Types, RequestState
<1>1. ASSUME PublishGroup PROVE SharedTypes'
  BY <1>0, <1>1 DEF PublishGroup, Unmoved, Groups!Install, caches, Served!Known
<1>2. ASSUME ActivateGroup PROVE SharedTypes'
  BY <1>0, <1>2 DEF ActivateGroup, Moved, Groups!Activate, caches, Served!Known
<1>3. ASSUME RetireGroups PROVE SharedTypes'
  BY <1>0, <1>3 DEF RetireGroups, Moved, Groups!Retire, caches, Served!Known
<1>4. ASSUME ShowSnapshot PROVE SharedTypes'
  BY <1>0, <1>4 DEF ShowSnapshot, Moved, Served!Show, caches, Served!Known
<1>5. ASSUME UpdateIndex PROVE SharedTypes'
  BY <1>0, <1>5
  DEF UpdateIndex, Moved, Served!Install, Served!Label, Served!Invalidate, caches,
      Served!Known
<1>6. ASSUME NEW r \in Request, BeginContext(r) PROVE SharedTypes'
  BY <1>0, <1>6 DEF BeginContext, published, caches, Served!Known
<1>7. ASSUME NEW r \in Request, ReadPointer(r) PROVE SharedTypes'
  BY <1>0, <1>7 DEF ReadPointer, published, caches, Served!Known
<1>8. ASSUME NEW r \in Request, ReadManifest(r) PROVE SharedTypes'
  BY <1>0, <1>8 DEF ReadManifest, Refuse, End, published, caches, Served!Known
<1>9. ASSUME NEW r \in Request, SelectData(r) PROVE SharedTypes'
  BY <1>0, <1>9 DEF SelectData, Goto, published, caches, Served!Known
<1>10. ASSUME NEW r \in Request, ReadShown(r) PROVE SharedTypes'
  BY <1>0, <1>10 DEF ReadShown, End, published, caches, Served!Known
<1>11. ASSUME NEW r \in Request, ResumeContext(r) PROVE SharedTypes'
  BY <1>0, <1>11 DEF ResumeContext, published, caches, Served!Known
<1>12. ASSUME NEW r \in Request, OpenRepository(r) PROVE SharedTypes'
  BY <1>0, <1>12 DEF OpenRepository, Refuse, End, published, caches, Served!Known
<1>13. ASSUME NEW r \in Request, OpenRetriever(r) PROVE SharedTypes'
  BY <1>0, <1>13
  DEF OpenRetriever, Refuse, End, Given, Served!Active, published, caches,
      Served!Known
<1>14. ASSUME NEW r \in Request, LabelAnswer(r) PROVE SharedTypes'
  BY <1>0, <1>14 DEF LabelAnswer, published, caches, Served!Known
<1>15. ASSUME NEW r \in Request, Complete(r) PROVE SharedTypes'
  BY <1>0, <1>15 DEF Complete, End, published, caches, Served!Known
<1>16. CASE UNCHANGED vars
  BY <1>16 DEF vars, Served!Known
<1> QED
  BY <1>1, <1>2, <1>3, <1>4, <1>5, <1>6, <1>7, <1>8, <1>9, <1>10, <1>11, <1>12, <1>13,
     <1>14, <1>15, <1>16
  DEF Next, RequestNext

(* What each request has gathered. *)
Gathered == \A r \in Request : ReadsInOrder(requests[r]) /\ ReadLaterNewer(requests[r], active)

(* A request is always in one of its states. *)
LEMMA NextRequestTypes ==
  ASSUME Types, Gathered, [Next]_vars
  PROVE  requests' \in [Request -> RequestState]
<1> USE DEF Types
<1>0. requests \in [Request -> RequestState] /\ SharedTypes
  OBVIOUS
<1>1. ASSUME Publication PROVE requests' \in [Request -> RequestState]
  BY <1>0, <1>1, MovedTypes, PublicationEffect
<1>2. ASSUME NEW r \in Request, BeginContext(r) PROVE requests' \in [Request -> RequestState]
  BY <1>0, <1>2, BeginContextEffect
  DEF BeginContext, BeginContextPost, published, caches, Gathered
<1>3. ASSUME NEW r \in Request, ReadPointer(r) PROVE requests' \in [Request -> RequestState]
  BY <1>0, <1>3, ReadPointerEffect
  DEF ReadPointer, ReadPointerPost, published, caches, Gathered
<1>4. ASSUME NEW r \in Request, ReadManifest(r) PROVE requests' \in [Request -> RequestState]
  BY <1>0, <1>4, ReadManifestEffect
  DEF ReadManifest, ReadManifestPost, published, caches, Gathered
<1>5. ASSUME NEW r \in Request, SelectData(r) PROVE requests' \in [Request -> RequestState]
  BY <1>0, <1>5, SelectDataEffect
  DEF SelectData, SelectDataPost, published, caches, Gathered
<1>6. ASSUME NEW r \in Request, ReadShown(r) PROVE requests' \in [Request -> RequestState]
  BY <1>0, <1>6, ReadShownEffect
  DEF ReadShown, ReadShownPost, published, caches, Gathered
<1>7. ASSUME NEW r \in Request, ResumeContext(r) PROVE requests' \in [Request -> RequestState]
  BY <1>0, <1>7, ResumeContextEffect
  DEF ResumeContext, ResumeContextPost, published, caches, Gathered
<1>8. ASSUME NEW r \in Request, OpenRepository(r) PROVE requests' \in [Request -> RequestState]
  BY <1>0, <1>8, OpenRepositoryEffect
  DEF OpenRepository, OpenRepositoryPost, published, caches, Gathered
<1>9. ASSUME NEW r \in Request, OpenRetriever(r) PROVE requests' \in [Request -> RequestState]
  BY <1>0, <1>9, OpenRetrieverEffect
  DEF OpenRetriever, OpenRetrieverPost, published, caches, Gathered
<1>10. ASSUME NEW r \in Request, LabelAnswer(r) PROVE requests' \in [Request -> RequestState]
  BY <1>0, <1>10, LabelAnswerEffect
  DEF LabelAnswer, LabelAnswerPost, published, caches, Gathered
<1>11. ASSUME NEW r \in Request, Complete(r) PROVE requests' \in [Request -> RequestState]
  BY <1>0, <1>11, CompleteEffect
  DEF Complete, CompletePost, published, caches, Gathered
<1>12. CASE UNCHANGED vars
  BY <1>12 DEF vars, published, caches, Gathered
<1> QED
  BY <1>1, <1>2, <1>3, <1>4, <1>5, <1>6, <1>7, <1>8, <1>9, <1>10, <1>11, <1>12
  DEF Next, RequestNext, Publication

(* A request on the loop stays there or gives it up; another takes it only *)
(* when it is free.                                                        *)
LoopMove(r) ==
  /\ \A s \in Request \ {r} : requests'[s] = requests[s]
  /\ \/ requests[r].pc \in OnLoop
     \/ loop = NoRequest
  /\ \/ requests'[r].pc \in OnLoop /\ loop' = r
     \/ requests'[r].pc \in OnLoop /\ loop' = loop /\ requests[r].pc \in OnLoop
     \/ requests'[r].pc \notin OnLoop /\ loop' = NoRequest

(* Exactly the request that prepares its context holds the event loop. *)
LEMMA NextLoopHeld ==
  ASSUME Types, LoopHeld, Gathered, [Next]_vars
  PROVE  LoopHeld'
<1>0. LoopHeld /\ NoRequest \notin Request
  BY EvidenceAssumption
<1>1. ASSUME Publication PROVE LoopHeld'
  BY <1>1, MovedEffect, PublicationEffect DEF LoopHeld, Types, MovedPost
<1>2. ASSUME NEW r \in Request, BeginContext(r) PROVE LoopHeld'
  <2>1. LoopMove(r)
    BY <1>2, BeginContextEffect
    DEF BeginContext, BeginContextPost, LoopMove, OnLoop, Ended, Gathered, published,
        caches
  <2> QED
    BY <1>0, <2>1 DEF LoopMove, LoopHeld
<1>3. ASSUME NEW r \in Request, ReadPointer(r) PROVE LoopHeld'
  <2>1. LoopMove(r)
    BY <1>3, ReadPointerEffect
    DEF ReadPointer, ReadPointerPost, LoopMove, OnLoop, Ended, Gathered, published,
        caches
  <2> QED
    BY <1>0, <2>1 DEF LoopMove, LoopHeld
<1>4. ASSUME NEW r \in Request, ReadManifest(r) PROVE LoopHeld'
  <2>1. LoopMove(r)
    BY <1>4, ReadManifestEffect
    DEF ReadManifest, ReadManifestPost, LoopMove, OnLoop, Ended, Gathered, published,
        caches
  <2> QED
    BY <1>0, <2>1 DEF LoopMove, LoopHeld
<1>5. ASSUME NEW r \in Request, SelectData(r) PROVE LoopHeld'
  <2>1. LoopMove(r)
    BY <1>5, SelectDataEffect
    DEF SelectData, SelectDataPost, LoopMove, OnLoop, Ended, Gathered, published,
        caches
  <2> QED
    BY <1>0, <2>1 DEF LoopMove, LoopHeld
<1>6. ASSUME NEW r \in Request, ReadShown(r) PROVE LoopHeld'
  <2>1. LoopMove(r)
    BY <1>6, ReadShownEffect
    DEF ReadShown, ReadShownPost, LoopMove, OnLoop, Ended, Gathered, published, caches
  <2> QED
    BY <1>0, <2>1 DEF LoopMove, LoopHeld
<1>7. ASSUME NEW r \in Request, ResumeContext(r) PROVE LoopHeld'
  <2>1. LoopMove(r)
    BY <1>7, ResumeContextEffect
    DEF ResumeContext, ResumeContextPost, LoopMove, OnLoop, Ended, Gathered,
        published, caches
  <2> QED
    BY <1>0, <2>1 DEF LoopMove, LoopHeld
<1>8. ASSUME NEW r \in Request, OpenRepository(r) PROVE LoopHeld'
  <2>1. LoopMove(r)
    BY <1>8, OpenRepositoryEffect
    DEF OpenRepository, OpenRepositoryPost, LoopMove, OnLoop, Ended, Gathered,
        published, caches
  <2> QED
    BY <1>0, <2>1 DEF LoopMove, LoopHeld
<1>9. ASSUME NEW r \in Request, OpenRetriever(r) PROVE LoopHeld'
  <2>1. LoopMove(r)
    <3>1. requests[r].pc \in OnLoop /\ requests[r].read \in {3, 4}
      BY <1>9 DEF OnLoop, OpenRetriever
    <3>2. \/ Ended(requests'[r], "not_ready") /\ loop' = NoRequest
          \/ /\ requests'[r].pc = (IF requests[r].read = 3 THEN "label" ELSE "answering")
             /\ loop' = (IF requests[r].read = 4 THEN NoRequest ELSE loop)
      BY <1>9, OpenRetrieverEffect DEF OpenRetrieverPost
    <3>3. \A s \in Request \ {r} : requests'[s] = requests[s]
      BY <1>9, OpenRetrieverEffect
    <3>4. CASE requests[r].read = 3
      BY <3>1, <3>2, <3>3, <3>4 DEF Ended, OnLoop, LoopMove
    <3>5. CASE requests[r].read = 4
      BY <3>1, <3>2, <3>3, <3>5 DEF Ended, OnLoop, LoopMove
    <3> QED
      BY <3>1, <3>4, <3>5
  <2> QED
    BY <1>0, <2>1 DEF LoopMove, LoopHeld
<1>10. ASSUME NEW r \in Request, LabelAnswer(r) PROVE LoopHeld'
  <2>1. LoopMove(r)
    BY <1>10, LabelAnswerEffect
    DEF LabelAnswer, LabelAnswerPost, LoopMove, OnLoop, Ended, Gathered, published,
        caches, Types, RequestState, ReadsInOrder
  <2> QED
    BY <1>0, <2>1 DEF LoopMove, LoopHeld
<1>11. ASSUME NEW r \in Request, Complete(r) PROVE LoopHeld'
  <2>1. LoopMove(r)
    BY <1>11, CompleteEffect
    DEF Complete, CompletePost, LoopMove, OnLoop, Ended, Gathered, published, caches
  <2> QED
    BY <1>0, <2>1 DEF LoopMove, LoopHeld
<1>12. CASE UNCHANGED vars
  BY <1>12 DEF vars, published, caches, LoopHeld
<1> QED
  BY <1>1, <1>2, <1>3, <1>4, <1>5, <1>6, <1>7, <1>8, <1>9, <1>10, <1>11, <1>12
  DEF Next, RequestNext, Publication

(* The reads of a request stay in their order. *)
LEMMA NextReadsInOrder ==
  ASSUME Types, Gathered, [Next]_vars
  PROVE  \A s \in Request : ReadsInOrder(requests[s])'
<1>1. ASSUME Publication PROVE \A s \in Request : ReadsInOrder(requests[s])'
  <2>1. ASSUME Moved, NEW s \in Request PROVE ReadsInOrder(requests[s])'
    <3> DEFINE q == requests[s]
               p == requests'[s]
    <3>1. MovedPost(q, p)
      BY <2>1, MovedEffect
    <3>2. q \in RequestState /\ p \in RequestState /\ ReadsInOrder(q)
      BY <1>1, <2>1, MovedEffect DEF Types, Gathered
    <3> HIDE DEF q, p
    <3>3. ReadsInOrder(p)
      BY <3>1, <3>2 DEF MovedPost, ReadsInOrder, RequestState, Idle
    <3> QED
      BY <3>3 DEF p, ReadsInOrder
  <2>2. CASE UNCHANGED <<requests, active, live, index>>
    BY <1>1, <2>2, PublicationEffect DEF Types, Gathered, caches, ReadsInOrder
  <2> QED
    BY <1>1, <2>1, <2>2, PublicationEffect DEF Types
<1>2. ASSUME NEW r \in Request, BeginContext(r) PROVE \A s \in Request : ReadsInOrder(requests[s])'
  <2> DEFINE q == requests[r]
             p == requests'[r]
  <2>1. BeginContextPost(q, p)
    BY <1>2, BeginContextEffect DEF Gathered
  <2>2. q \in RequestState /\ p \in RequestState /\ ReadsInOrder(q)
    BY <1>2, BeginContextEffect DEF Types, Gathered
  <2> HIDE DEF q, p
  <2>3. ReadsInOrder(p)
    BY <2>1, <2>2
    DEF BeginContextPost, Ended, ReadsInOrder, RequestState, Idle, OnLoop
  <2> QED
    BY <1>2, <2>3, BeginContextEffect DEF p, Gathered
<1>3. ASSUME NEW r \in Request, ReadPointer(r) PROVE \A s \in Request : ReadsInOrder(requests[s])'
  <2> DEFINE q == requests[r]
             p == requests'[r]
  <2>1. ReadPointerPost(q, p)
    BY <1>3, ReadPointerEffect DEF Gathered
  <2>2. q \in RequestState /\ p \in RequestState /\ ReadsInOrder(q)
    BY <1>3, ReadPointerEffect DEF Types, Gathered
  <2> HIDE DEF q, p
  <2>3. ReadsInOrder(p)
    BY <2>1, <2>2 DEF ReadPointerPost, Ended, ReadsInOrder, RequestState, Idle, OnLoop
  <2> QED
    BY <1>3, <2>3, ReadPointerEffect DEF p, Gathered
<1>4. ASSUME NEW r \in Request, ReadManifest(r) PROVE \A s \in Request : ReadsInOrder(requests[s])'
  <2> DEFINE q == requests[r]
             p == requests'[r]
  <2>1. ReadManifestPost(q, p)
    BY <1>4, ReadManifestEffect DEF Gathered
  <2>2. q \in RequestState /\ p \in RequestState /\ ReadsInOrder(q)
    BY <1>4, ReadManifestEffect DEF Types, Gathered
  <2> HIDE DEF q, p
  <2>3. ReadsInOrder(p)
    BY <2>1, <2>2
    DEF ReadManifestPost, Ended, ReadsInOrder, RequestState, Idle, OnLoop
  <2> QED
    BY <1>4, <2>3, ReadManifestEffect DEF p, Gathered
<1>5. ASSUME NEW r \in Request, SelectData(r) PROVE \A s \in Request : ReadsInOrder(requests[s])'
  <2> DEFINE q == requests[r]
             p == requests'[r]
  <2>1. SelectDataPost(q, p)
    BY <1>5, SelectDataEffect DEF Gathered
  <2>2. q \in RequestState /\ p \in RequestState /\ ReadsInOrder(q)
    BY <1>5, SelectDataEffect DEF Types, Gathered
  <2> HIDE DEF q, p
  <2>3. ReadsInOrder(p)
    BY <2>1, <2>2 DEF SelectDataPost, Ended, ReadsInOrder, RequestState, Idle, OnLoop
  <2> QED
    BY <1>5, <2>3, SelectDataEffect DEF p, Gathered
<1>6. ASSUME NEW r \in Request, ReadShown(r) PROVE \A s \in Request : ReadsInOrder(requests[s])'
  <2> DEFINE q == requests[r]
             p == requests'[r]
  <2>1. ReadShownPost(q, p)
    BY <1>6, ReadShownEffect DEF Gathered
  <2>2. q \in RequestState /\ p \in RequestState /\ ReadsInOrder(q)
    BY <1>6, ReadShownEffect DEF Types, Gathered
  <2> HIDE DEF q, p
  <2>3. ReadsInOrder(p)
    BY <2>1, <2>2 DEF ReadShownPost, Ended, ReadsInOrder, RequestState, Idle, OnLoop
  <2> QED
    BY <1>6, <2>3, ReadShownEffect DEF p, Gathered
<1>7. ASSUME NEW r \in Request, ResumeContext(r) PROVE \A s \in Request : ReadsInOrder(requests[s])'
  <2> DEFINE q == requests[r]
             p == requests'[r]
  <2>1. ResumeContextPost(q, p)
    BY <1>7, ResumeContextEffect DEF Gathered
  <2>2. q \in RequestState /\ p \in RequestState /\ ReadsInOrder(q)
    BY <1>7, ResumeContextEffect DEF Types, Gathered
  <2> HIDE DEF q, p
  <2>3. ReadsInOrder(p)
    BY <2>1, <2>2
    DEF ResumeContextPost, Ended, ReadsInOrder, RequestState, Idle, OnLoop
  <2> QED
    BY <1>7, <2>3, ResumeContextEffect DEF p, Gathered
<1>8. ASSUME NEW r \in Request, OpenRepository(r) PROVE \A s \in Request : ReadsInOrder(requests[s])'
  <2> DEFINE q == requests[r]
             p == requests'[r]
  <2>1. OpenRepositoryPost(q, p)
    BY <1>8, OpenRepositoryEffect DEF Gathered
  <2>2. q \in RequestState /\ p \in RequestState /\ ReadsInOrder(q)
    BY <1>8, OpenRepositoryEffect DEF Types, Gathered
  <2> HIDE DEF q, p
  <2>3. ReadsInOrder(p)
    BY <2>1, <2>2
    DEF OpenRepositoryPost, Ended, ReadsInOrder, RequestState, Idle, OnLoop
  <2> QED
    BY <1>8, <2>3, OpenRepositoryEffect DEF p, Gathered
<1>9. ASSUME NEW r \in Request, OpenRetriever(r) PROVE \A s \in Request : ReadsInOrder(requests[s])'
  <2> DEFINE q == requests[r]
             p == requests'[r]
  <2>1. OpenRetrieverPost(q, p)
    BY <1>9, OpenRetrieverEffect DEF Gathered
  <2>2. q \in RequestState /\ p \in RequestState /\ ReadsInOrder(q)
    BY <1>9, OpenRetrieverEffect DEF Types, Gathered
  <2> HIDE DEF q, p
  <2>3. ReadsInOrder(p)
    BY <2>1, <2>2
    DEF OpenRetrieverPost, Ended, ReadsInOrder, RequestState, Idle, OnLoop
  <2> QED
    BY <1>9, <2>3, OpenRetrieverEffect DEF p, Gathered
<1>10. ASSUME NEW r \in Request, LabelAnswer(r) PROVE \A s \in Request : ReadsInOrder(requests[s])'
  <2> DEFINE q == requests[r]
             p == requests'[r]
  <2>1. LabelAnswerPost(q, p)
    BY <1>10, LabelAnswerEffect DEF Gathered
  <2>2. q \in RequestState /\ p \in RequestState /\ ReadsInOrder(q)
    BY <1>10, LabelAnswerEffect DEF Types, Gathered
  <2> HIDE DEF q, p
  <2>3. ReadsInOrder(p)
    BY <2>1, <2>2 DEF LabelAnswerPost, Ended, ReadsInOrder, RequestState, Idle, OnLoop
  <2> QED
    BY <1>10, <2>3, LabelAnswerEffect DEF p, Gathered
<1>11. ASSUME NEW r \in Request, Complete(r) PROVE \A s \in Request : ReadsInOrder(requests[s])'
  <2> DEFINE q == requests[r]
             p == requests'[r]
  <2>1. CompletePost(q, p)
    BY <1>11, CompleteEffect DEF Gathered
  <2>2. q \in RequestState /\ p \in RequestState /\ ReadsInOrder(q)
    BY <1>11, CompleteEffect DEF Types, Gathered
  <2> HIDE DEF q, p
  <2>3. ReadsInOrder(p)
    BY <2>1, <2>2 DEF CompletePost, Ended, ReadsInOrder, RequestState, Idle, OnLoop
  <2> QED
    BY <1>11, <2>3, CompleteEffect DEF p, Gathered
<1>12. CASE UNCHANGED vars
  BY <1>12 DEF vars, published, caches, Gathered, ReadsInOrder
<1> QED
  BY <1>1, <1>2, <1>3, <1>4, <1>5, <1>6, <1>7, <1>8, <1>9, <1>10, <1>11, <1>12
  DEF Next, RequestNext, Publication

(* What is shown and how the index is labelled is never a group. *)
TellsApart ==
  /\ live \in Snapshot \cup {NoSnapshot} /\ index.label \in Snapshot \cup {NoSnapshot}
  /\ Served!Active \in {live, NoSnapshot}
  /\ Served!Active # NoSnapshot => index.label = live
  /\ (Snapshot \cup {Nothing}) \cap Group = {}

LEMMA SnapshotsAreNoGroups ==
  ASSUME SharedTypes
  PROVE  TellsApart
BY EvidenceAssumption DEF SharedTypes, TellsApart, Served!Known, Served!Active

(* The pointer only moves to later publications. *)
LEMMA PointerMoves ==
  ASSUME NEW a, NEW b, \/ b = a
                       \/ a \in Group \cup {NoGroup} /\ b \in Group /\ (a \in Group => a.turn < b.turn),
         NEW q, ReadLaterNewer(q, a)
  PROVE  ReadLaterNewer(q, b)
<1>1. ASSUME NEW x, NoLater(x, a) PROVE NoLater(x, b)
  BY <1>1, EvidenceAssumption DEF NoLater
<1> QED
  BY <1>1 DEF ReadLaterNewer

(* What a request reads later was published later. *)
LEMMA NextReadLaterNewer ==
  ASSUME Types, Gathered, [Next]_vars
  PROVE  \A s \in Request : ReadLaterNewer(requests[s], active)'
<1>1. ASSUME Publication PROVE \A s \in Request : ReadLaterNewer(requests[s], active)'
  <2>1. \/ active' = active
        \/ /\ active \in Group \cup {NoGroup} /\ active' \in Group
           /\ active \in Group => active.turn < active'.turn
    BY <1>1, PublicationEffect DEF Types, SharedTypes
  <2>2. ASSUME Moved, NEW s \in Request PROVE ReadLaterNewer(requests'[s], active)
    <3> DEFINE q == requests[s]
               p == requests'[s]
    <3>1. MovedPost(q, p) /\ ReadLaterNewer(q, active)
      BY <2>2, MovedEffect DEF Gathered
    <3> HIDE DEF q, p
    <3>2. ReadLaterNewer(p, active)
      BY <3>1 DEF MovedPost, ReadLaterNewer, Reading
    <3> QED
      BY <3>2 DEF p
  <2>3. ASSUME requests' = requests, NEW s \in Request
        PROVE  ReadLaterNewer(requests'[s], active)
    BY <2>3 DEF Gathered
  <2>4. \A s \in Request : ReadLaterNewer(requests'[s], active)
    BY <1>1, <2>2, <2>3, PublicationEffect DEF Types
  <2> QED
    BY <2>1, <2>4, PointerMoves
<1>2. ASSUME NEW r \in Request, BeginContext(r) PROVE \A s \in Request : ReadLaterNewer(requests[s], active)'
  <2> DEFINE q == requests[r]
             p == requests'[r]
  <2>1. BeginContextPost(q, p)
    BY <1>2, BeginContextEffect DEF Gathered
  <2>2. /\ q \in RequestState /\ p \in RequestState /\ ReadsInOrder(q)
        /\ ReadLaterNewer(q, active)
    BY <1>2, BeginContextEffect DEF Types, Gathered
  <2>3. UNCHANGED <<active, live, index>> /\ active \in Group \cup {NoGroup} /\ TellsApart
    BY <1>2, SnapshotsAreNoGroups DEF BeginContext, published, Types, SharedTypes
  <2> HIDE DEF q, p
  <2>4. ReadLaterNewer(p, active)
    BY <2>1, <2>2, <2>3, EvidenceAssumption
    DEF BeginContextPost, Ended, ReadLaterNewer, Reading, NoLater, TellsApart,
        RequestState, Idle, OnLoop
  <2> QED
    BY <1>2, <2>3, <2>4, BeginContextEffect DEF p, Gathered
<1>3. ASSUME NEW r \in Request, ReadPointer(r) PROVE \A s \in Request : ReadLaterNewer(requests[s], active)'
  <2> DEFINE q == requests[r]
             p == requests'[r]
  <2>1. ReadPointerPost(q, p)
    BY <1>3, ReadPointerEffect DEF Gathered
  <2>2. /\ q \in RequestState /\ p \in RequestState /\ ReadsInOrder(q)
        /\ ReadLaterNewer(q, active)
    BY <1>3, ReadPointerEffect DEF Types, Gathered
  <2>3. UNCHANGED <<active, live, index>> /\ active \in Group \cup {NoGroup} /\ TellsApart
    BY <1>3, SnapshotsAreNoGroups DEF ReadPointer, published, Types, SharedTypes
  <2> HIDE DEF q, p
  <2>4. ReadLaterNewer(p, active)
    BY <2>1, <2>2, <2>3, EvidenceAssumption
    DEF ReadPointerPost, Ended, ReadLaterNewer, Reading, NoLater, TellsApart,
        RequestState, Idle, OnLoop
  <2> QED
    BY <1>3, <2>3, <2>4, ReadPointerEffect DEF p, Gathered
<1>4. ASSUME NEW r \in Request, ReadManifest(r) PROVE \A s \in Request : ReadLaterNewer(requests[s], active)'
  <2> DEFINE q == requests[r]
             p == requests'[r]
  <2>1. ReadManifestPost(q, p)
    BY <1>4, ReadManifestEffect DEF Gathered
  <2>2. /\ q \in RequestState /\ p \in RequestState /\ ReadsInOrder(q)
        /\ ReadLaterNewer(q, active)
    BY <1>4, ReadManifestEffect DEF Types, Gathered
  <2>3. UNCHANGED <<active, live, index>> /\ active \in Group \cup {NoGroup} /\ TellsApart
    BY <1>4, SnapshotsAreNoGroups DEF ReadManifest, published, Types, SharedTypes
  <2> HIDE DEF q, p
  <2>4. ReadLaterNewer(p, active)
    <3>0. Reading(q) /\ EvidenceAssumption
      BY <2>1, EvidenceAssumption DEF ReadManifestPost, Reading
    <3>1. CASE q.group # NoGroup /\ q.group \notin catalog
      BY <2>1, <3>1, EvidenceAssumption
      DEF ReadManifestPost, Ended, ReadLaterNewer, NoLater, Reading
    <3>2. CASE ~(q.group # NoGroup /\ q.group \notin catalog) /\ q.read = 1
      <4>1. /\ NoLater(p.group, active) /\ NoLater(p.manifest, active)
            /\ NoLater(p.data, active) /\ NoLater(p.retriever, active)
        BY <2>1, <2>2, <2>3, <3>0, <3>2
        DEF ReadManifestPost, ReadLaterNewer, ReadsInOrder, NoLater, TellsApart
      <4>2. Reading(p) => NoLater(p.manifest, p.group) /\ NoLater(p.data, p.group)
        BY <2>1, <2>2, <3>0, <3>2
        DEF ReadManifestPost, ReadLaterNewer, ReadsInOrder, NoLater, Reading
      <4>3. p.label \in Group => p.label = p.manifest
        BY <2>1, <2>2, <3>0, <3>2 DEF ReadManifestPost, ReadLaterNewer, ReadsInOrder
      <4>4. {p.data, p.manifest} \subseteq Group => p.manifest.turn <= p.data.turn
        BY <2>1, <2>2, <3>0, <3>2
        DEF ReadManifestPost, ReadLaterNewer, ReadsInOrder, NoLater
      <4>5. {p.data, p.retriever} \subseteq Group => p.data.turn <= p.retriever.turn
        BY <2>1, <2>2, <2>3, <3>0, <3>2
        DEF ReadManifestPost, ReadLaterNewer, ReadsInOrder, NoLater, TellsApart
      <4>6. {p.manifest, p.retriever} \subseteq Group => p.manifest.turn <= p.retriever.turn
        BY <2>1, <2>2, <2>3, <3>0, <3>2
        DEF ReadManifestPost, ReadLaterNewer, ReadsInOrder, NoLater, TellsApart
      <4> QED
        BY <4>1, <4>2, <4>3, <4>4, <4>5, <4>6 DEF ReadLaterNewer
    <3>3. CASE ~(q.group # NoGroup /\ q.group \notin catalog) /\ q.read # 1
      <4>1. /\ NoLater(p.group, active) /\ NoLater(p.manifest, active)
            /\ NoLater(p.data, active) /\ NoLater(p.retriever, active)
        BY <2>1, <2>2, <2>3, <3>0, <3>3
        DEF ReadManifestPost, ReadLaterNewer, ReadsInOrder, NoLater, TellsApart
      <4>2. Reading(p) => NoLater(p.manifest, p.group) /\ NoLater(p.data, p.group)
        BY <2>1, <2>2, <3>0, <3>3
        DEF ReadManifestPost, ReadLaterNewer, ReadsInOrder, NoLater, Reading
      <4>3. p.label \in Group => p.label = p.manifest
        BY <2>1, <2>2, <3>0, <3>3 DEF ReadManifestPost, ReadLaterNewer, ReadsInOrder
      <4>4. {p.data, p.manifest} \subseteq Group => p.manifest.turn <= p.data.turn
        BY <2>1, <2>2, <3>0, <3>3
        DEF ReadManifestPost, ReadLaterNewer, ReadsInOrder, NoLater
      <4>5. {p.data, p.retriever} \subseteq Group => p.data.turn <= p.retriever.turn
        BY <2>1, <2>2, <2>3, <3>0, <3>3
        DEF ReadManifestPost, ReadLaterNewer, ReadsInOrder, NoLater, TellsApart
      <4>6. {p.manifest, p.retriever} \subseteq Group => p.manifest.turn <= p.retriever.turn
        BY <2>1, <2>2, <2>3, <3>0, <3>3
        DEF ReadManifestPost, ReadLaterNewer, ReadsInOrder, NoLater, TellsApart
      <4> QED
        BY <4>1, <4>2, <4>3, <4>4, <4>5, <4>6 DEF ReadLaterNewer
    <3> QED
      BY <3>1, <3>2, <3>3
  <2> QED
    BY <1>4, <2>3, <2>4, ReadManifestEffect DEF p, Gathered
<1>5. ASSUME NEW r \in Request, SelectData(r) PROVE \A s \in Request : ReadLaterNewer(requests[s], active)'
  <2> DEFINE q == requests[r]
             p == requests'[r]
  <2>1. SelectDataPost(q, p)
    BY <1>5, SelectDataEffect DEF Gathered
  <2>2. /\ q \in RequestState /\ p \in RequestState /\ ReadsInOrder(q)
        /\ ReadLaterNewer(q, active)
    BY <1>5, SelectDataEffect DEF Types, Gathered
  <2>3. UNCHANGED <<active, live, index>> /\ active \in Group \cup {NoGroup} /\ TellsApart
    BY <1>5, SnapshotsAreNoGroups DEF SelectData, published, Types, SharedTypes
  <2> HIDE DEF q, p
  <2>4. ReadLaterNewer(p, active)
    BY <2>1, <2>2, <2>3, EvidenceAssumption
    DEF SelectDataPost, Ended, ReadLaterNewer, Reading, NoLater, TellsApart,
        RequestState, Idle, OnLoop
  <2> QED
    BY <1>5, <2>3, <2>4, SelectDataEffect DEF p, Gathered
<1>6. ASSUME NEW r \in Request, ReadShown(r) PROVE \A s \in Request : ReadLaterNewer(requests[s], active)'
  <2> DEFINE q == requests[r]
             p == requests'[r]
  <2>1. ReadShownPost(q, p)
    BY <1>6, ReadShownEffect DEF Gathered
  <2>2. /\ q \in RequestState /\ p \in RequestState /\ ReadsInOrder(q)
        /\ ReadLaterNewer(q, active)
    BY <1>6, ReadShownEffect DEF Types, Gathered
  <2>3. UNCHANGED <<active, live, index>> /\ active \in Group \cup {NoGroup} /\ TellsApart
    BY <1>6, SnapshotsAreNoGroups DEF ReadShown, published, Types, SharedTypes
  <2> HIDE DEF q, p
  <2>4. ReadLaterNewer(p, active)
    BY <2>1, <2>2, <2>3, EvidenceAssumption
    DEF ReadShownPost, Ended, ReadLaterNewer, Reading, NoLater, TellsApart,
        RequestState, Idle, OnLoop
  <2> QED
    BY <1>6, <2>3, <2>4, ReadShownEffect DEF p, Gathered
<1>7. ASSUME NEW r \in Request, ResumeContext(r) PROVE \A s \in Request : ReadLaterNewer(requests[s], active)'
  <2> DEFINE q == requests[r]
             p == requests'[r]
  <2>1. ResumeContextPost(q, p)
    BY <1>7, ResumeContextEffect DEF Gathered
  <2>2. /\ q \in RequestState /\ p \in RequestState /\ ReadsInOrder(q)
        /\ ReadLaterNewer(q, active)
    BY <1>7, ResumeContextEffect DEF Types, Gathered
  <2>3. UNCHANGED <<active, live, index>> /\ active \in Group \cup {NoGroup} /\ TellsApart
    BY <1>7, SnapshotsAreNoGroups DEF ResumeContext, published, Types, SharedTypes
  <2> HIDE DEF q, p
  <2>4. ReadLaterNewer(p, active)
    BY <2>1, <2>2, <2>3, EvidenceAssumption
    DEF ResumeContextPost, Ended, ReadLaterNewer, Reading, NoLater, TellsApart,
        RequestState, Idle, OnLoop
  <2> QED
    BY <1>7, <2>3, <2>4, ResumeContextEffect DEF p, Gathered
<1>8. ASSUME NEW r \in Request, OpenRepository(r) PROVE \A s \in Request : ReadLaterNewer(requests[s], active)'
  <2> DEFINE q == requests[r]
             p == requests'[r]
  <2>1. OpenRepositoryPost(q, p)
    BY <1>8, OpenRepositoryEffect DEF Gathered
  <2>2. /\ q \in RequestState /\ p \in RequestState /\ ReadsInOrder(q)
        /\ ReadLaterNewer(q, active)
    BY <1>8, OpenRepositoryEffect DEF Types, Gathered
  <2>3. UNCHANGED <<active, live, index>> /\ active \in Group \cup {NoGroup} /\ TellsApart
    BY <1>8, SnapshotsAreNoGroups DEF OpenRepository, published, Types, SharedTypes
  <2> HIDE DEF q, p
  <2>4. ReadLaterNewer(p, active)
    <3>0. Reading(q) /\ EvidenceAssumption
      BY <2>1, EvidenceAssumption DEF OpenRepositoryPost, Reading
    <3>1. CASE repository # q.group /\ q.group \notin catalog
      BY <2>1, <3>1, EvidenceAssumption
      DEF OpenRepositoryPost, Ended, ReadLaterNewer, NoLater, Reading
    <3>2. CASE ~(repository # q.group /\ q.group \notin catalog)
      <4>1. /\ NoLater(p.group, active) /\ NoLater(p.manifest, active)
            /\ NoLater(p.data, active) /\ NoLater(p.retriever, active)
        BY <2>1, <2>2, <2>3, <3>0, <3>2
        DEF OpenRepositoryPost, ReadLaterNewer, ReadsInOrder, NoLater, TellsApart
      <4>2. Reading(p) => NoLater(p.manifest, p.group) /\ NoLater(p.data, p.group)
        BY <2>1, <2>2, <3>0, <3>2
        DEF OpenRepositoryPost, ReadLaterNewer, ReadsInOrder, NoLater, Reading
      <4>3. p.label \in Group => p.label = p.manifest
        BY <2>1, <2>2, <3>0, <3>2 DEF OpenRepositoryPost, ReadLaterNewer, ReadsInOrder
      <4>4. {p.data, p.manifest} \subseteq Group => p.manifest.turn <= p.data.turn
        BY <2>1, <2>2, <3>0, <3>2
        DEF OpenRepositoryPost, ReadLaterNewer, ReadsInOrder, NoLater
      <4>5. {p.data, p.retriever} \subseteq Group => p.data.turn <= p.retriever.turn
        BY <2>1, <2>2, <2>3, <3>0, <3>2
        DEF OpenRepositoryPost, ReadLaterNewer, ReadsInOrder, NoLater, TellsApart
      <4>6. {p.manifest, p.retriever} \subseteq Group => p.manifest.turn <= p.retriever.turn
        BY <2>1, <2>2, <2>3, <3>0, <3>2
        DEF OpenRepositoryPost, ReadLaterNewer, ReadsInOrder, NoLater, TellsApart
      <4> QED
        BY <4>1, <4>2, <4>3, <4>4, <4>5, <4>6 DEF ReadLaterNewer
    <3> QED
      BY <3>1, <3>2
  <2> QED
    BY <1>8, <2>3, <2>4, OpenRepositoryEffect DEF p, Gathered
<1>9. ASSUME NEW r \in Request, OpenRetriever(r) PROVE \A s \in Request : ReadLaterNewer(requests[s], active)'
  <2> DEFINE q == requests[r]
             p == requests'[r]
  <2>1. OpenRetrieverPost(q, p)
    BY <1>9, OpenRetrieverEffect DEF Gathered
  <2>2. /\ q \in RequestState /\ p \in RequestState /\ ReadsInOrder(q)
        /\ ReadLaterNewer(q, active)
    BY <1>9, OpenRetrieverEffect DEF Types, Gathered
  <2>3. UNCHANGED <<active, live, index>> /\ active \in Group \cup {NoGroup} /\ TellsApart
    BY <1>9, SnapshotsAreNoGroups DEF OpenRetriever, published, Types, SharedTypes
  <2> HIDE DEF q, p
  <2>4. ReadLaterNewer(p, active)
    <3>0. Reading(q) /\ EvidenceAssumption
      BY <2>1, EvidenceAssumption DEF OpenRetrieverPost, Reading
    <3>1. CASE q.group = NoGroup
      <4>0. p.retriever \notin Group /\ p.data = q.data /\ p.manifest = q.manifest
            /\ p.group = q.group
        <5> DEFINE served == Served!Active
        <5>1. served = NoSnapshot \/ served \in Snapshot
          BY <2>3 DEF TellsApart
        <5>2. /\ p.retriever = (IF served = NoSnapshot THEN Nothing ELSE served)
              /\ p.data = q.data /\ p.manifest = q.manifest /\ p.group = q.group
          BY <2>1, <3>1 DEF OpenRetrieverPost
        <5> HIDE DEF served
        <5> QED
          BY <2>3, <5>1, <5>2 DEF TellsApart
      <4>1. /\ NoLater(p.group, active) /\ NoLater(p.manifest, active)
            /\ NoLater(p.data, active) /\ NoLater(p.retriever, active)
        BY <4>0, <2>1, <2>2, <2>3, <3>0, <3>1
        DEF ReadLaterNewer, ReadsInOrder, NoLater, TellsApart
      <4>2. Reading(p) => NoLater(p.manifest, p.group) /\ NoLater(p.data, p.group)
        BY <2>1, <2>2, <3>0, <3>1
        DEF OpenRetrieverPost, ReadLaterNewer, ReadsInOrder, NoLater, Reading
      <4>3. p.label \in Group => p.label = p.manifest
        BY <2>1, <2>2, <3>0, <3>1 DEF OpenRetrieverPost, ReadLaterNewer, ReadsInOrder
      <4>4. {p.data, p.manifest} \subseteq Group => p.manifest.turn <= p.data.turn
        BY <2>1, <2>2, <3>0, <3>1
        DEF OpenRetrieverPost, ReadLaterNewer, ReadsInOrder, NoLater
      <4>5. {p.data, p.retriever} \subseteq Group => p.data.turn <= p.retriever.turn
        BY <2>1, <2>2, <2>3, <3>0, <3>1
        DEF OpenRetrieverPost, ReadLaterNewer, ReadsInOrder, NoLater, TellsApart
      <4>6. {p.manifest, p.retriever} \subseteq Group => p.manifest.turn <= p.retriever.turn
        BY <2>1, <2>2, <2>3, <3>0, <3>1
        DEF OpenRetrieverPost, ReadLaterNewer, ReadsInOrder, NoLater, TellsApart
      <4> QED
        BY <4>1, <4>2, <4>3, <4>4, <4>5, <4>6 DEF ReadLaterNewer
    <3>2. CASE q.group # NoGroup /\ ~(rolling # q.group /\ q.group \notin catalog)
      <4>1. /\ NoLater(p.group, active) /\ NoLater(p.manifest, active)
            /\ NoLater(p.data, active) /\ NoLater(p.retriever, active)
        BY <2>1, <2>2, <2>3, <3>0, <3>2
        DEF OpenRetrieverPost, ReadLaterNewer, ReadsInOrder, NoLater, TellsApart
      <4>2. Reading(p) => NoLater(p.manifest, p.group) /\ NoLater(p.data, p.group)
        BY <2>1, <2>2, <3>0, <3>2
        DEF OpenRetrieverPost, ReadLaterNewer, ReadsInOrder, NoLater, Reading
      <4>3. p.label \in Group => p.label = p.manifest
        BY <2>1, <2>2, <3>0, <3>2 DEF OpenRetrieverPost, ReadLaterNewer, ReadsInOrder
      <4>4. {p.data, p.manifest} \subseteq Group => p.manifest.turn <= p.data.turn
        BY <2>1, <2>2, <3>0, <3>2
        DEF OpenRetrieverPost, ReadLaterNewer, ReadsInOrder, NoLater
      <4>5. {p.data, p.retriever} \subseteq Group => p.data.turn <= p.retriever.turn
        BY <2>1, <2>2, <2>3, <3>0, <3>2
        DEF OpenRetrieverPost, ReadLaterNewer, ReadsInOrder, NoLater, TellsApart
      <4>6. {p.manifest, p.retriever} \subseteq Group => p.manifest.turn <= p.retriever.turn
        BY <2>1, <2>2, <2>3, <3>0, <3>2
        DEF OpenRetrieverPost, ReadLaterNewer, ReadsInOrder, NoLater, TellsApart
      <4> QED
        BY <4>1, <4>2, <4>3, <4>4, <4>5, <4>6 DEF ReadLaterNewer
    <3>3. CASE q.group # NoGroup /\ rolling # q.group /\ q.group \notin catalog
      BY <2>1, <3>3, EvidenceAssumption
      DEF OpenRetrieverPost, Ended, ReadLaterNewer, NoLater, Reading
    <3> QED
      BY <3>1, <3>2, <3>3
  <2> QED
    BY <1>9, <2>3, <2>4, OpenRetrieverEffect DEF p, Gathered
<1>10. ASSUME NEW r \in Request, LabelAnswer(r) PROVE \A s \in Request : ReadLaterNewer(requests[s], active)'
  <2> DEFINE q == requests[r]
             p == requests'[r]
  <2>1. LabelAnswerPost(q, p)
    BY <1>10, LabelAnswerEffect DEF Gathered
  <2>2. /\ q \in RequestState /\ p \in RequestState /\ ReadsInOrder(q)
        /\ ReadLaterNewer(q, active)
    BY <1>10, LabelAnswerEffect DEF Types, Gathered
  <2>3. UNCHANGED <<active, live, index>> /\ active \in Group \cup {NoGroup} /\ TellsApart
    BY <1>10, SnapshotsAreNoGroups DEF LabelAnswer, published, Types, SharedTypes
  <2> HIDE DEF q, p
  <2>4. ReadLaterNewer(p, active)
    BY <2>1, <2>2, <2>3, EvidenceAssumption
    DEF LabelAnswerPost, Ended, ReadLaterNewer, Reading, NoLater, TellsApart,
        RequestState, Idle, OnLoop
  <2> QED
    BY <1>10, <2>3, <2>4, LabelAnswerEffect DEF p, Gathered
<1>11. ASSUME NEW r \in Request, Complete(r) PROVE \A s \in Request : ReadLaterNewer(requests[s], active)'
  <2> DEFINE q == requests[r]
             p == requests'[r]
  <2>1. CompletePost(q, p)
    BY <1>11, CompleteEffect DEF Gathered
  <2>2. /\ q \in RequestState /\ p \in RequestState /\ ReadsInOrder(q)
        /\ ReadLaterNewer(q, active)
    BY <1>11, CompleteEffect DEF Types, Gathered
  <2>3. UNCHANGED <<active, live, index>> /\ active \in Group \cup {NoGroup} /\ TellsApart
    BY <1>11, SnapshotsAreNoGroups DEF Complete, published, Types, SharedTypes
  <2> HIDE DEF q, p
  <2>4. ReadLaterNewer(p, active)
    BY <2>1, <2>2, <2>3, EvidenceAssumption
    DEF CompletePost, Ended, ReadLaterNewer, Reading, NoLater, TellsApart,
        RequestState, Idle, OnLoop
  <2> QED
    BY <1>11, <2>3, <2>4, CompleteEffect DEF p, Gathered
<1>12. CASE UNCHANGED vars
  BY <1>12 DEF vars, published, caches, Gathered, ReadLaterNewer
<1> QED
  BY <1>1, <1>2, <1>3, <1>4, <1>5, <1>6, <1>7, <1>8, <1>9, <1>10, <1>11, <1>12
  DEF Next, RequestNext, Publication

(* What every request has gathered is current. *)
Kept == \A s \in Request : Current(requests[s], Now)

(* What a request has gathered stays current until something is published. *)
LEMMA NextCurrent ==
  ASSUME Types, Gathered, Kept, OvertakenTogether, [Next]_vars
  PROVE  \A s \in Request : Current(requests[s], Now)'
<1>1. ASSUME Publication PROVE \A s \in Request : Current(requests[s], Now)'
  <2>1. ASSUME Moved, NEW s \in Request PROVE Current(requests[s], Now)'
    <3> DEFINE q == requests[s]
               p == requests'[s]
               n == Now'
    <3>1. MovedPost(q, p) /\ p.moved \in BOOLEAN
      BY <2>1, MovedEffect DEF RequestState
    <3> HIDE DEF q, p, n
    <3>2. Current(p, n)
      BY <3>1 DEF MovedPost, Current
    <3> QED
      BY <3>2 DEF p, n
  <2>2. CASE UNCHANGED <<requests, active, live, index>>
    <3>1. Now' = Now
      BY <1>1, <2>2, PublicationEffect DEF Types, Now, caches
    <3> QED
      BY <2>2, <3>1 DEF Kept
  <2> QED
    BY <1>1, <2>1, <2>2, PublicationEffect DEF Types
<1>2. ASSUME NEW r \in Request, BeginContext(r) PROVE \A s \in Request : Current(requests[s], Now)'
  <2> DEFINE q == requests[r]
             p == requests'[r]
  <2>1. BeginContextPost(q, p)
    BY <1>2, BeginContextEffect DEF Gathered
  <2>2. q \in RequestState /\ p \in RequestState /\ ReadsInOrder(q) /\ Current(q, Now)
    BY <1>2, BeginContextEffect DEF Types, Gathered, Kept
  <2>3. Now' = Now
    BY <1>2 DEF BeginContext, published, caches, Now
  <2> HIDE DEF q, p
  <2>4. Current(p, Now)
    BY <2>1, <2>2
    DEF BeginContextPost, Ended, Current, ReadsInOrder, Reading, PastManifest, Now,
       RequestState, Idle, OnLoop
  <2> QED
    BY <1>2, <2>3, <2>4, BeginContextEffect DEF p, Gathered, Kept
<1>3. ASSUME NEW r \in Request, ReadPointer(r) PROVE \A s \in Request : Current(requests[s], Now)'
  <2> DEFINE q == requests[r]
             p == requests'[r]
  <2>1. ReadPointerPost(q, p)
    BY <1>3, ReadPointerEffect DEF Gathered
  <2>2. q \in RequestState /\ p \in RequestState /\ ReadsInOrder(q) /\ Current(q, Now)
    BY <1>3, ReadPointerEffect DEF Types, Gathered, Kept
  <2>3. Now' = Now
    BY <1>3 DEF ReadPointer, published, caches, Now
  <2> HIDE DEF q, p
  <2>4. Current(p, Now)
    BY <2>1, <2>2
    DEF ReadPointerPost, Ended, Current, ReadsInOrder, Reading, PastManifest, Now,
       RequestState, Idle, OnLoop
  <2> QED
    BY <1>3, <2>3, <2>4, ReadPointerEffect DEF p, Gathered, Kept
<1>4. ASSUME NEW r \in Request, ReadManifest(r) PROVE \A s \in Request : Current(requests[s], Now)'
  <2> DEFINE q == requests[r]
             p == requests'[r]
  <2>1. ReadManifestPost(q, p)
    BY <1>4, ReadManifestEffect DEF Gathered
  <2>2. q \in RequestState /\ p \in RequestState /\ ReadsInOrder(q) /\ Current(q, Now)
    BY <1>4, ReadManifestEffect DEF Types, Gathered, Kept
  <2>3. Now' = Now
    BY <1>4 DEF ReadManifest, published, caches, Now
  <2> HIDE DEF q, p
  <2>4. Current(p, Now)
    BY <2>1, <2>2
    DEF ReadManifestPost, Ended, Current, ReadsInOrder, Reading, PastManifest, Now,
       RequestState, Idle, OnLoop
  <2> QED
    BY <1>4, <2>3, <2>4, ReadManifestEffect DEF p, Gathered, Kept
<1>5. ASSUME NEW r \in Request, SelectData(r) PROVE \A s \in Request : Current(requests[s], Now)'
  <2> DEFINE q == requests[r]
             p == requests'[r]
  <2>1. SelectDataPost(q, p)
    BY <1>5, SelectDataEffect DEF Gathered
  <2>2. q \in RequestState /\ p \in RequestState /\ ReadsInOrder(q) /\ Current(q, Now)
    BY <1>5, SelectDataEffect DEF Types, Gathered, Kept
  <2>3. Now' = Now
    BY <1>5 DEF SelectData, published, caches, Now
  <2> HIDE DEF q, p
  <2>4. Current(p, Now)
    BY <2>1, <2>2
    DEF SelectDataPost, Ended, Current, ReadsInOrder, Reading, PastManifest, Now,
       RequestState, Idle, OnLoop
  <2> QED
    BY <1>5, <2>3, <2>4, SelectDataEffect DEF p, Gathered, Kept
<1>6. ASSUME NEW r \in Request, ReadShown(r) PROVE \A s \in Request : Current(requests[s], Now)'
  <2> DEFINE q == requests[r]
             p == requests'[r]
  <2>1. ReadShownPost(q, p)
    BY <1>6, ReadShownEffect DEF Gathered
  <2>2. q \in RequestState /\ p \in RequestState /\ ReadsInOrder(q) /\ Current(q, Now)
    BY <1>6, ReadShownEffect DEF Types, Gathered, Kept
  <2>3. Now' = Now
    BY <1>6 DEF ReadShown, published, caches, Now
  <2> HIDE DEF q, p
  <2>4. Current(p, Now)
    BY <2>1, <2>2
    DEF ReadShownPost, Ended, Current, ReadsInOrder, Reading, PastManifest, Now,
       RequestState, Idle, OnLoop
  <2> QED
    BY <1>6, <2>3, <2>4, ReadShownEffect DEF p, Gathered, Kept
<1>7. ASSUME NEW r \in Request, ResumeContext(r) PROVE \A s \in Request : Current(requests[s], Now)'
  <2> DEFINE q == requests[r]
             p == requests'[r]
  <2>1. ResumeContextPost(q, p)
    BY <1>7, ResumeContextEffect DEF Gathered
  <2>2. q \in RequestState /\ p \in RequestState /\ ReadsInOrder(q) /\ Current(q, Now)
    BY <1>7, ResumeContextEffect DEF Types, Gathered, Kept
  <2>3. Now' = Now
    BY <1>7 DEF ResumeContext, published, caches, Now
  <2> HIDE DEF q, p
  <2>4. Current(p, Now)
    BY <2>1, <2>2
    DEF ResumeContextPost, Ended, Current, ReadsInOrder, Reading, PastManifest, Now,
       RequestState, Idle, OnLoop
  <2> QED
    BY <1>7, <2>3, <2>4, ResumeContextEffect DEF p, Gathered, Kept
<1>8. ASSUME NEW r \in Request, OpenRepository(r) PROVE \A s \in Request : Current(requests[s], Now)'
  <2> DEFINE q == requests[r]
             p == requests'[r]
  <2>1. OpenRepositoryPost(q, p)
    BY <1>8, OpenRepositoryEffect DEF Gathered
  <2>2. q \in RequestState /\ p \in RequestState /\ ReadsInOrder(q) /\ Current(q, Now)
    BY <1>8, OpenRepositoryEffect DEF Types, Gathered, Kept
  <2>3. Now' = Now
    BY <1>8 DEF OpenRepository, published, caches, Now
  <2> HIDE DEF q, p
  <2>4. Current(p, Now)
    BY <2>1, <2>2
    DEF OpenRepositoryPost, Ended, Current, ReadsInOrder, Reading, PastManifest, Now,
       RequestState, Idle, OnLoop
  <2> QED
    BY <1>8, <2>3, <2>4, OpenRepositoryEffect DEF p, Gathered, Kept
<1>9. ASSUME NEW r \in Request, OpenRetriever(r) PROVE \A s \in Request : Current(requests[s], Now)'
  <2> DEFINE q == requests[r]
             p == requests'[r]
             n == Now'
  <2>1. OpenRetrieverPost(q, p)
    BY <1>9, OpenRetrieverEffect DEF Gathered
  <2>2. q \in RequestState /\ p \in RequestState /\ ReadsInOrder(q) /\ Current(q, Now)
    BY <1>9, OpenRetrieverEffect DEF Types, Gathered, Kept
  <2>3. /\ n.active = active /\ n.live = live /\ n.label = index.label /\ n.rolling = rolling'
        /\ TellsApart
    BY <1>9, SnapshotsAreNoGroups DEF OpenRetriever, published, Types, Now
  <2>4. ASSUME NEW s \in Request, requests[s].pc \notin Idle, ~requests[s].moved
        PROVE  n.rolling = rolling \/ n.rolling = active
    <3>1. Reading(q)
      BY <2>1 DEF OpenRetrieverPost, Reading
    <3>2. q.group = active
      BY <2>4, <3>1 DEF OvertakenTogether
    <3> QED
      BY <2>1, <2>3, <3>2 DEF OpenRetrieverPost
  <2>5. ASSUME NEW s \in Request \ {r} PROVE Current(requests'[s], n)
    <3> DEFINE o == requests[s]
    <3>1. Current(o, Now) /\ requests'[s] = o
      BY <1>9, OpenRetrieverEffect DEF Gathered, Kept
    <3>2. o.pc \notin Idle /\ ~o.moved => n.rolling = rolling \/ n.rolling = active
      BY <2>4
    <3> HIDE DEF o, n
    <3>3. Current(o, n)
      BY <2>3, <3>1, <3>2 DEF Current, Now
    <3> QED
      BY <3>1, <3>3
  <2> HIDE DEF q, p, n
  <2>6. Current(p, n)
    <3> DEFINE served == Served!Active
    <3>1. /\ served \in {live, NoSnapshot}
          /\ served # NoSnapshot => index.label = live
      BY <2>3 DEF TellsApart
    <3>2. /\ q.pc = "open" /\ q.read \in {3, 4}
          /\ Reading(q) /\ PastManifest(q)
      BY <2>1 DEF OpenRetrieverPost, Reading, PastManifest
    <3>3. CASE q.group = NoGroup
      <4>1. /\ p.read = q.read /\ p.manifest = q.manifest /\ p.data = q.data
            /\ p.label = q.label /\ p.moved = q.moved /\ rolling' = rolling
            /\ p.retriever = (IF served = NoSnapshot THEN Nothing ELSE served)
            /\ p.pc \in {"label", "answering"}
        BY <2>1, <3>3 DEF OpenRetrieverPost
      <4> HIDE DEF served
      <4> QED
        BY <2>2, <2>3, <3>1, <3>2, <3>3, <4>1
        DEF Current, Now, Reading, PastManifest, Idle
    <3>4. CASE q.group # NoGroup /\ ~(rolling # q.group /\ q.group \notin catalog)
      <4>1. /\ p.read = q.read /\ p.manifest = q.manifest /\ p.data = q.data
            /\ p.label = q.label /\ p.moved = q.moved /\ rolling' = q.group
            /\ p.retriever = q.group
            /\ p.pc \in {"label", "answering"}
        BY <2>1, <3>4 DEF OpenRetrieverPost
      <4> QED
        BY <2>2, <2>3, <3>2, <3>4, <4>1 DEF Current, Now, Reading, PastManifest, Idle
    <3>5. CASE q.group # NoGroup /\ rolling # q.group /\ q.group \notin catalog
      BY <2>1, <3>5 DEF OpenRetrieverPost, Ended, Current, Idle
    <3> QED
      BY <3>3, <3>4, <3>5
  <2>7. \A s \in Request : Current(requests'[s], n)
    BY <2>5, <2>6 DEF p
  <2> QED
    BY <2>7 DEF n
<1>10. ASSUME NEW r \in Request, LabelAnswer(r) PROVE \A s \in Request : Current(requests[s], Now)'
  <2> DEFINE q == requests[r]
             p == requests'[r]
  <2>1. LabelAnswerPost(q, p)
    BY <1>10, LabelAnswerEffect DEF Gathered
  <2>2. q \in RequestState /\ p \in RequestState /\ ReadsInOrder(q) /\ Current(q, Now)
    BY <1>10, LabelAnswerEffect DEF Types, Gathered, Kept
  <2>3. Now' = Now
    BY <1>10 DEF LabelAnswer, published, caches, Now
  <2> HIDE DEF q, p
  <2>4. Current(p, Now)
    BY <2>1, <2>2
    DEF LabelAnswerPost, Ended, Current, ReadsInOrder, Reading, PastManifest, Now,
       RequestState, Idle, OnLoop
  <2> QED
    BY <1>10, <2>3, <2>4, LabelAnswerEffect DEF p, Gathered, Kept
<1>11. ASSUME NEW r \in Request, Complete(r) PROVE \A s \in Request : Current(requests[s], Now)'
  <2> DEFINE q == requests[r]
             p == requests'[r]
  <2>1. CompletePost(q, p)
    BY <1>11, CompleteEffect DEF Gathered
  <2>2. q \in RequestState /\ p \in RequestState /\ ReadsInOrder(q) /\ Current(q, Now)
    BY <1>11, CompleteEffect DEF Types, Gathered, Kept
  <2>3. Now' = Now
    BY <1>11 DEF Complete, published, caches, Now
  <2> HIDE DEF q, p
  <2>4. Current(p, Now)
    BY <2>1, <2>2
    DEF CompletePost, Ended, Current, ReadsInOrder, Reading, PastManifest, Now,
       RequestState, Idle, OnLoop
  <2> QED
    BY <1>11, <2>3, <2>4, CompleteEffect DEF p, Gathered, Kept
<1>12. CASE UNCHANGED vars
  BY <1>12 DEF vars, published, caches, Kept, Now, Current
<1> QED
  BY <1>1, <1>2, <1>3, <1>4, <1>5, <1>6, <1>7, <1>8, <1>9, <1>10, <1>11, <1>12
  DEF Next, RequestNext, Publication

(* A request under way keeps what it noticed; one that begins to read takes *)
(* the group of the pointer.                                               *)
Follows(q, p) ==
  /\ p.pc \notin Idle => loop = NoRequest \/ (q.pc \notin Idle /\ p.moved = q.moved)
  /\ Reading(p) => p.group = active \/ (Reading(q) /\ p.group = q.group)

LEMMA Overtaking ==
  ASSUME LoopHeld, OvertakenTogether, active' = active, NEW t \in Request,
         \A s \in Request \ {t} : requests'[s] = requests[s],
         Follows(requests[t], requests'[t])
  PROVE  OvertakenTogether'
<1> SUFFICES ASSUME NEW r \in Request, NEW s \in Request, Reading(requests'[s]),
                    requests'[s].group # active, requests'[r].pc \notin Idle
             PROVE  requests'[r].moved
  BY DEF OvertakenTogether, Reading
<1> DEFINE qt == requests[t]
           pt == requests'[t]
<1>1. Reading(requests[s]) /\ requests[s].group # active
  BY DEF Follows
<1>2. loop # NoRequest
  BY <1>1, EvidenceAssumption DEF LoopHeld, Reading, OnLoop
<1>3. requests[r].pc \notin Idle /\ requests'[r].moved = requests[r].moved
  BY <1>2 DEF Follows
<1> QED
  BY <1>1, <1>3 DEF OvertakenTogether

(* When one request was overtaken by a publication, all under way noticed. *)
LEMMA NextOvertakenTogether ==
  ASSUME Types, Gathered, LoopHeld, OvertakenTogether, [Next]_vars
  PROVE  OvertakenTogether'
<1>1. ASSUME Publication PROVE OvertakenTogether'
  <2>1. ASSUME Moved, NEW s \in Request, requests'[s].pc \notin Idle PROVE requests'[s].moved
    BY <2>1, MovedEffect DEF MovedPost
  <2>2. CASE Moved
    BY <2>1, <2>2 DEF OvertakenTogether
  <2>3. CASE UNCHANGED <<requests, active, live, index>>
    BY <2>3 DEF OvertakenTogether, Reading
  <2> QED
    BY <1>1, <2>2, <2>3, PublicationEffect DEF Types
<1>2. ASSUME NEW r \in Request, BeginContext(r) PROVE OvertakenTogether'
  <2> DEFINE q == requests[r]
             p == requests'[r]
  <2>1. BeginContextPost(q, p)
    BY <1>2, BeginContextEffect DEF Gathered
  <2> HIDE DEF q, p
  <2>2. Follows(q, p)
    BY <2>1 DEF BeginContextPost, Ended, Follows, Reading, Idle
  <2>3. active' = active /\ \A s \in Request \ {r} : requests'[s] = requests[s]
    BY <1>2, BeginContextEffect DEF BeginContext, published, Gathered
  <2> QED
    BY <2>2, <2>3, Overtaking DEF q, p
<1>3. ASSUME NEW r \in Request, ReadPointer(r) PROVE OvertakenTogether'
  <2> DEFINE q == requests[r]
             p == requests'[r]
  <2>1. ReadPointerPost(q, p)
    BY <1>3, ReadPointerEffect DEF Gathered
  <2> HIDE DEF q, p
  <2>2. Follows(q, p)
    BY <2>1 DEF ReadPointerPost, Ended, Follows, Reading, Idle
  <2>3. active' = active /\ \A s \in Request \ {r} : requests'[s] = requests[s]
    BY <1>3, ReadPointerEffect DEF ReadPointer, published, Gathered
  <2> QED
    BY <2>2, <2>3, Overtaking DEF q, p
<1>4. ASSUME NEW r \in Request, ReadManifest(r) PROVE OvertakenTogether'
  <2> DEFINE q == requests[r]
             p == requests'[r]
  <2>1. ReadManifestPost(q, p)
    BY <1>4, ReadManifestEffect DEF Gathered
  <2> HIDE DEF q, p
  <2>2. Follows(q, p)
    BY <2>1 DEF ReadManifestPost, Ended, Follows, Reading, Idle
  <2>3. active' = active /\ \A s \in Request \ {r} : requests'[s] = requests[s]
    BY <1>4, ReadManifestEffect DEF ReadManifest, published, Gathered
  <2> QED
    BY <2>2, <2>3, Overtaking DEF q, p
<1>5. ASSUME NEW r \in Request, SelectData(r) PROVE OvertakenTogether'
  <2> DEFINE q == requests[r]
             p == requests'[r]
  <2>1. SelectDataPost(q, p)
    BY <1>5, SelectDataEffect DEF Gathered
  <2> HIDE DEF q, p
  <2>2. Follows(q, p)
    BY <2>1 DEF SelectDataPost, Ended, Follows, Reading, Idle
  <2>3. active' = active /\ \A s \in Request \ {r} : requests'[s] = requests[s]
    BY <1>5, SelectDataEffect DEF SelectData, published, Gathered
  <2> QED
    BY <2>2, <2>3, Overtaking DEF q, p
<1>6. ASSUME NEW r \in Request, ReadShown(r) PROVE OvertakenTogether'
  <2> DEFINE q == requests[r]
             p == requests'[r]
  <2>1. ReadShownPost(q, p)
    BY <1>6, ReadShownEffect DEF Gathered
  <2> HIDE DEF q, p
  <2>2. Follows(q, p)
    BY <2>1 DEF ReadShownPost, Ended, Follows, Reading, Idle
  <2>3. active' = active /\ \A s \in Request \ {r} : requests'[s] = requests[s]
    BY <1>6, ReadShownEffect DEF ReadShown, published, Gathered
  <2> QED
    BY <2>2, <2>3, Overtaking DEF q, p
<1>7. ASSUME NEW r \in Request, ResumeContext(r) PROVE OvertakenTogether'
  <2> DEFINE q == requests[r]
             p == requests'[r]
  <2>1. ResumeContextPost(q, p)
    BY <1>7, ResumeContextEffect DEF Gathered
  <2> HIDE DEF q, p
  <2>2. Follows(q, p)
    BY <2>1 DEF ResumeContextPost, Ended, Follows, Reading, Idle
  <2>3. active' = active /\ \A s \in Request \ {r} : requests'[s] = requests[s]
    BY <1>7, ResumeContextEffect DEF ResumeContext, published, Gathered
  <2> QED
    BY <2>2, <2>3, Overtaking DEF q, p
<1>8. ASSUME NEW r \in Request, OpenRepository(r) PROVE OvertakenTogether'
  <2> DEFINE q == requests[r]
             p == requests'[r]
  <2>1. OpenRepositoryPost(q, p)
    BY <1>8, OpenRepositoryEffect DEF Gathered
  <2> HIDE DEF q, p
  <2>2. Follows(q, p)
    BY <2>1 DEF OpenRepositoryPost, Ended, Follows, Reading, Idle
  <2>3. active' = active /\ \A s \in Request \ {r} : requests'[s] = requests[s]
    BY <1>8, OpenRepositoryEffect DEF OpenRepository, published, Gathered
  <2> QED
    BY <2>2, <2>3, Overtaking DEF q, p
<1>9. ASSUME NEW r \in Request, OpenRetriever(r) PROVE OvertakenTogether'
  <2> DEFINE q == requests[r]
             p == requests'[r]
  <2>1. OpenRetrieverPost(q, p)
    BY <1>9, OpenRetrieverEffect DEF Gathered
  <2> HIDE DEF q, p
  <2>2. Follows(q, p)
    BY <2>1 DEF OpenRetrieverPost, Ended, Follows, Reading, Idle
  <2>3. active' = active /\ \A s \in Request \ {r} : requests'[s] = requests[s]
    BY <1>9, OpenRetrieverEffect DEF OpenRetriever, published, Gathered
  <2> QED
    BY <2>2, <2>3, Overtaking DEF q, p
<1>10. ASSUME NEW r \in Request, LabelAnswer(r) PROVE OvertakenTogether'
  <2> DEFINE q == requests[r]
             p == requests'[r]
  <2>1. LabelAnswerPost(q, p)
    BY <1>10, LabelAnswerEffect DEF Gathered
  <2> HIDE DEF q, p
  <2>2. Follows(q, p)
    BY <2>1 DEF LabelAnswerPost, Ended, Follows, Reading, Idle
  <2>3. active' = active /\ \A s \in Request \ {r} : requests'[s] = requests[s]
    BY <1>10, LabelAnswerEffect DEF LabelAnswer, published, Gathered
  <2> QED
    BY <2>2, <2>3, Overtaking DEF q, p
<1>11. ASSUME NEW r \in Request, Complete(r) PROVE OvertakenTogether'
  <2> DEFINE q == requests[r]
             p == requests'[r]
  <2>1. CompletePost(q, p)
    BY <1>11, CompleteEffect DEF Gathered
  <2> HIDE DEF q, p
  <2>2. Follows(q, p)
    BY <2>1 DEF CompletePost, Ended, Follows, Reading, Idle
  <2>3. active' = active /\ \A s \in Request \ {r} : requests'[s] = requests[s]
    BY <1>11, CompleteEffect DEF Complete, published, Gathered
  <2> QED
    BY <2>2, <2>3, Overtaking DEF q, p
<1>12. CASE UNCHANGED vars
  BY <1>12 DEF vars, published, caches, OvertakenTogether, Reading
<1> QED
  BY <1>1, <1>2, <1>3, <1>4, <1>5, <1>6, <1>7, <1>8, <1>9, <1>10, <1>11, <1>12
  DEF Next, RequestNext, Publication

-----------------------------------------------------------------------------
(* Nothing is published and no request has begun. *)
LEMMA InitGathering == Init => GatheringInv
<1> SUFFICES ASSUME Init PROVE GatheringInv
  OBVIOUS
<1>1. SharedTypes
  BY DEF Init, SharedTypes, Groups!Init, Served!Init, Served!NoIndex, Served!Known
<1>2. requests \in [Request -> RequestState]
  BY NewRequestType DEF Init
<1>3. ASSUME NEW r \in Request PROVE requests[r] = NewRequest
  BY DEF Init
<1>4. /\ NewRequest.pc = "new" /\ NewRequest.read = 1 /\ NewRequest.group = NoGroup
      /\ NewRequest.manifest = NoGroup /\ NewRequest.data = Nothing
      /\ NewRequest.label = Nothing /\ NewRequest.retriever = Nothing
      /\ NewRequest.moved = FALSE
  BY DEF NewRequest
<1>5. LoopHeld
  BY <1>3, <1>4, EvidenceAssumption DEF Init, LoopHeld, OnLoop
<1>6. OvertakenTogether
  BY <1>3, <1>4 DEF OvertakenTogether, Reading
<1> DEFINE N == NewRequest
<1>7. /\ N.pc = "new" /\ N.read = 1 /\ N.group = NoGroup /\ N.manifest = NoGroup
      /\ N.data = Nothing /\ N.label = Nothing /\ N.retriever = Nothing /\ N.moved = FALSE
  BY <1>4
<1> HIDE DEF N
<1>8. ReadsInOrder(N)
  BY <1>7 DEF ReadsInOrder
<1>9. ReadLaterNewer(N, active)
  BY <1>7, EvidenceAssumption DEF ReadLaterNewer, NoLater, Reading
<1>10. Current(N, Now)
  BY <1>7 DEF Current, Idle
<1> QED
  BY <1>1, <1>2, <1>3, <1>5, <1>6, <1>8, <1>9, <1>10 DEF GatheringInv, N

(* Every step keeps what the requests have gathered in order. *)
LEMMA NextGathering == GatheringInv /\ [Next]_vars => GatheringInv'
<1> SUFFICES ASSUME GatheringInv, [Next]_vars PROVE GatheringInv'
  OBVIOUS
<1>1. Types /\ LoopHeld /\ Gathered /\ Kept /\ OvertakenTogether
  BY DEF GatheringInv, Types, Gathered, Kept
<1>2. SharedTypes' /\ requests' \in [Request -> RequestState]
  BY <1>1, NextSharedTypes, NextRequestTypes
<1>3. LoopHeld' /\ OvertakenTogether'
  BY <1>1, NextLoopHeld, NextOvertakenTogether
<1>4. \A s \in Request : ReadsInOrder(requests[s])'
  BY <1>1, NextReadsInOrder
<1>5. \A s \in Request : ReadLaterNewer(requests[s], active)'
  BY <1>1, NextReadLaterNewer
<1>6. \A s \in Request : Current(requests[s], Now)'
  BY <1>1, NextCurrent
<1> QED
  BY <1>2, <1>3, <1>4, <1>5, <1>6 DEF GatheringInv

(* In every state of every execution the published data, the caches and    *)
(* the requests have their types, the loop is held by the one request that *)
(* prepares its context, its reads come in their order, what it reads      *)
(* later was published later, whatever the timestamps of the groups, and   *)
(* what it gathered is current until it notices a publication.             *)
THEOREM Gathering == Spec => []GatheringInv
<1> QED
  BY InitGathering, NextGathering, PTL DEF Spec

(* While nothing is published, an answer's data, its label and its         *)
(* retriever are of one snapshot and the retriever is still open.          *)
THEOREM EvidenceAgreement == Spec => []EvidenceInv
<1>1. GatheringInv => EvidenceInv
  <2> SUFFICES ASSUME GatheringInv PROVE EvidenceInv
    OBVIOUS
  <2>1. EvidenceTypeOK
    BY DEF GatheringInv, SharedTypes, LoopHeld, RequestState, EvidenceTypeOK
  <2>2. ASSUME NEW r \in Request, Answering(r), ~requests[r].moved
        PROVE  Agree(r) /\ (requests[r].retriever \in Group => rolling = requests[r].retriever)
    <3> DEFINE q == requests[r]
    <3>1. q \in RequestState /\ ReadsInOrder(q) /\ Current(q, Now) /\ SharedTypes
      BY DEF GatheringInv
    <3>2. q.pc = "answering" /\ ~q.moved /\ TellsApart
      BY <2>2, <3>1, SnapshotsAreNoGroups DEF Answering
    <3> HIDE DEF q
    <3>3. /\ q.data # Nothing => q.data = IF active # NoGroup THEN active ELSE live
          /\ q.retriever # Nothing =>
               IF active # NoGroup THEN q.retriever = active /\ rolling = active
               ELSE q.retriever = live /\ index.label = live /\ live # NoSnapshot
          /\ q.label = IF active # NoGroup THEN active
                       ELSE IF index.label = NoSnapshot THEN Nothing ELSE index.label
      BY <3>1, <3>2 DEF ReadsInOrder, Current, Now, Idle
    <3>4. /\ q.retriever # Nothing => q.label = q.retriever /\ q.data \in {Nothing, q.retriever}
          /\ q.data \in Group => q.label = q.data
          /\ q.retriever \in Group => rolling = q.retriever
      BY <3>1, <3>2, <3>3, EvidenceAssumption
      DEF TellsApart, SharedTypes, RequestState, Sources
    <3> QED
      BY <3>4 DEF Agree, q
  <2> QED
    BY <2>1, <2>2 DEF EvidenceInv, EvidenceAgrees
<1> QED
  BY <1>1, Gathering, PTL

(* However publications fall between its reads, the data of an answer was  *)
(* never published before its label, nor its retriever before its data.    *)
THEOREM NewerEvidence == Spec => []EvidenceOnlyNewer
<1>1. GatheringInv => EvidenceOnlyNewer
  <2> SUFFICES ASSUME GatheringInv, NEW r \in Request, Answering(r)
               PROVE  LET q == requests[r]
                      IN /\ {q.data, q.label} \subseteq Group => q.label.turn <= q.data.turn
                         /\ {q.data, q.retriever} \subseteq Group => q.data.turn <= q.retriever.turn
                         /\ {q.label, q.retriever} \subseteq Group => q.label.turn <= q.retriever.turn
    BY DEF EvidenceOnlyNewer
  <2> DEFINE q == requests[r]
  <2>1. ReadLaterNewer(q, active)
    BY DEF GatheringInv
  <2> HIDE DEF q
  <2>2. /\ {q.data, q.label} \subseteq Group => q.label.turn <= q.data.turn
        /\ {q.data, q.retriever} \subseteq Group => q.data.turn <= q.retriever.turn
        /\ {q.label, q.retriever} \subseteq Group => q.label.turn <= q.retriever.turn
    BY <2>1 DEF ReadLaterNewer
  <2> QED
    BY <2>2 DEF q
<1> QED
  BY <1>1, Gathering, PTL
=============================================================================
