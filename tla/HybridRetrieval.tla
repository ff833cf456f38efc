-------------------------- MODULE HybridRetrieval ---------------------------
(***************************************************************************)
(* The hybrid retriever: its vector index on disk, which outlives the      *)
(* process and is reused when the manifest beside it fits, and its search, *)
(* which fuses a lexical and a dense ranking, lane by lane.                *)
(*                                                                         *)
(* A release is the process's code and configuration: the texts it makes   *)
(* of the snapshot's documents, their metadata, and the embedding model.   *)
(* A document is its position; what the two rankings of a query are is an  *)
(* input.  The scores of the lexical index are those of its ranking, for   *)
(* the full index and for the cached one of a scope alike.                 *)
(***************************************************************************)
EXTENDS Integers, Sequences, FiniteSets, SequencesExt

CONSTANTS
  Docs,        \* the documents: a sequence of [scope, type, mode]
  Releases,    \* records [texts, metadata, model]: any may follow any other
  Requests,    \* records [scope, mode, lanes], lanes a sequence of types
  AnyType,     \* the global lane's type, and the mode of what has none
  BatchSize,   \* EMBED_BATCH_SIZE
  TopK,        \* top_k_bm25 and top_k_dense
  FinalTopK,   \* final_top_k and meta_lane_top_k
  DenseLimit,  \* max(top_k * 3, 20)
  RrfK         \* RETRIEVAL_RRF_K

ASSUME RetrievalAssumption ==
  /\ Docs # <<>>
  /\ {BatchSize, TopK, FinalTopK, DenseLimit, RrfK} \subseteq Nat \ {0}

VARIABLES
  release,   \* the code that runs, or ran last
  manifest,  \* manifest.json, or NoManifest
  points,    \* the collection: a sequence of points, or NoCollection
  begun,     \* history: the release that last began to build the collection
  status,    \* "down", "building", "dense", "lexical"
  found      \* the last search: its request, rankings and merged candidates

vars == <<release, manifest, points, begun, status, found>>

NoManifest == [texts |-> "none", metadata |-> "none", model |-> "none"]
NoCollection == <<"absent">>
NoSearch == [query |-> "none", lanes |-> <<>>, merged |-> {}]

Size == Len(Docs)
Points(r, count) == [i \in 1..count |-> <<r.texts, r.model>>]

Init ==
  /\ release \in Releases
  /\ manifest = NoManifest /\ points = NoCollection /\ begun = NoManifest
  /\ status = "down" /\ found = NoSearch

-----------------------------------------------------------------------------
(* HybridRetriever.__init__: the index.                                    *)


SameDocuments(r, s) == r.texts = s.texts /\ r.metadata = s.metadata

(* The documents are those of the manifest, or what was embedded is. *)
CanReusePersistedIndex(r) ==
  /\ \/ SameDocuments(manifest, r)
     \/ manifest.texts = r.texts /\ manifest.model = r.model
  /\ points # NoCollection

Start ==
  /\ status = "down"
  /\ IF CanReusePersistedIndex(release)
     THEN status' = "dense" /\ UNCHANGED <<points, begun>>
     ELSE status' = "building" /\ points' = <<>> /\ begun' = release  \* deleted, created anew
  /\ UNCHANGED <<release, manifest, found>>

(* _build_dense_index: one batch embedded and stored, the manifest last. *)
StoreBatch ==
  /\ status = "building" /\ Len(points) < Size
  /\ LET stored == Len(points) + BatchSize
     IN  points' = Points(release, IF stored > Size THEN Size ELSE stored)
  /\ UNCHANGED <<release, manifest, begun, status, found>>

FinishIndex ==
  /\ status = "building" /\ Len(points) = Size
  /\ manifest' = release /\ status' = "dense"
  /\ UNCHANGED <<release, points, begun, found>>

(* The embedding service fails: the lexical index answers alone. *)
EmbeddingFails ==
  /\ status = "building"
  /\ status' = "lexical"
  /\ UNCHANGED <<release, manifest, points, begun, found>>

(* The process ends, at any point; the same release follows, a later one,  *)
(* an earlier one, or one configured with another model.                   *)
Stop ==
  /\ status # "down"
  /\ status' = "down" /\ found' = NoSearch
  /\ release' \in Releases
  /\ UNCHANGED <<manifest, points, begun>>

-----------------------------------------------------------------------------
(* bm25_search, dense_search: rankings are sequences of documents.         *)

Fits(d, request, type) ==
  /\ type # AnyType => Docs[d].type = type
  /\ Docs[d].scope = request.scope
Matches(d, request, type) ==
  /\ Fits(d, request, type)
  /\ request.mode = AnyType \/ Docs[d].mode \in {AnyType, request.mode}

Upto(seq, n) == SubSeq(seq, 1, IF n < Len(seq) THEN n ELSE Len(seq))

(* Seeded fault: the ranking is cut before it is filtered. *)
LexicalSearchCut(ranking, request, type) ==
  SelectSeq(Upto(ranking, TopK), LAMBDA d : Matches(d, request, type))

LexicalSearch(ranking, request, type) ==
  Upto(SelectSeq(ranking, LAMBDA d : Matches(d, request, type)), TopK)

(* The store filters the scope and the type and returns DenseLimit points; *)
(* the mode is looked at afterwards.                                       *)
DenseSearch(ranking, request, type) ==
  IF status # "dense" THEN <<>>
  ELSE LET returned == Upto(SelectSeq(ranking, LAMBDA d : Fits(d, request, type)), DenseLimit)
       IN  Upto(SelectSeq(returned, LAMBDA d : Matches(d, request, type)), TopK)

-----------------------------------------------------------------------------
(* hybrid_search: the fusion, in integers.                                 *)

Rank(results, d) == CHOOSE i \in DOMAIN results : results[i] = d

(* normalize_scores: the position in a ranking mapped to 0..Size, all the  *)
(* same for a single result.                                               *)
Normalized(results, d) ==
  IF d \notin Range(results) THEN 0
  ELSE IF Len(results) = 1 THEN Size
  ELSE (Size * (Len(results) - Rank(results, d))) \div (Len(results) - 1)

(* The product of all RrfK + rank, to compare the sums of their inverses. *)
Common == FoldLeft(LAMBDA p, i : p * (RrfK + i), 1, [i \in 1..Size |-> i])
Reciprocal(results, d) ==
  IF d \in Range(results) THEN Common \div (RrfK + Rank(results, d)) ELSE 0

(* A side that found nothing has no weight; both sides weigh the same. *)
Weight(side, other) == IF side = <<>> THEN 0 ELSE IF other = <<>> THEN 2 ELSE 1

(* Seeded fault: a document the lexical side missed gets its best rank. *)
ScoreMissedFirst(fusion, lexical, dense, d) ==
  Weight(lexical, dense) * (IF d \in Range(lexical) THEN Reciprocal(lexical, d) ELSE Common) +
  Weight(dense, lexical) * Reciprocal(dense, d)

Score(fusion, lexical, dense, d) ==
  IF fusion = "rrf"
  THEN Weight(lexical, dense) * Reciprocal(lexical, d) + Weight(dense, lexical) * Reciprocal(dense, d)
  ELSE Weight(lexical, dense) * Normalized(lexical, d) + Weight(dense, lexical) * Normalized(dense, d)

(* Sorted by score; documents of the same score in the order they came. *)
HybridSearch(fusion, lexical, dense) ==
  LET came == lexical \o SelectSeq(dense, LAMBDA d : d \notin Range(lexical))
      before(d, e) == \/ Score(fusion, lexical, dense, d) > Score(fusion, lexical, dense, e)
                      \/ /\ Score(fusion, lexical, dense, d) = Score(fusion, lexical, dense, e)
                         /\ Rank(came, d) < Rank(came, e)
      order(d) == 1 + Cardinality({e \in Range(came) : before(e, d)})
  IN  Upto([i \in DOMAIN came |-> CHOOSE d \in Range(came) : order(d) = i], FinalTopK)

-----------------------------------------------------------------------------
(* retrieve_meta_candidates: the lanes merged by document.                 *)

Lane(type, request, rankings) ==
  LET lexical == LexicalSearch(rankings.lexical, request, type)
      dense == DenseSearch(rankings.dense, request, type)
  IN  [type |-> type, lexical |-> lexical, dense |-> dense,
       hits |-> HybridSearch(rankings.fusion, lexical, dense),
       score |-> [d \in Range(lexical) \cup Range(dense) |->
                    Score(rankings.fusion, lexical, dense, d)]]

(* Seeded fault: the lane of a better hit replaces the lanes before it. *)
JoinedReplacing(candidate, lane, d) ==
  [doc |-> d, score |-> lane.score[d], lanes |-> {lane.type}]

(* The better hit is kept, and every lane that found the document. *)
Joined(candidate, lane, d) ==
  [doc |-> d, lanes |-> candidate.lanes \cup {lane.type},
   score |-> IF lane.score[d] > candidate.score THEN lane.score[d] ELSE candidate.score]

MergeLane(merged, lane) ==
  LET new == {d \in Range(lane.hits) : \A c \in merged : c.doc # d}
  IN  {IF c.doc \in Range(lane.hits) THEN Joined(c, lane, c.doc) ELSE c : c \in merged}
      \cup {[doc |-> d, score |-> lane.score[d], lanes |-> {lane.type}] : d \in new}

Rankings == {p \in [1..Size -> 1..Size] : IsInjective(p)}

(* Searches are independent: one is remembered until the next failure.     *)
Search ==
  /\ status \in {"dense", "lexical"} /\ found = NoSearch
  /\ \E request \in Requests, fusion \in {"rrf", "weighted"},
        lexical \in Rankings, dense \in Rankings :
       LET rankings == [lexical |-> lexical, dense |-> dense, fusion |-> fusion]
           lanes == [i \in DOMAIN request.lanes |-> Lane(request.lanes[i], request, rankings)]
       IN  found' = [query |-> <<request, fusion>>, lanes |-> lanes,
                     merged |-> FoldLeft(MergeLane, {}, lanes)]
  /\ UNCHANGED <<release, manifest, points, begun, status>>

(* The query cannot be embedded: the search raises, the lexical ranking too *)
(* is lost to it.                                                          *)
SearchFails ==
  /\ status = "dense"
  /\ found' = NoSearch
  /\ UNCHANGED <<release, manifest, points, begun, status>>

Next ==
  \/ Start \/ StoreBatch \/ FinishIndex \/ EmbeddingFails \/ Stop
  \/ Search \/ SearchFails

Spec == Init /\ [][Next]_vars

-----------------------------------------------------------------------------
(* Properties.                                                             *)


(* Without the two, and not so: whatever was built before, the index that  *)
(* is served is the running release's.                                     *)
OwnIndexAlways == status = "dense" => points = Points(release, Size)

(* Fusing the two rankings never contradicts them where they agree: a      *)
(* document that neither side ranks behind another, or misses while it     *)
(* finds the other, comes before it, also when a side found nothing and    *)
(* when the lists are cut.                                                 *)
NotBehind(results, d, e) ==
  e \in Range(results) => d \in Range(results) /\ Rank(results, d) < Rank(results, e)
FusedOrder ==
  \A i \in DOMAIN found.lanes :
    LET lane == found.lanes[i]
    IN  \A e \in Range(lane.hits), d \in (Range(lane.lexical) \cup Range(lane.dense)) :
          (d # e /\ NotBehind(lane.lexical, d, e) /\ NotBehind(lane.dense, d, e))
             => d \in Range(lane.hits) /\ Rank(lane.hits, d) < Rank(lane.hits, e)

(* A lane that has room for every document that matches the request finds  *)
(* them all: what the dense side loses by looking at the mode only after   *)
(* the store cut its answer, the lexical side makes up for.                *)
MatchingFound ==
  \A i \in DOMAIN found.lanes :
    LET lane == found.lanes[i]
        matching == {d \in 1..Size : Matches(d, found.query[1], lane.type)}
    IN  Cardinality(matching) <= TopK /\ Cardinality(matching) <= FinalTopK
           => Range(lane.hits) = matching

(* A candidate that several lanes found is one candidate, with its best    *)
(* score and every lane that found it, whichever lane came first.          *)
LanesRecorded ==
  LET finding(d) == {i \in DOMAIN found.lanes : d \in Range(found.lanes[i].hits)}
      scores(d) == {found.lanes[i].score[d] : i \in finding(d)}
  IN  /\ {c.doc : c \in found.merged} = {d \in 1..Size : finding(d) # {}}
      /\ \A c \in found.merged :
           /\ \A other \in found.merged : other.doc = c.doc => other = c
           /\ c.lanes = {found.lanes[i].type : i \in finding(c.doc)}
           /\ c.score \in scores(c.doc) /\ \A s \in scores(c.doc) : s <= c.score

(* Neither the fusion of a lane nor the merge of lanes contradicts what    *)
(* they combine.                                                           *)
FusionFaithful == FusedOrder /\ LanesRecorded
=============================================================================
