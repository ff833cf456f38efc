-------------------------- MODULE QuestionRouting ---------------------------
(***************************************************************************)
(* From a parse to the skill that answers it.  Two parts of the code look  *)
(* at the same fields: query_needs_rag, before the request's data is       *)
(* opened, decides whether it opens the retriever; the registry, when the  *)
(* question is answered, asks the skills in order.  The texts of the       *)
(* answers are left out: an answer is what it is about.                    *)
(***************************************************************************)
EXTENDS QuestionParsing

CONSTANTS
  Catalogue,  \* cards_meta_data: the cards of the snapshot by usage, a sequence
  Decks       \* top_decks_data and card_deck_stats: a sequence of sets of cards

AsOrdinary(parse) == [parse EXCEPT !.form = "ordinary", !.entity = parse.card]

(* The page's data mode asks for the plain card as a loadout entity; it    *)
(* does not replace a form named in the question.                          *)
WithMode(parse, mode) ==
  IF /\ mode = "loadout_entity" /\ parse.intent = "card_query"
     /\ parse.card # NoCard /\ parse.form = "base8"
  THEN AsOrdinary(parse) ELSE parse

ApplySelectedEntityMode(query, mode) ==
  [query EXCEPT !.subs = [i \in DOMAIN @ |-> WithMode(@[i], mode)]]

(* The page of the environment analysis says what is asked; its parse has  *)
(* no other field.                                                         *)
PageParse ==
  [intent |-> "meta_analysis_query", card |-> NoCard, names |-> <<>>, deck |-> <<>>,
   metrics |-> <<>>, metric |-> NoMetric, rank |-> None, top |-> None, analysis |-> "none",
   form |-> "base8", entity |-> NoCard, confidence |-> "high"]
PageQuery == [Single(PageParse) EXCEPT !.source = "interface_contract"]

Admitted(query, strict) ==
  strict => query.source \in {"llm_parser", "interface_contract", "validated_fallback"}

-----------------------------------------------------------------------------
(* answer_routing.py                                                       *)

Open(parse) == parse.card = NoCard /\ parse.rank = None /\ parse.top = None

(* Seeded fault: a question that gives a rank is taken for an open one. *)
SubqueryNeedsRagForRanks(parse) ==
  \/ parse.intent = "meta_analysis_query"
  \/ parse.intent = "deck_query" /\ parse.deck = <<>> /\ parse.card = NoCard /\ parse.top = None
  \/ parse.intent = "card_query" /\ parse.form = "base8" /\ parse.card = NoCard /\ parse.top = None

SubqueryNeedsRag(parse) ==
  \/ parse.intent = "meta_analysis_query"
  \/ parse.intent = "deck_query" /\ parse.deck = <<>> /\ Open(parse)
  \/ parse.intent = "card_query" /\ parse.form = "base8" /\ Open(parse)

QueryNeedsRag(query) == \E i \in DOMAIN query.subs : SubqueryNeedsRag(query.subs[i])

-----------------------------------------------------------------------------
(* skills/: what each skill can handle, in the order of the registry.      *)

UnsupportedClanWar(parse) == parse.intent \in RemovedIntents
ExactDeckSkill(parse) == parse.intent = "deck_query" /\ Len(parse.deck) = DeckSize
StructuredRelationship(parse) == parse.intent = "card_cooccurrence_query"
DeckRanking(parse) == parse.intent = "deck_query" /\ parse.deck = <<>> /\ ~Open(parse)
CardCompare(parse) == parse.intent = "card_compare_query"
CardRankLookup(parse) == parse.intent = "card_rank_lookup_query" /\ parse.card # NoCard
(* Seeded fault: the plain card is not an entity. *)
LoadoutEntityForms(parse) ==
  parse.intent = "card_query" /\ parse.form \in {"tower", "evolution", "elite"}

(* An entity is named whenever a form is. *)
LoadoutEntity(parse) ==
  /\ parse.intent = "card_query"
  /\ parse.form \in {"tower", "evolution", "elite", "ordinary"}
EvidenceSynthesis(parse) == parse.intent = "meta_analysis_query"
CardMeta(parse) == parse.intent = "card_query" /\ parse.form = "base8" /\ ~Open(parse)
RAGEvidence(parse) ==
  \/ parse.intent = "deck_query" /\ Open(parse)
  \/ parse.intent = "card_query" /\ parse.form = "base8" /\ Open(parse)

Registry(parse) ==
  << <<"UnsupportedClanWarSkill", UnsupportedClanWar(parse)>>,
     <<"ExactDeckSkill", ExactDeckSkill(parse)>>,
     <<"StructuredRelationshipSkill", StructuredRelationship(parse)>>,
     <<"DeckRankingSkill", DeckRanking(parse)>>,
     <<"CardCompareSkill", CardCompare(parse)>>,
     <<"CardRankLookupSkill", CardRankLookup(parse)>>,
     <<"LoadoutEntitySkill", LoadoutEntity(parse)>>,
     <<"EvidenceSynthesisSkill", EvidenceSynthesis(parse)>>,
     <<"CardMetaSkill", CardMeta(parse)>>,
     <<"RAGEvidenceSkill", RAGEvidence(parse)>>,
     <<"none", TRUE>> >>

Resolve(parse) == FirstThat(Registry(parse))

-----------------------------------------------------------------------------
(* What the structured skills answer: <<kind, subject>>.                   *)

Observed(card) == card \in Range(Catalogue)
Fails == <<"failed", <<>>>>

(* The sizes of a list are sliced with, a rank is an index. *)
RankedAnswer(parse, items) ==
  IF parse.rank = None THEN
    IF parse.top = Garbled THEN Fails ELSE <<"list", Upto(items, Default(parse.top, 10))>>
  ELSE IF parse.rank \in DOMAIN items THEN <<"ranked", <<items[parse.rank]>>>>
  ELSE <<"no_such_rank", <<>>>>

BuildDeckAnswer(parse) ==
  IF parse.card = NoCard THEN RankedAnswer(parse, Decks)
  ELSE IF parse.top = Garbled THEN Fails
  ELSE <<"list", Upto(SelectSeq(Decks, LAMBDA d : parse.card \in d), Default(parse.top, 10))>>

(* A rank that is not a number cannot be compared with the list's length. *)
BuildCardAnswer(parse) ==
  IF parse.card # NoCard /\ parse.rank = None /\ parse.top = None
  THEN <<IF Observed(parse.card) THEN "card" ELSE "unobserved", <<parse.card>>>>
  ELSE IF parse.rank = Garbled THEN Fails
  ELSE RankedAnswer(parse, Catalogue)

CompareAnswer(parse) ==
  LET pair == Upto(parse.names, 2)
  IN  IF Len(pair) < 2 \/ \E i \in DOMAIN pair : ~Observed(pair[i]) THEN <<"unknown", pair>>
      ELSE <<"compared", pair>>

(* Only a pair is looked up as a pair. *)
RelationshipAnswer(parse, repository) ==
  IF ~repository THEN <<"unavailable", <<>>>>
  ELSE IF Len(parse.names) = 2 THEN <<"pair", parse.names>>
  ELSE IF Observed(parse.card) THEN <<"teammates", <<parse.card>>>>
  ELSE <<"invalid_card", <<parse.card>>>>

RankLookupAnswer(parse) ==
  <<IF Observed(parse.card) THEN "position" ELSE "unknown", <<parse.card>>>>

StructuredAnswer(parse, repository) ==
  LET skill == Resolve(parse)
      Stored(kind, of) == <<IF repository THEN kind ELSE "unavailable", of>>
  IN  CASE skill = "UnsupportedClanWarSkill" -> <<"removed", <<>>>>
        [] skill = "ExactDeckSkill" ->
             Stored(IF Range(parse.deck) \subseteq Card THEN "deck" ELSE "invalid_deck", parse.deck)
        [] skill = "StructuredRelationshipSkill" -> RelationshipAnswer(parse, repository)
        [] skill = "DeckRankingSkill" -> BuildDeckAnswer(parse)
        [] skill = "CardCompareSkill" -> CompareAnswer(parse)
        [] skill = "CardRankLookupSkill" -> RankLookupAnswer(parse)
        [] skill = "LoadoutEntitySkill" -> Stored("entity", <<parse.entity>>)
        [] skill = "CardMetaSkill" -> BuildCardAnswer(parse)
        [] skill = "none" -> <<"fallback", <<>>>>
=============================================================================
