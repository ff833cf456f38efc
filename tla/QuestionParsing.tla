-------------------------- MODULE QuestionParsing ---------------------------
(***************************************************************************)
(* From a question to what it asks for: the local rules, the payload of    *)
(* the parser model brought into the same form, and the reconciliation of  *)
(* the two.  Everything here is a function of its arguments; Questions     *)
(* says who calls it.                                                      *)
(*                                                                         *)
(* A parse is the record of one question asked; a query is                 *)
(* [intent, subs, source, confidence], subs having one parse unless the    *)
(* intent is "multi_intent".  metric stands for metric and compare_metric, *)
(* which no intent has both of, form for entity_mode, entity_type and      *)
(* special_state: only "base8" is not a loadout entity, and entity for     *)
(* entity_name.  deck is a deck of DeckSize cards, <<>> for none, or, a    *)
(* sequence of characters, the text a model gave in the place of a list.   *)
(***************************************************************************)
EXTENDS QuestionText

NoMetric == "none"

RemovedIntents == {"schedule_query", "schedule_summary_query", "match_preparation_query"}
CardIntents ==
  {"deck_query", "card_query", "card_compare_query", "card_cooccurrence_query",
   "card_rank_lookup_query", "meta_analysis_query"}
SupportedIntents == RemovedIntents \cup CardIntents \cup {"reject"}

-----------------------------------------------------------------------------
(* parser_fallback.py: the first rule that holds decides the intent.       *)

Rules(text) ==
  << <<"schedule_summary_query", IsScheduleSummaryQuery(text)>>,
     <<"match_preparation_query", IsMatchPreparationQuery(text)>>,
     <<"meta_analysis_query", IsMetaAnalysisQuery(text)>>,
     <<"card_cooccurrence_query", IsCardCooccurrenceQuery(text)>>,
     <<"card_compare_query", IsCardCompareQuery(text)>>,
     <<"card_rank_lookup_query", IsCardRankLookupQuery(text)>>,
     <<"schedule_query", IsScheduleQuery(text)>>,
     <<"deck_query", IsDeckQuery(text)>>,
     <<"card_query", IsCardQuery(text)>>,
     <<"reject", TRUE>> >>

LocalIntent(text) == FirstThat(Rules(text))

Analysis(text, intent) ==
  IF intent = "meta_analysis_query" /\ IsMetaDeltaQuery(text) THEN "meta_delta" ELSE "none"

Default(n, d) == IF n = None THEN d ELSE n

(* A card named without a ranking leaves no number, a rank leaves no list. *)
LocalRank(text) ==
  IF ResolveCardName(text) # NoCard /\ ~IsCardRankingQuery(text) THEN None ELSE text.rank
LocalTop(text) ==
  IF LocalRank(text) # None \/ (ResolveCardName(text) # NoCard /\ ~IsCardRankingQuery(text))
  THEN None ELSE text.top

Blank(text, intent) ==
  [intent |-> intent, card |-> NoCard, names |-> <<>>, deck |-> <<>>, metrics |-> <<>>,
   metric |-> NoMetric, rank |-> None, top |-> None, analysis |-> Analysis(text, intent),
   form |-> DetectEntityReference(text), entity |-> EntityName(text), confidence |-> "low"]

ExactDeck(names) == IF Len(names) = DeckSize THEN names ELSE <<>>

(* The fields an intent keeps. *)
LocalFields(text, intent, blank) ==
  LET names == text.names
      deck == ExactDeck(names)
  IN  IF intent \in RemovedIntents THEN blank
      ELSE IF intent = "deck_query" THEN
        IF deck # <<>> THEN [blank EXCEPT !.deck = deck, !.metric = GetMetric(text),
                               !.top = IF Says(text, {"listing"}) THEN 5 ELSE None]
        ELSE [blank EXCEPT !.card = First(names), !.metric = GetMetric(text),
                !.rank = LocalRank(text),
                !.top = IF LocalRank(text) = None /\ Says(text, {"listing"})
                        THEN Default(LocalTop(text), 5) ELSE LocalTop(text)]
      ELSE IF intent = "card_compare_query" THEN
        [blank EXCEPT !.names = names, !.metric = GetMetric(text)]
      ELSE IF intent = "card_cooccurrence_query" /\ Len(names) >= 2 THEN
        [blank EXCEPT !.names = names]
      ELSE IF intent = "card_cooccurrence_query" THEN
        [blank EXCEPT !.card = First(names),
           !.top = IF HasExplicitTopNSignal(text) THEN Default(text.top, 10) ELSE 10]
      ELSE IF intent = "card_query" THEN
        [blank EXCEPT !.card = First(names), !.rank = LocalRank(text),
           !.top = IF /\ First(names) = NoCard /\ LocalRank(text) = None
                      /\ {"popular_cards", "listing"} \subseteq text.words
                   THEN Default(LocalTop(text), 5) ELSE LocalTop(text),
           !.metrics = NormalizeMetrics(<<>>, text, intent),
           !.metric = (ExtractMetrics(text) \o <<GetMetric(text)>>)[1]]
      ELSE IF intent = "card_rank_lookup_query" THEN
        [blank EXCEPT !.card = First(names), !.metric = GetMetric(text)]
      ELSE [blank EXCEPT !.card = First(names)]

-----------------------------------------------------------------------------
(* parser_metadata.py                                                      *)

Count(conditions) == Cardinality({i \in DOMAIN conditions : conditions[i]})

StrongSignals(parse, text) ==
  LET explicit == <<parse.rank # None /\ HasExplicitRankSignal(text),
                    parse.top # None /\ HasExplicitTopNSignal(text)>>
  IN  IF parse.intent = "reject" THEN 0
      ELSE IF parse.intent = "schedule_query" THEN
        Count(<<IsScheduleQuery(text), Says(text, {"round_number"}), Says(text, {"date"})>>)
      ELSE IF parse.intent = "deck_query" THEN Count(explicit \o <<IsDeckQuery(text)>>)
      ELSE IF parse.intent = "card_query" THEN
        Count(explicit \o <<parse.card # NoCard, text.metrics # {}, Says(text, {"card"})>>)
      ELSE 2

WeakSignals(parse, text) ==
  IF parse.intent \notin {"deck_query", "card_query"} THEN 0
  ELSE Count(<<parse.rank # None /\ ~HasExplicitRankSignal(text),
               parse.top # None /\ ~HasExplicitTopNSignal(text) /\ HasImplicitListSignal(text),
               parse.intent = "deck_query" \/ text.metrics = {}>>)

Confidence(parse, text) ==
  LET strong == StrongSignals(parse, text)
  IN  IF strong >= 2 THEN "high"
      ELSE IF parse.intent # "reject" /\ (strong >= 1 \/ WeakSignals(parse, text) >= 2) THEN "medium"
      ELSE "low"

WithConfidence(parse, text) == [parse EXCEPT !.confidence = Confidence(parse, text)]

LocalParseAs(intent, text) ==
  WithConfidence(LocalFields(text, intent, Blank(text, intent)), text)

LocalParse(text) == LocalParseAs(LocalIntent(text), text)

(* What makes two questions the same one. *)
SemanticKey(parse) ==
  IF parse.intent = "meta_analysis_query" THEN <<parse.intent, parse.analysis>>
  ELSE <<parse.intent, parse.card, parse.metrics, parse.names, parse.deck, parse.rank, parse.top,
         parse.form>>

-----------------------------------------------------------------------------
(* parser_multi_intent.py: the questions of one utterance.                 *)

Distinct(seq) == FoldLeft(LAMBDA s, x : IF x \in Range(s) THEN s ELSE Append(s, x), <<>>, seq)

SameCard(subs, parse) ==
  {i \in DOMAIN subs : /\ parse.intent = "card_query" /\ parse.card # NoCard
                       /\ subs[i].intent = "card_query" /\ subs[i].card = parse.card}

(* Seeded fault: a second question about a card is a question of its own. *)
AddCandidateUnmerged(found, parse) ==
  IF parse.intent = "reject" \/ Len(found.subs) >= MaxSubqueries THEN found
  ELSE [subs |-> Append(found.subs, parse), seen |-> found.seen \cup {SemanticKey(parse)}]

Merged(sub, metrics) == [sub EXCEPT !.metrics = metrics, !.metric = metrics[1]]

AddCandidate(found, parse) ==
  LET same == SameCard(found.subs, parse)
      key == SemanticKey(parse)
  IN  IF parse.intent = "reject" THEN found
      ELSE IF same # {} THEN
        LET i == CHOOSE i \in same : \A j \in same : i <= j
        IN  [found EXCEPT !.subs[i] = Merged(@, Distinct(@.metrics \o parse.metrics))]
      ELSE IF key \in found.seen \/ Len(found.subs) >= MaxSubqueries THEN found
      ELSE [subs |-> Append(found.subs, parse), seen |-> found.seen \cup {key}]

MetricsOfCard(parse, metrics, card) ==
  [parse EXCEPT !.intent = "card_query", !.card = card, !.metric = metrics[1], !.metrics = metrics]

(* What one segment asks, given the last card named before it: one metric  *)
(* question per card named, a metric of the last card, or the local parse. *)
NamesMetricsOfCards(text, parse) ==
  /\ parse.intent = "card_query" /\ Len(text.names) > 1 /\ text.metrics # {}
  /\ ~IsCardCompareQuery(text) /\ ~IsCardRankLookupQuery(text)

NamesMetricOnly(text, parse, last) ==
  /\ text.names = <<>> /\ text.metrics # {} /\ last # NoCard
  /\ parse.card = NoCard /\ parse.top = None /\ ~IsCardRankingQuery(text)

SegmentCandidates(text, parse, last) ==
  IF NamesMetricsOfCards(text, parse)
  THEN [i \in DOMAIN text.names |-> MetricsOfCard(parse, ExtractMetrics(text), text.names[i])]
  ELSE IF NamesMetricOnly(text, parse, last)
  THEN <<MetricsOfCard(LocalParse(WithCard(text, last)), ExtractMetrics(text), last)>>
  ELSE <<parse>>

AddAll(found, parses) ==
  LET added[n \in 0..Len(parses)] ==
        IF n = 0 THEN found ELSE AddCandidate(added[n - 1], parses[n])
  IN  added[Len(parses)]

LastCard(text, last) == (<<last>> \o text.names)[Len(text.names) + 1]

ReadText(read, text) ==
  [found |-> AddAll(read.found, SegmentCandidates(text, LocalParse(text), read.last)),
   last |-> LastCard(text, read.last)]

NothingRead == [found |-> [subs |-> <<>>, seen |-> {}], last |-> NoCard]

SplitCandidates(texts) ==
  LET read[n \in 0..Len(texts)] == IF n = 0 THEN NothingRead ELSE ReadText(read[n - 1], texts[n])
  IN  read[Len(texts)].found

(* The parse of the whole question adds an intent the segments do not have. *)
WithFull(split, full) ==
  IF \E i \in DOMAIN split.subs : split.subs[i].intent = full.intent
  THEN split.subs ELSE AddCandidate(split, full).subs

(* An analysis of the environment names the decks itself. *)
UnlessInMeta(subs, text) ==
  IF /\ \E i \in DOMAIN subs : subs[i].intent = "meta_analysis_query"
     /\ ~HasExplicitRankSignal(text) /\ ~HasExplicitTopNSignal(text)
  THEN Without(subs, {i \in DOMAIN subs : subs[i].intent = "deck_query" /\ subs[i].card = NoCard})
  ELSE subs

Single(parse) ==
  [intent |-> parse.intent, subs |-> <<parse>>,
   source |-> IF parse.intent = "reject" THEN "local_reject" ELSE "local_rule",
   confidence |-> parse.confidence]

Multi(subs) ==
  [intent |-> "multi_intent", subs |-> subs, source |-> "local_rule", confidence |-> "high"]

QueryOf(subs, full) ==
  IF subs = <<>> THEN Single(full) ELSE IF Len(subs) = 1 THEN Single(subs[1]) ELSE Multi(subs)

AskedBy(split, full, text) == QueryOf(UnlessInMeta(WithFull(split, full), text), full)

LocalQueryOf(texts, whole) == AskedBy(SplitCandidates(texts), LocalParse(whole), whole)

LocalQuery(question) ==
  LocalQueryOf([i \in DOMAIN question |-> TextOf(question[i])], Whole(question))

-----------------------------------------------------------------------------
(* parser_normalization.py: the model's payload, a parse whose card and    *)
(* numbers may be anything and whose deck may be a text in the place of a  *)
(* list, against the whole question.                                       *)

Known(names) == Distinct(SelectSeq(names, LAMBDA c : c \in Card))
OrElse(metric, default) == IF metric = NoMetric THEN default ELSE metric

NormalizedDeck(raw, text, blank, card, deck) ==
  LET named == IF deck = <<>> /\ card = NoCard THEN ResolveCardName(text) ELSE card
      fields == [blank EXCEPT !.deck = deck, !.metric = OrElse(raw.metric, "usage_rate")]
  IN  IF ExactDeck(text.names) # <<>> THEN fields
      ELSE [fields EXCEPT !.card = named, !.rank = Coerced(raw.rank),
              !.top = IF /\ deck = <<>> /\ raw.rank = None
                         /\ named # NoCard \/ Says(text, {"popular_decks"})
                      THEN Default(Coerced(raw.top), 5) ELSE Coerced(raw.top)]

(* Only a list of cards is brought into form; a text is kept as it is. *)
GivenDeck(raw) == IF raw.listed THEN ExactDeck(Known(raw.deck)) ELSE raw.deck

(* The deck of the question before the deck of the model. *)
DeckOf(text, given) == IF ExactDeck(text.names) # <<>> THEN text.names ELSE given

NormalizedCard(raw, text, blank, card, metrics) ==
  LET plain == card # NoCard /\ ~IsCardRankingQuery(text)
  IN  [blank EXCEPT !.card = card, !.metrics = metrics, !.metric = metrics[1],
         !.rank = IF plain THEN None ELSE Coerced(raw.rank),
         !.top = IF plain THEN None ELSE Coerced(raw.top)]

NormalizedCooccurrence(raw, text, blank, card) ==
  IF Len(text.names) >= 2 THEN [blank EXCEPT !.names = SubSeq(text.names, 1, 2)]
  ELSE [blank EXCEPT !.card = First(text.names \o <<card>>),
          !.top = IF HasExplicitTopNSignal(text) /\ raw.top # Garbled
                  THEN Default(Coerced(raw.top), 10) ELSE 10]

NormalizedCompare(raw, text, blank, both) ==
  [blank EXCEPT !.names = IF Len(both) < 2 THEN text.names ELSE both,
                !.metric = OrElse(raw.metric, GetMetric(text))]

(* The names of the model come first, those of the question are added. *)
BothNames(raw, text) ==
  IF raw.names = <<>> THEN <<>> ELSE Distinct(Known(raw.names) \o text.names)

(* given is the card the model names, card the one of the question if it   *)
(* names none.                                                             *)
NormalizedFields(raw, text, blank, given, card) ==
  IF raw.intent \notin SupportedIntents THEN LocalParse(text)
  ELSE IF raw.intent = "schedule_query" THEN
    [blank EXCEPT !.rank = Coerced(raw.rank), !.top = Coerced(raw.top)]
  ELSE IF raw.intent \in RemovedIntents \cup {"reject"} THEN blank
  ELSE IF raw.intent = "deck_query" THEN
    NormalizedDeck(raw, text, blank, given, DeckOf(text, GivenDeck(raw)))
  ELSE IF raw.intent = "card_query" THEN
    NormalizedCard(raw, text, blank, card, NormalizeMetrics(raw.metrics, text, "card_query"))
  ELSE IF raw.intent = "card_cooccurrence_query" THEN
    NormalizedCooccurrence(raw, text, blank, given)
  ELSE IF raw.intent = "card_compare_query" THEN
    NormalizedCompare(raw, text, blank, BothNames(raw, text))
  ELSE IF raw.intent = "card_rank_lookup_query" THEN
    [blank EXCEPT !.card = card, !.metric = OrElse(raw.metric, GetMetric(text))]
  ELSE [blank EXCEPT !.card = card]

NormalizeParse(raw, text) ==
  LET known == raw.card \in Card \cup {NoCard}  \* whatever card of the catalogue the model names
      given == IF known THEN raw.card ELSE ResolveCardName(text)
      card == IF given = NoCard THEN ResolveCardName(text) ELSE given
  IN  NormalizedFields(raw, text, [Blank(text, raw.intent) EXCEPT !.confidence = "medium"],
                       given, card)

(* A payload is [intent, subs], like a query; its first parts count, each  *)
(* once.                                                                   *)
Repeated(parses) ==
  {i \in DOMAIN parses : \E k \in 1..(i - 1) : SemanticKey(parses[k]) = SemanticKey(parses[i])}

Kept(parses) ==
  Without(parses, Repeated(parses) \cup {i \in DOMAIN parses : parses[i].intent = "reject"})

KeptOrLocal(kept, question) == IF kept = <<>> THEN LocalQuery(question) ELSE QueryOf(kept, kept[1])

NormalizeAll(subs, text) == [i \in DOMAIN subs |-> NormalizeParse(subs[i], text)]

NormalizeQuery(payload, question) ==
  IF payload.intent # "multi_intent" THEN Single(NormalizeParse(payload.subs[1], Whole(question)))
  ELSE KeptOrLocal(Kept(NormalizeAll(Upto(payload.subs, MaxSubqueries), Whole(question))), question)

-----------------------------------------------------------------------------
(* parser_orchestration.py: which of the two parses is answered.           *)

Keys(query) == [i \in DOMAIN query.subs |-> SemanticKey(query.subs[i])]

(* Seeded fault: only the number of the questions is compared. *)
OverrulesModelByCount(local, model) ==
  local.intent = "multi_intent" /\ Len(model.subs) # Len(local.subs)

(* A confident local parse is not changed in what it asks. *)
OverrulesModel(local, model) ==
  \/ /\ local.intent \notin {"multi_intent", "reject"} /\ local.confidence = "high"
     /\ model.intent # local.intent
  \/ /\ local.intent = "multi_intent"
     /\ model.intent # "multi_intent" \/ Keys(model) # Keys(local)
  \/ model.intent = "reject" /\ local.intent # "reject"

Reconciled(local, model) ==
  IF OverrulesModel(local, model) THEN [local EXCEPT !.source = "llm_parser"]
  ELSE [model EXCEPT !.source = "llm_parser", !.confidence = "high"]

ValidatedParse(local, payload, question) == Reconciled(local, NormalizeQuery(payload, question))

(* The model timed out, failed, or answered without JSON. *)
ValidatedFallback(local) ==
  IF local.intent # "reject" /\ local.confidence \in {"high", "medium"}
  THEN [local EXCEPT !.source = "validated_fallback"] ELSE local
=============================================================================
