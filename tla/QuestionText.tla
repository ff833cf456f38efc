---------------------------- MODULE QuestionText ----------------------------
(***************************************************************************)
(* The text of a question as the parser's rules see it.  A question is a   *)
(* sequence of segments, the pieces between separators.  Of a segment only *)
(* what the rules ask about is kept:                                       *)
(*   marks   - the places where an alias of a card occurs,                 *)
(*             [from, to, card] with from < to and to at most SegmentWidth *)
(*   words   - which of the rules' keyword lists it hits                   *)
(*   cut     - the lists only the whole question hits, by a keyword that   *)
(*             a separator after the segment cuts in two                   *)
(*   metrics - the metrics it names                                        *)
(*   rank, top - the numbers extract_rank_target and extract_top_n find,   *)
(*             None when they find none                                    *)
(* A text, what a rule is given, has names in the place of marks: the      *)
(* cards mentioned in it, in order.  The code finds them anew in each rule. *)
(* The fields of the removed clan-war questions (round, date, players) are *)
(* left out; the words are those of the Chinese keyword lists.             *)
(***************************************************************************)
EXTENDS Integers, Sequences, FiniteSets, SequencesExt

CONSTANTS
  Card,          \* the names of the catalogue
  Tower,         \* cards that are towers: TOWER_ENTITY_NAMES
  BaseOf,        \* a card's name without the suffix of its evolution
  SegmentWidth,  \* positions of a segment
  DeckSize,      \* cards of an exact deck: 8 in the code
  MaxSubqueries, \* MAX_SUBQUERIES
  MaxRank        \* max_n of the ranking values

ASSUME TextAssumption ==
  /\ Tower \subseteq Card /\ BaseOf \in [Card -> Card]
  /\ SegmentWidth \in Nat
  /\ {DeckSize, MaxSubqueries, MaxRank} \subseteq Nat \ {0}

NoCard == "none"
None == 0                \* an absent number
Metrics == <<"usage_rate", "win_rate", "clean_win_rate">>
Upto(seq, n) == SubSeq(seq, 1, IF n < Len(seq) THEN n ELSE Len(seq))

(* A sequence without its elements at some positions. *)
Without(seq, dropped) ==
  LET rest[n \in 0..Len(seq)] ==
        IF n = 0 THEN <<>> ELSE IF n \in dropped THEN rest[n - 1] ELSE Append(rest[n - 1], seq[n])
  IN  rest[Len(seq)]

(* Of pairs of a choice and its condition, the first whose condition holds. *)
FirstThat(pairs) ==
  pairs[CHOOSE i \in DOMAIN pairs : pairs[i][2] /\ \A k \in 1..(i - 1) : ~pairs[k][2]][1]

-----------------------------------------------------------------------------
(* card_aliases.py: distinct, non-overlapping mentions in the user's       *)
(* order; of two aliases that start together the longer one wins.          *)

Overlaps(m, n) == m.from < n.to /\ n.from < m.to

FreeMarks(marks, chosen, at) ==
  {m \in marks : m.from = at /\ \A i \in DOMAIN chosen :
                                  chosen[i].card # m.card /\ ~Overlaps(m, chosen[i])}

Take(marks, chosen, at) ==
  LET free == FreeMarks(marks, chosen, at)
  IN  IF free = {} THEN chosen
      ELSE Append(chosen, CHOOSE m \in free : \A n \in free : n.to <= m.to)

Mentions(marks, width) ==
  LET chosen[at \in 0..width] == IF at = 0 THEN <<>> ELSE Take(marks, chosen[at - 1], at - 1)
  IN  chosen[width]

CardsOf(mentions) == [i \in DOMAIN mentions |-> mentions[i].card]
ResolveCardNames(marks, width) == CardsOf(Mentions(marks, width))

First(names) == IF names = <<>> THEN NoCard ELSE names[1]
ResolveCardName(text) == First(text.names)

(* The question as one text. *)
Shifted(marks, by) == {[m EXCEPT !.from = @ + by, !.to = @ + by] : m \in marks}
FirstNumber(numbers) == LET found == SelectSeq(numbers, LAMBDA n : n # None)
                        IN  IF found = <<>> THEN None ELSE found[1]

Whole(question) ==
  LET segments == DOMAIN question
      marks == UNION {Shifted(question[i].marks, (i - 1) * SegmentWidth) : i \in segments}
  IN  [names |-> ResolveCardNames(marks, Len(question) * SegmentWidth),
       words |-> UNION {question[i].words \cup question[i].cut : i \in segments},
       metrics |-> UNION {question[i].metrics : i \in segments},
       rank |-> FirstNumber([i \in segments |-> question[i].rank]),
       top |-> FirstNumber([i \in segments |-> question[i].top])]

TextOf(segment) == Whole(<<[segment EXCEPT !.cut = {}]>>)

(* f"{last_card_name} {segment}": a follow-up with the card put before it. *)
WithCard(text, card) == [text EXCEPT !.names = <<card>> \o SelectSeq(@, LAMBDA c : c # card)]

-----------------------------------------------------------------------------
(* metrics.py *)

(* All metrics named, in a stable order. *)
ExtractMetrics(text) == SelectSeq(Metrics, LAMBDA m : m \in text.metrics)

FirstOf(choices) == SelectSeq(choices, LAMBDA c : c # <<>>)[1]

(* The primary metric: the net win rate before the win rate. *)
GetMetric(text) ==
  (SelectSeq(<<"clean_win_rate", "win_rate">>, LAMBDA m : m \in text.metrics) \o <<"usage_rate">>)[1]

NormalizeMetrics(given, text, intent) ==
  IF intent # "card_query" THEN <<>>
  ELSE FirstOf(<<SelectSeq(given, LAMBDA m : m \in Range(Metrics)),
                 ExtractMetrics(text), <<GetMetric(text)>> >>)

-----------------------------------------------------------------------------
(* parser_rules.py *)

Says(text, words) == text.words \cap words # {}

IsScheduleQuery(text) == Says(text, {"schedule"})

IsScheduleSummaryQuery(text) ==
  Says(text, {"summary_phrase"}) \/ {"summary", "schedule_domain"} \subseteq text.words

IsMatchPreparationQuery(text) ==
  Says(text, {"prepare_phrase"}) \/ {"prepare", "match_domain"} \subseteq text.words

IsMetaDeltaQuery(text) == Says(text, {"delta"})

IsMetaAnalysisQuery(text) ==
  \/ IsMetaDeltaQuery(text)
  \/ Says(text, {"meta_phrase"})
  \/ Says(text, {"analysis"}) /\ (Says(text, {"meta_domain"}) \/ ResolveCardName(text) # NoCard)

IsDeckQuery(text) == Says(text, {"deck"})
IsCardQuery(text) ==
  Says(text, {"card", "single_card"}) \/ text.metrics # {} \/ ResolveCardName(text) # NoCard
IsCardRankingQuery(text) == Says(text, {"ranking"})

IsCardCompareQuery(text) ==
  Len(text.names) >= 2 /\ Says(text, {"compare"})

IsCardCooccurrenceQuery(text) ==
  \/ Len(text.names) >= 2 /\ Says(text, {"together"})
  \/ text.names # <<>> /\ Says(text, {"teammate"})

IsCardRankLookupQuery(text) ==
  ResolveCardName(text) # NoCard /\ Says(text, {"position"})

HasExplicitRankSignal(text) == Says(text, {"explicit_rank"})
HasExplicitTopNSignal(text) == Says(text, {"explicit_top"})
HasImplicitListSignal(text) == Says(text, {"listing", "few"})

(* parser_entities.py: the form of a card is asked for by name. *)
DetectEntityReference(text) ==
  LET card == ResolveCardName(text)
  IN  IF card = NoCard THEN "base8"
      ELSE IF card \in Tower THEN "tower"
      ELSE IF Says(text, {"evolved"}) THEN "evolution"
      ELSE IF Says(text, {"elite"}) THEN "elite"
      ELSE "base8"

EntityName(text) ==
  LET card == ResolveCardName(text)
  IN  IF DetectEntityReference(text) = "base8" THEN NoCard
      ELSE IF DetectEntityReference(text) = "evolution" THEN BaseOf[card] ELSE card

(* ranking.py: a model's number is brought into 1..MaxRank; one that       *)
(* cannot be read as a number stays as it is (Garbled).                    *)
Garbled == -1
Coerced(n) == IF n > MaxRank THEN MaxRank ELSE n
=============================================================================
