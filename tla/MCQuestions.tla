---------------------------- MODULE MCQuestions -----------------------------
(* Questions: every segment by itself and every pair of the compound ones. *)
EXTENDS Questions

Plain(names) == {[from |-> 2 * i, to |-> 2 * i + 1, card |-> names[i]] : i \in DOMAIN names}
Segment(names, words, metrics) ==
  [marks |-> Plain(names), words |-> words, cut |-> {}, metrics |-> metrics,
   rank |-> None, top |-> None]

Usage == {"usage_rate"}
Win == {"win_rate"}
Net == {"win_rate", "clean_win_rate"}  \* the word for the net rate contains the other

Evolved ==  \* "evo knight": an alias within a longer one
  [marks |-> {[from |-> 1, to |-> 3, card |-> "Knight Evolution"],
              [from |-> 2, to |-> 3, card |-> "Knight"]},
   words |-> {"evolved"}, cut |-> {}, metrics |-> Usage, rank |-> None, top |-> None]

Compound == {
  Segment(<<"Knight">>, {}, Usage),
  Segment(<<"Knight">>, {}, Net),
  Segment(<<"Knight", "Giant">>, {}, Win),
  Segment(<<"Knight", "Giant">>, {"compare"}, Usage),
  Segment(<<>>, {}, Win),
  Segment(<<>>, {"deck", "popular_decks"}, {}),
  Segment(<<>>, {"meta_phrase", "deck"}, {}),
  Segment(<<>>, {"schedule"}, {}),
  Segment(<<"Giant">>, {"teammate"}, {}),
  [Segment(<<>>, {"card", "ranking", "explicit_rank"}, Usage) EXCEPT !.rank = 1]}

Others == {
  Evolved,
  Segment(<<"Knight">>, {"elite"}, Usage),
  Segment(<<"Knight">>, {"evolved"}, Win),
  Segment(<<"Tower Princess">>, {}, Win),
  Segment(<<"Knight", "Giant">>, {"together"}, {}),
  Segment(<<"Knight", "Giant", "Witch">>, {"together"}, {}),
  Segment(<<"Knight", "Giant", "Witch">>, {"deck"}, {}),
  Segment(<<"Knight", "Giant", "Witch">>, {"deck", "listing"}, {}),
  Segment(<<>>, {"card", "popular_cards", "listing"}, {}),
  [Segment(<<"Knight">>, {"deck", "listing"}, {}) EXCEPT !.top = 5],
  [Segment(<<>>, {"card", "ranking", "explicit_top"}, {}) EXCEPT !.top = 2],
  [Segment(<<"Giant">>, {"teammate", "explicit_top"}, {}) EXCEPT !.top = 3],
  Segment(<<"Witch">>, {"position", "ranking"}, Usage),
  Segment(<<"Knight">>, {"analysis"}, {}),
  Segment(<<>>, {"delta"}, {}),
  Segment(<<>>, {"summary", "schedule_domain"}, {}),
  Segment(<<>>, {"prepare", "match_domain"}, {}),
  Segment(<<>>, {"card"}, {}),
  Segment(<<>>, {}, {})}

(* "together" by a keyword the splitting cuts in two. *)
CutTogether == <<[Segment(<<"Knight", "Giant">>, {}, {}) EXCEPT !.cut = {"together"}],
                 Segment(<<>>, {}, {})>>

MCAsked ==
  {<<s>> : s \in Compound \cup Others} \cup (Compound \X Compound) \cup {CutTogether}

Raw(intent) ==
  [intent |-> intent, card |-> NoCard, names |-> <<>>, listed |-> TRUE, deck |-> <<>>,
   metrics |-> <<>>, metric |-> NoMetric, rank |-> None, top |-> None]
CardRaw(card, metrics) == [Raw("card_query") EXCEPT !.card = card, !.metrics = metrics]

Numbered == {[Raw(intent) EXCEPT !.card = card, !.rank = n[1], !.top = n[2]] :
               intent \in {"deck_query", "card_query"}, card \in {NoCard, "Giant"},
               n \in {<<None, None>>, <<1, None>>, <<None, 99>>, <<None, Garbled>>}}

(* "null", and a text as long as a deck, in the place of the list. *)
DeckText(text) == [Raw("deck_query") EXCEPT !.listed = FALSE, !.deck = text]
Null == <<"n", "u", "l", "l">>
Texts == {DeckText(Null), DeckText(<<"b", "a", "d">>),
          [DeckText(Null) EXCEPT !.card = "Giant"], [DeckText(Null) EXCEPT !.rank = 1]}

Singles == Numbered \cup Texts \cup {Raw("reject"), Raw("chat"), Raw("meta_analysis_query"),
  Raw("card_rank_lookup_query"), [Raw("card_rank_lookup_query") EXCEPT !.card = "unknown"],
  Raw("card_compare_query"), [Raw("card_compare_query") EXCEPT !.names = <<"Witch", "Giant">>],
  [Raw("card_cooccurrence_query") EXCEPT !.card = "Giant", !.top = 99],
  [Raw("deck_query") EXCEPT !.deck = <<"Knight", "Giant", "Witch">>], Raw("schedule_query")}

Parts == {CardRaw("Knight", <<"usage_rate">>), CardRaw("Knight", <<"win_rate">>),
          CardRaw("Giant", <<"win_rate">>), Raw("meta_analysis_query"), Raw("deck_query"),
          DeckText(Null)}

(* One part more than MaxSubqueries. *)
Many == <<CardRaw("Knight", <<"usage_rate">>), CardRaw("Giant", <<"win_rate">>),
          Raw("deck_query"), Raw("card_compare_query"), CardRaw("Witch", <<"usage_rate">>)>>

MCPayloads ==
  {[intent |-> raw.intent, subs |-> <<raw>>] : raw \in Singles} \cup
  {[intent |-> "multi_intent", subs |-> <<a, b>>] : a \in Parts, b \in Parts} \cup
  {[intent |-> "multi_intent", subs |-> <<>>], [intent |-> "multi_intent", subs |-> Many]}

MCCard == {"Knight", "Knight Evolution", "Giant", "Witch", "Tower Princess"}
MCTower == {"Tower Princess"}
MCBaseOf == [c \in MCCard |-> IF c = "Knight Evolution" THEN "Knight" ELSE c]
MCCatalogue == <<"Knight", "Giant", "Tower Princess">>
MCDecks == <<{"Knight", "Giant", "Witch"}, {"Giant", "Witch", "Tower Princess"}>>
=============================================================================
