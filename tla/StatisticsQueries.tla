--------------------------- MODULE StatisticsQueries ---------------------------
(***************************************************************************)
(* What the structured query repository (structured_query.py) answers from *)
(* the tables of one dataset scope, and the answers those queries owe: the *)
(* same counts taken directly from the battles of the scope.               *)
(*                                                                         *)
(* NoEvidence stands for the errors that say the scope has no such         *)
(* evidence, Rejected for those that refuse the request.                   *)
(***************************************************************************)
EXTENDS BattleStatistics

CONSTANTS
  NoEvidence, Rejected,
  MaxRows,       \* rows of a common-opponents or common-teammates list (10)
  LowSample      \* LOW_SAMPLE_THRESHOLD (20)

------------------------------------------------------------------------------
(* Validation (query_contracts.py): a card is in the catalog of the scope, a *)
(* deck is DeckSize distinct such cards, a loadout is complete and every    *)
(* card has one of the three official special modes.                        *)
Catalog(tables) == DOMAIN tables.cards

ValidDeck(tables, names) == Deck(names) # {} /\ Deck(names) \subseteq Catalog(tables)

ValidLoadout(loadout) ==
  /\ CompleteSide(loadout)
  /\ \A c \in Range(loadout.cards) :
       <<c.evolution, Elite(c)>> \in {<<0, "no">>, <<1, "no">>, <<2, "yes">>}

LowSampled(count) == count < LowSample

(* provenance: the sizes that every answer states beside its counts. *)
Provenance(tables) ==
  [total |-> tables.source, included |-> tables.included,
   sides |-> SideRecords(tables), loadoutSides |-> FullSideRecords(tables)]

Row(table, key) == IF key \in DOMAIN table THEN table[key] ELSE NoEvidence

(* The elements of a set in an order; ORDER BY ends with the key, so that     *)
(* equal elements come in a fixed order.                                   *)
Sorted(S, before(_, _)) ==
  FoldSet(LAMBDA x, sorted :
            LET i == Cardinality({k \in DOMAIN sorted : ~before(x, sorted[k])})
            IN SubSeq(sorted, 1, i) \o <<x>> \o SubSeq(sorted, i + 1, Len(sorted)),
          <<>>, S)

First(sequence, n) == SubSeq(sequence, 1, IF Len(sequence) < n THEN Len(sequence) ELSE n)

(* The first n keys by games. *)
MostPlayed(table, keys, n) ==
  LET kept == First(Sorted(keys, LAMBDA a, b : table[a].games > table[b].games), n)
  IN [i \in DOMAIN kept |-> [item |-> kept[i], row |-> table[kept[i]]]]

PartnersOf(table, card, n) ==
  MostPlayed(table, {key \in DOMAIN table : key[1] = card}, n)

(* card_stats, compare_cards, card_pair_stats and card_teammate_rankings. *)
CardStats(tables, card) ==
  IF card \notin Catalog(tables) THEN Rejected
  ELSE [card |-> tables.cards[card],
        teammates |-> PartnersOf(tables.teammates, card, MaxRows),
        opponents |-> PartnersOf(tables.opponents, card, MaxRows),
        low |-> LowSampled(tables.cards[card].games)]

CompareCards(tables, a, b) ==
  IF a = b \/ {a, b} \ Catalog(tables) # {} THEN Rejected
  ELSE <<tables.cards[a], tables.cards[b]>>

CardPair(tables, a, b) ==
  IF a = b \/ {a, b} \ Catalog(tables) # {} THEN Rejected
  ELSE IF <<a, b>> \in DOMAIN tables.teammates THEN tables.teammates[<<a, b>>]
  ELSE Row(tables.teammates, <<b, a>>)

TeammateRanking(tables, card, n) ==
  IF card \notin Catalog(tables) \/ n \notin 1..30 THEN Rejected
  ELSE PartnersOf(tables.teammates, card, n)

------------------------------------------------------------------------------
(* The row of a pair, seen from the side whose signature is "own". *)
Seen(key, row, own) ==
  LET mine == key[1] = own
  IN [games |-> row.games, draws |-> row.draws, latest |-> row.latest,
      wins |-> IF mine THEN row.winsA ELSE row.winsB,
      losses |-> IF mine THEN row.winsB ELSE row.winsA,
      crowns |-> IF mine THEN row.crownsA ELSE row.crownsB,
      conceded |-> IF mine THEN row.crownsB ELSE row.crownsA]

(* Wins per decision, as an order: a row without decisions comes last.      *)
WinsMore(a, b) ==
  LET decisions(r) == r.wins + r.losses
  IN IF decisions(b) = 0 THEN a.wins > 0 ELSE a.wins * decisions(b) > b.wins * decisions(a)

(* deck_matchup and full_loadout_matchup, after validation. *)
PairAnswer(table, own, opposing) ==
  LET a == Lesser(own, opposing)
      key == <<a, IF own = a THEN opposing ELSE own>>
  IN IF key \in DOMAIN table THEN Seen(key, table[key], own) ELSE NoEvidence

DeckMatchup(tables, names, opposing) ==
  IF ~ValidDeck(tables, names) \/ ~ValidDeck(tables, opposing) THEN Rejected
  ELSE PairAnswer(tables.matchups, Deck(names), Deck(opposing))

FullLoadoutMatchup(tables, a, b) ==
  IF ~ValidLoadout(a) \/ ~ValidLoadout(b) THEN Rejected
  ELSE PairAnswer(tables.fullMatchups, Signature(a), Signature(b))

(* The common opponents of a profile, best results first. *)
OpponentsOf(table, own) ==
  LET keys == {key \in DOMAIN table : own \in {key[1], key[2]}}
      seen == [key \in keys |-> Seen(key, table[key], own)]
      best == First(Sorted(keys, LAMBDA a, b : WinsMore(seen[a], seen[b])), MaxRows)
  IN [i \in DOMAIN best |->
        [opponent |-> IF best[i][1] = own THEN best[i][2] ELSE best[i][1],
         row |-> seen[best[i]]]]

DeckProfile(tables, names) ==
  LET deck == Deck(names)
  IN IF ~ValidDeck(tables, names) THEN Rejected
     ELSE IF deck \notin DOMAIN tables.decks THEN NoEvidence
     ELSE [deck |-> tables.decks[deck], archetype |-> Archetype(deck),
           opponents |-> OpponentsOf(tables.matchups, deck)]

FullLoadoutProfile(tables, loadout) ==
  IF ~ValidLoadout(loadout) THEN Rejected
  ELSE IF Signature(loadout) \notin DOMAIN tables.loadouts THEN NoEvidence
  ELSE [loadout |-> tables.loadouts[Signature(loadout)],
        opponents |-> OpponentsOf(tables.fullMatchups, Signature(loadout))]

------------------------------------------------------------------------------
(* Rankings: equal values share a rank, and the next rank counts them all.  *)
(* "more" orders the rows by the metric.                                   *)
Ranking(table, more(_, _)) ==
  LET sorted == Sorted(DOMAIN table, LAMBDA a, b :
                  \/ more(table[a], table[b])
                  \/ /\ ~more(table[b], table[a])
                     /\ table[a].games > table[b].games)
      equal(a, b) == ~more(a, b) /\ ~more(b, a)
      ranked[i \in 0 .. Len(sorted)] ==
        IF i = 0 THEN <<>>
        ELSE LET row == table[sorted[i]]
                 tied == i > 1 /\ equal(row, table[sorted[i - 1]])
             IN Append(ranked[i - 1],
                  [item |-> sorted[i],
                   rank |-> IF tied THEN ranked[i - 1][i - 1].rank ELSE i])
  IN ranked[Len(sorted)]

UsedMore(a, b) == a.games > b.games
Metrics == {"usage_rate", "clean_win_rate"}

RankingBy(table, metric) ==
  CASE metric = "usage_rate" -> Ranking(table, UsedMore)
    [] metric = "clean_win_rate" -> Ranking(table, WinsMore)
    [] OTHER -> Rejected

CardRankings(tables, metric) == RankingBy(tables.cards, metric)
EntityRankings(tables, metric) == RankingBy(tables.entities, metric)

(* entity_stats, and compare_entities of two that are both in the scope. *)
EntityStats(tables, entity) == Row(tables.entities, entity)

CompareEntities(tables, a, b) ==
  IF a = b THEN Rejected
  ELSE IF {a, b} \subseteq DOMAIN tables.entities
  THEN <<tables.entities[a], tables.entities[b]>> ELSE NoEvidence

(* loadout_catalog: the towers and the cards seen, and the forms they have. *)
LoadoutCatalog(tables) ==
  [towers |-> MostPlayed(tables.towers, DOMAIN tables.towers, Cardinality(DOMAIN tables.towers)),
   cards |-> [c \in DOMAIN tables.catalog |->
                [evolves |-> tables.catalog[c].evolved > 0,
                 elite |-> tables.catalog[c].elite > 0]]]

(* archetypes: every archetype with its three most played decks. *)
Archetypes(tables) ==
  [a \in DOMAIN tables.archetypes |->
     [row |-> tables.archetypes[a],
      decks |-> MostPlayed(tables.archetypeDecks,
                           {key \in DOMAIN tables.archetypeDecks : key[1] = a}, 3)]]

(* build_answer_payload: for each card, its first decks among the most       *)
(* played (150 decks, ten of a card).                                      *)
DecksOf(tables, card) ==
  SelectSeq(MostPlayed(tables.decks, DOMAIN tables.decks, 150),
            LAMBDA entry : card \in entry.item)

------------------------------------------------------------------------------
(* What the battles themselves say.  A side of a battle is <<id, side>>.    *)
SidesOf(battles, P(_, _)) ==
  {x \in (DOMAIN battles) \X (1..2) : Included(battles[x[1]]) /\ P(battles[x[1]], x[2])}

CountOf(battles, sides) ==
  LET crownsOf(x) == battles[x[1]].crowns[x[2]]
      against(x) == battles[x[1]].crowns[Other(x[2])]
      number(P(_)) == Cardinality({x \in sides : P(x)})
  IN IF sides = {} THEN NoEvidence
     ELSE [games |-> Cardinality(sides),
           wins |-> number(LAMBDA x : crownsOf(x) > against(x)),
           losses |-> number(LAMBDA x : crownsOf(x) < against(x)),
           draws |-> number(LAMBDA x : crownsOf(x) = against(x))]

CrownedCountOf(battles, sides) ==
  IF sides = {} THEN NoEvidence
  ELSE CountOf(battles, sides)
         @@ [crowns |-> MapThenSumSet(LAMBDA x : battles[x[1]].crowns[x[2]], sides)]

PlayedBy(battle, side, deck) == Deck(battle.decks[side]) = deck
LoadedAs(battle, side, signature) ==
  WithLoadouts(battle) /\ Signature(battle.row[side]) = signature

(* The meetings of two contestants, seen from "own"; a meeting of equals    *)
(* is counted once, from its first side.                                   *)
MeetingsOf(battles, own, opposing, Is(_, _, _)) ==
  SidesOf(battles, LAMBDA battle, side :
            /\ Is(battle, side, own) /\ Is(battle, Other(side), opposing)
            /\ own = opposing => side = 1)

(* An answer about a pair agrees with the meetings it is about. *)
AgreesWith(answer, battles, meetings) ==
  LET count == CrownedCountOf(battles, meetings)
  IN IF meetings = {} THEN answer = NoEvidence
     ELSE /\ \A f \in DOMAIN count : answer[f] = count[f]
          /\ answer.conceded = MapThenSumSet(LAMBDA x : battles[x[1]].crowns[Other(x[2])], meetings)
          /\ answer.latest \in {battles[x[1]].time : x \in meetings}
          /\ \A x \in meetings : battles[x[1]].time <= answer.latest

(* Every row of a ranking has the rank its value earns. *)
RankedFairly(ranking, table, more(_, _)) ==
  /\ {ranking[i].item : i \in DOMAIN ranking} = DOMAIN table
  /\ Len(ranking) = Cardinality(DOMAIN table)
  /\ \A i \in DOMAIN ranking :
       ranking[i].rank =
         1 + Cardinality({k \in DOMAIN table : more(table[k], table[ranking[i].item])})
=============================================================================
