--------------------------- MODULE BattleStatistics ---------------------------
(***************************************************************************)
(* The structured statistics of one dataset scope: what                    *)
(* structured_stats.build_structured_stats accumulates, battle by battle,  *)
(* in the tables of stats/schema.py.                                       *)
(*                                                                         *)
(* A table is a function from its primary key to a row of counts.  Rates   *)
(* and ratings are functions of the counts and are left out, except where  *)
(* a query orders by them (StatisticsQueries).  A deck is a set of card    *)
(* names, and its signature is the deck itself; a complete loadout is      *)
(* identified by Signature (Loadouts).                                     *)
(*                                                                         *)
(* A battle is [decks, crowns, time, row]: for each of its two sides, in   *)
(* the canonical order, the list of card names and the crowns, then the    *)
(* time of the battle and the stored loadouts.                             *)
(***************************************************************************)
EXTENDS Loadouts

CONSTANT Archetype(_)   \* the archetype classify_deck gives a deck

Other(side) == 3 - side

(* _deck: the set of cards, or {} unless they are exactly DeckSize distinct ones. *)
Deck(names) ==
  IF Len(names) = DeckSize /\ IsInjective(names) THEN Range(names) ELSE {}

Included(battle) == \A s \in 1..2 : Deck(battle.decks[s]) # {}

WithLoadouts(battle) == Included(battle) /\ BothComplete(battle.row)

(* The row that one side of a battle adds to a table; decks and loadouts     *)
(* count their crowns too.                                                 *)
Result(battle, side) ==
  LET own == battle.crowns[side]
      opposing == battle.crowns[Other(side)]
      one(condition) == IF condition THEN 1 ELSE 0
  IN [games |-> 1, wins |-> one(own > opposing), losses |-> one(own < opposing),
      draws |-> one(own = opposing)]

CrownedResult(battle, side) == Result(battle, side) @@ [crowns |-> battle.crowns[side]]

Plus(row, added) == [f \in DOMAIN row |-> row[f] + added[f]]

(* increment, and the INSERT ... ON CONFLICT DO UPDATE of upsert_deck. *)
Added(table, key, row) ==
  IF key \in DOMAIN table THEN [table EXCEPT ![key] = Plus(@, row)]
  ELSE table @@ (key :> row)

AddedAll(table, keys, row) ==
  FoldSet(LAMBDA key, rows : Added(rows, key, row), table, keys)

(* The lesser of two signatures: any fixed order serves. *)
Lesser(a, b) == CHOOSE x \in {a, b} : TRUE

MatchupRow(battle, first) ==
  LET result == Result(battle, first)
  IN [games |-> 1, winsA |-> result.wins, winsB |-> result.losses, draws |-> result.draws,
      crownsA |-> battle.crowns[first], crownsB |-> battle.crowns[Other(first)]]

MatchupUpserted(table, key, row, time) ==
  LET old == table[key]
      counts == Plus([f \in DOMAIN row |-> old[f]], row)
      latest == IF time > old.latest THEN time ELSE old.latest
  IN IF key \in DOMAIN table
     THEN [table EXCEPT ![key] = counts @@ [latest |-> latest]]
     ELSE table @@ (key :> (row @@ [latest |-> time]))

(* upsert_matchup: one row for a pair of decks, the lesser signature first. *)
MatchupAdded(table, keys, battle) ==
  LET first == IF keys[1] = Lesser(keys[1], keys[2]) THEN 1 ELSE 2
  IN MatchupUpserted(table, <<keys[first], keys[Other(first)]>>,
                     MatchupRow(battle, first), battle.time)

(* Seeded fault: the loadouts are filed under each other's names. *)
FullMatchupAddedReversed(table, battle) ==
  MatchupAdded(table, <<Signature(battle.row[2]), Signature(battle.row[1])>>, battle)

(* upsert_full_matchup: the same for a pair of complete loadouts. *)
FullMatchupAdded(table, battle) ==
  MatchupAdded(table, <<Signature(battle.row[1]), Signature(battle.row[2])>>, battle)

(* The seven tables that hold one row per deck, card or archetype of a side. *)
SideAdded(tables, battle, side) ==
  LET own == Deck(battle.decks[side])
      opposing == Deck(battle.decks[Other(side)])
      result == Result(battle, side)
  IN [tables EXCEPT
        !.decks = Added(@, own, CrownedResult(battle, side)),
        !.archetypeDecks = Added(@, <<Archetype(own), own>>, result),
        !.archetypes = Added(@, Archetype(own), result),
        !.archetypeMatchups = Added(@, <<Archetype(own), Archetype(opposing)>>, result),
        !.cards = AddedAll(@, own, result),
        !.teammates = AddedAll(@, {p \in own \X own : p[1] # p[2]}, result),
        !.opponents = AddedAll(@, own \X opposing, result)]

(* upsert_full_loadout: the base deck is the one of the first battle.      *)
LoadoutAdded(table, signature, base, result) ==
  IF signature \in DOMAIN table
  THEN [table EXCEPT ![signature].tally = Plus(@, result)]
  ELSE table @@ (signature :> [base |-> base, tally |-> result])

(* The form a card is played in: special_state of increment_loadout_features. *)
Form(card) ==
  IF Elite(card) = "yes" THEN "elite"
  ELSE IF card.evolution = 1 THEN "evolution" ELSE "ordinary"

CardEntity(card) == <<"card", card.id, Form(card)>>
TowerEntity(side) == <<"tower", side.tower>>

(* increment_loadout_features.  The card ids of a complete loadout are      *)
(* distinct, so every key below is counted once for a side.                *)
FeaturesAdded(tables, loadout, result) ==
  LET cards == Range(loadout.cards)
      with(P(_)) == {c \in cards : P(c)}
  IN [tables EXCEPT
        !.towers = Added(@, loadout.tower, result),
        !.entities = AddedAll(@, {TowerEntity(loadout)} \cup {CardEntity(c) : c \in cards}, result),
        !.evolutions = AddedAll(@, {c.id : c \in with(LAMBDA c : c.evolution = 1)}, result),
        !.elites = AddedAll(@, {c.id : c \in with(LAMBDA c : Elite(c) = "yes")}, result),
        !.catalog =
          FoldSet(LAMBDA c, rows :
                    Added(rows, c.id,
                      [appearances |-> 1, evolved |-> IF c.evolution = 1 THEN 1 ELSE 0,
                       elite |-> IF Elite(c) = "yes" THEN 1 ELSE 0]), @, cards)]

FullSideAdded(tables, battle, side) ==
  LET loadout == battle.row[side] IN
  FeaturesAdded(
    [tables EXCEPT !.loadouts = LoadoutAdded(@, Signature(loadout), Deck(battle.decks[side]),
                                             CrownedResult(battle, side))],
    loadout, Result(battle, side))

(* The tables of stats/schema.py, and the counts of the manifest. *)
EmptyTables ==
  [decks |-> <<>>, archetypeDecks |-> <<>>, archetypes |-> <<>>, archetypeMatchups |-> <<>>,
   cards |-> <<>>, teammates |-> <<>>, opponents |-> <<>>, matchups |-> <<>>,
   loadouts |-> <<>>, fullMatchups |-> <<>>, towers |-> <<>>, entities |-> <<>>,
   evolutions |-> <<>>, elites |-> <<>>, catalog |-> <<>>,
   source |-> 0, included |-> 0, withLoadouts |-> 0]

(* The body of the loop of build_structured_stats, for one battle. *)
DecksCounted(tables, battle) ==
  LET sides == SideAdded(SideAdded(tables, battle, 1), battle, 2)
  IN [sides EXCEPT
        !.included = @ + 1,
        !.matchups = MatchupAdded(@, <<Deck(battle.decks[1]), Deck(battle.decks[2])>>, battle)]

LoadoutsCounted(tables, battle) ==
  LET sides == FullSideAdded(FullSideAdded(tables, battle, 1), battle, 2)
  IN [sides EXCEPT
        !.withLoadouts = @ + 1,
        !.fullMatchups = FullMatchupAdded(@, battle)]

IncludedCounted(tables, battle) ==
  IF WithLoadouts(battle) THEN LoadoutsCounted(tables, battle) ELSE tables

Counted(tables, battle) ==
  LET source == [tables EXCEPT !.source = @ + 1]
  IN IF Included(battle) THEN IncludedCounted(DecksCounted(source, battle), battle) ELSE source

(* build_structured_stats over the battles of a scope, [id -> battle]. *)
Statistics(battles) ==
  FoldSet(LAMBDA id, tables : Counted(tables, battles[id]), EmptyTables, DOMAIN battles)

(* The counts of the manifest derived from the tables. *)
SideRecords(tables) == 2 * tables.included
FullSideRecords(tables) == 2 * tables.withLoadouts
=============================================================================
