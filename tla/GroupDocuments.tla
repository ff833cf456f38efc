---------------------------- MODULE GroupDocuments ----------------------------
(***************************************************************************)
(* What a snapshot group derives from the statistics of its scopes: the    *)
(* changes from one window to the one before it (materializer_deltas.py),  *)
(* the evidence documents of the retrieval index (materializer_documents.py *)
(* and rag_document_policy.py), and the checks the documents must pass.    *)
(*                                                                         *)
(* A scope is [window, level].  The text of a document is its item and the *)
(* row it was written from.                                                *)
(***************************************************************************)
EXTENDS StatisticsQueries

CONSTANTS
  Windows,        \* DATASET_WINDOW_DEFINITIONS
  Levels,         \* the rank limits and "all"
  BaselineOf,     \* DELTA_SCOPE_PAIRS: window -> the window it is compared with
  WideThreshold,  \* samples of an entity or archetype that make a change count (200)
  DeckThreshold,  \* samples of a deck (30)
  RagLimit,       \* RAG_SOURCE_LIMITS: source type -> documents of a scope
  Apart(_, _)     \* the confidence intervals of two rows do not meet and the
                  \* change is meaningful (0.5 points of use or 3 of wins)

Scopes == [window : Windows, level : Levels]

Zero == [games |-> 0, wins |-> 0, losses |-> 0, draws |-> 0]
Uncrowned(row) == [f \in DOMAIN Zero |-> row[f]]
RowOrZero(table, item) == IF item \in DOMAIN table THEN Uncrowned(table[item]) ELSE Zero

(* insert_pair: one row for every item of either table. *)
Significant(current, baseline, threshold) ==
  \/ current.games = 0 /\ baseline.games >= threshold
  \/ baseline.games = 0 /\ current.games >= threshold
  \/ /\ current.games >= threshold /\ baseline.games >= threshold
     /\ Apart(current, baseline)

Change(category, baselineScope, item, current, baseline, threshold) ==
  LET now == RowOrZero(current, item)
      before == RowOrZero(baseline, item)
  IN [subject |-> <<category, item>>, baseline |-> baselineScope,
      now |-> now, before |-> before, significant |-> Significant(now, before, threshold)]

CategoryOf(change) == change.subject[1]
ItemOf(change) == change.subject[2]

(* Seeded fault: an item that disappeared has no row. *)
PairOfCurrent(category, baselineScope, current, baseline, threshold) ==
  {Change(category, baselineScope, item, current, baseline, threshold) : item \in DOMAIN current}

Pair(category, baselineScope, current, baseline, threshold) ==
  {Change(category, baselineScope, item, current, baseline, threshold)
     : item \in (DOMAIN current) \cup (DOMAIN baseline)}

(* full_loadout_base_rows: complete loadouts summed by their base deck. *)
BaseRows(tables) ==
  LET based(deck) == {l \in DOMAIN tables.loadouts : tables.loadouts[l].base = deck}
  IN [deck \in {tables.loadouts[l].base : l \in DOMAIN tables.loadouts} |->
        FoldSet(LAMBDA l, row : Plus(row, Uncrowned(tables.loadouts[l].tally)), Zero, based(deck))]

(* materialize_meta_deltas, for one scope; "ready" says which scopes have    *)
(* battles and "loaded" which have complete loadouts.                      *)
Earlier(scope) == [scope EXCEPT !.window = BaselineOf[@]]

Compared(scope, ready) ==
  scope.window \in DOMAIN BaselineOf /\ {scope, Earlier(scope)} \subseteq ready

Changes(tables, scope) ==
  LET new == tables[scope]
      old == tables[Earlier(scope)]
  IN Pair("entity", Earlier(scope), new.entities, old.entities, WideThreshold)
       \cup Pair("archetype", Earlier(scope), new.archetypes, old.archetypes, WideThreshold)
       \cup Pair("deck", Earlier(scope), new.decks, old.decks, DeckThreshold)

Divergence(tables, scope) ==
  Pair("base8_full_loadout_divergence", scope, tables[scope].decks,
       BaseRows(tables[scope]), DeckThreshold)

Deltas(tables, ready, loaded) ==
  [scope \in Scopes |->
     (IF Compared(scope, ready) THEN Changes(tables, scope) ELSE {})
       \cup (IF scope \in ready \cap loaded THEN Divergence(tables, scope) ELSE {})]

------------------------------------------------------------------------------
(* Seeded fault: the divergence of a deck is filed as a change of the deck. *)
ChangeIdMerged(change) ==
  <<"meta-delta",
    IF CategoryOf(change) = "base8_full_loadout_divergence" THEN "deck" ELSE CategoryOf(change),
    ItemOf(change)>>

ChangeId(change) == <<"meta-delta", CategoryOf(change), ItemOf(change)>>

Document(group, scope, type, id, text) ==
  [id |-> <<group, scope>> \o id, type |-> type, group |-> group, scope |-> scope,
   text |-> text]

(* One document for each row, in order; and the rows that the limit of a     *)
(* source type leaves.                                                     *)
FromRows(group, scope, type, kind, rows) ==
  [i \in DOMAIN rows |->
     Document(group, scope, type, <<kind, rows[i].item>>, <<rows[i].item, rows[i].row>>)]

All(table) == MostPlayed(table, DOMAIN table, Cardinality(DOMAIN table))
Bounded(table, type) == MostPlayed(table, DOMAIN table, RagLimit[type])

LoadoutRows(table, type) ==
  LET tallies == [l \in DOMAIN table |-> table[l].tally] IN Bounded(tallies, type)

(* Every pair of cards once, in the order of their names. *)
PairRows(table) ==
  MostPlayed(table, {p \in DOMAIN table : Lesser(p[1], p[2]) = p[1]}, RagLimit["card_pair"])

(* The changes of a scope, significant ones first, behind their overview.   *)
ChangeDocuments(group, scope, changes) ==
  LET kept == First(Sorted(changes, LAMBDA a, b : a.significant /\ ~b.significant),
                    RagLimit["meta_delta"] - 1)
      significant == Cardinality({i \in DOMAIN kept : kept[i].significant})
  IN IF kept = <<>> THEN <<>>
     ELSE <<Document(group, scope, "meta_delta", <<"meta-delta", "overview">>,
                     <<kept[1].baseline, Len(kept), significant>>)>>
            \o [i \in DOMAIN kept |->
                  Document(group, scope, "meta_delta", ChangeId(kept[i]), kept[i])]

(* The cards, loadout entities, decks and archetypes of a scope. *)
CardDocuments(group, scope, t) ==
  FromRows(group, scope, "card", "card", All(t.cards))

EntityDocuments(group, scope, t) ==
  LET rows == All(t.entities)
  IN [i \in DOMAIN rows |->
        Document(group, scope, IF rows[i].item[1] = "tower" THEN "tower" ELSE "card_variant",
                 <<"entity", rows[i].item>>, <<rows[i].item, rows[i].row>>)]

DeckDocuments(group, scope, t) ==
  LET rows == Bounded(t.decks, "deck")
      document(i, type, kind) ==
        Document(group, scope, type, <<kind, rows[i].item>>, <<rows[i].item, rows[i].row>>)
  IN [i \in 1 .. 2 * Len(rows) |->
        IF i % 2 = 1 THEN document((i + 1) \div 2, "deck", "deck")
        ELSE document(i \div 2, "deck_profile", "deck-profile")]

ArchetypeDocuments(group, scope, t) ==
  FromRows(group, scope, "archetype", "archetype", All(t.archetypes))

LoadoutDocuments(group, scope, t) ==
  FromRows(group, scope, "full_loadout", "full-loadout", LoadoutRows(t.loadouts, "full_loadout"))

FullMatchupDocuments(group, scope, t) ==
  FromRows(group, scope, "full_loadout_matchup", "full-matchup",
           Bounded(t.fullMatchups, "full_loadout_matchup"))

MatchupDocuments(group, scope, t) ==
  FromRows(group, scope, "matchup", "matchup", Bounded(t.matchups, "matchup"))

PairDocuments(group, scope, t) ==
  FromRows(group, scope, "card_pair", "card-pair", PairRows(t.teammates))

CounterDocuments(group, scope, t) ==
  FromRows(group, scope, "counter", "counter", Bounded(t.opponents, "counter"))

ProfileDocuments(group, scope, t) ==
  FromRows(group, scope, "card_profile", "card-profile", Bounded(t.cards, "card_profile"))

(* build_rag_documents: the documents of a scope, then those of the group.  *)
ScopeDocuments(group, scope, t, changes, overview) ==
  <<Document(group, scope, "snapshot", <<"overview">>, overview)>>
    \o CardDocuments(group, scope, t)
    \o EntityDocuments(group, scope, t)
    \o DeckDocuments(group, scope, t)
    \o ArchetypeDocuments(group, scope, t)
    \o ChangeDocuments(group, scope, changes)
    \o LoadoutDocuments(group, scope, t)
    \o FullMatchupDocuments(group, scope, t)
    \o MatchupDocuments(group, scope, t)
    \o PairDocuments(group, scope, t)
    \o CounterDocuments(group, scope, t)
    \o ProfileDocuments(group, scope, t)

(* validate_documents. *)
ValidDocuments(documents, group) ==
  /\ documents # <<>>
  /\ \A i, k \in DOMAIN documents : documents[i].id = documents[k].id => i = k
  /\ {documents[i].scope : i \in DOMAIN documents} = Scopes
  /\ \A i \in DOMAIN documents : documents[i].group = group

(* summarize_scope_documents: how many documents of each type a scope has.  *)
SourceCounts(documents) ==
  [scope \in Scopes |->
     [type \in {documents[i].type : i \in DOMAIN documents} |->
        Cardinality({i \in DOMAIN documents :
                       documents[i].scope = scope /\ documents[i].type = type})]]
=============================================================================
