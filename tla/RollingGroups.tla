---------------------------- MODULE RollingGroups ----------------------------
(***************************************************************************)
(* The contents of the snapshot groups that rolling_materializer.          *)
(* build_snapshot_group publishes from the corpus, one publication after   *)
(* another: which scopes are rebuilt and which are taken over from the     *)
(* group before, and what the tables, changes and documents of a group say *)
(* of the battles in the corpus.  RollingPublication has the protocol      *)
(* around it (locks, faults, the pointer); here a publication is one step. *)
(*                                                                         *)
(* Time is counted in windows: an observation made at "week" is in the     *)
(* window w at time t when t - week is Age[w] (or any age, for the window  *)
(* that covers them all).                                                  *)
(***************************************************************************)
EXTENDS GroupDocuments

CONSTANTS
  BattleId,      \* battle ids
  Facts,         \* [BattleId -> [decks, crowns, time]], the immutable facts
  Sightings,     \* [BattleId -> the loadout rows an observation may bring]
  Age,           \* [Windows -> the ages its observations have]
  Within,        \* [rank limits among the Levels -> the observers' levels in them]
  Retained,      \* weeks an observation is kept (5)
  MaxWeek, MaxGroups, MaxObservations,  \* bounds of the instance
  NoGroup

ASSUME GroupsAssumption ==
  /\ DOMAIN Within \subseteq Levels
  /\ \A limit \in DOMAIN Within : Within[limit] \subseteq DOMAIN Within
  /\ Retained \in Nat \ {0} /\ MaxWeek \in Nat /\ MaxGroups \in Nat
  /\ \A b \in BattleId : NoLoadouts \in Sightings[b] /\ \A row \in Sightings[b] : IsRow(row)

VARIABLES
  now,           \* the current week
  seen,          \* the observations in the corpus
  rows,          \* battle_loadouts: [BattleId -> NoLoadouts or the two sides]
  published,     \* publications so far
  active         \* the published group, or NoGroup

groupsVars == <<now, seen, rows, published, active>>

(* An observation counts from the completion of its batch, "at"; its level  *)
(* is the lowest rank limit its observer is within, and that of one who was *)
(* not observed by rank counts for no limit.                                *)
GroupObservation == [battle : BattleId, at : 0 .. MaxWeek, level : Levels, accepted : BOOLEAN]
Open == {o \in seen : ~o.accepted}

GroupsInit ==
  /\ now = 0 /\ seen = {} /\ published = 0 /\ active = NoGroup
  /\ rows = [b \in BattleId |-> NoLoadouts]

------------------------------------------------------------------------------
Unobserved(kept) == [b \in BattleId |->
  IF \E o \in kept : o.battle = b THEN rows[b] ELSE NoLoadouts]

(* ingest_battle into the open batch.  The row of the battle is upserted at  *)
(* once, whatever becomes of the batch; rows that disagree make the batch  *)
(* conflicted, and nothing is observed.                                    *)
Observe(b, row, level) ==
  LET o == [battle |-> b, at |-> 0, level |-> level, accepted |-> FALSE]
  IN /\ o \notin seen /\ Cardinality(seen) < MaxObservations
     /\ ~Disagree(rows[b], row)
     /\ seen' = seen \cup {o}
     /\ rows' = [rows EXCEPT ![b] = IF row = NoLoadouts THEN @ ELSE Upserted(@, row)]
     /\ UNCHANGED <<now, published, active>>

(* finalize_batch: the batch is accepted now, or rejected with what it saw.  *)
Accept ==
  /\ Open # {}
  /\ seen' = {IF o.accepted THEN o ELSE [o EXCEPT !.accepted = TRUE, !.at = now] : o \in seen}
  /\ UNCHANGED <<now, rows, published, active>>

Reject ==
  /\ Open # {}
  /\ seen' = seen \ Open
  /\ rows' = Unobserved(seen \ Open)
  /\ UNCHANGED <<now, published, active>>

(* A week passes; expire_and_prune drops what is out of the last window.    *)
NextWeek ==
  LET kept == {o \in seen : o.accepted => now + 1 - o.at < Retained}
  IN /\ now < MaxWeek
     /\ now' = now + 1
     /\ seen' = kept
     /\ rows' = Unobserved(kept)
     /\ UNCHANGED <<published, active>>

------------------------------------------------------------------------------
(* scope_battle_ids: the battles of a scope at this time. *)
Content(scope) ==
  {b \in BattleId : \E o \in seen :
     /\ o.battle = b /\ o.accepted
     /\ now - o.at \in Age[scope.window]
     /\ scope.level \in DOMAIN Within => o.level \in Within[scope.level]}

(* iter_scope_battles: their facts and their stored loadouts. *)
Source(scope) ==
  [b \in Content(scope) |->
     [decks |-> Facts[b].decks, crowns |-> Facts[b].crowns, time |-> Facts[b].time,
      row |-> rows[b]]]

(* Seeded fault: a scope is unchanged when it has as many battles as before. *)
ReusableByCount(scope) ==
  /\ active # NoGroup
  /\ Cardinality(active.datasets[scope].content) = Cardinality(Content(scope))

(* The scope is taken over when its fingerprint, the ids of its battles, is  *)
(* that of the previous group.                                             *)
Reusable(scope) ==
  /\ active # NoGroup
  /\ active.datasets[scope].content = Content(scope)

(* scope_battle_count and dataset_summary. *)
BattleCount(scope) == Cardinality(Content(scope))
Summary(scope) == [battles |-> BattleCount(scope), ready |-> BattleCount(scope) > 0]

(* _write_scope_source and the statistics of what it wrote, or               *)
(* _copy_scope_stats from the previous group; "source" records what the     *)
(* tables were built from.                                                 *)
Rebuilt(source) == [source |-> source, tables |-> Statistics(source)]

TakenOver(old) == [source |-> old.source, tables |-> old.tables]

(* The dataset of a scope: its tables, where they come from, and what they *)
(* are ready for.                                                          *)
Described(scope, built) ==
  [source |-> built.source, tables |-> built.tables,
   content |-> Content(scope), reused |-> Reusable(scope), ready |-> Summary(scope).ready,
   completeLoadoutReady |-> FullSideRecords(built.tables) > 0,
   entityStatsReady |-> DOMAIN built.tables.entities # {}]

Dataset(scope) ==
  Described(scope, IF Reusable(scope) THEN TakenOver(active.datasets[scope])
                   ELSE Rebuilt(Source(scope)))

(* _merge_scope_stats: the tables of the group, with the scope in every key.  *)
GroupTables(datasets) == [s \in Scopes |-> datasets[s].tables]

(* build_snapshot_group: the scopes, the changes between them, the documents. *)
GroupDeltas(datasets) ==
  Deltas(GroupTables(datasets),
         {s \in Scopes : datasets[s].ready},
         {s \in Scopes : datasets[s].completeLoadoutReady})

Overview(group, scope) == <<BattleCount(scope), now, group>>

GroupOf(group, datasets, deltas) ==
  FoldSet(LAMBDA s, documents :
            documents \o ScopeDocuments(group, s, datasets[s].tables, deltas[s],
                                        Overview(group, s)),
          <<>>, Scopes)

(* The group with its manifest. *)
WithDocuments(group, datasets, deltas, documents) ==
  [id |-> group, at |-> now, datasets |-> datasets, deltas |-> deltas,
   deltaReady |-> {s \in Scopes : Compared(s, {r \in Scopes : datasets[r].ready})},
   valid |-> ValidDocuments(documents, group), counts |-> SourceCounts(documents)]

WithDeltas(group, datasets, deltas) ==
  WithDocuments(group, datasets, deltas, GroupOf(group, datasets, deltas))

WithDatasets(group, datasets) == WithDeltas(group, datasets, GroupDeltas(datasets))

Candidate == WithDatasets(published + 1, [s \in Scopes |-> Dataset(s)])

(* A publication needs an accepted batch in the retained weeks; documents    *)
(* that are not valid make it fail, and the active group stays.            *)
Collected == \E o \in seen : o.accepted /\ now - o.at < Retained

Installed(candidate) == IF candidate.valid THEN candidate ELSE active

Publish ==
  /\ published < MaxGroups /\ Collected
  /\ published' = published + 1
  /\ active' = Installed(Candidate)
  /\ UNCHANGED <<now, seen, rows>>

GroupsNext ==
  \/ \E b \in BattleId, level \in Levels : \E row \in Sightings[b] : Observe(b, row, level)
  \/ Accept
  \/ Reject
  \/ NextWeek
  \/ Publish

GroupsSpec == GroupsInit /\ [][GroupsNext]_groupsVars
------------------------------------------------------------------------------
Names == {Facts[b].decks[i] : b \in BattleId, i \in 1..2}
Sides == UNION {{row[i] : i \in 1..2} : row \in UNION {Sightings[b] : b \in BattleId} \ {NoLoadouts}}
Loaded == {s \in Sides : ValidLoadout(s)}

(* What a query over deck "names" owes, over the battles of the scope.      *)
Played(battles, names) ==
  SidesOf(battles, LAMBDA battle, side : PlayedBy(battle, side, Deck(names)))

CardSides(battles, cards) ==
  SidesOf(battles, LAMBDA battle, side : cards \subseteq Deck(battle.decks[side]))

(* A list of the first rows among "keys": none that was left out has more games. *)
TopRows(list, table, keys) ==
  LET listed == {list[i].item : i \in DOMAIN list}
      others == ((DOMAIN table) \cap keys) \ listed
  IN /\ listed \subseteq (DOMAIN table) \cap keys
     /\ others # {} => Cardinality(listed) = MaxRows
     /\ \A key \in listed, other \in others : table[key].games >= table[other].games

DeckAnswersExact(tables, battles) ==
  /\ \A d \in Names : ValidDeck(tables, d) =>
       LET profile == DeckProfile(tables, d)
           count == CrownedCountOf(battles, Played(battles, d))
       IN /\ IF count = NoEvidence THEN profile = NoEvidence ELSE profile.deck = count
          /\ \A e \in Names : ValidDeck(tables, e) =>
               AgreesWith(DeckMatchup(tables, d, e), battles,
                          MeetingsOf(battles, Deck(d), Deck(e), PlayedBy))
  /\ \A c \in Catalog(tables) :
       /\ CardStats(tables, c).card = CountOf(battles, CardSides(battles, {c}))
       /\ \A d \in Catalog(tables) \ {c} :
            /\ CardPair(tables, c, d) = CountOf(battles, CardSides(battles, {c, d}))
            /\ CompareCards(tables, c, d) = <<tables.cards[c], tables.cards[d]>>
       /\ TopRows(TeammateRanking(tables, c, MaxRows), tables.teammates, {c} \X Catalog(tables))
       /\ TopRows(CardStats(tables, c).opponents, tables.opponents, {c} \X Catalog(tables))
       /\ {DecksOf(tables, c)[i].item : i \in DOMAIN DecksOf(tables, c)}
            = {deck \in DOMAIN tables.decks : c \in deck}
  /\ \A a \in DOMAIN Archetypes(tables) :
       Archetypes(tables)[a].row =
         CountOf(battles, SidesOf(battles, LAMBDA x, i : Archetype(Deck(x.decks[i])) = a))
  /\ RankedFairly(CardRankings(tables, "usage_rate"), tables.cards, UsedMore)
  /\ RankedFairly(CardRankings(tables, "clean_win_rate"), tables.cards, WinsMore)

(* StructuredStatsRepository.for_snapshot_group: the scopes that can be asked. *)
Answerable ==
  IF active = NoGroup THEN {} ELSE {s \in Scopes : active.datasets[s].ready}

(* The sizes an answer states, and the tables its rates are relative to.    *)
ProvenanceExact(tables, battles) ==
  LET p == Provenance(tables)
      counted == {b \in DOMAIN battles : Included(battles[b])}
  IN /\ p.total = Cardinality(DOMAIN battles)
     /\ p.included = Cardinality(counted)
     /\ p.sides = MapThenSumSet(LAMBDA deck : tables.decks[deck].games, DOMAIN tables.decks)
     /\ p.loadoutSides <= p.sides

(* Every answer about decks and cards is what the battles of the scope, as   *)
(* the corpus had them when the group was published, say: also for a scope *)
(* whose tables were taken over from an older group (rolling_materializer  *)
(* _copy_scope_stats, deck_queries, card_detail_queries).                  *)
BaseAnswersExact ==
  \A s \in Answerable :
    LET d == active.datasets[s]
        battles == [b \in d.content |-> Facts[b]]
    IN DeckAnswersExact(d.tables, battles) /\ ProvenanceExact(d.tables, battles)

LoadedSides(battles, P(_)) ==
  SidesOf(battles, LAMBDA battle, side : WithLoadouts(battle) /\ P(battle.row[side]))

Has(entity, loadout) ==
  entity = TowerEntity(loadout) \/ \E c \in Range(loadout.cards) : entity = CardEntity(c)

Entities == {TowerEntity(l) : l \in Loaded} \cup
            UNION {{CardEntity(c) : c \in Range(l.cards)} : l \in Loaded}

(* Every answer about complete loadouts and their entities is what the       *)
(* battles, with the loadouts they had when the scope was last rebuilt, say *)
(* (full_loadout_queries, entity_queries, loadout_stats).                  *)
LoadoutAnswersExact ==
  \A s \in Answerable :
      LET t == active.datasets[s].tables
          battles == active.datasets[s].source
      IN /\ \A l \in Loaded :
              LET count == CrownedCountOf(battles,
                             LoadedSides(battles, LAMBDA x : Signature(x) = Signature(l)))
                  profile == FullLoadoutProfile(t, l)
              IN /\ IF count = NoEvidence THEN profile = NoEvidence ELSE profile.loadout.tally = count
                 /\ \A k \in Loaded :
                      AgreesWith(FullLoadoutMatchup(t, l, k), battles,
                                 MeetingsOf(battles, Signature(l), Signature(k), LoadedAs))
         /\ \A e \in Entities :
              EntityStats(t, e) = CountOf(battles, LoadedSides(battles, LAMBDA x : Has(e, x)))
         /\ \A e, f \in DOMAIN t.entities :
              e # f => CompareEntities(t, e, f) = <<EntityStats(t, e), EntityStats(t, f)>>
         /\ \A c \in DOMAIN LoadoutCatalog(t).cards :
              LoadoutCatalog(t).cards[c].evolves <=>
                EntityStats(t, <<"card", c, "evolution">>) # NoEvidence
         /\ RankedFairly(EntityRankings(t, "usage_rate"), t.entities, UsedMore)

(* A question about decks, cards, loadouts or entities has the answer the  *)
(* battles give, from whichever tables it is read.                         *)
AnswersExact == BaseAnswersExact /\ LoadoutAnswersExact

(* A change between two windows says what the battles of both say, and every *)
(* deck of either has one (materialize_meta_deltas); the decks that only    *)
(* complete loadouts count are never more than all games of the deck.       *)
ChangesTruthful ==
  active # NoGroup =>
    \A s \in Scopes :
      LET countIn(scope, deck) ==
            LET battles == [b \in active.datasets[scope].content |-> Facts[b]]
                count == CountOf(battles, SidesOf(battles, LAMBDA x, i : PlayedBy(x, i, deck)))
            IN IF count = NoEvidence THEN Zero ELSE count
          of(category) == {c \in active.deltas[s] : CategoryOf(c) = category}
      IN /\ \A c \in of("deck") :
              c.now = countIn(s, ItemOf(c)) /\ c.before = countIn(c.baseline, ItemOf(c))
         /\ s \in active.deltaReady =>
              \A scope \in {s, Earlier(s)} : \A deck \in DOMAIN active.datasets[scope].tables.decks :
                \E c \in of("deck") : ItemOf(c) = deck
         /\ \A c \in of("base8_full_loadout_divergence") :
              c.before.games <= c.now.games /\ c.before.wins <= c.now.wins

(* Whatever the corpus holds, the documents of the next group pass the       *)
(* validation that build_snapshot_group makes a publication depend on.     *)
AlwaysPublishable == Collected => Candidate.valid

(* The rows are rows some observation brought. *)
GroupsTypeOK ==
  /\ now \in 0 .. MaxWeek /\ published \in 0 .. MaxGroups
  /\ seen \subseteq GroupObservation
  /\ DOMAIN rows = BattleId /\ \A b \in BattleId : rows[b] \in Sightings[b]

SameFacts(x, y) == x.decks = y.decks /\ x.crowns = y.crowns /\ x.time = y.time

(* The tables of every scope, rebuilt or taken over from a group of any age, *)
(* are those of the battles the scope has in its own group: the counts are *)
(* never those of other battles, and the facts never changed.              *)
TablesOfContent ==
  active # NoGroup =>
    \A s \in Scopes :
      LET d == active.datasets[s]
      IN /\ d.tables = Statistics(d.source)
         /\ DOMAIN d.source = d.content /\ d.content \subseteq BattleId
         /\ \A b \in d.content : SameFacts(d.source[b], Facts[b])

(* Once both loadouts of a battle are complete, no later sighting takes that *)
(* away or changes what was played (upsert_loadout).                       *)
CompleteRowsSettle ==
  [][\A b \in BattleId :
       BothComplete(rows[b]) /\ (\E o \in seen' : o.battle = b) =>
         /\ BothComplete(rows'[b])
         /\ \A i \in 1..2 : FactOf(rows'[b][i]) = FactOf(rows[b][i])]_groupsVars

(* tests/test_rolling_materializer.py:245 "reuses scope stats only when scope *)
(* content is unchanged": a scope that is taken over is what a rebuild from  *)
(* the corpus would give.                                                  *)
ReusedOnlyUnchanged ==
  [][active' # active /\ active' # NoGroup =>
       \A s \in Scopes : active'.datasets[s].reused =>
                           active'.datasets[s].source = Source(s)]_groupsVars
=============================================================================
