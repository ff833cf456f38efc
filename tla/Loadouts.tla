------------------------------- MODULE Loadouts -------------------------------
(***************************************************************************)
(* The loadout of one side of a battle - its tower and the form of each of *)
(* its cards - as loadout_normalization.py reads it from the official      *)
(* payload, and the row corpus_observations.upsert_loadout keeps for the   *)
(* two sides of a battle.                                                  *)
(*                                                                         *)
(* A card is [id, level, evolution, elite]: "elite" is what an explicit    *)
(* field of the payload says ("yes", "no") or "unstated".  A side is       *)
(* [tower, towerState, cards], the tower's id, its level and forms as one  *)
(* value, and the cards in a sequence.  The row of a battle is the empty   *)
(* sequence or its two sides, in the order of the canonical battle.        *)
(***************************************************************************)
EXTENDS Naturals, FiniteSets, Sequences, SequencesExt

CONSTANTS
  DeckSize,      \* cards of a deck (8)
  EvolutionSlots, EliteSlots, SpecialSlots,  \* the slot contract (2, 2, 3)
  NoId           \* a tower or a card without an official id

ASSUME LoadoutAssumption == DeckSize \in Nat \ {0}

NoLoadouts == <<>>  \* no row in battle_loadouts

(* What a row of battle_loadouts is: the lists of cards may be of any length. *)
IsRow(row) ==
  row = NoLoadouts \/ (DOMAIN row = 1..2 /\ \A s \in 1..2 : row[s].cards \in Seq(Range(row[s].cards)))

(* special_mode, and the elite state: explicit, else by the official rule. *)
Mode(card) ==
  CASE card.evolution = 0 -> "ordinary"
    [] card.evolution = 1 -> "evolution"
    [] card.evolution = 2 -> "elite"
    [] OTHER -> "unknown"

Elite(card) ==
  IF card.elite # "unstated" THEN card.elite
  ELSE CASE Mode(card) \in {"ordinary", "evolution"} -> "no"
         [] Mode(card) = "elite" -> "yes"
         [] OTHER -> "unknown"

Slots(side, mode) == Cardinality({i \in DOMAIN side.cards : Mode(side.cards[i]) = mode})

SlotContract(side) ==
  /\ Slots(side, "evolution") <= EvolutionSlots
  /\ Slots(side, "elite") <= EliteSlots
  /\ Slots(side, "evolution") + Slots(side, "elite") <= SpecialSlots

Ids(side) == {side.cards[i].id : i \in DOMAIN side.cards} \ {NoId}

(* What canonical_loadout calls complete. *)
CompleteSide(side) ==
  /\ side.tower # NoId
  /\ Len(side.cards) = DeckSize
  /\ Cardinality(Ids(side)) = DeckSize
  /\ \A i \in DOMAIN side.cards : Elite(side.cards[i]) # "unknown"
  /\ SlotContract(side)

BothComplete(row) == row # NoLoadouts /\ \A s \in 1..2 : CompleteSide(row[s])

(* full_loadout_signature: what statistics tell apart ... *)
Signature(side) ==
  [tower |-> side.tower,
   cards |-> {<<c.id, c.evolution, Elite(c)>> : c \in Range(side.cards)}]

(* ... and loadout_fact_signature: what a battle fixes. *)
FactOf(side) ==
  [tower |-> <<side.tower, side.towerState>>,
   cards |-> {<<c.id, c.level, c.evolution, Elite(c)>> : c \in Range(side.cards)}]

(* loadout_quality, compared as a tuple. *)
Quality(side) ==
  <<IF CompleteSide(side) THEN 1 ELSE 0,
    IF side.tower # NoId THEN 1 ELSE 0,
    Cardinality({i \in DOMAIN side.cards : side.cards[i].id # NoId}),
    Cardinality({i \in DOMAIN side.cards : Elite(side.cards[i]) # "unknown"})>>

Above(a, b) == \E i \in DOMAIN a : a[i] > b[i] /\ \A k \in 1 .. i - 1 : a[k] = b[k]

RowQuality(row) == Quality(row[1]) \o Quality(row[2])

(* Two complete rows of one battle that disagree: a conflict. *)
Disagree(old, new) ==
  /\ BothComplete(old) /\ BothComplete(new)
  /\ \E s \in 1..2 : FactOf(old[s]) # FactOf(new[s])

(* Seeded fault: a later row replaces an earlier one. *)
UpsertedLast(old, new) == IF Disagree(old, new) THEN old ELSE new

(* upsert_loadout: the metadata of a complete row is refreshed, an          *)
(* incomplete one gives way to a better one, compared team first.          *)
Upserted(old, new) ==
  CASE old = NoLoadouts -> new
    [] old # NoLoadouts /\ BothComplete(old) /\ BothComplete(new) ->
         IF Disagree(old, new) THEN old ELSE new
    [] OTHER -> IF Above(RowQuality(new), RowQuality(old)) THEN new ELSE old
=============================================================================
