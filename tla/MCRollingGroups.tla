--------------------------- MODULE MCRollingGroups ---------------------------
(* Decks of two cards; three battles: a win, a return match with the sides  *)
(* in the other order and more crowns, and a draw between equal decks.      *)
EXTENDS RollingGroups

CONSTANTS b1, b2, b3

MCBattle == {b1, b2, b3}
MCWindows == {"7d", "d7_14"}
MCLevels == {"top_100", "top_200", "all"}
MCWithin == "top_100" :> {"top_100"} @@ "top_200" :> {"top_100", "top_200"}
MCBaselineOf == "7d" :> "d7_14"
MCAge == "7d" :> {0} @@ "d7_14" :> {1}

Archer == "archer"
Bats == "bats"
Cannon == "cannon"

MCFacts ==
  b1 :> [decks |-> <<<<Archer, Bats>>, <<Cannon, Archer>>>>, crowns |-> <<1, 0>>, time |-> 1]
  @@ b2 :> [decks |-> <<<<Cannon, Archer>>, <<Bats, Archer>>>>, crowns |-> <<3, 2>>, time |-> 3]
  @@ b3 :> [decks |-> <<<<Archer, Bats>>, <<Archer, Bats>>>>, crowns |-> <<1, 1>>, time |-> 2]

MCArchetype(deck) == IF Cannon \in deck THEN "siege" ELSE "cycle"

Card(id, evolution) == [id |-> id, level |-> 1, evolution |-> evolution, elite |-> "unstated"]
Side(tower, a, b) == [tower |-> tower, towerState |-> 1, cards |-> <<a, b>>]

(* The evolved archer side, the same without its tower and with the tower   *)
(* at another level, and the elite siege.                                   *)
Cycle == Side("duchess", Card("a", 1), Card("b", 0))
Towerless == Side(NoId, Card("a", 1), Card("b", 0))
Levelled == [Cycle EXCEPT !.towerState = 2]
Siege == Side("princess", Card("a", 0), Card("c", 2))
Plain == Side("princess", Card("a", 0), Card("b", 0))

MCSightings ==
  b1 :> {NoLoadouts, <<Towerless, Siege>>, <<Cycle, Siege>>, <<Levelled, Siege>>,
         <<Plain, Siege>>}
  @@ b2 :> {NoLoadouts, <<Siege, Cycle>>}
  @@ b3 :> {NoLoadouts}

MCApart(a, b) == a.wins # b.wins

MCRagLimit ==
  [t \in {"deck", "full_loadout", "full_loadout_matchup", "matchup", "card_pair",
          "counter", "card_profile"} |-> 2] @@ ("meta_delta" :> 4)
=============================================================================
