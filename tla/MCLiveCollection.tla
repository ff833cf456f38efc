-------------------------- MODULE MCLiveCollection --------------------------
(* Three ranked players and two others; battles are seen from both sides,    *)
(* one carries no time, one has no decks.  The rank of the first player    *)
(* lies beyond the positions of the next ones.                             *)
EXTENDS LiveCollection

MCLeaderboard == <<"a", "b", "c">>
MCRank == [a |-> 5, b |-> 0, c |-> 3]
MCOpponents == {"x", "y"}
Meeting(p, q, timed, usable) == [between |-> {p, q}, timed |-> timed, usable |-> usable]
MCBattle ==
  {Meeting("a", "b", TRUE, TRUE), Meeting("a", "x", TRUE, TRUE),
   Meeting("x", "y", TRUE, TRUE), Meeting("b", "y", FALSE, TRUE),
   Meeting("a", "y", TRUE, FALSE), Meeting("c", "x", TRUE, TRUE)}
MCLog ==
  [p \in {"a", "b", "c", "x", "y"} |->
     CASE p = "a" -> <<Meeting("a", "y", TRUE, FALSE), Meeting("a", "b", TRUE, TRUE),
                       Meeting("a", "x", TRUE, TRUE)>>
       [] p = "b" -> <<Meeting("a", "b", TRUE, TRUE), Meeting("b", "y", FALSE, TRUE)>>
       [] p = "c" -> <<Meeting("c", "x", TRUE, TRUE)>>
       [] p = "x" -> <<Meeting("a", "x", TRUE, TRUE), Meeting("x", "y", TRUE, TRUE)>>
       [] p = "y" -> <<Meeting("x", "y", TRUE, TRUE), Meeting("b", "y", FALSE, TRUE)>>]
=============================================================================
