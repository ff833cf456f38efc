--------------------------- MODULE ServedSnapshot ---------------------------
(***************************************************************************)
(* What a request of the API may rely on while it reads the official       *)
(* snapshot and its retrieval index: the snapshot shown by the structured  *)
(* views changes first, then the index is installed, then it is labelled;  *)
(* an index is only used when its documents and its label are those of the *)
(* snapshot shown.  Nothing is promised about how long that lasts.         *)
(***************************************************************************)
CONSTANTS
  Snapshot,    \* official snapshots
  NoSnapshot   \* nothing served

VARIABLES
  live,        \* snapshot shown
  index        \* [docs, label: a snapshot, usable: requests may use it]

Known == Snapshot \cup {NoSnapshot}
NoIndex == [docs |-> NoSnapshot, label |-> NoSnapshot, usable |-> FALSE]

Init ==
  /\ live = NoSnapshot
  /\ index = NoIndex

Show(s) ==
  /\ live' = s
  /\ UNCHANGED index

Install ==
  /\ index' = [index EXCEPT !.docs = live]
  /\ UNCHANGED live

Label ==
  /\ index.docs = live
  /\ index' = [index EXCEPT !.label = live, !.usable = TRUE]
  /\ UNCHANGED live

Invalidate ==
  /\ index' = [index EXCEPT !.usable = FALSE]
  /\ UNCHANGED live

Restart ==
  /\ live' = NoSnapshot
  /\ index' = NoIndex

Next ==
  \/ \E s \in Snapshot : Show(s)
  \/ Install \/ Label \/ Invalidate \/ Restart

Spec == Init /\ [][Next]_<<live, index>>

(* The snapshot whose index a request is given. *)
Active ==
  IF index.usable /\ index.docs = live /\ index.label = live THEN live ELSE NoSnapshot
=============================================================================
