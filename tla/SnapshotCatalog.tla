--------------------------- MODULE SnapshotCatalog ---------------------------
(***************************************************************************)
(* What a reader of the data directory may rely on: a catalogue of         *)
(* complete snapshot groups and a pointer to one of them.  The pointer     *)
(* only ever moves to a group that is in the catalogue at that moment, and *)
(* cleaning up never removes the most recently published group.            *)
(*                                                                         *)
(* The catalogue does not promise that the group named by the pointer is   *)
(* kept: the code it abstracts does not keep it either.                    *)
(***************************************************************************)
EXTENDS Integers

CONSTANTS
  Group,       \* possible groups: records with their publication time "at"
  NoGroup      \* nothing activated yet

VARIABLES
  catalog,     \* complete groups on disk
  active       \* group named by the pointer

Init ==
  /\ catalog = {}
  /\ active = NoGroup

Install(g) ==
  /\ catalog' = catalog \cup {g}
  /\ UNCHANGED active

Activate(g) ==
  /\ g \in catalog
  /\ active' = g
  /\ UNCHANGED catalog

(* Every group that goes is older than one that stays. *)
Retire(gone) ==
  /\ \A g \in gone : \E h \in catalog \ gone : h.at > g.at
  /\ catalog' = catalog \ gone
  /\ UNCHANGED active

Next ==
  \/ \E g \in Group : Install(g)
  \/ \E g \in catalog : Activate(g)
  \/ \E gone \in SUBSET catalog : Retire(gone)

Spec == Init /\ [][Next]_<<catalog, active>>
=============================================================================
