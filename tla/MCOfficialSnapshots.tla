------------------------ MODULE MCOfficialSnapshots ------------------------
(* Two snapshots, published around one API process. *)
EXTENDS OfficialSnapshots
=============================================================================
