------------------------- MODULE MCHybridRetrieval --------------------------
(***************************************************************************)
(* Four documents in two scopes, of two types and of either card form; a   *)
(* release that changes metadata only, one that changes texts and one that *)
(* changes the embedding model only, each deployed after any other.        *)
(***************************************************************************)
EXTENDS HybridRetrieval

Doc(scope, type, mode) == [scope |-> scope, type |-> type, mode |-> mode]
MCDocs ==
  <<Doc("ranked", "card", "base"), Doc("ranked", "deck", AnyType),
    Doc("ranked", "card", "evolved"), Doc("friendly", "card", "base")>>

First == [texts |-> "t1", metadata |-> "m1", model |-> "bge"]
Relabelled == [First EXCEPT !.metadata = "m2"]
Rewritten == [Relabelled EXCEPT !.texts = "t2"]
Reembedded == [First EXCEPT !.model = "other"]
MCReleases == {First, Relabelled, Rewritten, Reembedded}

MCRequests ==
  {[scope |-> "ranked", mode |-> "base", lanes |-> <<AnyType, "card">>],
   [scope |-> "ranked", mode |-> "evolved", lanes |-> <<AnyType, "card", "deck">>],
   [scope |-> "ranked", mode |-> AnyType, lanes |-> <<AnyType, "card", "deck">>],
   [scope |-> "friendly", mode |-> "base", lanes |-> <<"card">>]}
=============================================================================
