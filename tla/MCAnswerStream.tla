--------------------------- MODULE MCAnswerStream ---------------------------
(* Every skill alone and the two model skills and a structured one together. *)
EXTENDS AnswerStream

MCQueries ==
  {<<"direct">>, <<"rag">>, <<"synthesis">>, <<"rag", "synthesis">>, <<"direct", "rag">>}
=============================================================================
