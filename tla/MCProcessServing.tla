------------------------- MODULE MCProcessServing --------------------------
(* Instances of ProcessServing for TLC. *)
EXTENDS ProcessServing

RequestsBySubqueries == Requests \X Subqueries
=============================================================================
