--------------------------- MODULE MCMainFragment ---------------------------
(* MainFragment for TLC. Requests are interchangeable. *)
EXTENDS MainFragment, TLC

RequestSymmetry == Permutations(Request)
=============================================================================
