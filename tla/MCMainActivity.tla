--------------------------- MODULE MCMainActivity ---------------------------
(* The screen flow for TLC. Two flows are enough for every way in which the
   dialog of one can meet the fragment of the other. *)
EXTENDS MainActivity, TLC

FlowSymmetry == Permutations(Flow)
=============================================================================
