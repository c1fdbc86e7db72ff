-------------------------- MODULE MCViewController --------------------------
(* The iOS app for TLC. Requests are interchangeable. *)
EXTENDS ViewController, TLC

RequestSymmetry == Permutations(Request)
=============================================================================
