---------------------------- MODULE MCClientView ----------------------------
(* The view of a client on small instances. *)
EXTENDS ClientView, TLC

Symmetry == Permutations(Actors) \cup Permutations(Cells)
=============================================================================
