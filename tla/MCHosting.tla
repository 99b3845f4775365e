----------------------------- MODULE MCHosting -----------------------------
(* Hosting on small instances. *)
EXTENDS Hosting, TLC

Symmetry == Permutations(Clients)
=============================================================================
