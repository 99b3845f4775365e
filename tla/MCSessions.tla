----------------------------- MODULE MCSessions -----------------------------
EXTENDS Sessions, TLC

Symmetry == Permutations(Guids) \cup Permutations(Actors)
=============================================================================
