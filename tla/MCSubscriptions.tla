-------------------------- MODULE MCSubscriptions --------------------------
EXTENDS Subscriptions, TLC

Place(c, x) == [cell |-> c, x |-> x]

\* Two squares that see each other and a second cell.
TwoCells == {Place("Tamriel", 0), Place("Tamriel", 1), Place("Inn", 0)}

\* Three squares of which the outer ones do not see each other.
OneRow == {Place("Tamriel", x) : x \in 0 .. 2}

MCHome == [m \in MapRefs |-> Place("Tamriel", 0)]

Symmetry == Permutations(Actors) \cup Permutations(Users)
=============================================================================
