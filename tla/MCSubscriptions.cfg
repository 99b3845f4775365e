CONSTANTS
  Actors = {a1, a2}
  Refs = {}
  MapRefs = {m1}
  Home <- MCHome
  Spots <- TwoCells
  Deletable = {a1, a2}
  Users = {u1}
  NoActor = NoActor
SYMMETRY Symmetry
SPECIFICATION Spec
INVARIANTS
  Inv
  NeighborsFindsAll
  ClientShowsEmitters
PROPERTIES
  NewPlayerSeesNeighbours
