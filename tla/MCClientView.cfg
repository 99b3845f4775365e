SPECIFICATION ViewSpec
CONSTANTS
  None = None
  Indexes = {0, 1}
  Actors = {p, q}
  Doors = {d}
  Cells = {here, there}
  MaxIds = 3
  MaxRefs = 3
  MaxChanges = 4
SYMMETRY Symmetry
INVARIANTS
  ViewInv
  ViewsMatchForms
  NoOrphans
CHECK_DEADLOCK FALSE
