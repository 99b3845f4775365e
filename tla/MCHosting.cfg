SPECIFICATION Spec
CONSTANTS
  None = None
  Clients = {a, b}
  Npcs = {wolf}
  MaxUnread = 1
SYMMETRY Symmetry
INVARIANTS
  Inv
  HostsAreHosters
CHECK_DEADLOCK FALSE
