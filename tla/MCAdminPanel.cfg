SPECIFICATION FairPanelSpec
CONSTANTS
  None = None
  UserIds = {0}
  Profiles = {p, q}
  FirstPlayers = {p}
  MaxIncidents = 2
  MaxClicks = 2
  MaxFetches = 1
  MaxQueue = 1
INVARIANTS
  PanelInv
PROPERTIES
  ListConverges
CHECK_DEADLOCK FALSE
