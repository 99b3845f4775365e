SPECIFICATION FairSpec
CONSTANTS
  None = None
  Slots = {1}
  MaxTime = 1
  MaxRequests = 1
  MaxFaults = 1
INVARIANTS
  Inv
  ViewCatchesUp
  ServedOnce
PROPERTIES
  TransitionsEnd
CHECK_DEADLOCK FALSE
