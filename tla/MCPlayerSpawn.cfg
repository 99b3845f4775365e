CONSTANTS
  None = None
  Places = {a, b}
  Template = t
  MaxRevision = 3
  MaxDisturbances = 1
SPECIFICATION FairSpawnSpec
INVARIANT SpawnInv
PROPERTIES MovementWaitsForPlace SpawnEnds
CHECK_DEADLOCK FALSE
