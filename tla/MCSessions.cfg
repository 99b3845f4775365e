CONSTANTS
  Guids = {g1, g2}
  NoGuid = NoGuid
  MaxConnections = 2
  NumBots = 1
  InvalidUserId = InvalidUserId
  MaxQueue = 1
  Actors = {a1}
  NoActor = NoActor
  NoUser = NoUser
  KMaxPlayers = 3
SYMMETRY Symmetry
SPECIFICATION Spec
INVARIANTS
  Strong
  SendsReachTheirPeer
  SessionsSound
PROPERTIES
  DeferredDrained
  RejectsOnlyAfterLeak
\* The process is gone after std::terminate or an access out of bounds.
CHECK_DEADLOCK FALSE
