CONSTANTS
  None = None
  Window = 2
  Delay = 1
  LoginTime = 1
  Beat = 1
  PingTime = 2
  ReachMenu = 1
  MaxPeerCalls = 1
SPECIFICATION FairSpec
INVARIANT Inv
PROPERTIES NeverSilentlyOffline ReconnectEnds HungServerIsNoticed
