CONSTANTS
  g1 = g1  g2 = g2  g3 = g3
  s1 = s1  s2 = s2  t1 = t1  t2 = t2
  p1 = p1  p2 = p2  q1 = q1  q2 = q2
  UserIds = {u1, u2}
  u1 = u1  u2 = u2
  Guids = {g1, g2}
  IpOf <- MCIpOf
  SteamIds = {s1, s2}
  Tokens = {t1, t2}
  SteamOf <- MCSteamOf
  MasterProfiles = {p1}
  GuestProfile <- MCGuestProfile
  HasDiscord = {p1}
  Licensed = {p1}
  Policies <- MCPolicies
  None = None
  MaxConnections = 3
  MaxLogins = 1
  MaxModerations = 1
  OldBans = {p1}
SPECIFICATION Spec
INVARIANTS
  Inv
  SpawnedAsVerified
  BannedAreLeaving
PROPERTY
  EndedSessionsClose
SYMMETRY Symmetry
CHECK_DEADLOCK FALSE
