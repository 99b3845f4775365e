-------------------------- MODULE Admission_proofs --------------------------
(***************************************************************************)
(* Proofs about Admission for every number of slots, clients, identities,  *)
(* accounts and logins under way: the invariant Strong, and from it that   *)
(* an identity plays once, that a player is the connection that logged in, *)
(* that bans and blocks reach whoever plays, and that a session that is    *)
(* being ended ends.                                                       *)
(***************************************************************************)
EXTENDS Admission, TLAPS

Strong == Inv /\ SpawnedAsVerified /\ BannedAreLeaving

\* No value is both None and one of what the variables hold.
LEMMA NoneFacts ==
  /\ None \notin UserIds /\ None \notin Guids /\ None \notin SteamIds /\ None \notin Tokens
  /\ None \notin Profiles /\ None \notin Verified /\ None \notin Endings /\ None \notin Players
  /\ None \notin Sessions /\ None \notin Spawns
  /\ MasterProfiles \subseteq Profiles /\ \A s \in SteamIds : GuestProfile[s] \in Profiles
BY AdmissionAssumption, NoneAssumption DEF Profiles

\* A guest profile is kept for one identity.
LEMMA GuestProfilesDiffer ==
  ASSUME NEW s \in SteamIds, NEW t \in SteamIds, GuestProfile[s] = GuestProfile[t]
  PROVE  s = t
BY AdmissionAssumption

LEMMA InitStrong == Init => Strong
<1> SUFFICES ASSUME Init PROVE Strong
  OBVIOUS
<1>1. TypeOK
  <2>1. bans \subseteq Profiles /\ moderations \in 0..MaxModerations
    BY AdmissionAssumption DEF Init
  <2>2. /\ closing \in [UserIds -> BOOLEAN] /\ refresh \in BOOLEAN
        /\ generations \in [UserIds -> Nat]
        /\ actors \in [Profiles -> {"none", "enabled", "disabled"}]
        /\ tokens \in [Tokens -> {"none", "live", "expired"}]
    BY DEF Init
  <2> QED BY <2>1, <2>2 DEF Init, TypeOK
<1>2. /\ \A u \in UserIds : verified[u] = None /\ userActor[u] = None /\ spawned[u] = None
      /\ \A u \in UserIds : pendingEnd[u] = None /\ session[u] = None
  BY DEF Init
<1>3. Inv
  BY <1>1, <1>2 DEF Inv, OneSessionPerIdentity, VerifiedHere, AllowedPlays, ActorsAreSpawned,
                    ProfilesBound, EndsOfThis
<1> QED BY <1>2, <1>3 DEF Strong, SpawnedAsVerified, BannedAreLeaving

-----------------------------------------------------------------------------
(* Ending sessions.                                                         *)

\* What a call of endPlayerSession does: whoever it names is leaving, whoever was leaving still
\* is, and the end is of the connection that holds the slot now.
LEMMA EndSessionsEnds ==
  ASSUME TypeOK, EndsOfThis, NEW users \in SUBSET UserIds, NEW kind \in Kinds,
         EndSessions(users, kind), UNCHANGED connected
  PROVE  /\ pendingEnd' \in [UserIds -> Endings \cup {None}]
         /\ EndsOfThis'
         /\ \A u \in UserIds : Leaving(u) => Leaving(u)'
         /\ \A u \in users : IsConnected(u) => Leaving(u)'
<1> DEFINE end(u) == [kind |-> kind, gen |-> generations[u], guid |-> connected[u]]
<1>1. \A u \in UserIds : IsConnected(u) => end(u) \in Endings /\ end(u) # None
  BY NoneFacts DEF TypeOK, Endings, IsConnected
<1>2. \A u \in UserIds : u \in Endable(users, kind) => IsConnected(u)
  BY DEF Endable
<1>3. \A u \in UserIds :
        pendingEnd'[u] = IF u \in Endable(users, kind) THEN end(u) ELSE pendingEnd[u]
  BY DEF EndSessions
<1>4. pendingEnd' \in [UserIds -> Endings \cup {None}]
  BY <1>1, <1>2 DEF EndSessions, TypeOK
<1>5. EndsOfThis'
  BY <1>1, <1>2, <1>3 DEF EndsOfThis, EndSessions
<1>6. \A u \in UserIds : pendingEnd[u] # None => pendingEnd'[u] # None
  BY <1>1, <1>2, <1>3
<1>7. \A u \in users : IsConnected(u) => pendingEnd'[u] # None
  BY <1>1, <1>3 DEF Endable
<1> QED BY <1>4, <1>5, <1>6, <1>7 DEF Leaving, EndSessions

-----------------------------------------------------------------------------
(* Steps that let nobody in.                                                *)

\* A step that neither admits, verifies nor binds anybody: it may end sessions, change bans,
\* the status of an identity, actors and the notes about sessions.
LEMMA SamePlayers ==
  ASSUME Strong, TypeOK', EndsOfThis',
         UNCHANGED <<connected, verified, active, userActor, spawned, accounts, generations>>,
         \A u \in UserIds : Leaving(u) => Leaving(u)',
         \A u \in UserIds : spawned[u] # None /\ actors[userActor[u]] = "enabled" =>
           actors'[userActor[u]] = "enabled" \/ Leaving(u)',
         \A u \in UserIds : session'[u] # None => session'[u].gen = generations[u],
         \A u \in UserIds : spawned[u] # None =>
           /\ spawned[u].profile \in bans' => Leaving(u)'
           /\ principals'[spawned[u].steam] = "blocked" => Leaving(u)' \/ refresh'
  PROVE  Strong'
<1>1. OneSessionPerIdentity' /\ VerifiedHere' /\ AllowedPlays' /\ ActorsAreSpawned' /\ ProfilesBound'
  BY DEF Strong, Inv, OneSessionPerIdentity, VerifiedHere, AllowedPlays, ActorsAreSpawned,
         ProfilesBound, IsConnected
<1>2. SpawnedAsVerified'
  BY DEF Strong, SpawnedAsVerified
<1>3. BannedAreLeaving'
  BY DEF BannedAreLeaving
<1> QED BY <1>1, <1>2, <1>3 DEF Strong, Inv

\* The same, when bans, identities and actors stay too.
LEMMA OnlyEnds ==
  ASSUME Strong, TypeOK', EndsOfThis',
         UNCHANGED <<connected, verified, active, userActor, spawned, accounts, generations,
                     actors, bans, principals>>,
         \A u \in UserIds : Leaving(u) => Leaving(u)',
         \A u \in UserIds : session'[u] # None => session'[u].gen = generations[u],
         refresh => refresh'
  PROVE  Strong'
<1>1. \A u \in UserIds : spawned[u] # None =>
        /\ spawned[u].profile \in bans' => Leaving(u)'
        /\ principals'[spawned[u].steam] = "blocked" => Leaving(u)' \/ refresh'
  BY DEF Strong, BannedAreLeaving
<1> QED BY <1>1, SamePlayers

\* A session ends with its timer: the connection that was noticed is closed.
LEMMA SessionTimerStrong ==
  ASSUME Strong, NEW u \in UserIds, SessionTimer(u)
  PROVE  Strong'
<1>1. TypeOK /\ EndsOfThis
  BY DEF Strong, Inv
<1>2. /\ pendingEnd[u] # None /\ pendingEnd' = [pendingEnd EXCEPT ![u] = None]
      /\ closing' = [closing EXCEPT
           ![u] = @ \/ (generations[u] = pendingEnd[u].gen /\ connected[u] = pendingEnd[u].guid)]
      /\ UNCHANGED <<policy, connected, generations, storeVars, refresh,
                     sessionVars, bans, actorVars, moderations, misled>>
  BY DEF SessionTimer
<1>3. closing'[u] /\ \A v \in UserIds : v # u => closing'[v] = closing[v] /\ pendingEnd'[v] = pendingEnd[v]
  BY <1>1, <1>2 DEF TypeOK, EndsOfThis
<1>4. \A v \in UserIds : Leaving(v) => Leaving(v)'
  BY <1>3 DEF Leaving
<1>5. pendingEnd' \in [UserIds -> Endings \cup {None}] /\ closing' \in [UserIds -> BOOLEAN]
  BY <1>1, <1>2 DEF TypeOK
<1>6. TypeOK'
  BY <1>1, <1>2, <1>5 DEF TypeOK, storeVars, sessionVars, actorVars
<1>7. EndsOfThis'
  BY <1>1, <1>2 DEF EndsOfThis, TypeOK
<1>8. \A v \in UserIds : session'[v] # None => session'[v].gen = generations[v]
  BY <1>2 DEF Strong, SpawnedAsVerified, sessionVars
<1>9. UNCHANGED <<verified, active, userActor, spawned, accounts, actors, principals>>
  BY <1>2 DEF storeVars, sessionVars, actorVars
<1> QED BY <1>2, <1>4, <1>6, <1>7, <1>8, <1>9, OnlyEnds

LEMMA StoreStepStrong ==
  ASSUME Strong, NEW t \in Tokens, IssueToken(t) \/ ExpireToken(t)
  PROVE  Strong'
<1>1. TypeOK /\ EndsOfThis /\ SteamOf[t] \in SteamIds
  BY AdmissionAssumption DEF Strong, Inv
<1>2. /\ tokens' \in [Tokens -> {"none", "live", "expired"}]
      /\ principals' \in [SteamIds -> {None, "pending", "approved", "blocked"}]
      /\ \A s \in SteamIds : principals[s] # "blocked" => principals'[s] # "blocked"
      /\ UNCHANGED <<policy, connected, endVars, accounts, refresh, sessionVars, bans,
                     actorVars, moderations, misled>>
  <2>1. CASE IssueToken(t)
    <3> DEFINE pending == policy.mode = "guest" /\ policy.approvalRequired
               status(old) == IF old = None THEN IF pending THEN "pending" ELSE "approved"
                              ELSE IF old = "pending" /\ ~pending THEN "approved" ELSE old
    <3>1. principals' = [principals EXCEPT ![SteamOf[t]] = status(principals[SteamOf[t]])]
      BY <2>1 DEF IssueToken
    <3>2. tokens' \in [Tokens -> {"none", "live", "expired"}]
      BY <2>1, <1>1 DEF IssueToken, TypeOK
    <3>3. /\ status(principals[SteamOf[t]]) \in {None, "pending", "approved", "blocked"}
          /\ principals[SteamOf[t]] # "blocked" => status(principals[SteamOf[t]]) # "blocked"
      BY <1>1 DEF TypeOK
    <3> HIDE DEF status
    <3> QED BY <1>1, <2>1, <3>1, <3>2, <3>3 DEF IssueToken, TypeOK
  <2>2. CASE ExpireToken(t)
    BY <2>2, <1>1 DEF ExpireToken, TypeOK
  <2> QED BY <2>1, <2>2
<1>3. UNCHANGED <<verified, active, userActor, spawned, accounts, actors, generations,
                  pendingEnd, closing, session, connected, bans, refresh>>
  BY <1>2 DEF endVars, sessionVars, actorVars
<1>4. TypeOK'
  BY <1>1, <1>2 DEF TypeOK, endVars, sessionVars, actorVars
<1>5. EndsOfThis'
  BY <1>1, <1>3 DEF EndsOfThis
<1>6. \A u \in UserIds : Leaving(u) => Leaving(u)'
  BY <1>3 DEF Leaving
<1>7. \A u \in UserIds : session'[u] # None => session'[u].gen = generations[u]
  BY <1>3 DEF Strong, SpawnedAsVerified
<1>8. \A u \in UserIds : spawned[u] # None =>
        /\ spawned[u].profile \in bans' => Leaving(u)'
        /\ principals'[spawned[u].steam] = "blocked" => Leaving(u)' \/ refresh'
  BY <1>1, <1>2, <1>3, <1>6 DEF Strong, BannedAreLeaving, TypeOK, Spawns
<1> QED BY <1>3, <1>4, <1>5, <1>6, <1>7, <1>8, SamePlayers

\* A connection takes a slot that nobody holds, and finds nothing of an earlier user.
LEMMA ConnectStrong ==
  ASSUME Strong, NEW u \in UserIds, NEW g \in Guids, Connect(u, g)
  PROVE  Strong'
<1>1. TypeOK /\ EndsOfThis /\ VerifiedHere /\ SpawnedAsVerified
  BY DEF Strong, Inv
<1>2. /\ connected[u] = None /\ connected' = [connected EXCEPT ![u] = g]
      /\ generations' = [generations EXCEPT ![u] = @ + 1]
      /\ pendingEnd' = [pendingEnd EXCEPT ![u] = None]
      /\ session' = [session EXCEPT ![u] = None]
      /\ UNCHANGED <<policy, closing, storeVars, refresh, verified, active,
                     logins, bans, actorVars, moderations, misled>>
  BY DEF Connect
<1>3. verified[u] = None /\ spawned[u] = None
  BY <1>1, <1>2 DEF VerifiedHere, SpawnedAsVerified, IsConnected
<1>4. TypeOK'
  BY <1>1, <1>2 DEF TypeOK, storeVars, actorVars
<1>5. UNCHANGED <<verified, active, userActor, spawned, accounts, actors, closing, bans,
                  principals, refresh>>
  BY <1>2 DEF storeVars, actorVars
<1>6. \A v \in UserIds : v # u =>
        /\ connected'[v] = connected[v] /\ generations'[v] = generations[v]
        /\ pendingEnd'[v] = pendingEnd[v] /\ session'[v] = session[v]
  BY <1>1, <1>2 DEF TypeOK
<1>7. pendingEnd'[u] = None /\ session'[u] = None
  BY <1>1, <1>2 DEF TypeOK
<1>8. Inv'
  BY <1>3, <1>4, <1>5, <1>6, <1>7 DEF Strong, Inv, OneSessionPerIdentity, VerifiedHere, AllowedPlays,
     ActorsAreSpawned, ProfilesBound, EndsOfThis, IsConnected
<1>9. SpawnedAsVerified'
  BY <1>1, <1>3, <1>5, <1>6, <1>7 DEF SpawnedAsVerified, Leaving
<1>10. BannedAreLeaving'
  BY <1>3, <1>5, <1>6 DEF Strong, BannedAreLeaving, Leaving
<1> QED BY <1>8, <1>9, <1>10 DEF Strong

\* A disconnection takes all that the slot stood for with it, and nothing of anybody else.
LEMMA DisconnectStrong ==
  ASSUME Strong, NEW u \in UserIds, Disconnect(u)
  PROVE  Strong'
<1>1. TypeOK /\ EndsOfThis /\ VerifiedHere /\ SpawnedAsVerified /\ AllowedPlays
      /\ OneSessionPerIdentity /\ ActorsAreSpawned
  BY DEF Strong, Inv
<1>2. /\ connected' = [connected EXCEPT ![u] = None]
      /\ closing' = [closing EXCEPT ![u] = FALSE]
      /\ generations' = [generations EXCEPT ![u] = @ + 1]
      /\ pendingEnd' = [pendingEnd EXCEPT ![u] = None]
      /\ actors' = [p \in Profiles |-> IF userActor[u] = p THEN "disabled" ELSE actors[p]]
      /\ verified' = [verified EXCEPT ![u] = None]
      /\ active' = [s \in SteamIds |->
           IF active[s] # None /\ active[s].user = u THEN None ELSE active[s]]
      /\ session' = [session EXCEPT ![u] = None]
      /\ userActor' = [userActor EXCEPT ![u] = None]
      /\ spawned' = [spawned EXCEPT ![u] = None]
      /\ UNCHANGED <<policy, storeVars, refresh, logins, bans, moderations, misled>>
  BY DEF Disconnect
<1>3. TypeOK'
  BY <1>1, <1>2 DEF TypeOK, storeVars
<1>4. UNCHANGED <<accounts, bans, principals, refresh>>
  BY <1>2 DEF storeVars
<1>5. \A v \in UserIds : v # u =>
        /\ connected'[v] = connected[v] /\ generations'[v] = generations[v]
        /\ pendingEnd'[v] = pendingEnd[v] /\ session'[v] = session[v]
        /\ closing'[v] = closing[v] /\ verified'[v] = verified[v]
        /\ userActor'[v] = userActor[v] /\ spawned'[v] = spawned[v]
  BY <1>1, <1>2 DEF TypeOK
<1>6. /\ pendingEnd'[u] = None /\ session'[u] = None /\ verified'[u] = None
      /\ userActor'[u] = None /\ spawned'[u] = None
  BY <1>1, <1>2 DEF TypeOK
<1>7. \A v \in UserIds : v # u /\ verified[v] # None /\ verified[v].allowed =>
        active'[verified[v].steam] = active[verified[v].steam]
  <2>1. ASSUME NEW v \in UserIds, v # u, verified[v] # None, verified[v].allowed
        PROVE  active'[verified[v].steam] = active[verified[v].steam]
    <3>1. verified[v].steam \in SteamIds
      BY <1>1, <2>1 DEF TypeOK, Verified
    <3>2. active[verified[v].steam] = [user |-> v, guid |-> connected[v]]
      BY <1>1, <2>1 DEF AllowedPlays
    <3> QED BY <1>2, <2>1, <3>1, <3>2
  <2> QED BY <2>1
<1>8. \A v \in UserIds : v # u /\ spawned[v] # None =>
        actors'[userActor'[v]] = actors[userActor[v]]
  <2>1. ASSUME NEW v \in UserIds, v # u, spawned[v] # None
        PROVE  actors'[userActor'[v]] = actors[userActor[v]]
    <3>1. userActor[v] = spawned[v].profile /\ spawned[v].profile \in Profiles
      BY <1>1, <2>1 DEF ActorsAreSpawned, TypeOK, Spawns
    <3>2. userActor[u] # userActor[v]
      BY <1>1, <2>1, <3>1, NoneFacts DEF ActorsAreSpawned, OneSessionPerIdentity
    <3> QED BY <1>2, <1>5, <2>1, <3>1, <3>2
  <2> QED BY <2>1
<1>9. VerifiedHere' /\ AllowedPlays' /\ ActorsAreSpawned' /\ EndsOfThis'
  BY <1>1, <1>5, <1>6, <1>7 DEF VerifiedHere, AllowedPlays, ActorsAreSpawned, EndsOfThis, IsConnected
<1>10. OneSessionPerIdentity' /\ ProfilesBound'
  BY <1>1, <1>4, <1>5, <1>6 DEF Strong, Inv, OneSessionPerIdentity, ProfilesBound
<1>11. SpawnedAsVerified'
  BY <1>1, <1>4, <1>5, <1>6, <1>8 DEF SpawnedAsVerified, Leaving
<1>12. BannedAreLeaving'
  BY <1>4, <1>5, <1>6 DEF Strong, BannedAreLeaving, Leaving
<1> QED BY <1>3, <1>9, <1>10, <1>11, <1>12 DEF Strong, Inv

-----------------------------------------------------------------------------
(* Moderation.                                                              *)

\* An order that ends sessions and changes nothing else about players.
LEMMA EndOrderStrong ==
  ASSUME Strong, NEW users \in SUBSET UserIds, NEW kind \in Kinds, EndSessions(users, kind),
         moderations' \in 0..MaxModerations,
         UNCHANGED <<policy, connected, storeVars, refresh, sessionVars, bans, actorVars, misled>>
  PROVE  Strong'
<1>1. TypeOK /\ EndsOfThis
  BY DEF Strong, Inv
<1>2. /\ pendingEnd' \in [UserIds -> Endings \cup {None}] /\ EndsOfThis'
      /\ \A u \in UserIds : Leaving(u) => Leaving(u)'
  BY <1>1, EndSessionsEnds
<1>3. UNCHANGED <<closing, generations>>
  BY DEF EndSessions
<1>4. TypeOK'
  BY <1>1, <1>2, <1>3 DEF TypeOK, storeVars, sessionVars, actorVars
<1>5. UNCHANGED <<verified, active, userActor, spawned, accounts, actors, principals, session>>
  BY DEF storeVars, sessionVars, actorVars
<1>6. \A u \in UserIds : session'[u] # None => session'[u].gen = generations[u]
  BY <1>5 DEF Strong, SpawnedAsVerified
<1> QED BY <1>2, <1>3, <1>4, <1>5, <1>6, OnlyEnds

LEMMA ModerateCounts ==
  ASSUME TypeOK, Moderate
  PROVE  moderations' \in 0..MaxModerations
BY AdmissionAssumption DEF TypeOK, Moderate

\* Everybody is told that the server goes down.
LEMMA ShutdownStrong ==
  ASSUME Strong, Shutdown
  PROVE  Strong'
<1> DEFINE users == {u \in UserIds : generations[u] > 0}
<1>1. moderations' \in 0..MaxModerations
  BY ModerateCounts DEF Strong, Inv, Shutdown
<1>2. /\ users \in SUBSET UserIds /\ "kick" \in Kinds /\ EndSessions(users, "kick")
      /\ UNCHANGED <<policy, connected, storeVars, refresh, sessionVars, bans, actorVars, misled>>
  BY DEF Shutdown, Kinds
<1> HIDE DEF users
<1> QED BY <1>1, <1>2, EndOrderStrong

\* A player that is kicked or banned leaves, and no other one has the profile that is banned.
LEMMA KickBanStrong ==
  ASSUME Strong, NEW u \in UserIds, NEW p \in Profiles,
         KickPlayer(u, p) \/ BanPlayer(u, p)
  PROVE  Strong'
<1>1. TypeOK /\ EndsOfThis /\ SpawnedAsVerified /\ ActorsAreSpawned /\ OneSessionPerIdentity
  BY DEF Strong, Inv
<1>2. moderations' \in 0..MaxModerations
  BY <1>1, ModerateCounts DEF KickPlayer, BanPlayer
<1>3. CASE KickPlayer(u, p)
  BY <1>2, <1>3, EndOrderStrong DEF KickPlayer, Kinds
<1>4. CASE BanPlayer(u, p)
  <2>1. /\ IsConnected(u) /\ userActor[u] = p /\ bans' = bans \cup {p} /\ EndSessions({u}, "ban")
        /\ UNCHANGED <<policy, connected, storeVars, refresh, sessionVars, actorVars, misled>>
    BY <1>4 DEF BanPlayer
  <2>2. /\ pendingEnd' \in [UserIds -> Endings \cup {None}] /\ EndsOfThis'
        /\ \A v \in UserIds : Leaving(v) => Leaving(v)'
        /\ Leaving(u)'
    <3>1. "ban" \in Kinds
      BY DEF Kinds
    <3> QED BY <1>1, <2>1, <3>1, EndSessionsEnds
  <2>3. UNCHANGED <<closing, generations>>
    BY <2>1 DEF EndSessions
  <2>4. TypeOK'
    BY <1>1, <1>2, <2>1, <2>2, <2>3 DEF TypeOK, storeVars, sessionVars, actorVars
  <2>5. UNCHANGED <<verified, active, userActor, spawned, accounts, actors, principals, session>>
    BY <2>1 DEF storeVars, sessionVars, actorVars
  <2>6. \A v \in UserIds : session'[v] # None => session'[v].gen = generations[v]
    BY <1>1, <2>5 DEF SpawnedAsVerified
  <2>7. \A v \in UserIds : spawned[v] # None /\ spawned[v].profile = p => v = u
    BY <1>1, <2>1, NoneFacts DEF ActorsAreSpawned, OneSessionPerIdentity
  <2>8. \A v \in UserIds : spawned[v] # None =>
          /\ spawned[v].profile \in bans' => Leaving(v)'
          /\ principals'[spawned[v].steam] = "blocked" => Leaving(v)' \/ refresh'
    BY <2>1, <2>2, <2>5, <2>7 DEF Strong, BannedAreLeaving
  <2> QED BY <2>1, <2>2, <2>3, <2>4, <2>5, <2>6, <2>8, SamePlayers
<1> QED BY <1>3, <1>4

LEMMA UnbanStrong ==
  ASSUME Strong, NEW p \in Profiles, Unban(p)
  PROVE  Strong'
<1>1. TypeOK /\ EndsOfThis
  BY DEF Strong, Inv
<1>2. /\ bans' = bans \ {p} /\ moderations < MaxModerations /\ moderations' = moderations + 1
      /\ UNCHANGED <<policy, connected, endVars, storeVars, refresh, sessionVars, actorVars, misled>>
  BY DEF Unban, Moderate
<1>3. UNCHANGED <<verified, active, userActor, spawned, accounts, actors, principals, session,
                  closing, generations, pendingEnd>>
  BY <1>2 DEF endVars, storeVars, sessionVars, actorVars
<1>4. TypeOK'
  <2>1. moderations' \in 0..MaxModerations
    BY <1>1, <1>2, ModerateCounts DEF Moderate
  <2> QED BY <1>1, <1>2, <2>1 DEF TypeOK, endVars, storeVars, sessionVars, actorVars
<1>5. EndsOfThis' /\ \A u \in UserIds : Leaving(u) => Leaving(u)'
  BY <1>1, <1>2, <1>3 DEF EndsOfThis, Leaving
<1>6. \A u \in UserIds : session'[u] # None => session'[u].gen = generations[u]
  BY <1>3 DEF Strong, SpawnedAsVerified
<1>7. \A u \in UserIds : spawned[u] # None =>
        /\ spawned[u].profile \in bans' => Leaving(u)'
        /\ principals'[spawned[u].steam] = "blocked" => Leaving(u)' \/ refresh'
  BY <1>2, <1>3, <1>5 DEF Strong, BannedAreLeaving
<1> QED BY <1>2, <1>3, <1>4, <1>5, <1>6, <1>7, SamePlayers

\* Whoever plays as the member that got the ban role is disabled and leaves.
LEMMA DiscordBanStrong ==
  ASSUME Strong, NEW p \in Profiles, DiscordBan(p)
  PROVE  Strong'
<1>1. TypeOK /\ EndsOfThis /\ SpawnedAsVerified /\ VerifiedHere
  BY DEF Strong, Inv
<1> DEFINE users == {u \in UserIds : userActor[u] = p}
<1>2. /\ actors' = [actors EXCEPT ![p] = "disabled"] /\ EndSessions(users, "ban")
      /\ moderations < MaxModerations /\ moderations' = moderations + 1
      /\ UNCHANGED <<policy, connected, storeVars, refresh, sessionVars, bans, userActor, spawned, misled>>
  BY DEF DiscordBan, Moderate
<1>3. /\ pendingEnd' \in [UserIds -> Endings \cup {None}] /\ EndsOfThis'
      /\ \A v \in UserIds : Leaving(v) => Leaving(v)'
      /\ \A v \in users : IsConnected(v) => Leaving(v)'
  <2>1. "ban" \in Kinds /\ users \in SUBSET UserIds
    BY DEF Kinds
  <2> HIDE DEF users
  <2> QED BY <1>1, <1>2, <2>1, EndSessionsEnds
<1>4. UNCHANGED <<closing, generations, verified, active, accounts, principals, session>>
  BY <1>2 DEF EndSessions, storeVars, sessionVars
<1>5. TypeOK'
  <2>1. moderations' \in 0..MaxModerations
    BY <1>1, <1>2, ModerateCounts DEF Moderate
  <2>2. actors' \in [Profiles -> {"none", "enabled", "disabled"}]
    BY <1>1, <1>2 DEF TypeOK
  <2> QED BY <1>1, <1>2, <1>3, <1>4, <2>1, <2>2 DEF TypeOK, storeVars, sessionVars
<1>6. \A u \in UserIds : spawned[u] # None => IsConnected(u)
  BY <1>1 DEF SpawnedAsVerified, VerifiedHere
<1>7. \A u \in UserIds : spawned[u] # None /\ actors[userActor[u]] = "enabled" =>
        actors'[userActor[u]] = "enabled" \/ Leaving(u)'
  BY <1>1, <1>2, <1>3, <1>6 DEF TypeOK
<1>8. \A u \in UserIds : session'[u] # None => session'[u].gen = generations[u]
  BY <1>1, <1>4 DEF SpawnedAsVerified
<1>9. \A u \in UserIds : spawned[u] # None =>
        /\ spawned[u].profile \in bans' => Leaving(u)'
        /\ principals'[spawned[u].steam] = "blocked" => Leaving(u)' \/ refresh'
  BY <1>2, <1>3, <1>4 DEF Strong, BannedAreLeaving
<1> QED BY <1>2, <1>3, <1>4, <1>5, <1>7, <1>8, <1>9, SamePlayers

\* A block ends the sessions of the identity at once, or leaves a message that will.
LEMMA AccessStrong ==
  ASSUME Strong, NEW s \in SteamIds, NEW status \in {"approved", "pending", "blocked"},
         ChangePlayerAccess(s, status)
  PROVE  Strong'
<1>1. TypeOK /\ EndsOfThis /\ SpawnedAsVerified /\ VerifiedHere
  BY DEF Strong, Inv
<1> DEFINE users == UsersForIdentity(s)
           ends == status = "blocked" /\ ~policy.managed
<1>2. /\ principals' = [principals EXCEPT ![s] = status]
      /\ IF ends THEN EndSessions(users, "ban") ELSE UNCHANGED endVars
      /\ refresh' = (refresh \/ (status = "blocked" /\ policy.managed))
      /\ moderations < MaxModerations /\ moderations' = moderations + 1
      /\ UNCHANGED <<policy, connected, tokens, accounts, sessionVars, bans, actorVars, misled>>
  BY DEF ChangePlayerAccess, Moderate
<1>3. /\ pendingEnd' \in [UserIds -> Endings \cup {None}] /\ EndsOfThis'
      /\ \A v \in UserIds : Leaving(v) => Leaving(v)'
      /\ ends => \A v \in users : IsConnected(v) => Leaving(v)'
      /\ UNCHANGED <<closing, generations>>
  <2>1. CASE ends
    <3>1. "ban" \in Kinds /\ users \in SUBSET UserIds
      BY DEF Kinds, UsersForIdentity
    <3> HIDE DEF users
    <3> QED BY <1>1, <1>2, <2>1, <3>1, EndSessionsEnds DEF EndSessions
  <2>2. CASE ~ends
    BY <1>1, <1>2, <2>2 DEF endVars, EndsOfThis, Leaving, TypeOK
  <2> QED BY <2>1, <2>2
<1>4. UNCHANGED <<verified, active, userActor, spawned, actors, session>>
  BY <1>2 DEF sessionVars, actorVars
<1>5. TypeOK'
  <2>1. moderations' \in 0..MaxModerations
    BY <1>1, <1>2, ModerateCounts DEF Moderate
  <2>2. principals' \in [SteamIds -> {None, "pending", "approved", "blocked"}]
    BY <1>1, <1>2 DEF TypeOK
  <2>3. refresh' \in BOOLEAN
    BY <1>2
  <2> QED BY <1>1, <1>2, <1>3, <2>1, <2>2, <2>3 DEF TypeOK, sessionVars, actorVars
<1>6. \A u \in UserIds : session'[u] # None => session'[u].gen = generations[u]
  BY <1>1, <1>3, <1>4 DEF SpawnedAsVerified
<1>7. \A u \in UserIds : spawned[u] # None /\ spawned[u].steam = s => IsConnected(u) /\ u \in users
  BY <1>1 DEF SpawnedAsVerified, VerifiedHere, UsersForIdentity
<1>8. \A u \in UserIds : spawned[u] # None =>
        /\ spawned[u].profile \in bans' => Leaving(u)'
        /\ principals'[spawned[u].steam] = "blocked" => Leaving(u)' \/ refresh'
  <2>1. ASSUME NEW u \in UserIds, spawned[u] # None
        PROVE  /\ spawned[u].profile \in bans' => Leaving(u)'
               /\ principals'[spawned[u].steam] = "blocked" => Leaving(u)' \/ refresh'
    <3>1. CASE spawned[u].steam = s
      BY <1>1, <1>2, <1>3, <1>7, <2>1, <3>1 DEF Strong, BannedAreLeaving, TypeOK
    <3>2. CASE spawned[u].steam # s
      BY <1>1, <1>2, <1>3, <2>1, <3>2 DEF Strong, BannedAreLeaving, TypeOK
    <3> QED BY <3>1, <3>2
  <2> QED BY <2>1
<1> QED BY <1>2, <1>3, <1>4, <1>5, <1>6, <1>8, SamePlayers

\* The message: everybody that is blocked by now leaves.
LEMMA SettingsChangedStrong ==
  ASSUME Strong, SettingsChanged
  PROVE  Strong'
<1>1. TypeOK /\ EndsOfThis /\ SpawnedAsVerified /\ VerifiedHere
  BY DEF Strong, Inv
<1> DEFINE blocked == {t \in SteamIds : principals[t] = "blocked"}
           users == UNION {UsersForIdentity(s) : s \in blocked}
<1>2. /\ EndSessions(users, "ban") /\ refresh' = FALSE
      /\ UNCHANGED <<policy, connected, storeVars, sessionVars, bans, actorVars, moderations, misled>>
  BY DEF SettingsChanged
<1>3. "ban" \in Kinds /\ users \in SUBSET UserIds
  BY DEF Kinds, UsersForIdentity
<1>4. \A u \in UserIds : spawned[u] # None /\ principals[spawned[u].steam] = "blocked" =>
        IsConnected(u) /\ u \in users
  BY <1>1 DEF SpawnedAsVerified, VerifiedHere, UsersForIdentity, TypeOK, Spawns
<1> HIDE DEF users
<1>5. /\ pendingEnd' \in [UserIds -> Endings \cup {None}] /\ EndsOfThis'
      /\ \A v \in UserIds : Leaving(v) => Leaving(v)'
      /\ \A v \in users : IsConnected(v) => Leaving(v)'
  BY <1>1, <1>2, <1>3, EndSessionsEnds
<1>6. UNCHANGED <<closing, generations, verified, active, userActor, spawned, accounts, actors,
                  principals, session>>
  BY <1>2 DEF EndSessions, storeVars, sessionVars, actorVars
<1>7. TypeOK'
  BY <1>1, <1>2, <1>5, <1>6 DEF TypeOK, storeVars, sessionVars, actorVars
<1>8. \A u \in UserIds : session'[u] # None => session'[u].gen = generations[u]
  BY <1>1, <1>6 DEF SpawnedAsVerified
<1>9. \A u \in UserIds : spawned[u] # None =>
        /\ spawned[u].profile \in bans' => Leaving(u)'
        /\ principals'[spawned[u].steam] = "blocked" => Leaving(u)' \/ refresh'
  BY <1>2, <1>4, <1>5, <1>6 DEF Strong, BannedAreLeaving, Leaving, EndsOfThis
<1> QED BY <1>2, <1>5, <1>6, <1>7, <1>8, <1>9, SamePlayers

-----------------------------------------------------------------------------
(* Letting somebody in.                                                     *)

\* A user whose verification is of this connection and who was not let in yet.  ver is what
\* the handler makes of verified before it decides.
Applies(ver, u) ==
  /\ ver \in [UserIds -> Verified \cup {None}]
  /\ IsConnected(u) /\ ver[u] # None /\ ver[u].guid = connected[u]
  /\ verified[u] # None => ~verified[u].allowed
  /\ \A v \in UserIds : v # u => ver[v] = verified[v]

\* The identity counts for this login only if it is free, not blocked, and known by a session
\* that is still valid.
LEMMA ClaimsFacts ==
  ASSUME TypeOK, NEW u \in UserIds, NEW ver, Applies(ver, u), Claims(ver, u)
  PROVE  /\ ver[u].steam \in SteamIds /\ ~ver[u].allowed
         /\ principals[ver[u].steam] # "blocked"
         /\ ~Taken(ver[u].steam)
<1>1. GetSteamId(ver, u) # None
  BY DEF Claims
<1>2. GetSteamId(ver, u) = ver[u].steam /\ principals[ver[u].steam] # "blocked"
  BY <1>1 DEF GetSteamId
<1> QED BY <1>2 DEF Claims, Applies, Verified

\* Who is not let in yet does not play, so that a verification may be replaced.
LEMMA ApplicantDoesNotPlay ==
  ASSUME Strong, NEW u \in UserIds, NEW ver, Applies(ver, u)
  PROVE  spawned[u] = None
BY DEF Strong, SpawnedAsVerified, Applies

\* An applicant that is not let in leaves everybody as it was.
LEMMA RefusedStrong ==
  ASSUME Strong, TypeOK', NEW u \in UserIds, NEW ver, Applies(ver, u), ver[u].allowed = FALSE,
         verified' = ver,
         UNCHANGED <<connected, active, endVars, actorVars, accounts, session, bans, principals, refresh>>
  PROVE  Strong'
<1>1. UNCHANGED <<closing, generations, pendingEnd, userActor, actors, spawned>>
  BY DEF endVars, actorVars
<1>2. spawned[u] = None
  BY ApplicantDoesNotPlay
<1>3. VerifiedHere' /\ AllowedPlays'
  BY DEF Strong, Inv, VerifiedHere, AllowedPlays, Applies, IsConnected
<1>4. OneSessionPerIdentity' /\ ActorsAreSpawned' /\ ProfilesBound' /\ EndsOfThis'
  BY <1>1 DEF Strong, Inv, OneSessionPerIdentity, ActorsAreSpawned, ProfilesBound, EndsOfThis
<1>5. SpawnedAsVerified'
  BY <1>1, <1>2 DEF Strong, SpawnedAsVerified, Applies, Leaving
<1>6. BannedAreLeaving'
  BY <1>1 DEF Strong, BannedAreLeaving, Leaving
<1> QED BY <1>3, <1>4, <1>5, <1>6 DEF Strong, Inv

\* An applicant that claims its identity and whose profile belongs to it: it spawns, or is banned.
LEMMA LetInStrong ==
  ASSUME Strong, NEW u \in UserIds, NEW ver, NEW p \in Profiles,
         Applies(ver, u), Claims(ver, u), Claim(ver, u), SpawnAllowed(u, p),
         accounts' \in [MasterProfiles -> SteamIds \cup {None}],
         \A q \in MasterProfiles : accounts[q] # None => accounts'[q] = accounts[q],
         IF p \in MasterProfiles THEN accounts'[p] = ver[u].steam ELSE p = GuestProfile[ver[u].steam],
         logins' \in SUBSET Logins,
         UNCHANGED <<policy, connected, tokens, principals, refresh, session, bans, moderations, misled>>
  PROVE  Strong'
<1> DEFINE s == ver[u].steam
<1>1. /\ TypeOK /\ EndsOfThis /\ SpawnedAsVerified /\ VerifiedHere /\ AllowedPlays
      /\ OneSessionPerIdentity /\ ActorsAreSpawned /\ ProfilesBound
  BY DEF Strong, Inv
<1>2. s \in SteamIds /\ ~ver[u].allowed /\ principals[s] # "blocked" /\ ~Taken(s)
  BY <1>1, ClaimsFacts
<1>3. spawned[u] = None /\ userActor[u] = None
  BY <1>1, ApplicantDoesNotPlay DEF ActorsAreSpawned
<1>4. /\ verified' = [ver EXCEPT ![u].allowed = TRUE]
      /\ active' = [active EXCEPT ![s] = [user |-> u, guid |-> connected[u]]]
      /\ ver \in [UserIds -> Verified \cup {None}] /\ ver[u] \in Verified
      /\ connected[u] \in Guids /\ connected[u] # None /\ ver[u].guid = connected[u]
  BY <1>1 DEF Claim, Applies, IsConnected, TypeOK
<1>5. /\ verified' \in [UserIds -> Verified \cup {None}]
      /\ verified'[u] # None /\ verified'[u].allowed /\ verified'[u].guid = connected[u]
      /\ verified'[u].steam = s
      /\ \A v \in UserIds : v # u => verified'[v] = verified[v]
  <2>1. [ver[u] EXCEPT !.allowed = TRUE] \in Verified
    BY <1>4 DEF Verified
  <2>2. verified' = [ver EXCEPT ![u] = [ver[u] EXCEPT !.allowed = TRUE]]
    BY <1>4
  <2>3. verified'[u] = [ver[u] EXCEPT !.allowed = TRUE] /\ verified'[u] # None
    BY <1>4, <2>1, <2>2, NoneFacts
  <2>4. /\ verified'[u].allowed = TRUE /\ verified'[u].guid = connected[u]
        /\ verified'[u].steam = s
    BY <1>4, <2>3 DEF Verified
  <2>5. \A v \in UserIds : v # u => verified'[v] = verified[v]
    BY <1>4 DEF Applies
  <2> QED BY <1>4, <2>1, <2>2, <2>3, <2>4, <2>5
<1>6. /\ active' \in [SteamIds -> Players \cup {None}]
      /\ active'[s] = [user |-> u, guid |-> connected[u]]
      /\ \A t \in SteamIds : t # s => active'[t] = active[t]
  BY <1>1, <1>2, <1>4 DEF TypeOK, Players
<1>7. \A v \in UserIds : v # u /\ verified[v] # None /\ verified[v].allowed => verified[v].steam # s
  <2>1. ASSUME NEW v \in UserIds, v # u, verified[v] # None, verified[v].allowed, verified[v].steam = s
        PROVE  FALSE
    <3>1. active[s] = [user |-> v, guid |-> connected[v]]
      BY <1>1, <2>1 DEF AllowedPlays
    <3>2. active[s] # None
      BY <1>1, <1>2, <2>1, <3>1, NoneFacts DEF Players, VerifiedHere, IsConnected, TypeOK
    <3> QED BY <1>2, <3>1, <3>2 DEF Taken
  <2> QED BY <2>1
<1>8. VerifiedHere' /\ AllowedPlays'
  BY <1>1, <1>4, <1>5, <1>6, <1>7 DEF VerifiedHere, AllowedPlays, IsConnected, TypeOK, Verified
<1>9. \A v \in UserIds : v # u /\ spawned[v] # None =>
        spawned[v].steam # s /\ spawned[v].profile # p
  <2>1. ASSUME NEW v \in UserIds, v # u, spawned[v] # None
        PROVE  spawned[v].steam # s /\ spawned[v].profile # p
    <3>1. spawned[v].steam = verified[v].steam /\ spawned[v].steam # s
          /\ spawned[v].steam \in SteamIds /\ spawned[v].steam # None
      BY <1>1, <1>7, <2>1, NoneFacts DEF SpawnedAsVerified, TypeOK, Spawns
    <3>2. CASE p \in MasterProfiles
      <4>1. ASSUME spawned[v].profile = p PROVE FALSE
        <5>1. accounts[p] = spawned[v].steam
          BY <1>1, <2>1, <3>2, <4>1 DEF ProfilesBound
        <5> QED BY <3>1, <3>2, <5>1
      <4> QED BY <3>1, <4>1
    <3>3. CASE p \notin MasterProfiles
      <4>1. ASSUME spawned[v].profile = p PROVE FALSE
        <5>1. p = GuestProfile[spawned[v].steam] /\ p = GuestProfile[s]
          BY <1>1, <2>1, <3>3, <4>1 DEF ProfilesBound
        <5>2. GuestProfile[spawned[v].steam] = GuestProfile[s]
          BY <5>1
        <5> QED BY <1>2, <3>1, <5>2, GuestProfilesDiffer
      <4> QED BY <3>1, <4>1
    <3> QED BY <3>2, <3>3
  <2> QED BY <2>1
<1>10. CASE p \in bans
  <2>1. EndSessions({u}, "ban") /\ UNCHANGED actorVars
    BY <1>10 DEF SpawnAllowed, GiveActor
  <2>2. UNCHANGED <<closing, generations, userActor, actors, spawned>>
    BY <2>1 DEF EndSessions, actorVars
  <2>3. /\ pendingEnd' \in [UserIds -> Endings \cup {None}] /\ EndsOfThis'
        /\ \A v \in UserIds : Leaving(v) => Leaving(v)'
    <3>1. "ban" \in Kinds
      BY DEF Kinds
    <3> QED BY <1>1, <2>1, <3>1, EndSessionsEnds
  <2>4. TypeOK'
    BY <1>1, <1>5, <1>6, <2>2, <2>3 DEF TypeOK
  <2>5. OneSessionPerIdentity' /\ ActorsAreSpawned'
    BY <1>1, <2>2 DEF OneSessionPerIdentity, ActorsAreSpawned
  <2>6. ProfilesBound'
    BY <1>1, <2>2, NoneFacts DEF ProfilesBound, TypeOK, Spawns
  <2>7. SpawnedAsVerified'
    BY <1>1, <1>3, <1>5, <2>2, <2>3, <2>6 DEF SpawnedAsVerified, ProfilesBound
  <2>8. BannedAreLeaving'
    BY <2>2, <2>3 DEF Strong, BannedAreLeaving
  <2> QED BY <1>8, <2>3, <2>4, <2>5, <2>6, <2>7, <2>8 DEF Strong, Inv
<1>11. CASE p \notin bans
  <2> DEFINE spawn == [steam |-> s, profile |-> p]
  <2>1. /\ actors' = [actors EXCEPT ![p] = "enabled"]
        /\ userActor' = [v \in UserIds |->
             IF v = u THEN p ELSE IF userActor[v] = p THEN None ELSE userActor[v]]
        /\ spawned' = [spawned EXCEPT ![u] = spawn]
        /\ UNCHANGED <<closing, generations, pendingEnd>>
    BY <1>5, <1>11 DEF SpawnAllowed, GiveActor, endVars
  <2>2. spawn \in Spawns /\ spawn # None
    BY <1>2, NoneFacts DEF Spawns
  <2>3. /\ spawned'[u] = spawn /\ userActor'[u] = p
        /\ \A v \in UserIds : v # u => spawned'[v] = spawned[v]
    BY <1>1, <2>1 DEF TypeOK
  <2>4. \A v \in UserIds : v # u => userActor'[v] = userActor[v]
    BY <1>1, <1>9, <2>1, NoneFacts DEF ActorsAreSpawned
  <2>5. TypeOK'
    BY <1>1, <1>5, <1>6, <2>1, <2>2 DEF TypeOK
  <2>6. OneSessionPerIdentity'
    BY <1>1, <1>9, <2>2, <2>3 DEF OneSessionPerIdentity
  <2>7. ActorsAreSpawned'
    BY <1>1, <2>2, <2>3, <2>4 DEF ActorsAreSpawned
  <2>8. ProfilesBound'
    BY <1>1, <2>2, <2>3, NoneFacts DEF ProfilesBound, TypeOK, Spawns
  <2>9. EndsOfThis'
    BY <1>1, <2>1 DEF EndsOfThis
  <2>10. \A v \in UserIds : v # u /\ spawned[v] # None => actors'[userActor'[v]] = actors[userActor[v]]
    BY <1>1, <1>9, <2>1, <2>4 DEF ActorsAreSpawned, TypeOK, Spawns
  <2>11. actors'[userActor'[u]] = "enabled"
    BY <1>1, <2>1, <2>3 DEF TypeOK
  <2>12. SpawnedAsVerified'
    <3>1. ASSUME NEW v \in UserIds, spawned'[v] # None
          PROVE  /\ verified'[v] # None /\ verified'[v].allowed /\ verified'[v].guid = connected'[v]
                 /\ spawned'[v].steam = verified'[v].steam
                 /\ spawned'[v].profile \in MasterProfiles => accounts'[spawned'[v].profile] = spawned'[v].steam
                 /\ userActor'[v] = spawned'[v].profile
                 /\ actors'[userActor'[v]] = "enabled" \/ Leaving(v)'
      <4>1. CASE v = u
        BY <1>5, <2>3, <2>8, <2>11, <3>1, <4>1 DEF ProfilesBound
      <4>2. CASE v # u
        BY <1>1, <1>5, <2>1, <2>3, <2>4, <2>8, <2>10, <3>1, <4>2 DEF SpawnedAsVerified, ProfilesBound, Leaving
      <4> QED BY <4>1, <4>2
    <3>2. \A v \in UserIds : session'[v] # None => session'[v].gen = generations'[v]
      BY <1>1, <2>1 DEF SpawnedAsVerified
    <3> QED BY <3>1, <3>2 DEF SpawnedAsVerified
  <2>13. BannedAreLeaving'
    BY <1>2, <1>11, <2>1, <2>3 DEF Strong, BannedAreLeaving, Leaving
  <2> QED BY <1>8, <2>5, <2>6, <2>7, <2>8, <2>9, <2>12, <2>13 DEF Strong, Inv
<1> QED BY <1>10, <1>11

-----------------------------------------------------------------------------
(* Logins.                                                                  *)

\* The part that the handlers of a Steam session share.
LEMMA AdmitStrong ==
  ASSUME Strong, NEW u \in UserIds, NEW ver, Applies(ver, u), ver[u].allowed = FALSE, Admit(ver, u),
         UNCHANGED <<policy, connected, storeVars, refresh, logins, session, bans, moderations, misled>>
  PROVE  Strong'
<1> DEFINE s == ver[u].steam
<1>1. TypeOK /\ s \in SteamIds
  BY DEF Strong, Inv, Applies, Verified
<1>2. UNCHANGED <<tokens, principals, accounts>>
  BY DEF storeVars
<1>3. CASE Claims(ver, u) /\ Claim(ver, u) /\ SpawnAllowed(u, GuestProfile[s])
  <2>1. GuestProfile[s] \in Profiles /\ GuestProfile[s] \notin MasterProfiles
    BY <1>1, NoneFacts, AdmissionAssumption
  <2>2. logins' \in SUBSET Logins /\ accounts' \in [MasterProfiles -> SteamIds \cup {None}]
    BY <1>1, <1>2 DEF TypeOK
  <2> QED BY <1>2, <1>3, <2>1, <2>2, LetInStrong
<1>4. CASE verified' = ver /\ UNCHANGED <<active, endVars, actorVars>>
  <2>1. TypeOK'
    BY <1>1, <1>2, <1>4 DEF TypeOK, Applies, endVars, actorVars
  <2> QED BY <1>2, <1>4, <2>1, RefusedStrong
<1> QED BY <1>3, <1>4 DEF Admit

LEMMA SteamLoginStrong ==
  ASSUME Strong, NEW u \in UserIds,
         SteamLoginStatus(u) \/ \E t \in Tokens : LoginWithSteam(u, t)
  PROVE  Strong'
<1>1. TypeOK /\ VerifiedHere
  BY DEF Strong, Inv
<1>2. CASE SteamLoginStatus(u)
  <2>1. /\ Applies(verified, u) /\ verified[u].allowed = FALSE /\ Admit(verified, u)
        /\ UNCHANGED <<policy, connected, storeVars, refresh, logins, session, bans, moderations, misled>>
    <3>1. verified[u] \in Verified /\ ~verified[u].allowed
      BY <1>1, <1>2 DEF SteamLoginStatus, TypeOK
    <3>2. verified[u].allowed = FALSE
      BY <3>1 DEF Verified
    <3> QED BY <1>1, <1>2, <3>2 DEF SteamLoginStatus, Applies, TypeOK
  <2> QED BY <2>1, AdmitStrong
<1>3. ASSUME NEW t \in Tokens, LoginWithSteam(u, t) PROVE Strong'
  <2> DEFINE now == [steam |-> SteamOf[t], token |-> t, guid |-> connected[u], allowed |-> FALSE]
             ver == [verified EXCEPT ![u] = now]
  <2>1. /\ IsConnected(u) /\ Admit(ver, u)
        /\ verified[u] # None /\ verified[u].guid = connected[u] => ~verified[u].allowed
        /\ UNCHANGED <<policy, connected, storeVars, refresh, logins, session, bans, moderations, misled>>
    BY <1>3 DEF LoginWithSteam
  <2>2. now \in Verified /\ now # None
    <3>1. SteamOf[t] \in SteamIds /\ connected[u] \in Guids
      BY <1>1, <2>1, AdmissionAssumption DEF IsConnected, TypeOK
    <3>2. now \in Verified
      BY <3>1 DEF Verified
    <3> QED BY <3>2, NoneFacts
  <2>3. ver \in [UserIds -> Verified \cup {None}] /\ ver[u] = now
    BY <1>1, <2>2 DEF TypeOK
  <2>4. Applies(ver, u)
    BY <1>1, <2>1, <2>2, <2>3 DEF Applies, VerifiedHere
  <2>5. ver[u].allowed = FALSE
    BY <2>3
  <2> HIDE DEF ver
  <2> QED BY <2>1, <2>4, <2>5, AdmitStrong
<1> QED BY <1>2, <1>3

\* A login that begins notes the session its purchases will be charged to.
LEMMA LoginWithSkympIoStrong ==
  ASSUME Strong, NEW u \in UserIds, NEW p \in MasterProfiles, LoginWithSkympIo(u, p)
  PROVE  Strong'
<1> DEFINE s == GetSteamId(verified, u)
           login == [user |-> u, guid |-> connected[u], gen |-> generations[u],
                     steam |-> s, profile |-> p, stage |-> "profile"]
           noted == [profile |-> p, gen |-> generations[u]]
<1>1. TypeOK /\ EndsOfThis
  BY DEF Strong, Inv
<1>2. /\ IsConnected(u) /\ s # None
      /\ session' = [session EXCEPT ![u] = noted] /\ logins' = logins \cup {login}
      /\ UNCHANGED <<policy, connected, endVars, storeVars, refresh, verified, active,
                     bans, actorVars, moderations, misled>>
  BY DEF LoginWithSkympIo
<1>3. login \in Logins /\ noted \in Sessions
  <2>1. s \in SteamIds
    BY <1>1, <1>2 DEF GetSteamId, TypeOK, Verified
  <2>2. connected[u] \in Guids /\ generations[u] \in Nat
    BY <1>1, <1>2 DEF TypeOK, IsConnected
  <2> QED BY <2>1, <2>2 DEF Logins, Sessions
<1>4. TypeOK'
  BY <1>1, <1>2, <1>3 DEF TypeOK, endVars, storeVars, actorVars
<1>5. UNCHANGED <<closing, generations, pendingEnd, userActor, actors, spawned, accounts, principals>>
  BY <1>2 DEF endVars, storeVars, actorVars
<1>6. EndsOfThis' /\ \A v \in UserIds : Leaving(v) => Leaving(v)'
  BY <1>1, <1>2, <1>5 DEF EndsOfThis, Leaving
<1>7. \A v \in UserIds : session'[v] # None => session'[v].gen = generations[v]
  <2>1. session'[u].gen = generations[u]
    BY <1>1, <1>2 DEF TypeOK
  <2>2. \A v \in UserIds : v # u => session'[v] = session[v]
    BY <1>1, <1>2 DEF TypeOK
  <2> QED BY <2>1, <2>2 DEF Strong, SpawnedAsVerified
<1> QED BY <1>2, <1>4, <1>5, <1>6, <1>7, OnlyEnds

\* A login that fails leaves a notice at most.
LEMMA FailedStrong ==
  ASSUME Strong, NEW l \in logins, FailLogin(l),
         \/ UNCHANGED misled
         \/ \E kind \in {"sessionNotFound", "notInDiscord", "banned", "ipMismatch", "joinAccess"} :
              Notify(l, kind)
  PROVE  Strong'
<1>1. TypeOK /\ EndsOfThis
  BY DEF Strong, Inv
<1>2. /\ logins' = logins \ {l}
      /\ UNCHANGED <<policy, connected, endVars, storeVars, refresh, verified, active,
                     session, bans, actorVars, moderations>>
  BY DEF FailLogin
<1>3. misled' \subseteq {"sessionNotFound", "notInDiscord", "banned", "ipMismatch", "joinAccess"}
  <2> DEFINE kinds == {"sessionNotFound", "notInDiscord", "banned", "ipMismatch", "joinAccess"}
  <2>1. misled \subseteq kinds
    BY <1>1 DEF TypeOK
  <2>2. ASSUME NEW kind \in kinds, Notify(l, kind) PROVE misled' \subseteq kinds
    BY <2>1, <2>2 DEF Notify
  <2> QED BY <2>1, <2>2
<1>4. TypeOK'
  BY <1>1, <1>2, <1>3 DEF TypeOK, endVars, storeVars, actorVars
<1>5. UNCHANGED <<closing, generations, pendingEnd, userActor, actors, spawned, accounts, principals>>
  BY <1>2 DEF endVars, storeVars, actorVars
<1>6. EndsOfThis' /\ \A v \in UserIds : Leaving(v) => Leaving(v)'
  BY <1>1, <1>2, <1>5 DEF EndsOfThis, Leaving
<1>7. \A v \in UserIds : session'[v] # None => session'[v].gen = generations[v]
  BY <1>2, <1>5 DEF Strong, SpawnedAsVerified
<1> QED BY <1>2, <1>4, <1>5, <1>6, <1>7, OnlyEnds

\* A login that is answered for the connection that began it binds the account, and lets the
\* user in if nobody plays as its identity.
LEMMA FinishLoginStrong ==
  ASSUME Strong, NEW l \in logins, NEW roles, FinishLogin(l, roles)
  PROVE  Strong'
<1> DEFINE u == l.user
<1>1. TypeOK /\ l \in Logins /\ u \in UserIds /\ l.guid \in Guids /\ l.steam \in SteamIds
      /\ l.profile \in MasterProfiles
  BY DEF Strong, Inv, TypeOK, Logins
<1>2. CASE Notify(l, "joinAccess") /\ FailLogin(l)
  BY <1>2, FailedStrong
<1>3. CASE UNCHANGED misled /\ FailLogin(l)
  BY <1>3, FailedStrong
<1>4. CASE /\ SameConnection(l) /\ GetSteamId(verified, u) = l.steam /\ Bindable(l)
           /\ accounts' = [accounts EXCEPT ![l.profile] = l.steam]
           /\ logins' = logins \ {l}
           /\ IF Claims(verified, u)
              THEN Claim(verified, u) /\ SpawnAllowed(u, l.profile)
              ELSE UNCHANGED <<verified, active, endVars, actorVars>>
           /\ UNCHANGED <<policy, connected, tokens, principals, refresh, session, bans, moderations, misled>>
  <2>1. /\ accounts' \in [MasterProfiles -> SteamIds \cup {None}]
        /\ accounts'[l.profile] = l.steam
        /\ \A q \in MasterProfiles : accounts[q] # None => accounts'[q] = accounts[q]
    BY <1>1, <1>4 DEF TypeOK, Bindable
  <2>2. logins' \in SUBSET Logins
    BY <1>1, <1>4 DEF TypeOK
  <2>3. CASE Claims(verified, u)
    <3>1. l.steam # None
      BY <1>1, NoneFacts
    <3>2. verified[u] # None /\ verified[u].guid = connected[u] /\ verified[u].steam = l.steam
      BY <1>4, <3>1 DEF GetSteamId
    <3>3. IsConnected(u)
      BY <1>1, <1>4, NoneFacts DEF SameConnection, IsConnected
    <3>4. Applies(verified, u)
      BY <1>1, <2>3, <3>2, <3>3 DEF Applies, Claims, TypeOK
    <3>5. l.profile \in Profiles
      BY <1>1, NoneFacts
    <3> QED BY <1>1, <1>4, <2>1, <2>2, <2>3, <3>2, <3>4, <3>5, LetInStrong
  <2>4. CASE ~Claims(verified, u)
    <3>1. UNCHANGED <<verified, active, closing, generations, pendingEnd, userActor, actors, spawned>>
      BY <1>4, <2>4 DEF endVars, actorVars
    <3>2. TypeOK'
      BY <1>1, <1>4, <2>1, <2>2, <3>1 DEF TypeOK
    <3>3. ProfilesBound'
      BY <1>1, <2>1, <3>1, NoneFacts DEF Strong, Inv, ProfilesBound, TypeOK, Spawns
    <3>4. OneSessionPerIdentity' /\ VerifiedHere' /\ AllowedPlays' /\ ActorsAreSpawned' /\ EndsOfThis'
      BY <1>4, <3>1 DEF Strong, Inv, OneSessionPerIdentity, VerifiedHere, AllowedPlays,
                        ActorsAreSpawned, EndsOfThis, IsConnected
    <3>5. SpawnedAsVerified'
      BY <1>4, <3>1, <3>3 DEF Strong, SpawnedAsVerified, ProfilesBound, Leaving
    <3>6. BannedAreLeaving'
      BY <1>4, <3>1 DEF Strong, BannedAreLeaving, Leaving
    <3> QED BY <3>2, <3>3, <3>4, <3>5, <3>6 DEF Strong, Inv
  <2> QED BY <2>3, <2>4
<1> QED BY <1>2, <1>3, <1>4 DEF FinishLogin

LEMMA LoginStepStrong ==
  ASSUME Strong, NEW l \in logins, LoginStep(l)
  PROVE  Strong'
<1>1. CASE ProfileRejected(l)
  BY <1>1, FailedStrong DEF ProfileRejected
<1>2. CASE ProfileAnswered(l)
  <2>1. CASE UNCHANGED misled /\ FailLogin(l)
    BY <2>1, FailedStrong
  <2>2. CASE Notify(l, "banned") /\ FailLogin(l)
    BY <2>2, FailedStrong
  <2>3. CASE FinishLogin(l, {})
    BY <2>3, FinishLoginStrong
  <2>4. CASE /\ logins' = (logins \ {l}) \cup {[l EXCEPT !.stage = "discord"]}
             /\ UNCHANGED <<policy, connected, endVars, storeVars, refresh, verified, active,
                            session, bans, actorVars, moderations, misled>>
    <3>1. TypeOK /\ EndsOfThis /\ l \in Logins
      BY DEF Strong, Inv, TypeOK
    <3>2. [l EXCEPT !.stage = "discord"] \in Logins
      BY <3>1 DEF Logins
    <3>3. TypeOK'
      BY <2>4, <3>1, <3>2 DEF TypeOK, endVars, storeVars, actorVars
    <3>4. UNCHANGED <<closing, generations, pendingEnd, userActor, actors, spawned, accounts, principals>>
      BY <2>4 DEF endVars, storeVars, actorVars
    <3>5. EndsOfThis' /\ \A v \in UserIds : Leaving(v) => Leaving(v)'
      BY <2>4, <3>1, <3>4 DEF EndsOfThis, Leaving
    <3>6. \A v \in UserIds : session'[v] # None => session'[v].gen = generations[v]
      BY <2>4, <3>4 DEF Strong, SpawnedAsVerified
    <3> QED BY <2>4, <3>3, <3>4, <3>5, <3>6, OnlyEnds
  <2> QED BY <1>2, <2>1, <2>2, <2>3, <2>4 DEF ProfileAnswered
<1>3. ASSUME NEW a \in {"notMember", "banRole", "plain", "member"}, DiscordAnswered(l, a)
      PROVE  Strong'
  <2>1. CASE UNCHANGED misled /\ FailLogin(l)
    BY <2>1, FailedStrong
  <2>2. CASE \E kind \in {"notInDiscord", "banned", "ipMismatch"} : Notify(l, kind) /\ FailLogin(l)
    BY <2>2, FailedStrong
  <2>3. CASE FinishLogin(l, {a})
    BY <2>3, FinishLoginStrong
  <2> QED BY <1>3, <2>1, <2>2, <2>3 DEF DiscordAnswered
<1> QED BY <1>1, <1>2, <1>3 DEF LoginStep

-----------------------------------------------------------------------------
(* The theorems.                                                            *)

LEMMA NextStrong == Strong /\ [Next]_vars => Strong'
<1> SUFFICES ASSUME Strong, [Next]_vars PROVE Strong'
  OBVIOUS
<1>1. ASSUME NEW u \in UserIds, SessionTimer(u) \/ Disconnect(u) \/ SteamLoginStatus(u)
      PROVE  Strong'
  BY <1>1, SessionTimerStrong, DisconnectStrong, SteamLoginStrong
<1>2. ASSUME NEW u \in UserIds, NEW g \in Guids, Connect(u, g) PROVE Strong'
  BY <1>2, ConnectStrong
<1>3. ASSUME NEW u \in UserIds, NEW t \in Tokens, LoginWithSteam(u, t) PROVE Strong'
  BY <1>3, SteamLoginStrong
<1>4. ASSUME NEW u \in UserIds, NEW p \in MasterProfiles, LoginWithSkympIo(u, p) PROVE Strong'
  BY <1>4, LoginWithSkympIoStrong
<1>5. ASSUME NEW u \in UserIds, NEW p \in Profiles, KickPlayer(u, p) \/ BanPlayer(u, p) PROVE Strong'
  BY <1>5, KickBanStrong
<1>6. ASSUME NEW t \in Tokens, IssueToken(t) \/ ExpireToken(t) PROVE Strong'
  BY <1>6, StoreStepStrong
<1>7. ASSUME NEW l \in logins, LoginStep(l) PROVE Strong'
  BY <1>7, LoginStepStrong
<1>8. ASSUME NEW s \in SteamIds, NEW status \in {"approved", "pending", "blocked"},
             ChangePlayerAccess(s, status)
      PROVE  Strong'
  BY <1>8, AccessStrong
<1>9. ASSUME NEW p \in Profiles, Unban(p) \/ DiscordBan(p) PROVE Strong'
  BY <1>9, UnbanStrong, DiscordBanStrong
<1>10. CASE SettingsChanged \/ Shutdown
  BY <1>10, SettingsChangedStrong, ShutdownStrong
<1>11. CASE UNCHANGED vars
  BY <1>11 DEF vars, storeVars, sessionVars, actorVars, endVars, Strong, Inv, TypeOK,
     OneSessionPerIdentity, VerifiedHere, AllowedPlays, ActorsAreSpawned, ProfilesBound, EndsOfThis,
     SpawnedAsVerified, BannedAreLeaving, IsConnected, Leaving
<1> QED BY <1>1, <1>2, <1>3, <1>4, <1>5, <1>6, <1>7, <1>8, <1>9, <1>10, <1>11 DEF Next

LEMMA StrongHolds == Spec => []Strong
<1>1. Init => Strong
  BY InitStrong
<1>2. Strong /\ [Next]_vars => Strong'
  BY NextStrong
<1> QED BY <1>1, <1>2, PTL DEF Spec

\* Two users that were let in are two identities with two characters, for any number of
\* slots, clients and logins under way.
THEOREM InvHolds == Spec => []Inv
<1>1. Strong => Inv
  BY DEF Strong
<1> QED BY <1>1, StrongHolds, PTL

\* Every variable keeps its type.
THEOREM TypeCorrect == Spec => []TypeOK
<1>1. Strong => TypeOK
  BY DEF Strong, Inv
<1> QED BY <1>1, StrongHolds, PTL

\* A player is the connection that proved the identity, whichever awaited answers, kicks and
\* slots that change hands come in between.
THEOREM SpawnedAsVerifiedHolds == Spec => []SpawnedAsVerified
<1>1. Strong => SpawnedAsVerified
  BY DEF Strong
<1> QED BY <1>1, StrongHolds, PTL

\* A player that is banned or blocked is leaving, also when the ban came during its login.
THEOREM BannedAreLeavingHolds == Spec => []BannedAreLeaving
<1>1. Strong => BannedAreLeaving
  BY DEF Strong
<1> QED BY <1>1, StrongHolds, PTL

\* Letting somebody in ends sessions, or none.
LEMMA SpawnAllowedEnds ==
  ASSUME NEW u \in UserIds, NEW p, SpawnAllowed(u, p)
  PROVE  EndSessions({u}, "ban") \/ UNCHANGED endVars
BY DEF SpawnAllowed, GiveActor

\* Only a disconnection or a new connection of the slot ends that somebody is leaving.
LEMMA LeavingStep ==
  ASSUME Strong, Next, NEW u \in UserIds, Leaving(u), ~Leaving(u)'
  PROVE  generations'[u] # generations[u]
<1>1. TypeOK /\ EndsOfThis
  BY DEF Strong, Inv
<1>2. ASSUME NEW users \in SUBSET UserIds, NEW kind \in Kinds, EndSessions(users, kind),
             UNCHANGED connected
      PROVE  FALSE
  BY <1>1, <1>2, EndSessionsEnds
<1>3. ASSUME UNCHANGED endVars PROVE FALSE
  BY <1>3 DEF endVars, Leaving
<1>4. ASSUME NEW v \in UserIds, NEW p, SpawnAllowed(v, p), UNCHANGED connected PROVE FALSE
  BY <1>2, <1>3, <1>4, SpawnAllowedEnds DEF Kinds
<1>5. ASSUME NEW v \in UserIds, Disconnect(v) \/ \E g \in Guids : Connect(v, g)
      PROVE  generations'[u] # generations[u]
  <2>1. generations' = [generations EXCEPT ![v] = @ + 1]
    BY <1>5 DEF Disconnect, Connect
  <2>2. v # u => pendingEnd'[u] = pendingEnd[u] /\ closing'[u] = closing[u]
    BY <1>1, <1>5 DEF Disconnect, Connect, TypeOK
  <2>3. v = u
    BY <2>2 DEF Leaving
  <2> QED BY <1>1, <2>1, <2>3 DEF TypeOK
<1>6. ASSUME NEW v \in UserIds, SessionTimer(v) PROVE FALSE
  <2>1. v # u => pendingEnd'[u] = pendingEnd[u] /\ closing'[u] = closing[u]
    BY <1>1, <1>6 DEF SessionTimer, TypeOK
  <2>2. v = u => closing'[u]
    BY <1>1, <1>6 DEF SessionTimer, TypeOK, EndsOfThis
  <2> QED BY <2>1, <2>2 DEF Leaving
<1>7. ASSUME NEW v \in UserIds, NEW ver, Admit(ver, v), UNCHANGED connected PROVE FALSE
  BY <1>3, <1>4, <1>7 DEF Admit
<1>8. ASSUME NEW v \in UserIds,
             \/ SteamLoginStatus(v) \/ \E t \in Tokens : LoginWithSteam(v, t)
             \/ \E p \in MasterProfiles : LoginWithSkympIo(v, p)
      PROVE  FALSE
  BY <1>3, <1>7, <1>8 DEF SteamLoginStatus, LoginWithSteam, LoginWithSkympIo
<1>9. ASSUME NEW l \in logins, FailLogin(l) PROVE FALSE
  BY <1>3, <1>9 DEF FailLogin
<1>10. ASSUME NEW l \in logins, NEW roles, FinishLogin(l, roles) PROVE FALSE
  <2>1. l.user \in UserIds
    BY <1>1 DEF TypeOK, Logins
  <2> QED BY <1>3, <1>4, <1>9, <1>10, <2>1 DEF FinishLogin
<1>11. ASSUME NEW l \in logins, LoginStep(l) PROVE FALSE
  <2>1. CASE ProfileRejected(l)
    BY <1>9, <2>1 DEF ProfileRejected
  <2>2. CASE ProfileAnswered(l)
    BY <1>3, <1>9, <1>10, <2>2 DEF ProfileAnswered
  <2>3. ASSUME NEW a \in {"notMember", "banRole", "plain", "member"}, DiscordAnswered(l, a)
        PROVE  FALSE
    BY <1>9, <1>10, <2>3 DEF DiscordAnswered
  <2> QED BY <1>11, <2>1, <2>2, <2>3 DEF LoginStep
<1>12. ASSUME NEW t \in Tokens, IssueToken(t) \/ ExpireToken(t) PROVE FALSE
  BY <1>3, <1>12 DEF IssueToken, ExpireToken
<1>13. ASSUME NEW v \in UserIds, NEW p \in Profiles, KickPlayer(v, p) \/ BanPlayer(v, p) PROVE FALSE
  BY <1>2, <1>13 DEF KickPlayer, BanPlayer, Kinds
<1>14. ASSUME NEW s \in SteamIds, NEW status \in {"approved", "pending", "blocked"},
              ChangePlayerAccess(s, status)
       PROVE  FALSE
  <2>1. UsersForIdentity(s) \in SUBSET UserIds
    BY DEF UsersForIdentity
  <2> QED BY <1>2, <1>3, <1>14, <2>1 DEF ChangePlayerAccess, Kinds
<1>15. ASSUME NEW p \in Profiles, Unban(p) \/ DiscordBan(p) PROVE FALSE
  BY <1>2, <1>3, <1>15 DEF Unban, DiscordBan, Kinds
<1>16. ASSUME SettingsChanged \/ Shutdown PROVE FALSE
  BY <1>2, <1>16 DEF SettingsChanged, Shutdown, UsersForIdentity, Kinds
<1> QED BY <1>5, <1>6, <1>8, <1>11, <1>12, <1>13, <1>14, <1>15, <1>16 DEF Next

\* A session that is being ended ends with its connection, whatever happens to its user.
THEOREM EndedSessionsCloseHolds == Spec => EndedSessionsClose
<1>1. Strong /\ [Next]_vars =>
        [\A u \in UserIds : Leaving(u) /\ ~Leaving(u)' => generations'[u] # generations[u]]_vars
  BY LeavingStep
<1> QED BY <1>1, StrongHolds, PTL DEF Spec, EndedSessionsClose
=============================================================================
