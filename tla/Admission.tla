----------------------------- MODULE Admission -----------------------------
(***************************************************************************)
(* How a connection becomes a player: the server systems of index.ts that  *)
(* admit, spawn, ban and end sessions (login.ts, playerAccess.ts,          *)
(* spawn.ts, adminBans.ts, playerSessionEnd.ts, masterApiBalanceSystem.ts, *)
(* discordBanSystem.ts, the moderation routes of ui.ts).                   *)
(*                                                                         *)
(* A user id is a slot that is given to the next connection when its user  *)
(* leaves.  JavaScript runs one handler at a time, but a login awaits the  *)
(* master server and Discord and goes on with the user id it started with, *)
(* and a session ends with a notice and a timer.                           *)
(***************************************************************************)
EXTENDS Naturals, FiniteSets, Functions

CONSTANTS
  UserIds,        \* slots of the server
  Guids,          \* RakNet guids, one per process of a client
  IpOf,           \* the address a guid connects from
  SteamIds, Tokens,
  SteamOf,        \* the identity a Steam session (token) was issued for
  MasterProfiles, \* profile ids of accounts of the master server
  GuestProfile,   \* the profile id playerAccess.ts keeps for a Steam identity
  HasDiscord,     \* accounts that are linked to Discord
  Licensed,       \* accounts listed in joinAccess.approvedLicenses
  Policies,       \* the settings to start the server with
  OldBans,         \* the profiles that admin-bans.json may list at the start
  None,
  MaxConnections, MaxLogins,
  MaxModerations   \* kicks, bans, unbans, decisions about access and shutdowns

Profiles == MasterProfiles \cup {GuestProfile[s] : s \in SteamIds}
Kinds == {"kick", "ban"}  \* restart and shutdown are treated like a kick

ASSUME AdmissionAssumption ==
  /\ IpOf \in [Guids -> Guids] /\ SteamOf \in [Tokens -> SteamIds]
  /\ \A s \in SteamIds : GuestProfile[s] \notin MasterProfiles
  /\ \A s, t \in SteamIds : GuestProfile[s] = GuestProfile[t] => s = t
  /\ HasDiscord \subseteq MasterProfiles /\ Licensed \subseteq MasterProfiles
  /\ OldBans \subseteq Profiles /\ MaxModerations \in Nat
  /\ Policies \subseteq
       [mode : {"guest", "account"}, approvalRequired : BOOLEAN, discord : BOOLEAN,
        managed : BOOLEAN,
        joinAccess : {"open", "approvedLicense", "discordMember", "discordRoles"}]
  /\ None \notin UserIds \cup Guids \cup SteamIds \cup Tokens \cup Profiles

VARIABLES
  policy,       \* server-settings.json
  connected,    \* the guid of the connection that holds a user id
  closing,      \* the native kick was called for this connection
  generations,  \* PlayerSessionEnd: connects and disconnects of a user id
  pendingEnd,   \* PlayerSessionEnd: the timer that will close the connection
  tokens,       \* player-access.json: Steam sessions
  principals,   \* player-access.json: status of an identity
  accounts,     \* player-access.json: the identity an account is linked to
  refresh,      \* the dashboard told the game server to read the store again
  verified,     \* SteamPlayerSessions: the identity of a user
  active,       \* SteamPlayerSessions: the user that plays as an identity
  logins,       \* loginWithSkympIo calls that await an answer
  bans,         \* AdminBans: profiles with a ban that has not expired
  userActor,    \* the profile whose actor a user controls
  actors,       \* the actor of a profile
  session,      \* MasterApiBalanceSystem: the session of a user, by its profile
  moderations,  \* how many there were
  spawned,      \* history: connection and identity of the last spawn of a user
  misled        \* history: failure notices that went to another client

storeVars == <<tokens, principals, accounts>>
sessionVars == <<verified, active, logins, session>>
actorVars == <<userActor, actors, spawned>>
endVars == <<closing, generations, pendingEnd>>
vars == <<policy, connected, endVars, storeVars, refresh, sessionVars, bans, actorVars,
          moderations, misled>>

Verified == [steam : SteamIds, token : Tokens, guid : Guids, allowed : BOOLEAN]
Logins == [user : UserIds, guid : Guids, gen : Nat, steam : SteamIds,
           profile : MasterProfiles, stage : {"profile", "discord"}]
Endings == [kind : Kinds, gen : Nat, guid : Guids]
Players == [user : UserIds, guid : Guids]
Sessions == [profile : MasterProfiles, gen : Nat]
Spawns == [steam : SteamIds, profile : Profiles]

ASSUME NoneAssumption ==
  None \notin Verified \cup Endings \cup Players \cup Sessions \cup Spawns

TypeOK ==
  /\ policy \in Policies
  /\ connected \in [UserIds -> Guids \cup {None}]
  /\ closing \in [UserIds -> BOOLEAN]
  /\ generations \in [UserIds -> Nat]
  /\ pendingEnd \in [UserIds -> Endings \cup {None}]
  /\ tokens \in [Tokens -> {"none", "live", "expired"}]
  /\ principals \in [SteamIds -> {None, "pending", "approved", "blocked"}]
  /\ accounts \in [MasterProfiles -> SteamIds \cup {None}]
  /\ refresh \in BOOLEAN
  /\ verified \in [UserIds -> Verified \cup {None}]
  /\ active \in [SteamIds -> Players \cup {None}]
  /\ logins \subseteq Logins
  /\ bans \subseteq Profiles
  /\ userActor \in [UserIds -> Profiles \cup {None}]
  /\ actors \in [Profiles -> {"none", "enabled", "disabled"}]
  /\ session \in [UserIds -> Sessions \cup {None}]
  /\ moderations \in 0..MaxModerations
  /\ spawned \in [UserIds -> Spawns \cup {None}]
  /\ misled \subseteq {"sessionNotFound", "notInDiscord", "banned", "ipMismatch", "joinAccess"}

Init ==
  /\ policy \in Policies
  /\ connected = [u \in UserIds |-> None] /\ closing = [u \in UserIds |-> FALSE]
  /\ generations = [u \in UserIds |-> 0] /\ pendingEnd = [u \in UserIds |-> None]
  /\ tokens = [t \in Tokens |-> "none"]
  /\ principals = [s \in SteamIds |-> None]
  /\ accounts = [p \in MasterProfiles |-> None]
  /\ refresh = FALSE
  /\ verified = [u \in UserIds |-> None] /\ active = [s \in SteamIds |-> None]
  /\ logins = {} /\ bans \in SUBSET OldBans
  /\ userActor = [u \in UserIds |-> None] /\ actors = [p \in Profiles |-> "none"]
  /\ session = [u \in UserIds |-> None] /\ spawned = [u \in UserIds |-> None]
  /\ moderations = 0 /\ misled = {}

-----------------------------------------------------------------------------
(* Ending a session: a notice, and 150 ms later the native kick, unless the *)
(* connection is another one by then.                                       *)

IsConnected(u) == connected[u] # None

Endable(users, kind) ==
  {u \in users : IsConnected(u) /\ (pendingEnd[u] # None /\ pendingEnd[u].kind = "ban" => kind = "ban")}

EndSessions(users, kind) ==
  /\ pendingEnd' = [u \in UserIds |->
       IF u \in Endable(users, kind)
       THEN [kind |-> kind, gen |-> generations[u], guid |-> connected[u]] ELSE pendingEnd[u]]
  /\ UNCHANGED <<closing, generations>>

SessionTimer(u) ==
  LET end == pendingEnd[u] IN
  /\ end # None
  /\ pendingEnd' = [pendingEnd EXCEPT ![u] = None]
  /\ closing' = [closing EXCEPT
       ![u] = @ \/ (generations[u] = end.gen /\ connected[u] = end.guid)]
  /\ UNCHANGED <<policy, connected, generations, storeVars, refresh,
                 sessionVars, bans, actorVars, moderations, misled>>

-----------------------------------------------------------------------------
(* Connections.  The handlers of PlayerSessionEnd run first, then the       *)
(* systems in the order of index.ts, then PartOne forgets the user.         *)

Connect(u, g) ==
  /\ connected[u] = None /\ \A v \in UserIds : connected[v] # g
  /\ FoldFunction(+, 0, [v \in UserIds |-> (generations[v] + 1) \div 2]) < MaxConnections
  /\ connected' = [connected EXCEPT ![u] = g]
  /\ generations' = [generations EXCEPT ![u] = @ + 1]
  /\ pendingEnd' = [pendingEnd EXCEPT ![u] = None]
  /\ session' = [session EXCEPT ![u] = None]
  /\ UNCHANGED <<policy, closing, storeVars, refresh, verified, active,
                 logins, bans, actorVars, moderations, misled>>

Disconnect(u) ==
  /\ IsConnected(u)
  /\ connected' = [connected EXCEPT ![u] = None]
  /\ closing' = [closing EXCEPT ![u] = FALSE]
  /\ generations' = [generations EXCEPT ![u] = @ + 1]
  /\ pendingEnd' = [pendingEnd EXCEPT ![u] = None]
  /\ actors' = [p \in Profiles |-> IF userActor[u] = p THEN "disabled" ELSE actors[p]]
  /\ verified' = [verified EXCEPT ![u] = None]
  /\ active' = [s \in SteamIds |->
       IF active[s] # None /\ active[s].user = u THEN None ELSE active[s]]
  /\ session' = [session EXCEPT ![u] = None]
  /\ userActor' = [userActor EXCEPT ![u] = None]
  /\ spawned' = [spawned EXCEPT ![u] = None]
  /\ UNCHANGED <<policy, storeVars, refresh, logins, bans, moderations, misled>>

-----------------------------------------------------------------------------
(* Steam sessions.                                                          *)

\* authenticateSteamTicket, once Valve has confirmed the ticket.
IssueToken(t) ==
  LET s == SteamOf[t]
      pending == policy.mode = "guest" /\ policy.approvalRequired
  IN
  /\ tokens[t] = "none"
  /\ tokens' = [tokens EXCEPT ![t] = "live"]
  /\ principals' = [principals EXCEPT ![s] =
       IF @ = None THEN IF pending THEN "pending" ELSE "approved"
       ELSE IF @ = "pending" /\ ~pending THEN "approved" ELSE @]
  /\ UNCHANGED <<policy, connected, endVars, accounts, refresh, sessionVars, bans, actorVars, moderations, misled>>

ExpireToken(t) ==
  /\ tokens[t] = "live"
  /\ tokens' = [tokens EXCEPT ![t] = "expired"]
  /\ UNCHANGED <<policy, connected, endVars, principals, accounts, refresh,
                 sessionVars, bans, actorVars, moderations, misled>>

\* The identity behind a user, or None: by this connection, unexpired, not blocked.
GetSteamId(ver, u) ==
  IF /\ ver[u] # None /\ ver[u].guid = connected[u]
     /\ tokens[ver[u].token] = "live" /\ principals[ver[u].steam] \notin {None, "blocked"}
  THEN ver[u].steam ELSE None

\* Mutant: a claim does not look at who plays as the identity.
NeverTaken(s) == FALSE

\* Another user plays as this identity.
Taken(s) == active[s] # None /\ connected[active[s].user] = active[s].guid

Claims(ver, u) ==
  LET s == GetSteamId(ver, u) IN s # None /\ ~ver[u].allowed /\ ~Taken(s)

Claim(ver, u) ==
  /\ verified' = [ver EXCEPT ![u].allowed = TRUE]
  /\ active' = [active EXCEPT ![ver[u].steam] = [user |-> u, guid |-> connected[u]]]

-----------------------------------------------------------------------------
(* Spawn: the listener of spawnAllowed.                                     *)

\* Mutant: a player that is let in is told again that its session goes on.
ForgivingGiveActor(u, p) ==
  /\ actors' = [actors EXCEPT ![p] = "enabled"]
  /\ userActor' = [v \in UserIds |->
       IF v = u THEN p ELSE IF userActor[v] = p THEN None ELSE userActor[v]]
  /\ spawned' = [spawned EXCEPT ![u] = [steam |-> verified'[u].steam, profile |-> p]]
  /\ pendingEnd' = [pendingEnd EXCEPT ![u] = None]
  /\ UNCHANGED <<closing, generations>>

GiveActor(u, p) ==
  /\ actors' = [actors EXCEPT ![p] = "enabled"]
  /\ userActor' = [v \in UserIds |->
       IF v = u THEN p ELSE IF userActor[v] = p THEN None ELSE userActor[v]]
  /\ spawned' = [spawned EXCEPT ![u] = [steam |-> verified'[u].steam, profile |-> p]]
  /\ UNCHANGED endVars

\* Mutant: the ban is looked up when the login starts, not when it ends.
SpawnWithoutBan(u, p) == GiveActor(u, p)

SpawnAllowed(u, p) ==
  \/ /\ p \in bans
     /\ EndSessions({u}, "ban")
     /\ UNCHANGED actorVars
  \/ p \notin bans /\ GiveActor(u, p)

\* The part that loginWithSteam and steamLoginStatus share.  In account mode it
\* only asks for the account.
Admit(ver, u) ==
  LET s == ver[u].steam IN
  IF /\ policy.mode = "guest" /\ Claims(ver, u)
     /\ policy.approvalRequired => principals[s] = "approved"
  THEN Claim(ver, u) /\ SpawnAllowed(u, GuestProfile[s])
  ELSE verified' = ver /\ UNCHANGED <<active, endVars, actorVars>>

LoginWithSteam(u, t) ==
  LET ver == [verified EXCEPT ![u] =
        [steam |-> SteamOf[t], token |-> t, guid |-> connected[u], allowed |-> FALSE]]
  IN
  /\ IsConnected(u) /\ tokens[t] = "live"
  /\ verified[u] # None /\ verified[u].guid = connected[u] => ~verified[u].allowed
  /\ Admit(ver, u)
  /\ UNCHANGED <<policy, connected, storeVars, refresh, logins, session, bans, moderations, misled>>

SteamLoginStatus(u) ==
  /\ IsConnected(u) /\ verified[u] # None
  /\ verified[u].guid = connected[u] /\ ~verified[u].allowed
  /\ tokens[verified[u].token] = "live"
  /\ Admit(verified, u)
  /\ UNCHANGED <<policy, connected, storeVars, refresh, logins, session, bans, moderations, misled>>

-----------------------------------------------------------------------------
(* Login with an account of the master server.                              *)

LoginWithSkympIo(u, p) ==
  LET s == GetSteamId(verified, u)
      login == [user |-> u, guid |-> connected[u], gen |-> generations[u],
                steam |-> s, profile |-> p, stage |-> "profile"]
  IN
  /\ IsConnected(u) /\ s # None /\ policy.mode = "account"
  /\ Cardinality(logins) < MaxLogins
  /\ session' = [session EXCEPT ![u] = [profile |-> p, gen |-> generations[u]]]
  /\ logins' = logins \cup {login}
  /\ UNCHANGED <<policy, connected, endVars, storeVars, refresh, verified, active,
                 bans, actorVars, moderations, misled>>

SameConnection(l) == connected[l.user] = l.guid

\* A failure: a notice to whoever holds the user id now, then the exception.
Notify(l, kind) ==
  misled' = IF IsConnected(l.user) /\ connected[l.user] # l.guid
            THEN misled \cup {kind} ELSE misled

FailLogin(l) ==
  /\ logins' = logins \ {l}
  /\ UNCHANGED <<policy, connected, endVars, storeVars, refresh, verified, active,
                 session, bans, actorVars, moderations>>

\* enforceJoinAccess, in the modes that decide on an account.
JoinAccess(l, roles) ==
  LET checked == policy.discord /\ l.profile \in HasDiscord IN
  \/ policy.joinAccess = "open"
  \/ policy.joinAccess = "approvedLicense" /\ l.profile \in Licensed
  \/ policy.joinAccess = "discordMember" /\ checked
  \/ policy.joinAccess = "discordRoles" /\ checked /\ "member" \in roles

\* Mutant: the account moves to the identity that logged in last.
AlwaysBindable(l) == l.steam # None

\* bindSteamAccount
Bindable(l) == accounts[l.profile] \in {None, l.steam}

\* The rest of the login, with no more awaits.
FinishLogin(l, roles) ==
  \/ /\ ~JoinAccess(l, roles)
     /\ Notify(l, "joinAccess") /\ FailLogin(l)
  \/ /\ JoinAccess(l, roles)
     /\ \/ ~SameConnection(l) \/ GetSteamId(verified, l.user) # l.steam \/ ~Bindable(l)
     /\ UNCHANGED misled /\ FailLogin(l)
  \/ /\ JoinAccess(l, roles) /\ SameConnection(l)
     /\ GetSteamId(verified, l.user) = l.steam /\ Bindable(l)
     /\ accounts' = [accounts EXCEPT ![l.profile] = l.steam]
     /\ logins' = logins \ {l}
     /\ IF Claims(verified, l.user)
        THEN Claim(verified, l.user) /\ SpawnAllowed(l.user, l.profile)
        ELSE UNCHANGED <<verified, active, endVars, actorVars>>
     /\ UNCHANGED <<policy, connected, tokens, principals, refresh, session, bans, moderations, misled>>

\* getUserProfile rejects: no such session, or an error of the master server.
ProfileRejected(l) ==
  /\ l.stage = "profile"
  /\ Notify(l, "sessionNotFound") \/ UNCHANGED misled
  /\ FailLogin(l)

ProfileAnswered(l) ==
  /\ l.stage = "profile"
  /\ \/ ~SameConnection(l) /\ UNCHANGED misled /\ FailLogin(l)
     \/ SameConnection(l) /\ Notify(l, "banned") /\ FailLogin(l)  \* onLoginAttempt
     \/ /\ SameConnection(l) /\ policy.discord /\ l.profile \in HasDiscord
        /\ logins' = (logins \ {l}) \cup {[l EXCEPT !.stage = "discord"]}
        /\ UNCHANGED <<policy, connected, endVars, storeVars, refresh, verified, active,
                       session, bans, actorVars, moderations, misled>>
     \/ /\ SameConnection(l) /\ ~(policy.discord /\ l.profile \in HasDiscord)
        /\ FinishLogin(l, {})

\* The members request: not a member, a member with the ban role, a member.
DiscordAnswered(l, answer) ==
  /\ l.stage = "discord"
  /\ CASE answer = "notMember" -> Notify(l, "notInDiscord") /\ FailLogin(l)
       [] answer = "banRole" -> Notify(l, "banned") /\ FailLogin(l)
       [] answer \in {"plain", "member"} ->
            \/ ~IsConnected(l.user) /\ UNCHANGED misled /\ FailLogin(l)  \* getUserIp throws
            \/ /\ IsConnected(l.user) /\ IpOf[connected[l.user]] # IpOf[l.guid]
               /\ Notify(l, "ipMismatch") /\ FailLogin(l)
            \/ /\ IsConnected(l.user) /\ IpOf[connected[l.user]] = IpOf[l.guid]
               /\ FinishLogin(l, {answer})

-----------------------------------------------------------------------------
(* Moderation.                                                              *)

Moderate == moderations < MaxModerations /\ moderations' = moderations + 1

\* usersForIdentity: users verified as s, whatever became of their token.
UsersForIdentity(s) ==
  {u \in UserIds : IsConnected(u) /\ verified[u] # None
                   /\ verified[u].steam = s /\ verified[u].guid = connected[u]}

\* POST /api/admin/player-access.  A managed server runs it in the process of the
\* dashboard, which tells the game server that settings changed.
ChangePlayerAccess(s, status) ==
  /\ Moderate
  /\ principals[s] # None
  /\ principals' = [principals EXCEPT ![s] = status]
  /\ IF status = "blocked" /\ ~policy.managed
     THEN EndSessions(UsersForIdentity(s), "ban") ELSE UNCHANGED endVars
  /\ refresh' = (refresh \/ (status = "blocked" /\ policy.managed))
  /\ UNCHANGED <<policy, connected, tokens, accounts, sessionVars, bans, actorVars, misled>>

SettingsChanged ==
  /\ refresh
  /\ EndSessions(UNION {UsersForIdentity(s) : s \in {t \in SteamIds : principals[t] = "blocked"}}, "ban")
  /\ refresh' = FALSE
  /\ UNCHANGED <<policy, connected, storeVars, sessionVars, bans, actorVars, moderations, misled>>

\* POST /api/admin/players/:userId/kick, for the profile the dashboard showed.
KickPlayer(u, expected) ==
  /\ Moderate
  /\ userActor[u] = expected
  /\ EndSessions({u}, "kick")
  /\ UNCHANGED <<policy, connected, storeVars, refresh, sessionVars, bans, actorVars, misled>>

\* banConnectedPlayer, then endPlayerSession.
BanPlayer(u, expected) ==
  /\ Moderate
  /\ IsConnected(u) /\ userActor[u] = expected
  /\ bans' = bans \cup {expected}
  /\ EndSessions({u}, "ban")
  /\ UNCHANGED <<policy, connected, storeVars, refresh, sessionVars, actorVars, misled>>

\* DELETE /api/admin/players/:selector/ban, and cleanupExpired.
Unban(p) ==
  /\ Moderate
  /\ p \in bans
  /\ bans' = bans \ {p}
  /\ UNCHANGED <<policy, connected, endVars, storeVars, refresh, sessionVars, actorVars, misled>>

\* DiscordBanSystem: the ban role was given to the member linked to this account.
DiscordBan(p) ==
  /\ Moderate
  /\ policy.discord /\ policy.managed /\ p \in HasDiscord /\ actors[p] # "none"
  /\ actors' = [actors EXCEPT ![p] = "disabled"]
  /\ EndSessions({u \in UserIds : userActor[u] = p}, "ban")
  /\ UNCHANGED <<policy, connected, storeVars, refresh, sessionVars, bans, userActor, spawned, misled>>

\* SIGTERM: everybody is told, whoever was spawned or not.
Shutdown ==
  /\ Moderate
  /\ EndSessions({u \in UserIds : generations[u] > 0}, "kick")
  /\ UNCHANGED <<policy, connected, storeVars, refresh, sessionVars, bans, actorVars, misled>>

-----------------------------------------------------------------------------
LoginStep(l) ==
  \/ ProfileRejected(l) \/ ProfileAnswered(l)
  \/ \E a \in {"notMember", "banRole", "plain", "member"} : DiscordAnswered(l, a)

Next ==
  \/ \E u \in UserIds :
       \/ SessionTimer(u) \/ Disconnect(u) \/ SteamLoginStatus(u)
       \/ \E g \in Guids : Connect(u, g)
       \/ \E t \in Tokens : LoginWithSteam(u, t)
       \/ \E p \in MasterProfiles : LoginWithSkympIo(u, p)
       \/ \E p \in Profiles : KickPlayer(u, p) \/ BanPlayer(u, p)
  \/ \E t \in Tokens : IssueToken(t) \/ ExpireToken(t)
  \/ \E l \in logins : LoginStep(l)
  \/ \E s \in SteamIds, status \in {"approved", "pending", "blocked"} : ChangePlayerAccess(s, status)
  \/ \E p \in Profiles : Unban(p) \/ DiscordBan(p)
  \/ SettingsChanged \/ Shutdown

Spec == Init /\ [][Next]_vars

-----------------------------------------------------------------------------
(* Properties.                                                              *)

Leaving(u) == closing[u] \/ pendingEnd[u] # None

\* docs_ingame_login.md: one active game session per Steam identity.  The users that
\* were let in have different identities and different characters, however claims,
\* disconnections and slots that change hands interleave.
OneSessionPerIdentity ==
  \A u, v \in UserIds : u # v /\ spawned[u] # None /\ spawned[v] # None =>
    spawned[u].steam # spawned[v].steam /\ spawned[u].profile # spawned[v].profile

\* What OneSessionPerIdentity rests on: a verification is of the connection that holds the
\* slot, whoever was let in is the one that plays as its identity, an actor is that of the
\* last spawn, and its profile belongs to the identity.
VerifiedHere ==
  \A u \in UserIds : verified[u] # None => IsConnected(u) /\ verified[u].guid = connected[u]

AllowedPlays ==
  \A u \in UserIds : verified[u] # None /\ verified[u].allowed =>
    active[verified[u].steam] = [user |-> u, guid |-> connected[u]]

ActorsAreSpawned ==
  \A u \in UserIds : userActor[u] = IF spawned[u] = None THEN None ELSE spawned[u].profile

ProfilesBound ==
  \A u \in UserIds : spawned[u] # None =>
    IF spawned[u].profile \in MasterProfiles THEN accounts[spawned[u].profile] = spawned[u].steam
    ELSE spawned[u].profile = GuestProfile[spawned[u].steam]

\* A session that will be ended is the one of the connection that holds the slot.
EndsOfThis ==
  \A u \in UserIds : pendingEnd[u] # None =>
    pendingEnd[u].gen = generations[u] /\ pendingEnd[u].guid = connected[u]

Inv ==
  /\ TypeOK /\ OneSessionPerIdentity
  /\ VerifiedHere /\ AllowedPlays /\ ActorsAreSpawned /\ ProfilesBound /\ EndsOfThis

\* A player is the connection that proved the identity: a login that was awaiting when
\* its slot changed hands spawns nobody else; the actor of a player is its own, enabled
\* unless its session is ending, and the session its purchases are charged to was
\* assigned by this connection.
SpawnedAsVerified ==
  \A u \in UserIds :
    /\ spawned[u] # None =>
         /\ verified[u] # None /\ verified[u].allowed /\ verified[u].guid = connected[u]
         /\ spawned[u].steam = verified[u].steam
         /\ spawned[u].profile \in MasterProfiles => accounts[spawned[u].profile] = spawned[u].steam
         /\ userActor[u] = spawned[u].profile
         /\ actors[userActor[u]] = "enabled" \/ Leaving(u)
    /\ session[u] # None => session[u].gen = generations[u]

\* Nobody plays on after a ban or a block: the session of a player whose profile is
\* banned or whose identity is blocked is being ended, also when the ban was pronounced
\* while the login awaited an answer.
BannedAreLeaving ==
  \A u \in UserIds : spawned[u] # None =>
    /\ spawned[u].profile \in bans => Leaving(u)
    /\ principals[spawned[u].steam] = "blocked" => Leaving(u) \/ refresh

\* A session that is being ended ends with its connection: neither another kick, an
\* unban, a late answer to a login nor a timer of an earlier user of the slot saves it.
EndedSessionsClose ==
  [][\A u \in UserIds : Leaving(u) /\ ~Leaving(u)' => generations'[u] # generations[u]]_vars

\* Does not hold, login.ts:482: the failure notices are for the connection whose login failed.
FailuresReachTheirUser == misled = {}
=============================================================================
