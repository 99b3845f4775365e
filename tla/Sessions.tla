------------------------------ MODULE Sessions ------------------------------
(***************************************************************************)
(* The sessions of PartOne on top of the user ids: ServerState keeps a     *)
(* record per connected user and ActorsMap the actor each user controls.   *)
(*                                                                         *)
(* Gamemode code (JavaScript) runs inside the callbacks for connections,   *)
(* disconnections and messages, and between two ticks.  Wherever it runs,  *)
(* it may create and destroy actors, give them to users, send, kick.       *)
(***************************************************************************)
EXTENDS UserIds

CONSTANTS
  Actors,      \* form ids of actors
  NoActor,     \* nullptr, for an actor
  NoUser,      \* nullptr, for a user's record
  KMaxPlayers  \* length of the arrays indexed by user id

\* A message waiting in a deferred channel is known by the actor it expects.
UserInfo == [guid : Guids \cup {NoGuid}, deferred : SUBSET Actors]

ASSUME SessionsAssumption ==
  /\ KMaxPlayers \in Nat \ {0}
  /\ NoActor \notin Actors
  /\ NoUser \notin UserInfo

VARIABLES
  userInfo,             \* ServerState: the record of a user
  maxConnectedId,       \* ServerState: TickDeferredMessages stops there
  disconnectingUserId,  \* ServerState: nothing is sent to this user
  actorsMap,            \* ServerState: actors by user and users by actor
  actors,               \* WorldState: actors that exist
  disabled              \* WorldState: those of them that are disabled

stateVars == <<userInfo, maxConnectedId, disconnectingUserId, actorsMap>>
worldVars == <<actors, disabled>>
vars == <<userIdsVars, stateVars, worldVars>>

TypeOK ==
  /\ UserIdsTypeOK
  /\ userInfo \in [UserIds -> UserInfo \cup {NoUser}]
  /\ maxConnectedId \in UserIds
  /\ disconnectingUserId \in UserIds \cup {InvalidUserId}
  /\ actorsMap \in [byUser : [UserIds -> Actors \cup {NoActor}],
                    byActor : [Actors -> UserIds \cup {InvalidUserId}]]
  /\ actors \in SUBSET Actors
  /\ disabled \in SUBSET Actors

Init ==
  /\ UserIdsInit
  /\ userInfo = [u \in UserIds |-> NoUser]
  /\ maxConnectedId = 0
  /\ disconnectingUserId = InvalidUserId
  /\ actorsMap = [byUser |-> [u \in UserIds |-> NoActor],
                  byActor |-> [a \in Actors |-> InvalidUserId]]
  /\ actors = {} /\ disabled = {}

-----------------------------------------------------------------------------
(* ActorsMap.                                                               *)

EraseUser(map, u) ==
  LET a == map.byUser[u] IN
  IF a = NoActor THEN map
  ELSE [byUser |-> [map.byUser EXCEPT ![u] = NoActor],
        byActor |-> [map.byActor EXCEPT ![a] = InvalidUserId]]

EraseActor(map, a) ==
  LET u == map.byActor[a] IN
  IF u = InvalidUserId THEN map
  ELSE [byUser |-> [map.byUser EXCEPT ![u] = NoActor],
        byActor |-> [map.byActor EXCEPT ![a] = InvalidUserId]]

\* Wrong: the user that had the actor keeps it.
SetActorSharing(map, u, a) ==
  LET erased == EraseUser(map, u) IN
  [byUser |-> [erased.byUser EXCEPT ![u] = a],
   byActor |-> [erased.byActor EXCEPT ![a] = u]]

SetActor(map, u, a) ==
  LET erased == EraseActor(EraseUser(map, u), a) IN
  [byUser |-> [erased.byUser EXCEPT ![u] = a],
   byActor |-> [erased.byActor EXCEPT ![a] = u]]

-----------------------------------------------------------------------------
(* ServerState.                                                             *)

IsConnected(u) ==
  u # InvalidUserId /\ u < KMaxPlayers /\ userInfo[u] # NoUser

Connect(u, guid) ==
  /\ u < KMaxPlayers
  /\ userInfo' = [userInfo EXCEPT ![u] = [guid |-> guid, deferred |-> {}]]
  /\ maxConnectedId' = IF maxConnectedId < u THEN u ELSE maxConnectedId
  /\ UNCHANGED <<disconnectingUserId, actorsMap>>

\* Wrong: it is forgotten that others are still connected.
MaxConnectedReset(info) == 0

\* The highest user with a record, or 0.
MaxConnected(info) ==
  LET connected == {u \in UserIds : info[u] # NoUser} IN
  IF connected = {} THEN 0
  ELSE CHOOSE u \in connected : \A v \in connected : v <= u

Disconnect(u) ==
  /\ userInfo' = [userInfo EXCEPT ![u] = NoUser]
  /\ maxConnectedId' = IF maxConnectedId = u THEN MaxConnected(userInfo')
                                             ELSE maxConnectedId
  /\ actorsMap' = EraseUser(actorsMap, u)

-----------------------------------------------------------------------------
(* PartOne::HandlePacket: the start and the end of a call.                  *)

PeerConnects ==
  /\ ReceiveConnection
  /\ Connect(NewUserId, Sender)
  /\ UNCHANGED worldVars

BotConnects ==
  /\ TakeBotConnection
  /\ Connect(NewUserId, NoGuid)
  /\ UNCHANGED <<idManagerVars, worldVars>>

\* userInfo is written beyond its end.  What then happens is not modelled.
ConnectsOutOfBounds ==
  /\ call = NoCall
  /\ \/ serverPc = "real" /\ received # <<>> /\ ~Full
        /\ Head(received).type = "connect"
     \/ serverPc = "mock" /\ pending > 0 /\ Head(botPackets).type = "connect"
  /\ NewUserId >= KMaxPlayers
  /\ halted' = "undefined"
  /\ UNCHANGED <<rakNetVars, idManagerVars, mockVars, combinedVars, serverPc,
                 pending, call, historyVars, stateVars, worldVars>>

\* Wrong: the user is not marked.
DisconnectingUnmarked(u) ==
  UNCHANGED <<userInfo, maxConnectedId, disconnectingUserId, actorsMap,
              worldVars>>

Disconnecting(u) ==
  /\ disconnectingUserId' = u
  /\ UNCHANGED <<userInfo, maxConnectedId, actorsMap, worldVars>>

PeerDisconnects ==
  ReceiveDisconnection /\ Disconnecting(combinedIdByReal[<<0, idByGuid[Sender]>>])

BotDisconnects ==
  TakeBotDisconnection /\ Disconnecting(combinedIdByReal[BotSlot])

MessageOrError ==
  /\ \/ ReceiveMessage
     \/ TakeBotMessage
     \/ ReceiveConnectionFull
     \/ ReceiveUnknownDisconnection
     \/ ReceiveDisconnectionTerminates
     \/ TakeBotDisconnectionTerminates
  /\ UNCHANGED <<stateVars, worldVars>>

\* The scoped task of a disconnection runs however the callback ends.
EndOfCall ==
  /\ IF call.type = "disconnect"
     THEN Disconnect(call.user) /\ disconnectingUserId' = InvalidUserId
     ELSE UNCHANGED stateVars
  /\ UNCHANGED worldVars

HandlerReturns == CallReturns /\ EndOfCall

\* PartOne ignores a message of a user that is not connected.
Handled == call.type = "message" => IsConnected(call.user)

\* Wrong: the end of a disconnection is not in a scoped task.
HandlerThrowsUnwinding ==
  Handled /\ CallThrows /\ UNCHANGED <<stateVars, worldVars>>

HandlerThrows == Handled /\ CallThrows /\ EndOfCall

-----------------------------------------------------------------------------
(* PartOne::Tick.                                                           *)

\* Whether Send finds the slot of the user, and the client of a bot.
Reachable(u) ==
  \/ realIdByCombined[u][1] = 0
  \/ realIdByCombined[u][1] = 1 /\ realIdByCombined[u][2] \in bots

\* A failing Send leaves this user's messages and those of higher users.
TickDeferredMessages ==
  /\ serverPc = "partOne"
  /\ serverPc' = "js"
  /\ LET failing == {u \in 0..maxConnectedId :
                       /\ IsConnected(u) /\ ~Reachable(u)
                       /\ actorsMap.byUser[u] \in userInfo[u].deferred}
         served == {u \in 0..maxConnectedId :
                      IsConnected(u) /\ \A f \in failing : u < f}
     IN userInfo' = [u \in UserIds |->
                       IF u \in served
                       THEN [userInfo[u] EXCEPT !.deferred = {}]
                       ELSE userInfo[u]]
  /\ UNCHANGED <<rakNetVars, idManagerVars, mockVars, combinedVars, pending,
                 call, halted, historyVars, maxConnectedId,
                 disconnectingUserId, actorsMap, worldVars>>

-----------------------------------------------------------------------------
(* What gamemode code and the world may do.                                 *)

JsRuns == IF call = NoCall THEN serverPc = "js" ELSE Handled

CreateActor(a) ==
  /\ a \notin actors
  /\ actors' = actors \cup {a}
  /\ UNCHANGED <<userIdsVars, stateVars, disabled>>

DestroyActor(a) ==
  /\ a \in actors
  /\ actors' = actors \ {a} /\ disabled' = disabled \ {a}
  /\ actorsMap' = EraseActor(actorsMap, a)
  /\ UNCHANGED <<userIdsVars, userInfo, maxConnectedId, disconnectingUserId>>

SetEnabled(a, enabled) ==
  /\ a \in actors
  /\ disabled' = IF enabled THEN disabled \ {a} ELSE disabled \cup {a}
  /\ UNCHANGED <<userIdsVars, stateVars, actors>>

SetUserActor(u, a) ==
  /\ IsConnected(u) /\ a \in actors \ disabled
  /\ actorsMap' = SetActor(actorsMap, u, a)
  /\ UNCHANGED <<userIdsVars, userInfo, maxConnectedId, disconnectingUserId,
                 worldVars>>

\* SetUserActor with form id 0.
ClearUserActor(u) ==
  /\ IsConnected(u)
  /\ actorsMap' = EraseUser(actorsMap, u)
  /\ UNCHANGED <<userIdsVars, userInfo, maxConnectedId, disconnectingUserId,
                 worldVars>>

\* The user that a message for an actor is sent to.
Addressed(a) ==
  {u \in UserIds : u = actorsMap.byActor[a] /\ u # disconnectingUserId}

SendToUserDeferred(a, overwrite) ==
  /\ a \in actors
  /\ \E u \in Addressed(a) :
       /\ userInfo[u] # NoUser
       /\ userInfo' = [userInfo EXCEPT ![u].deferred =
                         IF overwrite THEN {a} ELSE @ \cup {a}]
  /\ UNCHANGED <<userIdsVars, maxConnectedId, disconnectingUserId, actorsMap,
                 worldVars>>

Js ==
  /\ JsRuns
  /\ \/ \E a \in Actors :
          \/ CreateActor(a) \/ DestroyActor(a)
          \/ \E enabled \in BOOLEAN : SetEnabled(a, enabled)
          \/ \E overwrite \in BOOLEAN : SendToUserDeferred(a, overwrite)
          \/ \E u \in UserIds : SetUserActor(u, a)
     \/ \E u \in UserIds : ClearUserActor(u)
     \/ /\ \/ CreateBot
           \/ \E s \in BotSlots : DestroyBot(s) \/ BotMessage(s)
           \/ \E u \in UserIds : KickBot(u)
        /\ UNCHANGED <<stateVars, worldVars>>

-----------------------------------------------------------------------------
RakNetThread ==
  RakNet /\ UNCHANGED <<idManagerVars, mockVars, combinedVars, loopVars,
                        historyVars, stateVars, worldVars>>

\* One turn of the loop of index.ts: ScampServer::Tick, then other code.
MainLoop ==
  \/ ServerTickStarts /\ UNCHANGED <<stateVars, worldVars>>
  \/ PeerConnects \/ BotConnects \/ ConnectsOutOfBounds
  \/ PeerDisconnects \/ BotDisconnects
  \/ MessageOrError
  \/ HandlerReturns \/ HandlerThrows
  \/ MockTickStarts /\ UNCHANGED <<stateVars, worldVars>>
  \/ ServerTickEnds /\ UNCHANGED <<stateVars, worldVars>>
  \/ TickDeferredMessages

Next == Running /\ (RakNetThread \/ MainLoop \/ Js)

Spec == Init /\ [][Next]_vars

-----------------------------------------------------------------------------
(* Properties.                                                              *)

\* What the server sends to a connected user reaches the peer of that user's
\* session: the three maps on the way agree with the guid that was recorded
\* (ServerCombined::Send, Server::Send).  Only the user that is disconnecting
\* has no way any more, which is why PartOne sends nothing to it.
SendsReachTheirPeer ==
  \A u \in UserIds :
    userInfo[u] # NoUser /\ u # disconnectingUserId =>
      /\ realIdByCombined[u] # NoReal
      /\ combinedIdByReal[realIdByCombined[u]] = u
      /\ userInfo[u].guid = IF realIdByCombined[u][1] = 0
                            THEN guidById[realIdByCombined[u][2]] ELSE NoGuid

\* A peer has at most one session, although its slot may be lost and its
\* connection made anew while the old packets are still waiting.
OneSessionPerPeer ==
  \A u, v \in UserIds :
    /\ userInfo[u] # NoUser /\ userInfo[v] # NoUser
    /\ userInfo[u].guid = userInfo[v].guid /\ userInfo[u].guid # NoGuid
    => u = v

\* ActorsMap: the two maps are inverse of each other, a user that has an actor
\* is connected, and the actor exists.
ActorsMapConsistent ==
  /\ \A u \in UserIds : \A a \in Actors :
       actorsMap.byUser[u] = a <=> actorsMap.byActor[a] = u
  /\ \A u \in UserIds :
       actorsMap.byUser[u] # NoActor =>
         userInfo[u] # NoUser /\ actorsMap.byUser[u] \in actors

\* Packets for the connections of a peer, behind the first k that are not yet received.
Waiting(g, k) ==
  {j \in (k + 1)..Len(received) : received[j].guid = g /\ received[j].type # "message"}

\* Whether a peer is connected according to what is received once these k are.
SeenAfter(g, k) ==
  IF Waiting(g, k) = {} THEN g \in links
  ELSE \E j \in Waiting(g, k) :
         received[j].type = "disconnect" /\ \A i \in Waiting(g, k) : j <= i

SeenConnected(g) == SeenAfter(g, 0)

\* As long as no peer was turned away, exactly the peers whose connection has
\* been received and whose disconnection has not have a session, also after
\* handlers threw.
SessionsMatchLinks ==
  Running /\ ~everRejected /\ call.type # "disconnect" =>
    \A g \in Guids : SeenConnected(g) <=>
      \E u \in UserIds : userInfo[u] # NoUser /\ userInfo[u].guid = g

\* As long as no peer was turned away, a message or a disconnection is handled
\* as one of the session of the peer that it came from.
PacketsFromOwner ==
  call.type # "none" /\ call.peer # NoGuid /\ ~everRejected =>
    IsConnected(call.user) /\ userInfo[call.user].guid = call.peer

\* allocateId finds a slot for every peer that RakNet accepts, unless the
\* handler of an earlier disconnection threw and its slot was lost.
RejectsOnlyAfterLeak ==
  [][everRejected' /\ ~everRejected => leaked # {}]_vars

\* ServerCombined terminates the process only after some bot was closed twice
\* or after a peer was turned away.
TerminatesForCause == halted = "terminated" => closedTwice \/ everRejected

\* The gauge of connected clients (UpdateMetrics counts slots with a guid) is
\* too large by the slots that were lost to handlers that threw, and by no more.
ClientsCounted ==
  Running /\ call = NoCall /\ received = <<>> /\ ~everRejected =>
    Cardinality({i \in Ids : guidById[i] # NoGuid})
      = Cardinality(links) + Cardinality(leaked)

\* A user is written beyond the end of userInfo only when users have all the
\* ids that fit: ids are not lost, whatever handlers throw.
OutOfBoundsOnlyWhenFull ==
  halted = "undefined" =>
    Cardinality({u \in UserIds : userInfo[u] # NoUser}) = KMaxPlayers - 1

\* Sessions, RakNet's links and the routes agree, however ids and slots are reused, and
\* the process ends only where the code gives a reason for it.
SessionsSound ==
  /\ OneSessionPerPeer /\ SessionsMatchLinks /\ PacketsFromOwner /\ ClientsCounted
  /\ TerminatesForCause /\ OutOfBoundsOnlyWhenFull

\* TickDeferredMessages leaves no message behind, unless some connected user cannot be sent
\* to: no connected user is above maxConnectedId.
DeferredDrained ==
  [][TickDeferredMessages =>
       \/ \A u \in UserIds :
            userInfo'[u] # NoUser => userInfo'[u].deferred = {}
       \/ \E u \in UserIds : IsConnected(u) /\ ~Reachable(u)]_vars

-----------------------------------------------------------------------------
(* What the code says of itself, and what does not hold.                    *)

\* ServerCombined::FreeId calls std::terminate for an id that is not in use.
FreedIdsAreUsed == halted # "terminated"

\* A disconnection of a peer without a user is an error ("Unexpected
\* disconnection for system without userId", Networking.cpp), so nobody else's
\* session ends with it.
DisconnectsOwnSession ==
  call.type = "disconnect" /\ call.peer # NoGuid =>
    userInfo[call.user].guid = call.peer

-----------------------------------------------------------------------------
(* The invariant that Sessions_proofs shows to be inductive.                *)

\* The slot that is given away next is free.
NextIsFree == nextId < MaxConnections => guidById[nextId] = NoGuid

\* The two maps of ServerCombined are inverse of each other, on the ids in use.
RoutesInverse ==
  /\ 0 \in usedIds
  /\ \A u \in UserIds : realIdByCombined[u] # NoReal <=> u \in usedIds \ {0}
  /\ \A u \in UserIds : \A r \in RealIds :
       combinedIdByReal[r] = u <=> realIdByCombined[u] = r

\* A slot without a guid has no user id.
FreeSlotsUnrouted ==
  \A i \in Ids :
    guidById[i] = NoGuid => combinedIdByReal[<<0, i>>] = InvalidUserId

\* The user of a disconnection in progress is marked and has no slot any more.
DisconnectingUnrouted ==
  IF call.type = "disconnect"
  THEN /\ call.real \in RealIds
       /\ combinedIdByReal[call.real] = InvalidUserId
       /\ call.user \in UserIds \ usedIds
       /\ disconnectingUserId = call.user
  ELSE disconnectingUserId = InvalidUserId

\* There are records for the ids in use, with the guid of their slot, and for
\* the user that is disconnecting.
UsersRecorded ==
  /\ \A u \in UserIds :
       userInfo[u] # NoUser <=> u \in usedIds \ {0} \/ u = disconnectingUserId
  /\ \A u \in usedIds \ {0} :
       userInfo[u].guid = IF realIdByCombined[u][1] = 0
                          THEN guidById[realIdByCombined[u][2]] ELSE NoGuid

MaxIsHighest ==
  \A u \in UserIds :
    userInfo[u] # NoUser => u <= maxConnectedId /\ u < KMaxPlayers

BotConnect(s) == [type |-> "connect", slot |-> s]
BotDisconnect(s) == [type |-> "disconnect", slot |-> s]

\* Once the packets before place k are taken, slot s has no user id.
ClosedBefore(s, k) ==
  \/ /\ combinedIdByReal[<<1, s>>] = InvalidUserId
     /\ \A j \in 1..(k - 1) : botPackets[j] # BotConnect(s)
  \/ \E d \in 1..(k - 1) :
       /\ botPackets[d] = BotDisconnect(s)
       /\ \A j \in (d + 1)..(k - 1) : botPackets[j] # BotConnect(s)

\* A bot connects to a slot that its last client has left.
BotsInTurn ==
  /\ serverPc = "mock" => pending <= Len(botPackets)
  /\ \A s \in BotSlots : \A k \in 1..Len(botPackets) :
       botPackets[k] = BotConnect(s) => ClosedBefore(s, k)
  /\ \A s \in BotSlots \ bots : ClosedBefore(s, Len(botPackets) + 1)

\* SendsReachTheirPeer is not inductive: a new user must not take the slot or
\* the id of another one, which the guids, the routes and the queue of the bots
\* decide together.
Inv ==
  /\ TypeOK
  /\ NextIsFree
  /\ RoutesInverse
  /\ FreeSlotsUnrouted
  /\ DisconnectingUnrouted
  /\ UsersRecorded
  /\ MaxIsHighest
  /\ BotsInTurn
  /\ ActorsMapConsistent

-----------------------------------------------------------------------------
(* What is inductive in addition, for SessionsSound and                     *)
(* RejectsOnlyAfterLeak.                                                    *)

\* The slot has a user id, or its user is disconnecting.
Routed(i) == combinedIdByReal[<<0, i>>] # InvalidUserId
Closing(i) == call.type = "disconnect" /\ call.real = <<0, i>>

\* RakNet tells of connections and their ends in turn, and of no message in between.
PacketsInTurn ==
  \A k \in 1..Len(received) :
    SeenAfter(received[k].guid, k) <=> received[k].type # "disconnect"

\* The peers that are connected according to what is received once k more packets are.
PeersAfter(k) == {g \in Guids : SeenAfter(g, k)}

\* RakNet never tells of more connections at a time than it has.
PeersHavePlaces ==
  \A k \in 0..Len(received) :
    IsFiniteSet(PeersAfter(k)) /\ Cardinality(PeersAfter(k)) <= MaxConnections

\* A slot is in use until its user is gone, or for ever when a handler threw then.
SlotsInUse ==
  /\ \A i \in Ids : guidById[i] # NoGuid <=> Routed(i) \/ Closing(i) \/ i \in leaked
  /\ \A i \in leaked : ~Routed(i) /\ ~Closing(i)
  /\ \A i \in Ids : i < nextId => guidById[i] # NoGuid

\* The peer of a slot that is in use, and not lost, is known to have it.
PeersOfSlots ==
  \A i \in Ids : Routed(i) \/ Closing(i) => idByGuid[guidById[i]] = i

\* The peer of a user is connected, as far as packets are received.
UsersAreSeen == Running => \A i \in Ids : Routed(i) => SeenConnected(guidById[i])

\* A peer that was turned away is given slot 0, which may be of another one; until then a
\* peer that has a slot is in it, and one that is connected has a user.
SlotsOfPeers ==
  ~everRejected =>
    /\ \A g \in Guids : idByGuid[g] # InvalidUserId => guidById[idByGuid[g]] = g
    /\ Running => \A g \in Guids :
         SeenConnected(g) => idByGuid[g] # InvalidUserId /\ Routed(idByGuid[g])

\* The record of a user that disconnects still has the guid of its slot.
DisconnectingRecorded ==
  call.type = "disconnect" =>
    userInfo[call.user].guid = IF call.real[1] = 0 THEN guidById[call.real[2]] ELSE NoGuid

\* Once the packets before place k are taken, slot s has a user id.
OpenBefore(s, k) ==
  \/ /\ combinedIdByReal[<<1, s>>] # InvalidUserId
     /\ \A j \in 1..(k - 1) : botPackets[j] # BotDisconnect(s)
  \/ \E d \in 1..(k - 1) :
       /\ botPackets[d] = BotConnect(s)
       /\ \A j \in (d + 1)..(k - 1) : botPackets[j] # BotDisconnect(s)

\* A bot that is closed once at most was connected before, and one that was never created
\* has nothing.
BotsCloseOnce ==
  ~closedTwice =>
    /\ \A s \in BotSlots : \A k \in 1..Len(botPackets) :
         botPackets[k] = BotDisconnect(s) => OpenBefore(s, k)
    /\ \A s \in bots \ botsClosed : OpenBefore(s, Len(botPackets) + 1)
    /\ \A s \in BotSlots \ (bots \cup botsClosed) :
         /\ combinedIdByReal[<<1, s>>] = InvalidUserId
         /\ \A k \in 1..Len(botPackets) : botPackets[k].slot # s

Strong ==
  /\ Inv
  /\ PacketsInTurn /\ PeersHavePlaces
  /\ SlotsInUse /\ PeersOfSlots /\ UsersAreSeen /\ SlotsOfPeers
  /\ DisconnectingRecorded
  /\ BotsCloseOnce
  /\ PacketsFromOwner /\ TerminatesForCause /\ OutOfBoundsOnlyWhenFull
=============================================================================
