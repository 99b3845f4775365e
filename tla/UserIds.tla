------------------------------ MODULE UserIds ------------------------------
(***************************************************************************)
(* How a packet finds its user.  RakNet names a peer by a guid, IdManager  *)
(* gives the guid a slot of the real server, MockServer gives a bot a slot *)
(* of its own, and ServerCombined gives each slot of either server the     *)
(* user id that the rest of the program sees.                              *)
(*                                                                         *)
(* The main thread takes packets one at a time and calls PartOne, which    *)
(* runs gamemode code.  That code may use the network again and may throw, *)
(* so a call in progress is a state of its own: call.  RakNet's thread     *)
(* only adds packets.  The module defines the steps; Sessions builds the   *)
(* specification.                                                          *)
(***************************************************************************)
EXTENDS Naturals, Sequences, FiniteSets

CONSTANTS
  Guids,           \* peers, by the guid RakNet gives them
  NoGuid,          \* UNASSIGNED_RAKNET_GUID; also the empty guid of a bot
  MaxConnections,  \* slots of the real server
  NumBots,         \* bound: slots of the mock server
  InvalidUserId,   \* Networking::InvalidUserId
  MaxQueue         \* bound: packets waiting before one more may arrive

Ids == 0..(MaxConnections - 1)
BotSlots == 0..(NumBots - 1)
RealIds == {<<0, i>> : i \in Ids} \cup {<<1, s>> : s \in BotSlots}
NoReal == <<2, 0>>
\* At most one user id per slot is in use, and 0 is never given away.
UserIds == 0..(MaxConnections + NumBots)

ASSUME UserIdsAssumption ==
  /\ MaxConnections \in Nat \ {0} /\ NumBots \in Nat /\ MaxQueue \in Nat
  /\ NoGuid \notin Guids
  /\ InvalidUserId \notin Nat

Packet == [type : {"connect", "disconnect", "message"}, guid : Guids]
BotPacket == [type : {"connect", "disconnect", "message"}, slot : BotSlots]
Call == [type : {"none", "connect", "disconnect", "message"},
         real : RealIds \cup {NoReal}, user : UserIds \cup {InvalidUserId},
         peer : Guids \cup {NoGuid}]

VARIABLES
  links,             \* external: peers RakNet holds a connection with
  received,          \* external: RakNet's packets, not yet received
  guidById,          \* IdManager: the guid of a slot
  idByGuid,          \* IdManager: the slot of a guid
  nextId,            \* IdManager: the next slot to give away
  bots,              \* MockServer: slots whose client is alive
  botPackets,        \* MockServer: packets of clients
  pending,           \* MockServer::Tick: packets it will still take
  usedIds,           \* ServerCombined: ids taken from makeId
  combinedIdByReal,  \* ServerCombined: the user id of a slot
  realIdByCombined,  \* ServerCombined: the slot of a user id
  serverPc,          \* where the main thread is in its loop
  call,              \* the call of PartOne::HandlePacket in progress
  halted,            \* whether the process is gone, and why
  leaked,            \* history: slots kept because the handler threw
  everRejected,      \* history: allocateId has been called when full
  botsClosed,        \* history: slots whose client has been closed
  closedTwice        \* history: some client was closed once more

rakNetVars == <<links, received>>
idManagerVars == <<guidById, idByGuid, nextId>>
mockVars == <<bots, botPackets>>
combinedVars == <<usedIds, combinedIdByReal, realIdByCombined>>
loopVars == <<serverPc, pending, call, halted>>
historyVars == <<leaked, everRejected, botsClosed, closedTwice>>
userIdsVars == <<rakNetVars, idManagerVars, mockVars, combinedVars, loopVars,
                 historyVars>>

NoCall == [type |-> "none", real |-> NoReal, user |-> InvalidUserId,
           peer |-> NoGuid]

UserIdsTypeOK ==
  /\ links \in SUBSET Guids
  /\ received \in Seq(Packet)
  /\ guidById \in [Ids -> Guids \cup {NoGuid}]
  /\ idByGuid \in [Guids -> Ids \cup {InvalidUserId}]
  /\ nextId \in 0..MaxConnections
  /\ bots \in SUBSET BotSlots
  /\ botPackets \in Seq(BotPacket)
  /\ pending \in Nat
  /\ usedIds \in SUBSET UserIds
  /\ combinedIdByReal \in [RealIds -> UserIds \cup {InvalidUserId}]
  /\ realIdByCombined \in [UserIds -> RealIds \cup {NoReal}]
  /\ serverPc \in {"real", "mock", "partOne", "js"}
  /\ call \in Call
  /\ halted \in {"no", "terminated", "undefined"}
  /\ leaked \in SUBSET Ids
  /\ everRejected \in BOOLEAN
  /\ botsClosed \in SUBSET BotSlots
  /\ closedTwice \in BOOLEAN

UserIdsInit ==
  /\ links = {} /\ received = <<>>
  /\ guidById = [i \in Ids |-> NoGuid]
  /\ idByGuid = [g \in Guids |-> InvalidUserId]
  /\ nextId = 0
  /\ bots = {} /\ botPackets = <<>> /\ pending = 0
  /\ usedIds = {0}
  /\ combinedIdByReal = [r \in RealIds |-> InvalidUserId]
  /\ realIdByCombined = [u \in UserIds |-> NoReal]
  /\ serverPc = "js" /\ call = NoCall /\ halted = "no"
  /\ leaked = {} /\ everRejected = FALSE
  /\ botsClosed = {} /\ closedTwice = FALSE

Running == halted = "no"

-----------------------------------------------------------------------------
(* RakNet's thread.  It holds at most MaxConnections connections, reports   *)
(* the end of one before it accepts another in its place, and accepts a     *)
(* message only from a connected peer.                                      *)

Arrives(type, g) == received' = Append(received, [type |-> type, guid |-> g])

AcceptLink(g) ==
  /\ g \notin links /\ Cardinality(links) < MaxConnections
  /\ Len(received) < MaxQueue
  /\ links' = links \cup {g}
  /\ Arrives("connect", g)

\* The peer leaves, times out, or CloseConnection was called for it.
LoseLink(g) ==
  /\ g \in links
  /\ links' = links \ {g}
  /\ Arrives("disconnect", g)

MessageArrives(g) ==
  /\ g \in links /\ Len(received) < MaxQueue
  /\ Arrives("message", g)
  /\ UNCHANGED links

RakNet == \E g \in Guids : AcceptLink(g) \/ LoseLink(g) \/ MessageArrives(g)

-----------------------------------------------------------------------------
(* IdManager.                                                               *)

\* Wrong: the slots behind the one given away are not looked at.
NextFreeUnchecked(i) == i

\* The first free slot from i on, or MaxConnections.
NextFree(i) ==
  CHOOSE n \in i..MaxConnections :
    /\ n < MaxConnections => guidById[n] = NoGuid
    /\ \A m \in i..(n - 1) : guidById[m] # NoGuid

Full == nextId >= MaxConnections

\* Wrong: emplace does not replace the slot that was lost with its guid.
AllocateIdEmplacing(g) ==
  /\ guidById' = [guidById EXCEPT ![nextId] = g]
  /\ idByGuid' = [idByGuid EXCEPT ![g] = IF @ = InvalidUserId THEN nextId ELSE @]
  /\ nextId' = NextFree(nextId + 1)

AllocateId(g) ==
  /\ guidById' = [guidById EXCEPT ![nextId] = g]
  /\ idByGuid' = [idByGuid EXCEPT ![g] = nextId]
  /\ nextId' = NextFree(nextId + 1)

\* Wrong: the slot is recorded for the guid before it is known to exist.
AllocateIdFailsRecorded(g) ==
  /\ idByGuid' = [idByGuid EXCEPT ![g] = nextId]
  /\ UNCHANGED <<guidById, nextId>>

\* operator[] inserts slot 0 for the guid before it is known that none is free.
AllocateIdFails(g) ==
  /\ idByGuid' = [idByGuid EXCEPT
                    ![g] = IF @ = InvalidUserId THEN 0 ELSE @]
  /\ UNCHANGED <<guidById, nextId>>

\* Wrong: nextId stays behind the slot that became free.
FreeIdForgetting(i) ==
  /\ guidById' = [guidById EXCEPT ![i] = NoGuid]
  /\ idByGuid' = [g \in Guids |-> IF g = guidById[i] THEN InvalidUserId
                                                     ELSE idByGuid[g]]
  /\ UNCHANGED nextId

FreeId(i) ==
  /\ guidById' = [guidById EXCEPT ![i] = NoGuid]
  /\ idByGuid' = [g \in Guids |-> IF g = guidById[i] THEN InvalidUserId
                                                     ELSE idByGuid[g]]
  /\ nextId' = IF i < nextId THEN i ELSE nextId

-----------------------------------------------------------------------------
(* ServerCombined::HandlePacket.                                            *)

\* MakeID::CreateID returns the smallest free id.
NewUserId == CHOOSE u \in UserIds \ usedIds :
               \A v \in UserIds \ usedIds : u <= v

\* Wrong: the id is looked up but not taken.
CombinedConnectUnreserved(real, peer) ==
  /\ UNCHANGED usedIds
  /\ combinedIdByReal' = [combinedIdByReal EXCEPT ![real] = NewUserId]
  /\ realIdByCombined' = [realIdByCombined EXCEPT ![NewUserId] = real]
  /\ call' = [type |-> "connect", real |-> real, user |-> NewUserId,
              peer |-> peer]
  /\ UNCHANGED halted

CombinedConnect(real, peer) ==
  /\ usedIds' = usedIds \cup {NewUserId}
  /\ combinedIdByReal' = [combinedIdByReal EXCEPT ![real] = NewUserId]
  /\ realIdByCombined' = [realIdByCombined EXCEPT ![NewUserId] = real]
  /\ call' = [type |-> "connect", real |-> real, user |-> NewUserId,
              peer |-> peer]
  /\ UNCHANGED halted

\* Wrong: the id is not given back.
CombinedDisconnectKeeping(real, peer) ==
  LET id == combinedIdByReal[real] IN
  /\ id \in usedIds
  /\ combinedIdByReal' = [combinedIdByReal EXCEPT ![real] = InvalidUserId]
  /\ realIdByCombined' = [realIdByCombined EXCEPT ![id] = NoReal]
  /\ call' = [type |-> "disconnect", real |-> real, user |-> id, peer |-> peer]
  /\ UNCHANGED <<usedIds, halted>>

\* The id is free before PartOne learns of the disconnection.
CombinedDisconnect(real, peer) ==
  LET id == combinedIdByReal[real] IN
  /\ id \in usedIds
  /\ usedIds' = usedIds \ {id}
  /\ combinedIdByReal' = [combinedIdByReal EXCEPT ![real] = InvalidUserId]
  /\ realIdByCombined' = [realIdByCombined EXCEPT ![id] = NoReal]
  /\ call' = [type |-> "disconnect", real |-> real, user |-> id, peer |-> peer]
  /\ UNCHANGED halted

\* DestroyID fails, FreeId calls std::terminate.
CombinedDisconnectTerminates(real) ==
  /\ combinedIdByReal[real] \notin usedIds
  /\ halted' = "terminated"
  /\ UNCHANGED <<combinedVars, call>>

CombinedMessage(real, peer, user) ==
  /\ call' = [type |-> "message", real |-> real, user |-> user, peer |-> peer]
  /\ UNCHANGED <<combinedVars, halted>>

-----------------------------------------------------------------------------
(* Networking::Server::Tick and HandlePacketServerside.                     *)

ServerTickStarts ==
  /\ serverPc = "js" /\ call = NoCall
  /\ serverPc' = "real"
  /\ UNCHANGED <<rakNetVars, idManagerVars, mockVars, combinedVars, pending,
                 call, halted, historyVars>>

Receives(type) ==
  /\ serverPc = "real" /\ call = NoCall
  /\ received # <<>> /\ Head(received).type = type
  /\ received' = Tail(received)
  /\ UNCHANGED <<links, mockVars, pending, botsClosed, closedTwice>>

Sender == Head(received).guid

\* An exception on the way to PartOne; ScampServer::Tick logs it and starts
\* the tick of all servers again.
TickAgain == serverPc' = "real"

ReceiveConnection ==
  /\ Receives("connect") /\ ~Full
  /\ AllocateId(Sender)
  /\ CombinedConnect(<<0, nextId>>, Sender)
  /\ UNCHANGED <<serverPc, leaked, everRejected>>

\* "idManager is full"
ReceiveConnectionFull ==
  /\ Receives("connect") /\ Full
  /\ AllocateIdFails(Sender)
  /\ everRejected' = TRUE
  /\ TickAgain
  /\ UNCHANGED <<combinedVars, call, halted, leaked>>

ReceiveDisconnection ==
  /\ Receives("disconnect") /\ idByGuid[Sender] # InvalidUserId
  /\ CombinedDisconnect(<<0, idByGuid[Sender]>>, Sender)
  /\ UNCHANGED <<idManagerVars, serverPc, leaked, everRejected>>

ReceiveDisconnectionTerminates ==
  /\ Receives("disconnect") /\ idByGuid[Sender] # InvalidUserId
  /\ CombinedDisconnectTerminates(<<0, idByGuid[Sender]>>)
  /\ UNCHANGED <<idManagerVars, serverPc, leaked, everRejected>>

\* "Unexpected disconnection for system without userId"
ReceiveUnknownDisconnection ==
  /\ Receives("disconnect") /\ idByGuid[Sender] = InvalidUserId
  /\ TickAgain
  /\ UNCHANGED <<idManagerVars, combinedVars, call, halted, leaked,
                 everRejected>>

\* The message of a peer without a slot is passed on with InvalidUserId, which
\* ServerCombined uses as an index: it reads whatever lies there.
ReceiveMessage ==
  /\ Receives("message")
  /\ LET id == idByGuid[Sender] IN
     \/ /\ id # InvalidUserId
        /\ CombinedMessage(<<0, id>>, Sender, combinedIdByReal[<<0, id>>])
     \/ /\ id = InvalidUserId
        /\ \E u \in UserIds \cup {InvalidUserId} :
             CombinedMessage(NoReal, Sender, u)
  /\ UNCHANGED <<idManagerVars, serverPc, leaked, everRejected>>

-----------------------------------------------------------------------------
(* MockServer.                                                              *)

MockTickStarts ==
  /\ serverPc = "real" /\ call = NoCall /\ received = <<>>
  /\ serverPc' = "mock" /\ pending' = Len(botPackets)
  /\ UNCHANGED <<rakNetVars, idManagerVars, mockVars, combinedVars, call,
                 halted, historyVars>>

TakesBotPacket(type) ==
  /\ serverPc = "mock" /\ call = NoCall /\ pending > 0
  /\ Head(botPackets).type = type
  /\ botPackets' = Tail(botPackets) /\ pending' = pending - 1
  /\ UNCHANGED <<rakNetVars, idManagerVars, bots, serverPc, historyVars>>

BotSlot == <<1, Head(botPackets).slot>>

TakeBotConnection ==
  TakesBotPacket("connect") /\ CombinedConnect(BotSlot, NoGuid)

TakeBotDisconnection ==
  TakesBotPacket("disconnect") /\ CombinedDisconnect(BotSlot, NoGuid)

TakeBotDisconnectionTerminates ==
  TakesBotPacket("disconnect") /\ CombinedDisconnectTerminates(BotSlot)

TakeBotMessage ==
  /\ TakesBotPacket("message")
  /\ CombinedMessage(BotSlot, NoGuid, combinedIdByReal[BotSlot])

ServerTickEnds ==
  /\ serverPc = "mock" /\ call = NoCall /\ pending = 0
  /\ serverPc' = "partOne"
  /\ UNCHANGED <<rakNetVars, idManagerVars, mockVars, combinedVars, pending,
                 call, halted, historyVars>>

\* What gamemode code may do with bots.
BotSends(type, s) ==
  botPackets' = Append(botPackets, [type |-> type, slot |-> s])

\* The first slot without a living client is used again.
CreateBot ==
  /\ bots # BotSlots /\ Len(botPackets) < MaxQueue
  /\ LET s == CHOOSE t \in BotSlots \ bots : \A u \in BotSlots \ bots : t <= u
     IN /\ bots' = bots \cup {s}
        /\ BotSends("connect", s)
        /\ botsClosed' = botsClosed \ {s}
  /\ UNCHANGED <<rakNetVars, idManagerVars, combinedVars, loopVars, leaked,
                 everRejected, closedTwice>>

BotMessage(s) ==
  /\ s \in bots /\ Len(botPackets) < MaxQueue
  /\ BotSends("message", s)
  /\ UNCHANGED <<rakNetVars, idManagerVars, bots, combinedVars, loopVars,
                 historyVars>>

CloseBot(s) ==
  /\ Len(botPackets) < MaxQueue
  /\ BotSends("disconnect", s)
  /\ botsClosed' = botsClosed \cup {s}
  /\ closedTwice' = (closedTwice \/ s \in botsClosed)
  /\ UNCHANGED <<rakNetVars, idManagerVars, combinedVars, loopVars, leaked,
                 everRejected>>

\* ~MockClient
DestroyBot(s) == s \in bots /\ CloseBot(s) /\ bots' = bots \ {s}

\* CloseConnection of a bot's user.  That of a peer is LoseLink.
KickBot(u) ==
  /\ realIdByCombined[u] \in {<<1, s>> : s \in BotSlots}
  /\ CloseBot(realIdByCombined[u][2])
  /\ UNCHANGED bots

-----------------------------------------------------------------------------
(* The return of PartOne::HandlePacket, and its exception.                  *)

CallReturns ==
  /\ call # NoCall
  /\ call' = NoCall
  /\ IF call.type = "disconnect" /\ call.real[1] = 0
     THEN FreeId(call.real[2]) /\ leaked' = leaked \ {call.real[2]}
     ELSE UNCHANGED <<idManagerVars, leaked>>
  /\ UNCHANGED <<rakNetVars, mockVars, combinedVars, serverPc, pending, halted,
                 everRejected, botsClosed, closedTwice>>

\* freeId is skipped, and the packets that were left wait for the next try.
CallThrows ==
  /\ call # NoCall
  /\ call' = NoCall
  /\ leaked' = IF call.type = "disconnect" /\ call.real[1] = 0
               THEN leaked \cup {call.real[2]} ELSE leaked
  /\ TickAgain
  /\ UNCHANGED <<rakNetVars, idManagerVars, mockVars, combinedVars, pending,
                 halted, everRejected, botsClosed, closedTwice>>
=============================================================================
