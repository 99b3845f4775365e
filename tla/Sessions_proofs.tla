-------------------------- MODULE Sessions_proofs --------------------------
(***************************************************************************)
(* Proofs about Sessions for every number of peers, slots, bots, actors    *)
(* and entries of userInfo: the inductive invariant Inv, and from it type  *)
(* correctness, SendsReachTheirPeer, ActorsMapConsistent and               *)
(* DeferredDrained; then its strengthening Strong, which follows RakNet's  *)
(* packets as well, and from it SessionsSound and RejectsOnlyAfterLeak.    *)
(***************************************************************************)
EXTENDS Sessions, FiniteSetTheorems, TLAPS

(* Numbers and ids.                                                         *)

\* Every nonempty set of numbers has a smallest element.
LEMMA SmallestOfSet ==
  ASSUME NEW S \in SUBSET Nat, S # {}
  PROVE  \E n \in S : \A m \in S : n <= m
<1> DEFINE R == StrictSubsetOrdering(Nat)
           F == FiniteSubsetsOf(Nat)
           T == {0..n : n \in S}
<1>1. IsWellFoundedOn(R, F)
  BY FS_StrictSubsetOrderingWellFounded
<1>2. T \subseteq F /\ T # {}
  <2>1. \A n \in S : n \in Int /\ 0 \in Int
    OBVIOUS
  <2>2. \A n \in S : IsFiniteSet(0..n)
    BY <2>1, FS_Interval, Zenon
  <2>3. \A n \in S : 0..n \in SUBSET Nat
    OBVIOUS
  <2> QED BY <2>2, <2>3, Zenon DEF FiniteSubsetsOf
<1>3. \E x \in T : \A y \in T : ~(<<y, x>> \in R)
  <2> HIDE DEF R, F, T
  <2> QED BY <1>1, <1>2, WFMin
<1>4. PICK n \in S : \A m \in S : ~(<<0..m, 0..n>> \in R)
  BY <1>3
<1>5. ASSUME NEW m \in S PROVE n <= m
  <2>1. SUFFICES ASSUME m < n PROVE FALSE
    OBVIOUS
  <2>2. 0..m \subseteq 0..n /\ n \in 0..n /\ n \notin 0..m
    BY <2>1
  <2>3. 0..m \in SUBSET Nat /\ 0..n \in SUBSET Nat /\ 0..m # 0..n
    BY <2>2
  <2> QED BY <1>4, <2>2, <2>3 DEF StrictSubsetOrdering
<1> QED BY <1>5

\* Ids are numbers, and the values for "none" are none of them.
LEMMA IdFacts ==
  /\ MaxConnections \in Nat \ {0} /\ NumBots \in Nat
  /\ Ids \subseteq Nat /\ BotSlots \subseteq Nat /\ UserIds \subseteq Nat
  /\ 0 \in UserIds /\ 0 \in Ids
  /\ InvalidUserId \notin UserIds /\ InvalidUserId \notin Ids
  /\ \A i \in Ids : <<0, i>> \in RealIds
  /\ \A s \in BotSlots : <<1, s>> \in RealIds
  /\ \A r \in RealIds : \/ r[1] = 0 /\ r[2] \in Ids /\ r = <<0, r[2]>>
                        \/ r[1] = 1 /\ r[2] \in BotSlots /\ r = <<1, r[2]>>
  /\ NoReal \notin RealIds /\ NoReal[1] = 2
  /\ NoGuid \notin Guids
BY UserIdsAssumption DEF Ids, BotSlots, UserIds, RealIds, NoReal

\* NextFree(i) is at least i, and free unless it is MaxConnections.  What lies between
\* is not free.
LEMMA NextFreeIsFree ==
  ASSUME TypeOK, NEW i \in 0..MaxConnections
  PROVE  /\ NextFree(i) \in i..MaxConnections
         /\ NextFree(i) < MaxConnections => guidById[NextFree(i)] = NoGuid
         /\ \A m \in i..(NextFree(i) - 1) : guidById[m] # NoGuid
<1> DEFINE Free == {n \in i..MaxConnections :
                      n < MaxConnections => guidById[n] = NoGuid}
<1>1. MaxConnections \in Free /\ Free \subseteq Nat
  BY IdFacts
<1>2. PICK n \in Free : \A m \in Free : n <= m
  <2> HIDE DEF Free
  <2> QED BY <1>1, SmallestOfSet
<1>3. \A m \in i..(n - 1) : guidById[m] # NoGuid
  <2>1. SUFFICES ASSUME NEW m \in i..(n - 1), guidById[m] = NoGuid PROVE FALSE
    OBVIOUS
  <2>2. m \in Free /\ m < n
    BY <1>2, <2>1, IdFacts
  <2> QED BY <1>1, <1>2, <2>2
<1>4. \E k \in i..MaxConnections :
         /\ k < MaxConnections => guidById[k] = NoGuid
         /\ \A m \in i..(k - 1) : guidById[m] # NoGuid
  BY <1>2, <1>3
<1> QED BY <1>4 DEF NextFree

\* As long as some slot has no user id, there is an id that is not in use, and
\* CreateID returns the smallest.
LEMMA NewUserIdIsFree ==
  ASSUME TypeOK, RoutesInverse,
         NEW real \in RealIds, combinedIdByReal[real] = InvalidUserId
  PROVE  NewUserId \in UserIds \ usedIds /\ \A v \in UserIds \ usedIds : NewUserId <= v
<1>1. UserIds \ usedIds # {}
  <2>1. SUFFICES ASSUME UserIds \subseteq usedIds PROVE FALSE
    OBVIOUS
  <2> DEFINE Total == MaxConnections + NumBots
             At(r) == IF r[1] = 0 THEN r[2] ELSE MaxConnections + r[2]
             S == 1..Total
             T == (0..(Total - 1)) \ {At(real)}
             f == [u \in S |-> At(realIdByCombined[u])]
  <2>2. Total \in Nat /\ S \subseteq UserIds
    BY IdFacts DEF UserIds
  <2>3. \A r \in RealIds : At(r) \in 0..(Total - 1)
    BY UserIdsAssumption, IdFacts DEF Ids, BotSlots
  <2>4. \A q, r \in RealIds : At(q) = At(r) => q = r
    BY UserIdsAssumption, IdFacts DEF Ids, BotSlots
  <2>5. \A u \in S : realIdByCombined[u] \in RealIds /\ realIdByCombined[u] # real
    BY <2>1, <2>2, IdFacts DEF RoutesInverse, TypeOK, UserIdsTypeOK
  <2>6. \A u, v \in S : At(realIdByCombined[u]) = At(realIdByCombined[v]) => u = v
    <3>1. SUFFICES ASSUME NEW u \in S, NEW v \in S,
                          At(realIdByCombined[u]) = At(realIdByCombined[v])
                   PROVE  u = v
      OBVIOUS
    <3>2. realIdByCombined[u] = realIdByCombined[v]
      BY <2>4, <2>5, <3>1
    <3> QED BY <2>2, <2>5, <3>2 DEF RoutesInverse
  <2>7. /\ IsFiniteSet(S) /\ Cardinality(S) = Total
        /\ IsFiniteSet(T) /\ Cardinality(T) < Cardinality(S)
    <3>1. IsFiniteSet(S) /\ Cardinality(S) = Total
      BY <2>2, FS_Interval
    <3>2. IsFiniteSet(0..(Total - 1)) /\ Cardinality(0..(Total - 1)) = Total
      BY <2>2, FS_Interval
    <3>3. IsFiniteSet(T) /\ Cardinality(T) = Cardinality(0..(Total - 1)) - 1
      BY <2>3, <3>2, FS_RemoveElement
    <3> QED BY <2>2, <3>1, <3>2, <3>3
  <2>8. f \in [S -> T]
    BY <2>3, <2>4, <2>5
  <2>9. PICK x \in S, y \in S : x # y /\ f[x] = f[y]
    <3> HIDE DEF S, T, f
    <3> QED BY <2>7, <2>8, FS_PigeonHole
  <2> QED BY <2>6, <2>9
<1>2. UserIds \ usedIds \subseteq Nat
  BY IdFacts
<1>3. \E u \in UserIds \ usedIds : \A v \in UserIds \ usedIds : u <= v
  BY <1>1, <1>2, SmallestOfSet
<1> QED BY <1>3 DEF NewUserId

\* maxConnectedId as Disconnect computes it is not below a connected user.
LEMMA MaxConnectedIsHighest ==
  ASSUME NEW info, \E u \in UserIds : info[u] # NoUser
  PROVE  /\ MaxConnected(info) \in UserIds
         /\ \A u \in UserIds : info[u] # NoUser => u <= MaxConnected(info)
<1> DEFINE Connected == {u \in UserIds : info[u] # NoUser}
           Bounds == {n \in Nat : \A u \in Connected : u <= n}
<1>1. Connected # {} /\ Connected \subseteq UserIds /\ Connected \subseteq Nat
  BY IdFacts
<1>2. MaxConnections + NumBots \in Bounds
  BY IdFacts, <1>1 DEF UserIds
<1>3. PICK n \in Bounds : \A m \in Bounds : n <= m
  <2>1. Bounds \subseteq Nat /\ Bounds # {}
    BY <1>2
  <2> HIDE DEF Bounds
  <2> QED BY <2>1, SmallestOfSet
<1>4. n \in Connected
  <2>1. SUFFICES ASSUME n \notin Connected PROVE FALSE
    OBVIOUS
  <2>2. PICK u \in Connected : TRUE
    BY <1>1
  <2>3. \A v \in Connected : v < n
    BY <1>1, <1>3, <2>1
  <2>4. n - 1 \in Nat /\ \A v \in Connected : v <= n - 1
    BY <1>1, <1>3, <2>2, <2>3
  <2>5. n - 1 \in Bounds /\ ~(n <= n - 1)
    BY <1>3, <2>4
  <2> QED BY <1>3, <2>5
<1>5. \E u \in Connected : \A v \in Connected : v <= u
  BY <1>3, <1>4
<1>6. MaxConnected(info) = CHOOSE u \in Connected : \A v \in Connected : v <= u
  BY <1>1 DEF MaxConnected
<1> HIDE DEF Connected, Bounds
<1>7. MaxConnected(info) \in Connected
      /\ \A v \in Connected : v <= MaxConnected(info)
  BY <1>5, <1>6
<1> QED BY <1>7 DEF Connected

-----------------------------------------------------------------------------
(* Parts of Inv that a step leaves alone.                                   *)

\* The maps of ids depend on IdManager and ServerCombined only.
LEMMA RoutesKept ==
  ASSUME Inv, UNCHANGED <<idManagerVars, combinedVars>>
  PROVE  NextIsFree' /\ RoutesInverse' /\ FreeSlotsUnrouted'
BY DEF Inv, idManagerVars, combinedVars, NextIsFree, RoutesInverse,
       FreeSlotsUnrouted

\* The records depend, besides, on the call in progress.
LEMMA UsersKept ==
  ASSUME Inv, UNCHANGED <<idManagerVars, combinedVars, call, userInfo,
                          maxConnectedId, disconnectingUserId>>
  PROVE  DisconnectingUnrouted' /\ UsersRecorded' /\ MaxIsHighest'
<1>1. DisconnectingUnrouted'
  BY DEF Inv, combinedVars, DisconnectingUnrouted
<1>2. UsersRecorded' /\ MaxIsHighest'
  BY DEF Inv, idManagerVars, combinedVars, UsersRecorded, MaxIsHighest
<1> QED BY <1>1, <1>2

\* The order of the packets of bots depends on the mock server and its routes.
LEMMA BotsKeptBySlots ==
  ASSUME Inv, UNCHANGED mockVars,
         \A s \in BotSlots :
           combinedIdByReal'[<<1, s>>] = combinedIdByReal[<<1, s>>],
         serverPc' = "mock" => pending' <= Len(botPackets)
  PROVE  BotsInTurn'
<1>1. botPackets' = botPackets /\ bots' = bots
  BY DEF mockVars
<1>2. ASSUME NEW s \in BotSlots, NEW k \in Nat, ClosedBefore(s, k)
      PROVE  ClosedBefore(s, k)'
  BY <1>1, <1>2 DEF ClosedBefore, BotConnect, BotDisconnect
<1>3. Len(botPackets) \in Nat
  BY DEF Inv, TypeOK, UserIdsTypeOK
<1>4. ASSUME NEW s \in BotSlots, NEW k \in 1..Len(botPackets),
             botPackets[k] = BotConnect(s)
      PROVE  ClosedBefore(s, k)'
  BY <1>2, <1>3, <1>4 DEF Inv, BotsInTurn
<1>5. ASSUME NEW s \in BotSlots \ bots
      PROVE  ClosedBefore(s, Len(botPackets) + 1)'
  <2>1. ClosedBefore(s, Len(botPackets) + 1)
    BY DEF Inv, BotsInTurn
  <2>2. ClosedBefore(s, Len(botPackets) + 1)'
    BY <1>1, <2>1 DEF ClosedBefore, BotConnect, BotDisconnect
  <2> QED BY <2>2
<1> QED BY <1>1, <1>4, <1>5 DEF BotsInTurn, BotConnect

LEMMA BotsKept ==
  ASSUME Inv, UNCHANGED <<mockVars, combinedIdByReal>>,
         serverPc' = "mock" => pending' <= Len(botPackets)
  PROVE  BotsInTurn'
BY BotsKeptBySlots

\* The map of actors depends on the users and the actors that exist.
LEMMA ActorsKept ==
  ASSUME Inv, UNCHANGED <<actorsMap, userInfo, actors>>
  PROVE  ActorsMapConsistent'
BY DEF Inv, ActorsMapConsistent

-----------------------------------------------------------------------------
(* Steps that change no user.                                               *)

LEMMA RakNetInv ==
  ASSUME Inv, RakNetThread
  PROVE  Inv'
<1>1. UNCHANGED <<idManagerVars, mockVars, combinedVars, loopVars, historyVars,
                  stateVars, worldVars>>
  BY DEF RakNetThread
<1>2. links' \in SUBSET Guids /\ received' \in Seq(Packet)
  <2>1. \A g \in Guids :
          \A type \in {"connect", "disconnect", "message"} :
            [type |-> type, guid |-> g] \in Packet
    BY DEF Packet
  <2>2. \A packet \in Packet : Append(received, packet) \in Seq(Packet)
    BY DEF Inv, TypeOK, UserIdsTypeOK
  <2>3. links \in SUBSET Guids
    BY DEF Inv, TypeOK, UserIdsTypeOK
  <2> QED BY <2>1, <2>2, <2>3 DEF RakNetThread, RakNet, AcceptLink, LoseLink,
            MessageArrives, Arrives
<1>3. TypeOK'
  BY <1>1, <1>2 DEF Inv, TypeOK, UserIdsTypeOK, idManagerVars, mockVars,
       combinedVars, loopVars, historyVars, stateVars, worldVars
<1>4. NextIsFree' /\ RoutesInverse' /\ FreeSlotsUnrouted'
  BY <1>1, RoutesKept
<1>5. DisconnectingUnrouted' /\ UsersRecorded' /\ MaxIsHighest'
  BY <1>1, UsersKept DEF loopVars, stateVars
<1>6. BotsInTurn'
  BY <1>1, BotsKept DEF Inv, BotsInTurn, loopVars, combinedVars
<1>7. ActorsMapConsistent'
  BY <1>1, ActorsKept DEF stateVars, worldVars
<1> QED BY <1>3, <1>4, <1>5, <1>6, <1>7 DEF Inv

LEMMA TickInv ==
  ASSUME Inv, ServerTickStarts \/ MockTickStarts \/ ServerTickEnds,
         UNCHANGED <<stateVars, worldVars>>
  PROVE  Inv'
<1>1. UNCHANGED <<links, idManagerVars, mockVars, combinedVars, call, halted,
                  historyVars, stateVars, worldVars, received>>
  BY DEF ServerTickStarts, MockTickStarts, ServerTickEnds, rakNetVars
<1>2. /\ serverPc' \in {"real", "mock", "partOne"} /\ pending' \in Nat
      /\ serverPc' = "mock" => pending' <= Len(botPackets)
  BY DEF ServerTickStarts, MockTickStarts, ServerTickEnds, Inv, TypeOK,
         UserIdsTypeOK
<1>3. TypeOK'
  BY <1>1, <1>2 DEF Inv, TypeOK, UserIdsTypeOK, idManagerVars, mockVars,
       combinedVars, historyVars, stateVars, worldVars
<1>4. NextIsFree' /\ RoutesInverse' /\ FreeSlotsUnrouted'
  BY <1>1, RoutesKept
<1>5. DisconnectingUnrouted' /\ UsersRecorded' /\ MaxIsHighest'
  BY <1>1, UsersKept DEF stateVars
<1>6. BotsInTurn'
  BY <1>1, <1>2, BotsKept DEF combinedVars
<1>7. ActorsMapConsistent'
  BY <1>1, ActorsKept DEF stateVars, worldVars
<1> QED BY <1>3, <1>4, <1>5, <1>6, <1>7 DEF Inv

\* Whoever has a record keeps it, with its guid.
RecordsKept ==
  \A u \in UserIds :
    /\ userInfo'[u] # NoUser <=> userInfo[u] # NoUser
    /\ userInfo[u] # NoUser => userInfo'[u].guid = userInfo[u].guid

LEMMA TickRecords ==
  ASSUME TypeOK, TickDeferredMessages
  PROVE  userInfo' \in [UserIds -> UserInfo \cup {NoUser}] /\ RecordsKept
<1>1. PICK served \in SUBSET UserIds :
        /\ \A u \in served : IsConnected(u)
        /\ userInfo' = [u \in UserIds |->
                          IF u \in served
                          THEN [userInfo[u] EXCEPT !.deferred = {}]
                          ELSE userInfo[u]]
  <2> DEFINE failing == {u \in 0..maxConnectedId :
                           /\ IsConnected(u) /\ ~Reachable(u)
                           /\ actorsMap.byUser[u] \in userInfo[u].deferred}
             served == {u \in 0..maxConnectedId :
                          IsConnected(u) /\ \A f \in failing : u < f}
  <2>1. 0..maxConnectedId \subseteq UserIds
    BY IdFacts DEF TypeOK, UserIds
  <2>2. userInfo' = [u \in UserIds |->
                       IF u \in served
                       THEN [userInfo[u] EXCEPT !.deferred = {}]
                       ELSE userInfo[u]]
    BY DEF TickDeferredMessages
  <2>3. served \subseteq UserIds /\ \A u \in served : IsConnected(u)
    BY <2>1
  <2> HIDE DEF served
  <2> QED BY <2>2, <2>3
<1> QED BY <1>1, SessionsAssumption DEF TypeOK, UserInfo, IsConnected, RecordsKept

LEMMA TickDeferredMessagesInv ==
  ASSUME Inv, TickDeferredMessages
  PROVE  Inv'
<1>1. UNCHANGED <<rakNetVars, idManagerVars, mockVars, combinedVars, pending,
                  call, halted, historyVars, maxConnectedId,
                  disconnectingUserId, actorsMap, worldVars>>
      /\ serverPc' = "js"
  BY DEF TickDeferredMessages
<1>2. /\ userInfo' \in [UserIds -> UserInfo \cup {NoUser}]
      /\ \A u \in UserIds :
           /\ userInfo'[u] # NoUser <=> userInfo[u] # NoUser
           /\ userInfo[u] # NoUser => userInfo'[u].guid = userInfo[u].guid
  BY TickRecords DEF Inv, RecordsKept
<1>3. TypeOK'
  BY <1>1, <1>2 DEF Inv, TypeOK, UserIdsTypeOK, rakNetVars, idManagerVars,
       mockVars, combinedVars, historyVars, worldVars
<1>4. NextIsFree' /\ RoutesInverse' /\ FreeSlotsUnrouted'
  BY <1>1, RoutesKept
<1>5. DisconnectingUnrouted'
  BY <1>1 DEF Inv, DisconnectingUnrouted, combinedVars
<1>6. UsersRecorded' /\ MaxIsHighest'
  <2>1. usedIds \subseteq UserIds
    BY DEF Inv, TypeOK, UserIdsTypeOK
  <2> QED BY <1>1, <1>2, <2>1 DEF Inv, UsersRecorded, MaxIsHighest,
            combinedVars, idManagerVars
<1>7. BotsInTurn'
  BY <1>1, BotsKept DEF combinedVars
<1>8. ActorsMapConsistent'
  BY <1>1, <1>2 DEF Inv, ActorsMapConsistent, worldVars
<1> QED BY <1>3, <1>4, <1>5, <1>6, <1>7, <1>8 DEF Inv

-----------------------------------------------------------------------------
(* Packets that start a call, or fail.                                      *)

\* A packet of a bot that is taken is the first one, and the rest moves up.
LEMMA BotPacketTaken ==
  ASSUME Inv, NEW type, TakesBotPacket(type)
  PROVE  /\ Len(botPackets) \in Nat \ {0}
         /\ botPackets[1] = Head(botPackets) /\ Head(botPackets) \in BotPacket
         /\ Head(botPackets).slot \in BotSlots /\ BotSlot \in RealIds
         /\ Head(botPackets).type = type
         /\ Head(botPackets) = [type |-> type, slot |-> Head(botPackets).slot]
         /\ botPackets' \in Seq(BotPacket)
         /\ Len(botPackets') = Len(botPackets) - 1
         /\ \A k \in 1..(Len(botPackets) - 1) :
              botPackets'[k] = botPackets[k + 1]
         /\ pending' \in Nat /\ pending' <= Len(botPackets')
<1>1. /\ serverPc = "mock" /\ pending > 0 /\ Head(botPackets).type = type
      /\ botPackets' = Tail(botPackets) /\ pending' = pending - 1
  BY DEF TakesBotPacket
<1>2. /\ botPackets \in Seq(BotPacket) /\ pending \in Nat
      /\ pending <= Len(botPackets)
  BY <1>1 DEF Inv, TypeOK, UserIdsTypeOK, BotsInTurn
<1>3. Len(botPackets) \in Nat \ {0}
  BY <1>1, <1>2
<1>4. botPackets[1] = Head(botPackets) /\ Head(botPackets) \in BotPacket
  BY <1>2, <1>3
<1>5. /\ Head(botPackets).slot \in BotSlots
      /\ Head(botPackets) = [type |-> Head(botPackets).type,
                             slot |-> Head(botPackets).slot]
  BY <1>4 DEF BotPacket
<1>6. BotSlot \in RealIds
  BY <1>5, IdFacts DEF BotSlot
<1>7. /\ botPackets' \in Seq(BotPacket) /\ Len(botPackets') = Len(botPackets) - 1
      /\ \A k \in 1..(Len(botPackets) - 1) : botPackets'[k] = botPackets[k + 1]
  BY <1>1, <1>2, <1>3
<1> QED BY <1>1, <1>2, <1>3, <1>4, <1>5, <1>6, <1>7

\* Taking a packet keeps the order, if the route of its slot is made by a
\* connection, removed by a disconnection, and others are left alone.
LEMMA BotTakenInTurn ==
  ASSUME Inv, NEW type, TakesBotPacket(type),
         type \in {"connect", "disconnect", "message"},
         \A s \in BotSlots :
           s # Head(botPackets).slot \/ type = "message" =>
             combinedIdByReal'[<<1, s>>] = combinedIdByReal[<<1, s>>],
         type = "disconnect" =>
           combinedIdByReal'[<<1, Head(botPackets).slot>>] = InvalidUserId
  PROVE  BotsInTurn'
<1>1. /\ Len(botPackets) \in Nat \ {0}
      /\ botPackets[1] = Head(botPackets)
      /\ Head(botPackets) = [type |-> type, slot |-> Head(botPackets).slot]
      /\ Len(botPackets') = Len(botPackets) - 1
      /\ \A k \in 1..(Len(botPackets) - 1) : botPackets'[k] = botPackets[k + 1]
      /\ pending' <= Len(botPackets')
      /\ bots' = bots
  BY BotPacketTaken DEF TakesBotPacket
<1>2. ASSUME NEW s \in BotSlots, NEW k \in 2..(Len(botPackets) + 1),
             ClosedBefore(s, k)
      PROVE  ClosedBefore(s, k - 1)'
  <2>1. CASE /\ combinedIdByReal[<<1, s>>] = InvalidUserId
             /\ \A j \in 1..(k - 1) : botPackets[j] # BotConnect(s)
    <3>1. botPackets[1] # BotConnect(s)
      BY <1>2, <2>1
    <3>2. combinedIdByReal'[<<1, s>>] = InvalidUserId
      BY <1>1, <2>1, <3>1 DEF BotConnect
    <3>3. ASSUME NEW j \in 1..((k - 1) - 1) PROVE botPackets'[j] # BotConnect(s)
      <4>1. j \in 1..(Len(botPackets) - 1) /\ j + 1 \in 1..(k - 1)
        BY <1>1, <1>2
      <4> QED BY <1>1, <2>1, <4>1
    <3> QED BY <3>2, <3>3 DEF ClosedBefore, BotConnect
  <2>2. CASE \E d \in 1..(k - 1) :
               /\ botPackets[d] = BotDisconnect(s)
               /\ \A j \in (d + 1)..(k - 1) : botPackets[j] # BotConnect(s)
    <3>1. PICK d \in 1..(k - 1) :
            /\ botPackets[d] = BotDisconnect(s)
            /\ \A j \in (d + 1)..(k - 1) : botPackets[j] # BotConnect(s)
      BY <2>2
    <3>2. ASSUME NEW j \in d..((k - 1) - 1) PROVE botPackets'[j] # BotConnect(s)
      <4>1. j \in 1..(Len(botPackets) - 1) /\ j + 1 \in (d + 1)..(k - 1)
        BY <1>1, <1>2
      <4> QED BY <1>1, <3>1, <4>1
    <3>3. CASE d = 1
      <4>1. combinedIdByReal'[<<1, s>>] = InvalidUserId
        BY <1>1, <3>1, <3>3 DEF BotDisconnect
      <4> QED BY <3>2, <3>3, <4>1 DEF ClosedBefore, BotConnect
    <3>4. CASE d # 1
      <4>1. /\ d - 1 \in 1..((k - 1) - 1) /\ d - 1 \in 1..(Len(botPackets) - 1)
            /\ (d - 1) + 1 = d
        BY <1>1, <1>2, <3>4
      <4>2. botPackets'[d - 1] = BotDisconnect(s)
        BY <1>1, <3>1, <4>1
      <4> QED BY <3>2, <4>1, <4>2 DEF ClosedBefore, BotConnect, BotDisconnect
    <3> QED BY <3>3, <3>4
  <2> QED BY <1>2, <2>1, <2>2 DEF ClosedBefore
<1>3. ASSUME NEW s \in BotSlots, NEW k \in 1..Len(botPackets'),
             botPackets'[k] = BotConnect(s)
      PROVE  ClosedBefore(s, k)'
  <2>1. /\ k + 1 \in 1..Len(botPackets) /\ k + 1 \in 2..(Len(botPackets) + 1)
        /\ k \in 1..(Len(botPackets) - 1) /\ (k + 1) - 1 = k
    BY <1>1
  <2>2. botPackets[k + 1] = BotConnect(s)
    BY <1>1, <1>3, <2>1
  <2>3. ClosedBefore(s, k + 1)
    BY <2>1, <2>2 DEF Inv, BotsInTurn
  <2>4. ClosedBefore(s, (k + 1) - 1)'
    BY <1>2, <2>1, <2>3
  <2> QED BY <2>1, <2>4
<1>4. ASSUME NEW s \in BotSlots \ bots, NEW k \in Nat, k = Len(botPackets)
      PROVE  ClosedBefore(s, k)'
  <2>1. k + 1 \in 2..(Len(botPackets) + 1) /\ (k + 1) - 1 = k
    BY <1>1, <1>4
  <2>2. ClosedBefore(s, k + 1)
    BY <1>4 DEF Inv, BotsInTurn
  <2>3. ClosedBefore(s, (k + 1) - 1)'
    BY <1>2, <2>1, <2>2
  <2> QED BY <2>1, <2>3
<1>5. \A s \in BotSlots \ bots' : ClosedBefore(s, Len(botPackets) + 1)'
  <2>1. SUFFICES ASSUME NEW s \in BotSlots \ bots
                 PROVE  ClosedBefore(s, Len(botPackets) + 1)'
    BY <1>1
  <2>2. PICK k \in Nat : k = Len(botPackets)
    BY <1>1
  <2>3. ClosedBefore(s, k)'
    BY <1>4, <2>2
  <2>4. k = Len(botPackets') + 1
    BY <1>1, <2>2
  <2> QED BY <2>3, <2>4 DEF ClosedBefore, BotConnect, BotDisconnect
<1> QED BY <1>1, <1>3, <1>5 DEF BotsInTurn, BotConnect

\* A packet of a peer that is received was in the queue.
LEMMA PacketReceived ==
  ASSUME Inv, NEW type, Receives(type)
  PROVE  /\ serverPc = "real" /\ call = NoCall
         /\ received' \in Seq(Packet) /\ Sender \in Guids
         /\ UNCHANGED <<links, mockVars, pending, botsClosed, closedTwice>>
<1>1. received \in Seq(Packet) /\ received # <<>> /\ received' = Tail(received)
  BY DEF Receives, Inv, TypeOK, UserIdsTypeOK
<1>2. received' \in Seq(Packet) /\ Head(received) \in Packet
  BY <1>1
<1> QED BY <1>2 DEF Receives, Sender, Packet

LEMMA CombinedMessageFacts ==
  ASSUME NEW real \in RealIds \cup {NoReal}, NEW peer \in Guids \cup {NoGuid},
         NEW user \in UserIds \cup {InvalidUserId},
         CombinedMessage(real, peer, user)
  PROVE  /\ call' \in Call /\ call'.type = "message"
         /\ UNCHANGED <<combinedVars, halted>>
BY DEF CombinedMessage, Call

\* A message of a peer changes only the queue and the call.
LEMMA ReceiveMessageInv ==
  ASSUME Inv, ReceiveMessage, UNCHANGED <<stateVars, worldVars>>
  PROVE  Inv'
<1>1. /\ call = NoCall /\ received' \in Seq(Packet) /\ Sender \in Guids
      /\ UNCHANGED <<links, mockVars, pending, botsClosed, closedTwice>>
  BY PacketReceived DEF ReceiveMessage
<1>2. /\ call' \in Call /\ call'.type = "message"
      /\ UNCHANGED <<combinedVars, halted>>
  <2>1. CASE /\ idByGuid[Sender] # InvalidUserId
             /\ CombinedMessage(<<0, idByGuid[Sender]>>, Sender,
                                combinedIdByReal[<<0, idByGuid[Sender]>>])
    <3>1. <<0, idByGuid[Sender]>> \in RealIds
      BY <1>1, <2>1, IdFacts DEF Inv, TypeOK, UserIdsTypeOK
    <3>2. combinedIdByReal[<<0, idByGuid[Sender]>>]
            \in UserIds \cup {InvalidUserId}
      BY <3>1 DEF Inv, TypeOK, UserIdsTypeOK
    <3> QED BY <1>1, <2>1, <3>1, <3>2, CombinedMessageFacts
  <2>2. CASE \E u \in UserIds \cup {InvalidUserId} :
               CombinedMessage(NoReal, Sender, u)
    BY <1>1, <2>2, CombinedMessageFacts
  <2> QED BY <2>1, <2>2 DEF ReceiveMessage
<1>3. UNCHANGED <<idManagerVars, serverPc, leaked, everRejected>>
  BY DEF ReceiveMessage
<1>4. TypeOK'
  BY <1>1, <1>2, <1>3 DEF Inv, TypeOK, UserIdsTypeOK, idManagerVars, mockVars,
       combinedVars, stateVars, worldVars
<1>5. NextIsFree' /\ RoutesInverse' /\ FreeSlotsUnrouted'
  BY <1>2, <1>3, RoutesKept
<1>6. DisconnectingUnrouted'
  BY <1>1, <1>2 DEF Inv, DisconnectingUnrouted, NoCall, stateVars
<1>7. UsersRecorded' /\ MaxIsHighest'
  BY <1>2, <1>3 DEF Inv, UsersRecorded, MaxIsHighest, stateVars, combinedVars,
       idManagerVars
<1>8. BotsInTurn'
  BY <1>1, <1>2, <1>3, BotsKept DEF Inv, BotsInTurn, combinedVars
<1>9. ActorsMapConsistent'
  BY ActorsKept DEF stateVars, worldVars
<1> QED BY <1>4, <1>5, <1>6, <1>7, <1>8, <1>9 DEF Inv

\* A connection or disconnection that is not passed on may only leave a slot
\* for the guid of its peer.
LEMMA RejectInv ==
  ASSUME Inv, UNCHANGED <<stateVars, worldVars>>,
         \/ ReceiveConnectionFull
         \/ ReceiveUnknownDisconnection
         \/ ReceiveDisconnectionTerminates
  PROVE  Inv'
<1>1. /\ received' \in Seq(Packet) /\ Sender \in Guids /\ serverPc = "real"
      /\ UNCHANGED <<links, mockVars, pending, botsClosed, closedTwice>>
  BY PacketReceived DEF ReceiveConnectionFull, ReceiveUnknownDisconnection,
       ReceiveDisconnectionTerminates
<1>2. idByGuid' \in [Guids -> Ids \cup {InvalidUserId}]
  BY <1>1, IdFacts DEF ReceiveConnectionFull, ReceiveUnknownDisconnection,
       ReceiveDisconnectionTerminates, AllocateIdFails, idManagerVars, Inv,
       TypeOK, UserIdsTypeOK
<1>3. /\ UNCHANGED <<guidById, nextId, combinedVars, call, leaked>>
      /\ serverPc' = "real" /\ everRejected' \in BOOLEAN
      /\ halted' \in {"no", "terminated", "undefined"}
  BY <1>1 DEF ReceiveConnectionFull, ReceiveUnknownDisconnection,
       ReceiveDisconnectionTerminates, AllocateIdFails, idManagerVars, Inv,
       TypeOK, UserIdsTypeOK, TickAgain, CombinedDisconnectTerminates
<1>4. TypeOK'
  BY <1>1, <1>2, <1>3 DEF Inv, TypeOK, UserIdsTypeOK, mockVars,
       combinedVars, stateVars, worldVars
<1>5. NextIsFree' /\ RoutesInverse' /\ FreeSlotsUnrouted'
  BY <1>3 DEF Inv, NextIsFree, RoutesInverse, FreeSlotsUnrouted, combinedVars
<1>6. DisconnectingUnrouted'
  BY <1>3 DEF Inv, DisconnectingUnrouted, combinedVars, stateVars
<1>7. UsersRecorded' /\ MaxIsHighest'
  BY <1>3 DEF Inv, UsersRecorded, MaxIsHighest, stateVars, combinedVars
<1>8. BotsInTurn'
  BY <1>1, <1>3, BotsKept DEF combinedVars
<1>9. ActorsMapConsistent'
  BY ActorsKept DEF stateVars, worldVars
<1> QED BY <1>4, <1>5, <1>6, <1>7, <1>8, <1>9 DEF Inv

\* A message of a bot, or a disconnection of a bot without a user id, takes
\* the packet away.
LEMMA TakeBotMessageInv ==
  ASSUME Inv, UNCHANGED <<stateVars, worldVars>>,
         TakeBotMessage \/ TakeBotDisconnectionTerminates
  PROVE  Inv'
<1>1. PICK type \in {"message", "disconnect"} :
        /\ TakesBotPacket(type)
        /\ type = "disconnect" =>
             CombinedDisconnectTerminates(BotSlot) /\ call' = call
        /\ type = "message" =>
             CombinedMessage(BotSlot, NoGuid, combinedIdByReal[BotSlot])
  BY DEF TakeBotMessage, TakeBotDisconnectionTerminates,
         CombinedDisconnectTerminates
<1>2. /\ BotSlot \in RealIds /\ botPackets' \in Seq(BotPacket)
      /\ pending' \in Nat
  BY <1>1, BotPacketTaken
<1>3. call = NoCall
      /\ UNCHANGED <<rakNetVars, idManagerVars, bots, serverPc, historyVars>>
  BY <1>1 DEF TakesBotPacket
<1>4. combinedIdByReal[BotSlot] \in UserIds \cup {InvalidUserId}
  BY <1>2 DEF Inv, TypeOK, UserIdsTypeOK
<1>5. /\ call' \in Call /\ call'.type \in {"none", "message"}
      /\ halted' \in {"no", "terminated", "undefined"}
      /\ UNCHANGED combinedVars
  <2>1. CASE type = "message"
    BY <1>1, <1>2, <1>4, <2>1, CombinedMessageFacts DEF Inv, TypeOK,
       UserIdsTypeOK
  <2>2. CASE type = "disconnect"
    BY <1>1, <1>3, <2>2 DEF CombinedDisconnectTerminates, Inv, TypeOK,
       UserIdsTypeOK, NoCall
  <2> QED BY <1>1, <2>1, <2>2
<1>6. TypeOK'
  BY <1>2, <1>3, <1>5 DEF Inv, TypeOK, UserIdsTypeOK, rakNetVars,
       idManagerVars, historyVars, combinedVars, stateVars, worldVars
<1>7. NextIsFree' /\ RoutesInverse' /\ FreeSlotsUnrouted'
  BY <1>3, <1>5, RoutesKept
<1>8. DisconnectingUnrouted'
  BY <1>3, <1>5 DEF Inv, DisconnectingUnrouted, NoCall, stateVars
<1>9. UsersRecorded' /\ MaxIsHighest'
  BY <1>3, <1>5 DEF Inv, UsersRecorded, MaxIsHighest, stateVars, combinedVars,
       idManagerVars
<1>10. BotsInTurn'
  <2>1. type = "disconnect" => combinedIdByReal[BotSlot] = InvalidUserId
    <3>1. SUFFICES ASSUME type = "disconnect",
                          combinedIdByReal[BotSlot] \in UserIds
                   PROVE  FALSE
      BY <1>4
    <3>2. realIdByCombined[combinedIdByReal[BotSlot]] = BotSlot
      BY <1>2, <3>1 DEF Inv, RoutesInverse
    <3>3. combinedIdByReal[BotSlot] \in usedIds
      BY <1>2, <3>1, <3>2, IdFacts DEF Inv, RoutesInverse
    <3> QED BY <1>1, <3>1, <3>3 DEF CombinedDisconnectTerminates
  <2>2. combinedIdByReal' = combinedIdByReal
    BY <1>5 DEF combinedVars
  <2> QED BY <1>1, <2>1, <2>2, BotTakenInTurn DEF BotSlot
<1>11. ActorsMapConsistent'
  BY ActorsKept DEF stateVars, worldVars
<1> QED BY <1>6, <1>7, <1>8, <1>9, <1>10, <1>11 DEF Inv

LEMMA MessageOrErrorInv ==
  ASSUME Inv, MessageOrError
  PROVE  Inv'
BY ReceiveMessageInv, RejectInv, TakeBotMessageInv DEF MessageOrError

-----------------------------------------------------------------------------
(* Connections and disconnections.                                          *)

\* A new user gets a route of its own, and the guid of its slot.
LEMMA ConnectUser ==
  ASSUME Inv, call = NoCall, NEW real \in RealIds, NEW peer \in Guids \cup {NoGuid},
         NEW guid \in Guids \cup {NoGuid},
         combinedIdByReal[real] = InvalidUserId,
         CombinedConnect(real, peer), Connect(NewUserId, guid),
         \A i \in Ids : <<0, i>> # real => guidById'[i] = guidById[i],
         real[1] = 0 => guidById'[real[2]] = guid /\ guid # NoGuid,
         real[1] = 1 => guid = NoGuid,
         UNCHANGED worldVars
  PROVE  /\ RoutesInverse' /\ FreeSlotsUnrouted' /\ DisconnectingUnrouted'
         /\ UsersRecorded' /\ MaxIsHighest' /\ ActorsMapConsistent'
         /\ usedIds' \in SUBSET UserIds
         /\ combinedIdByReal' \in [RealIds -> UserIds \cup {InvalidUserId}]
         /\ realIdByCombined' \in [UserIds -> RealIds \cup {NoReal}]
         /\ call' \in Call /\ halted' = halted
         /\ userInfo' \in [UserIds -> UserInfo \cup {NoUser}]
         /\ maxConnectedId' \in UserIds
         /\ UNCHANGED <<disconnectingUserId, actorsMap>>
         /\ \A r \in RealIds :
              r # real => combinedIdByReal'[r] = combinedIdByReal[r]
<1>1. PICK u \in UserIds \ usedIds : u = NewUserId
  BY NewUserIdIsFree DEF Inv
<1>2. /\ usedIds' = usedIds \cup {u}
      /\ combinedIdByReal' = [combinedIdByReal EXCEPT ![real] = u]
      /\ realIdByCombined' = [realIdByCombined EXCEPT ![u] = real]
      /\ call' = [type |-> "connect", real |-> real, user |-> u, peer |-> peer]
      /\ halted' = halted
  BY <1>1 DEF CombinedConnect
<1>3. /\ u < KMaxPlayers
      /\ userInfo' = [userInfo EXCEPT ![u] = [guid |-> guid, deferred |-> {}]]
      /\ maxConnectedId' = IF maxConnectedId < u THEN u ELSE maxConnectedId
      /\ UNCHANGED <<disconnectingUserId, actorsMap>>
  BY <1>1 DEF Connect
<1>4. /\ usedIds \in SUBSET UserIds
      /\ combinedIdByReal \in [RealIds -> UserIds \cup {InvalidUserId}]
      /\ realIdByCombined \in [UserIds -> RealIds \cup {NoReal}]
      /\ userInfo \in [UserIds -> UserInfo \cup {NoUser}]
      /\ maxConnectedId \in UserIds
  BY DEF Inv, TypeOK, UserIdsTypeOK
<1>5. [guid |-> guid, deferred |-> {}] \in UserInfo
  BY DEF UserInfo
<1>6. RoutesInverse'
  <2>1. /\ 0 \in usedIds
        /\ \A v \in UserIds : realIdByCombined[v] # NoReal <=> v \in usedIds \ {0}
        /\ \A v \in UserIds : \A r \in RealIds :
             combinedIdByReal[r] = v <=> realIdByCombined[v] = r
    BY DEF Inv, RoutesInverse
  <2>2. ASSUME NEW v \in UserIds
        PROVE  realIdByCombined'[v] # NoReal <=> v \in usedIds' \ {0}
    BY <1>1, <1>2, <1>4, <2>1, IdFacts
  <2>3. ASSUME NEW v \in UserIds, NEW r \in RealIds
        PROVE  combinedIdByReal'[r] = v <=> realIdByCombined'[v] = r
    BY <1>1, <1>2, <1>4, <2>1, IdFacts
  <2> QED BY <1>2, <2>1, <2>2, <2>3 DEF RoutesInverse
<1>7. FreeSlotsUnrouted'
  <2>1. ASSUME NEW i \in Ids, guidById'[i] = NoGuid
        PROVE  combinedIdByReal'[<<0, i>>] = InvalidUserId
    <3>1. <<0, i>> # real
      BY <2>1
    <3> QED BY <1>2, <1>4, <2>1, <3>1, IdFacts DEF Inv, FreeSlotsUnrouted
  <2> QED BY <2>1 DEF FreeSlotsUnrouted
<1>8. disconnectingUserId = InvalidUserId
  BY DEF Inv, DisconnectingUnrouted, NoCall
<1>9. DisconnectingUnrouted'
  BY <1>2, <1>3, <1>8 DEF DisconnectingUnrouted
<1>10. UsersRecorded'
  <2>1. ASSUME NEW v \in UserIds
        PROVE  userInfo'[v] # NoUser
                 <=> v \in usedIds' \ {0} \/ v = disconnectingUserId'
    <3>1. CASE v = u
      <4>1. userInfo'[v] # NoUser
        BY <1>3, <1>4, <1>5, <3>1, SessionsAssumption
      <4>2. v \in usedIds' \ {0}
        BY <1>1, <1>2, <3>1 DEF Inv, RoutesInverse
      <4> QED BY <4>1, <4>2
    <3>2. CASE v # u
      <4>1. userInfo'[v] = userInfo[v]
        BY <1>3, <1>4, <3>2
      <4>2. v \in usedIds' \ {0} <=> v \in usedIds \ {0}
        BY <1>2, <3>2
      <4>3. userInfo[v] # NoUser
              <=> v \in usedIds \ {0} \/ v = disconnectingUserId
        BY DEF Inv, UsersRecorded
      <4> QED BY <1>3, <4>1, <4>2, <4>3
    <3> QED BY <3>1, <3>2
  <2>2. ASSUME NEW v \in usedIds' \ {0}
        PROVE  userInfo'[v].guid = IF realIdByCombined'[v][1] = 0
                                   THEN guidById'[realIdByCombined'[v][2]]
                                   ELSE NoGuid
    <3>1. CASE v = u
      BY <1>1, <1>2, <1>3, <1>4, <3>1, IdFacts
    <3>2. CASE v # u
      <4>1. /\ v \in usedIds \ {0} /\ v \in UserIds
            /\ userInfo'[v] = userInfo[v]
            /\ realIdByCombined'[v] = realIdByCombined[v]
        BY <1>1, <1>2, <1>3, <1>4, <2>2, <3>2
      <4>2. realIdByCombined[v] \in RealIds /\ realIdByCombined[v] # real
        BY <1>4, <4>1, IdFacts DEF Inv, RoutesInverse
      <4> QED BY <4>1, <4>2, IdFacts DEF Inv, UsersRecorded
    <3> QED BY <3>1, <3>2
  <2> QED BY <2>1, <2>2 DEF UsersRecorded
<1>11. MaxIsHighest'
  <2>1. ASSUME NEW v \in UserIds, userInfo'[v] # NoUser
        PROVE  v <= maxConnectedId' /\ v < KMaxPlayers
    <3>1. u \in Nat /\ v \in Nat /\ maxConnectedId \in Nat
      BY <1>4, IdFacts
    <3>2. CASE v = u
      BY <1>3, <3>1, <3>2
    <3>3. CASE v # u
      <4>1. userInfo[v] # NoUser
        BY <1>3, <1>4, <2>1, <3>3
      <4>2. v <= maxConnectedId /\ v < KMaxPlayers
        BY <4>1 DEF Inv, MaxIsHighest
      <4> QED BY <1>3, <3>1, <4>2
    <3> QED BY <3>2, <3>3
  <2>2. \A v \in UserIds :
          userInfo'[v] # NoUser => v <= maxConnectedId' /\ v < KMaxPlayers
    BY <2>1, Zenon
  <2> QED BY <2>2 DEF MaxIsHighest
<1>12. ActorsMapConsistent'
  <2>1. actorsMap' = actorsMap /\ actors' = actors
    BY <1>3 DEF worldVars
  <2>2. \A v \in UserIds : userInfo[v] # NoUser => userInfo'[v] # NoUser
    BY <1>3, <1>4, <1>5, SessionsAssumption
  <2> QED BY <2>1, <2>2 DEF Inv, ActorsMapConsistent
<1>13. call' \in Call
  BY <1>1, <1>2 DEF Call
<1> QED BY <1>1, <1>2, <1>3, <1>4, <1>5, <1>6, <1>7, <1>9, <1>10, <1>11,
           <1>12, <1>13

LEMMA PeerConnectsInv ==
  ASSUME Inv, PeerConnects
  PROVE  Inv'
<1>1. /\ call = NoCall /\ received' \in Seq(Packet) /\ Sender \in Guids
      /\ UNCHANGED <<links, mockVars, pending, botsClosed, closedTwice>>
  BY PacketReceived DEF PeerConnects, ReceiveConnection
<1>2. /\ ~Full /\ AllocateId(Sender)
      /\ CombinedConnect(<<0, nextId>>, Sender)
      /\ UNCHANGED <<serverPc, leaked, everRejected>>
      /\ Connect(NewUserId, Sender)
      /\ UNCHANGED worldVars
  BY DEF PeerConnects, ReceiveConnection
<1>3. /\ guidById \in [Ids -> Guids \cup {NoGuid}]
      /\ idByGuid \in [Guids -> Ids \cup {InvalidUserId}]
      /\ nextId \in 0..MaxConnections
  BY DEF Inv, TypeOK, UserIdsTypeOK
<1>4. /\ nextId \in Ids /\ nextId + 1 \in 0..MaxConnections
      /\ nextId < MaxConnections
  BY <1>2, <1>3, IdFacts DEF Full, Ids
<1>5. /\ guidById' = [guidById EXCEPT ![nextId] = Sender]
      /\ idByGuid' = [idByGuid EXCEPT ![Sender] = nextId]
      /\ nextId' = NextFree(nextId + 1)
  BY <1>2 DEF AllocateId
<1>6. /\ NextFree(nextId + 1) \in (nextId + 1)..MaxConnections
      /\ NextFree(nextId + 1) < MaxConnections =>
           guidById[NextFree(nextId + 1)] = NoGuid
  BY <1>4, NextFreeIsFree DEF Inv
<1>7. NextIsFree'
  <2>1. ASSUME nextId' < MaxConnections PROVE guidById'[nextId'] = NoGuid
    <3>1. nextId' \in Ids /\ nextId' # nextId
      BY <1>4, <1>5, <1>6, <2>1, IdFacts DEF Ids
    <3> QED BY <1>3, <1>5, <1>6, <2>1, <3>1
  <2> QED BY <2>1 DEF NextIsFree
<1>8. <<0, nextId>> \in RealIds /\ combinedIdByReal[<<0, nextId>>] = InvalidUserId
  BY <1>4, IdFacts DEF Inv, NextIsFree, FreeSlotsUnrouted
<1>9. /\ \A i \in Ids : <<0, i>> # <<0, nextId>> => guidById'[i] = guidById[i]
      /\ guidById'[nextId] = Sender /\ Sender # NoGuid
      /\ <<0, nextId>>[1] = 0 /\ <<0, nextId>>[2] = nextId
  BY <1>1, <1>3, <1>4, <1>5, IdFacts
<1>10. /\ RoutesInverse' /\ FreeSlotsUnrouted' /\ DisconnectingUnrouted'
       /\ UsersRecorded' /\ MaxIsHighest' /\ ActorsMapConsistent'
       /\ usedIds' \in SUBSET UserIds
       /\ combinedIdByReal' \in [RealIds -> UserIds \cup {InvalidUserId}]
       /\ realIdByCombined' \in [UserIds -> RealIds \cup {NoReal}]
       /\ call' \in Call /\ halted' = halted
       /\ userInfo' \in [UserIds -> UserInfo \cup {NoUser}]
       /\ maxConnectedId' \in UserIds
       /\ UNCHANGED <<disconnectingUserId, actorsMap>>
       /\ \A r \in RealIds :
            r # <<0, nextId>> => combinedIdByReal'[r] = combinedIdByReal[r]
  BY <1>1, <1>2, <1>8, <1>9, ConnectUser
<1>11. TypeOK'
  <2>1. /\ guidById' \in [Ids -> Guids \cup {NoGuid}]
        /\ idByGuid' \in [Guids -> Ids \cup {InvalidUserId}]
        /\ nextId' \in 0..MaxConnections
    BY <1>1, <1>3, <1>4, <1>5, <1>6
  <2> QED BY <1>1, <1>2, <1>10, <2>1 DEF Inv, TypeOK, UserIdsTypeOK, mockVars,
            worldVars
<1>12. BotsInTurn'
  <2>1. ASSUME NEW s \in BotSlots
        PROVE  combinedIdByReal'[<<1, s>>] = combinedIdByReal[<<1, s>>]
    <3>1. <<1, s>> \in RealIds /\ <<1, s>> # <<0, nextId>>
      BY IdFacts
    <3> QED BY <1>10, <3>1
  <2>2. serverPc' = "mock" => pending' <= Len(botPackets)
    BY <1>1, <1>2 DEF Inv, BotsInTurn
  <2> QED BY <1>1, <2>1, <2>2, BotsKeptBySlots
<1> QED BY <1>7, <1>10, <1>11, <1>12 DEF Inv

LEMMA BotConnectsInv ==
  ASSUME Inv, BotConnects
  PROVE  Inv'
<1>1. /\ TakesBotPacket("connect")
      /\ CombinedConnect(BotSlot, NoGuid)
      /\ Connect(NewUserId, NoGuid)
      /\ UNCHANGED worldVars
  BY DEF BotConnects, TakeBotConnection
<1>2. /\ call = NoCall
      /\ UNCHANGED <<rakNetVars, idManagerVars, bots, serverPc, historyVars>>
  BY <1>1 DEF TakesBotPacket
<1>3. /\ Len(botPackets) \in Nat \ {0}
      /\ botPackets[1] = [type |-> "connect", slot |-> Head(botPackets).slot]
      /\ Head(botPackets).slot \in BotSlots /\ BotSlot \in RealIds
      /\ botPackets' \in Seq(BotPacket) /\ pending' \in Nat
  BY <1>1, BotPacketTaken
<1>4. BotSlot = <<1, Head(botPackets).slot>>
  BY DEF BotSlot
<1>5. combinedIdByReal[BotSlot] = InvalidUserId
  <2>1. ClosedBefore(Head(botPackets).slot, 1)
    BY <1>3 DEF Inv, BotsInTurn, BotConnect
  <2> QED BY <1>4, <2>1 DEF ClosedBefore
<1>6. /\ \A i \in Ids : <<0, i>> # BotSlot => guidById'[i] = guidById[i]
      /\ BotSlot[1] = 1
  BY <1>2, <1>4 DEF idManagerVars
<1>7. /\ RoutesInverse' /\ FreeSlotsUnrouted' /\ DisconnectingUnrouted'
      /\ UsersRecorded' /\ MaxIsHighest' /\ ActorsMapConsistent'
      /\ usedIds' \in SUBSET UserIds
      /\ combinedIdByReal' \in [RealIds -> UserIds \cup {InvalidUserId}]
      /\ realIdByCombined' \in [UserIds -> RealIds \cup {NoReal}]
      /\ call' \in Call /\ halted' = halted
      /\ userInfo' \in [UserIds -> UserInfo \cup {NoUser}]
      /\ maxConnectedId' \in UserIds
      /\ UNCHANGED <<disconnectingUserId, actorsMap>>
      /\ \A r \in RealIds :
           r # BotSlot => combinedIdByReal'[r] = combinedIdByReal[r]
  BY <1>1, <1>2, <1>3, <1>5, <1>6, ConnectUser
<1>8. TypeOK'
  BY <1>1, <1>2, <1>3, <1>7 DEF Inv, TypeOK, UserIdsTypeOK, rakNetVars,
     idManagerVars, historyVars, worldVars
<1>9. NextIsFree'
  BY <1>2 DEF Inv, NextIsFree, idManagerVars
<1>10. BotsInTurn'
  <2>1. \A s \in BotSlots :
          s # Head(botPackets).slot =>
            combinedIdByReal'[<<1, s>>] = combinedIdByReal[<<1, s>>]
    BY <1>4, <1>7, IdFacts
  <2> QED BY <1>1, <2>1, BotTakenInTurn
<1> QED BY <1>7, <1>8, <1>9, <1>10 DEF Inv

\* A user that leaves gives its id and its route back, and is marked.
LEMMA DisconnectUser ==
  ASSUME Inv, call = NoCall, NEW real \in RealIds,
         NEW peer \in Guids \cup {NoGuid},
         CombinedDisconnect(real, peer), Disconnecting(combinedIdByReal[real]),
         UNCHANGED guidById
  PROVE  /\ RoutesInverse' /\ FreeSlotsUnrouted' /\ DisconnectingUnrouted'
         /\ UsersRecorded' /\ MaxIsHighest' /\ ActorsMapConsistent'
         /\ usedIds' \in SUBSET UserIds
         /\ combinedIdByReal' \in [RealIds -> UserIds \cup {InvalidUserId}]
         /\ realIdByCombined' \in [UserIds -> RealIds \cup {NoReal}]
         /\ call' \in Call /\ halted' = halted
         /\ disconnectingUserId' \in UserIds
         /\ UNCHANGED <<userInfo, maxConnectedId, actorsMap, worldVars>>
         /\ combinedIdByReal'[real] = InvalidUserId
         /\ \A r \in RealIds :
              r # real => combinedIdByReal'[r] = combinedIdByReal[r]
<1>1. PICK id \in usedIds : id = combinedIdByReal[real]
  BY DEF CombinedDisconnect
<1>2. /\ usedIds' = usedIds \ {id}
      /\ combinedIdByReal' = [combinedIdByReal EXCEPT ![real] = InvalidUserId]
      /\ realIdByCombined' = [realIdByCombined EXCEPT ![id] = NoReal]
      /\ call' = [type |-> "disconnect", real |-> real, user |-> id,
                  peer |-> peer]
      /\ halted' = halted
  BY <1>1 DEF CombinedDisconnect
<1>3. /\ disconnectingUserId' = id
      /\ UNCHANGED <<userInfo, maxConnectedId, actorsMap, worldVars>>
  BY <1>1 DEF Disconnecting
<1>4. /\ usedIds \in SUBSET UserIds
      /\ combinedIdByReal \in [RealIds -> UserIds \cup {InvalidUserId}]
      /\ realIdByCombined \in [UserIds -> RealIds \cup {NoReal}]
  BY DEF Inv, TypeOK, UserIdsTypeOK
<1>5. /\ 0 \in usedIds
      /\ \A v \in UserIds : realIdByCombined[v] # NoReal <=> v \in usedIds \ {0}
      /\ \A v \in UserIds : \A r \in RealIds :
           combinedIdByReal[r] = v <=> realIdByCombined[v] = r
  BY DEF Inv, RoutesInverse
<1>6. id \in UserIds /\ realIdByCombined[id] = real /\ id # 0
  BY <1>1, <1>4, <1>5, IdFacts
<1>7. RoutesInverse'
  <2>1. ASSUME NEW v \in UserIds
        PROVE  realIdByCombined'[v] # NoReal <=> v \in usedIds' \ {0}
    BY <1>2, <1>4, <1>5
  <2>2. ASSUME NEW v \in UserIds, NEW r \in RealIds
        PROVE  combinedIdByReal'[r] = v <=> realIdByCombined'[v] = r
    <3>1. CASE r = real
      BY <1>2, <1>4, <1>5, <1>6, <3>1, IdFacts
    <3>2. CASE r # real
      BY <1>2, <1>4, <1>5, <1>6, <3>2, IdFacts
    <3> QED BY <3>1, <3>2
  <2> QED BY <1>2, <1>5, <1>6, <2>1, <2>2 DEF RoutesInverse
<1>8. FreeSlotsUnrouted'
  BY <1>2, <1>4, IdFacts DEF Inv, FreeSlotsUnrouted
<1>9. DisconnectingUnrouted'
  BY <1>2, <1>3, <1>4, <1>6 DEF DisconnectingUnrouted
<1>10. disconnectingUserId = InvalidUserId
  BY DEF Inv, DisconnectingUnrouted, NoCall
<1>11. UsersRecorded'
  <2>1. ASSUME NEW v \in UserIds
        PROVE  userInfo'[v] # NoUser
                 <=> v \in usedIds' \ {0} \/ v = disconnectingUserId'
    <3>1. userInfo[v] # NoUser <=> v \in usedIds \ {0} \/ v = disconnectingUserId
      BY DEF Inv, UsersRecorded
    <3> QED BY <1>1, <1>2, <1>3, <1>6, <1>10, <3>1, IdFacts
  <2>2. ASSUME NEW v \in usedIds' \ {0}
        PROVE  userInfo'[v].guid = IF realIdByCombined'[v][1] = 0
                                   THEN guidById'[realIdByCombined'[v][2]]
                                   ELSE NoGuid
    <3>1. v \in usedIds \ {0} /\ v # id /\ v \in UserIds
      BY <1>2, <1>4
    <3>2. realIdByCombined'[v] = realIdByCombined[v]
      BY <1>2, <1>4, <3>1
    <3> QED BY <1>3, <3>1, <3>2 DEF Inv, UsersRecorded
  <2> QED BY <2>1, <2>2 DEF UsersRecorded
<1>12. MaxIsHighest' /\ ActorsMapConsistent'
  BY <1>3 DEF Inv, MaxIsHighest, ActorsMapConsistent, worldVars
<1>13. call' \in Call
  BY <1>2, <1>6 DEF Call
<1> QED BY <1>2, <1>3, <1>4, <1>6, <1>7, <1>8, <1>9, <1>11, <1>12, <1>13

LEMMA PeerDisconnectsInv ==
  ASSUME Inv, PeerDisconnects
  PROVE  Inv'
<1>1. /\ call = NoCall /\ received' \in Seq(Packet) /\ Sender \in Guids
      /\ UNCHANGED <<links, mockVars, pending, botsClosed, closedTwice>>
  BY PacketReceived DEF PeerDisconnects, ReceiveDisconnection
<1>2. /\ idByGuid[Sender] # InvalidUserId
      /\ CombinedDisconnect(<<0, idByGuid[Sender]>>, Sender)
      /\ Disconnecting(combinedIdByReal[<<0, idByGuid[Sender]>>])
      /\ UNCHANGED <<idManagerVars, serverPc, leaked, everRejected>>
  BY DEF PeerDisconnects, ReceiveDisconnection
<1>3. PICK i \in Ids : i = idByGuid[Sender]
  BY <1>1, <1>2 DEF Inv, TypeOK, UserIdsTypeOK
<1>4. <<0, i>> \in RealIds /\ guidById' = guidById
  BY <1>2, IdFacts DEF idManagerVars
<1>5. /\ RoutesInverse' /\ FreeSlotsUnrouted' /\ DisconnectingUnrouted'
      /\ UsersRecorded' /\ MaxIsHighest' /\ ActorsMapConsistent'
      /\ usedIds' \in SUBSET UserIds
      /\ combinedIdByReal' \in [RealIds -> UserIds \cup {InvalidUserId}]
      /\ realIdByCombined' \in [UserIds -> RealIds \cup {NoReal}]
      /\ call' \in Call /\ halted' = halted
      /\ disconnectingUserId' \in UserIds
      /\ UNCHANGED <<userInfo, maxConnectedId, actorsMap, worldVars>>
      /\ \A r \in RealIds :
           r # <<0, i>> => combinedIdByReal'[r] = combinedIdByReal[r]
  BY <1>1, <1>2, <1>3, <1>4, DisconnectUser
<1>6. TypeOK'
  BY <1>1, <1>2, <1>5 DEF Inv, TypeOK, UserIdsTypeOK, mockVars, worldVars,
     idManagerVars
<1>7. NextIsFree'
  BY <1>2 DEF Inv, NextIsFree, idManagerVars
<1>8. BotsInTurn'
  <2>1. ASSUME NEW s \in BotSlots
        PROVE  combinedIdByReal'[<<1, s>>] = combinedIdByReal[<<1, s>>]
    <3>1. <<1, s>> \in RealIds /\ <<1, s>> # <<0, i>>
      BY IdFacts
    <3> QED BY <1>5, <3>1
  <2>2. serverPc' = "mock" => pending' <= Len(botPackets)
    BY <1>1, <1>2 DEF Inv, BotsInTurn
  <2> QED BY <1>1, <2>1, <2>2, BotsKeptBySlots
<1> QED BY <1>5, <1>6, <1>7, <1>8 DEF Inv

LEMMA BotDisconnectsInv ==
  ASSUME Inv, BotDisconnects
  PROVE  Inv'
<1>1. /\ TakesBotPacket("disconnect")
      /\ CombinedDisconnect(BotSlot, NoGuid)
      /\ Disconnecting(combinedIdByReal[BotSlot])
  BY DEF BotDisconnects, TakeBotDisconnection
<1>2. /\ call = NoCall
      /\ UNCHANGED <<rakNetVars, idManagerVars, bots, serverPc, historyVars>>
  BY <1>1 DEF TakesBotPacket
<1>3. /\ BotSlot \in RealIds /\ BotSlot = <<1, Head(botPackets).slot>>
      /\ botPackets' \in Seq(BotPacket) /\ pending' \in Nat
  BY <1>1, BotPacketTaken DEF BotSlot
<1>4. /\ RoutesInverse' /\ FreeSlotsUnrouted' /\ DisconnectingUnrouted'
      /\ UsersRecorded' /\ MaxIsHighest' /\ ActorsMapConsistent'
      /\ usedIds' \in SUBSET UserIds
      /\ combinedIdByReal' \in [RealIds -> UserIds \cup {InvalidUserId}]
      /\ realIdByCombined' \in [UserIds -> RealIds \cup {NoReal}]
      /\ call' \in Call /\ halted' = halted
      /\ disconnectingUserId' \in UserIds
      /\ UNCHANGED <<userInfo, maxConnectedId, actorsMap, worldVars>>
      /\ combinedIdByReal'[BotSlot] = InvalidUserId
      /\ \A r \in RealIds :
           r # BotSlot => combinedIdByReal'[r] = combinedIdByReal[r]
  <2>1. UNCHANGED guidById
    BY <1>2 DEF idManagerVars
  <2> QED BY <1>1, <1>2, <1>3, <2>1, DisconnectUser
<1>5. TypeOK'
  BY <1>2, <1>3, <1>4 DEF Inv, TypeOK, UserIdsTypeOK, rakNetVars,
     idManagerVars, historyVars, worldVars
<1>6. NextIsFree'
  BY <1>2 DEF Inv, NextIsFree, idManagerVars
<1>7. BotsInTurn'
  <2>1. \A s \in BotSlots :
          s # Head(botPackets).slot =>
            combinedIdByReal'[<<1, s>>] = combinedIdByReal[<<1, s>>]
    BY <1>3, <1>4, IdFacts
  <2> QED BY <1>1, <1>3, <1>4, <2>1, BotTakenInTurn
<1> QED BY <1>4, <1>5, <1>6, <1>7 DEF Inv

\* A user beyond the end of userInfo ends what is modelled.
LEMMA ConnectsOutOfBoundsInv ==
  ASSUME Inv, ConnectsOutOfBounds
  PROVE  Inv'
<1>1. /\ halted' = "undefined"
      /\ UNCHANGED <<rakNetVars, idManagerVars, mockVars, combinedVars,
                     serverPc, pending, call, historyVars, stateVars, worldVars>>
  BY DEF ConnectsOutOfBounds
<1>2. TypeOK'
  BY <1>1 DEF Inv, TypeOK, UserIdsTypeOK, rakNetVars, idManagerVars, mockVars,
     combinedVars, historyVars, stateVars, worldVars
<1>3. NextIsFree' /\ RoutesInverse' /\ FreeSlotsUnrouted'
  BY <1>1, RoutesKept
<1>4. DisconnectingUnrouted' /\ UsersRecorded' /\ MaxIsHighest'
  BY <1>1, UsersKept DEF stateVars
<1>5. BotsInTurn'
  BY <1>1, BotsKept DEF Inv, BotsInTurn, combinedVars
<1>6. ActorsMapConsistent'
  BY <1>1, ActorsKept DEF stateVars, worldVars
<1> QED BY <1>2, <1>3, <1>4, <1>5, <1>6 DEF Inv

-----------------------------------------------------------------------------
(* The map of actors.                                                       *)

ActorsMaps == [byUser : [UserIds -> Actors \cup {NoActor}],
               byActor : [Actors -> UserIds \cup {InvalidUserId}]]

MapInverse(map) ==
  \A u \in UserIds : \A a \in Actors : map.byUser[u] = a <=> map.byActor[a] = u

\* Without the user, the maps are inverse of each other still.
LEMMA EraseUserFacts ==
  ASSUME NEW map \in ActorsMaps, MapInverse(map), NEW u \in UserIds
  PROVE  /\ EraseUser(map, u) \in ActorsMaps /\ MapInverse(EraseUser(map, u))
         /\ EraseUser(map, u).byUser[u] = NoActor
         /\ \A v \in UserIds :
              v # u => EraseUser(map, u).byUser[v] = map.byUser[v]
<1>1. /\ map.byUser \in [UserIds -> Actors \cup {NoActor}]
      /\ map.byActor \in [Actors -> UserIds \cup {InvalidUserId}]
  BY DEF ActorsMaps
<1>2. CASE map.byUser[u] = NoActor
  BY <1>2 DEF EraseUser
<1>3. CASE map.byUser[u] # NoActor
  <2>1. PICK a \in Actors : a = map.byUser[u]
    BY <1>1, <1>3
  <2>2. PICK erased : erased = EraseUser(map, u)
    OBVIOUS
  <2>3. erased = [byUser |-> [map.byUser EXCEPT ![u] = NoActor],
                  byActor |-> [map.byActor EXCEPT ![a] = InvalidUserId]]
    BY <1>3, <2>1, <2>2 DEF EraseUser
  <2>4. erased \in ActorsMaps
    BY <1>1, <2>3 DEF ActorsMaps
  <2>5. /\ erased.byUser[u] = NoActor
        /\ \A v \in UserIds : v # u => erased.byUser[v] = map.byUser[v]
    BY <1>1, <2>3
  <2>6. ASSUME NEW v \in UserIds, NEW b \in Actors
        PROVE  erased.byUser[v] = b <=> erased.byActor[b] = v
    <3>1. map.byUser[v] = b <=> map.byActor[b] = v
      BY DEF MapInverse
    <3>2. map.byActor[a] = u
      BY <2>1 DEF MapInverse
    <3>3. erased.byUser[v] = b <=> v # u /\ map.byUser[v] = b
      BY <1>1, <2>3, SessionsAssumption
    <3>4. erased.byActor[b] = v <=> b # a /\ map.byActor[b] = v
      BY <1>1, <2>3, IdFacts
    <3> QED BY <2>1, <3>1, <3>2, <3>3, <3>4
  <2> QED BY <2>2, <2>4, <2>5, <2>6 DEF MapInverse
<1> QED BY <1>2, <1>3

\* Without the actor, too.
LEMMA EraseActorFacts ==
  ASSUME NEW map \in ActorsMaps, MapInverse(map), NEW a \in Actors
  PROVE  /\ EraseActor(map, a) \in ActorsMaps
         /\ MapInverse(EraseActor(map, a))
         /\ \A v \in UserIds :
              /\ EraseActor(map, a).byUser[v] \in {map.byUser[v], NoActor}
              /\ EraseActor(map, a).byUser[v] # a
<1>1. /\ map.byUser \in [UserIds -> Actors \cup {NoActor}]
      /\ map.byActor \in [Actors -> UserIds \cup {InvalidUserId}]
  BY DEF ActorsMaps
<1>2. CASE map.byActor[a] = InvalidUserId
  <2>1. EraseActor(map, a) = map
    BY <1>2 DEF EraseActor
  <2>2. \A v \in UserIds : map.byUser[v] # a
    BY <1>2, IdFacts DEF MapInverse
  <2> QED BY <2>1, <2>2
<1>3. CASE map.byActor[a] # InvalidUserId
  <2>1. PICK u \in UserIds : u = map.byActor[a]
    BY <1>1, <1>3
  <2>2. map.byUser[u] = a
    BY <2>1 DEF MapInverse
  <2>3. EraseActor(map, a) = EraseUser(map, u)
    BY <1>3, <2>1, <2>2, SessionsAssumption DEF EraseActor, EraseUser
  <2>4. ASSUME NEW v \in UserIds
        PROVE  /\ EraseActor(map, a).byUser[v] \in {map.byUser[v], NoActor}
               /\ EraseActor(map, a).byUser[v] # a
    <3>1. CASE v = u
      BY <2>3, <3>1, EraseUserFacts, SessionsAssumption
    <3>2. CASE v # u
      <4>1. map.byUser[v] # a
        BY <2>1, <3>2 DEF MapInverse
      <4> QED BY <2>3, <3>2, <4>1, EraseUserFacts
    <3> QED BY <3>1, <3>2
  <2> QED BY <2>3, <2>4, EraseUserFacts
<1> QED BY <1>2, <1>3

\* With a new actor for the user, only that user gets one.
LEMMA SetActorFacts ==
  ASSUME NEW map \in ActorsMaps, MapInverse(map), NEW u \in UserIds,
         NEW a \in Actors
  PROVE  /\ SetActor(map, u, a) \in ActorsMaps
         /\ MapInverse(SetActor(map, u, a))
         /\ SetActor(map, u, a).byUser[u] = a
         /\ \A v \in UserIds :
              v # u =>
                SetActor(map, u, a).byUser[v] \in {map.byUser[v], NoActor}
<1>1. PICK left : left = EraseUser(map, u)
  OBVIOUS
<1>2. /\ left \in ActorsMaps /\ MapInverse(left) /\ left.byUser[u] = NoActor
      /\ \A v \in UserIds : v # u => left.byUser[v] = map.byUser[v]
  BY <1>1, EraseUserFacts
<1>3. PICK erased : erased = EraseActor(left, a)
  OBVIOUS
<1>4. /\ erased \in ActorsMaps /\ MapInverse(erased)
      /\ \A v \in UserIds : /\ erased.byUser[v] \in {left.byUser[v], NoActor}
                            /\ erased.byUser[v] # a
  BY <1>2, <1>3, EraseActorFacts
<1>5. /\ erased.byUser \in [UserIds -> Actors \cup {NoActor}]
      /\ erased.byActor \in [Actors -> UserIds \cup {InvalidUserId}]
  BY <1>4 DEF ActorsMaps
<1>6. PICK set : set = SetActor(map, u, a)
  OBVIOUS
<1>7. set = [byUser |-> [erased.byUser EXCEPT ![u] = a],
             byActor |-> [erased.byActor EXCEPT ![a] = u]]
  BY <1>1, <1>3, <1>6 DEF SetActor
<1>8. set \in ActorsMaps
  BY <1>5, <1>7 DEF ActorsMaps
<1>9. ASSUME NEW v \in UserIds, NEW b \in Actors
      PROVE  set.byUser[v] = b <=> set.byActor[b] = v
  <2>1. erased.byUser[v] = b <=> erased.byActor[b] = v
    BY <1>4 DEF MapInverse
  <2>2. erased.byUser[u] # b
    BY <1>2, <1>4, SessionsAssumption
  <2>3. erased.byActor[b] # u
    BY <1>4, <2>2 DEF MapInverse
  <2>4. erased.byUser[v] # a
    BY <1>4
  <2>5. set.byUser[v] = IF v = u THEN a ELSE erased.byUser[v]
    BY <1>5, <1>7
  <2>6. set.byActor[b] = IF b = a THEN u ELSE erased.byActor[b]
    BY <1>5, <1>7
  <2> QED BY <2>1, <2>3, <2>4, <2>5, <2>6
<1>10. /\ set.byUser[u] = a
       /\ \A v \in UserIds : v # u => set.byUser[v] \in {map.byUser[v], NoActor}
  BY <1>2, <1>4, <1>5, <1>7
<1> QED BY <1>6, <1>8, <1>9, <1>10 DEF MapInverse

\* What Inv says of the map.
LEMMA ActorsMapFacts ==
  ASSUME Inv
  PROVE  actorsMap \in ActorsMaps /\ MapInverse(actorsMap)
BY DEF Inv, TypeOK, ActorsMapConsistent, ActorsMaps, MapInverse

\* A new map is consistent, if its users are connected and its actors exist.
LEMMA ActorsMapChanged ==
  ASSUME Inv, actorsMap' \in ActorsMaps, MapInverse(actorsMap'),
         \A u \in UserIds :
           actorsMap'.byUser[u] # NoActor =>
             userInfo'[u] # NoUser /\ actorsMap'.byUser[u] \in actors'
  PROVE  ActorsMapConsistent'
BY DEF ActorsMapConsistent, MapInverse

-----------------------------------------------------------------------------
(* Gamemode code.                                                           *)

\* Steps that keep the users and leave the network alone.
LEMMA WorldStepInv ==
  ASSUME Inv, UNCHANGED <<userIdsVars, maxConnectedId, disconnectingUserId>>,
         userInfo' \in [UserIds -> UserInfo \cup {NoUser}],
         \A u \in UserIds :
           /\ userInfo'[u] # NoUser <=> userInfo[u] # NoUser
           /\ userInfo[u] # NoUser => userInfo'[u].guid = userInfo[u].guid,
         actorsMap' \in ActorsMaps, MapInverse(actorsMap'),
         \A u \in UserIds :
           actorsMap'.byUser[u] # NoActor =>
             userInfo[u] # NoUser /\ actorsMap'.byUser[u] \in actors',
         actors' \in SUBSET Actors, disabled' \in SUBSET Actors
  PROVE  Inv'
<1>1. UNCHANGED <<rakNetVars, idManagerVars, mockVars, combinedVars, loopVars,
                  historyVars>>
  BY DEF userIdsVars
<1>2. TypeOK'
  BY <1>1 DEF Inv, TypeOK, UserIdsTypeOK, rakNetVars, idManagerVars, mockVars,
     combinedVars, loopVars, historyVars, ActorsMaps
<1>3. NextIsFree' /\ RoutesInverse' /\ FreeSlotsUnrouted'
  BY <1>1, RoutesKept
<1>4. DisconnectingUnrouted'
  BY <1>1 DEF Inv, DisconnectingUnrouted, combinedVars, loopVars
<1>5. UsersRecorded' /\ MaxIsHighest'
  <2>1. usedIds \subseteq UserIds
    BY DEF Inv, TypeOK, UserIdsTypeOK
  <2> QED BY <1>1, <2>1 DEF Inv, UsersRecorded, MaxIsHighest, combinedVars,
            idManagerVars
<1>6. BotsInTurn'
  BY <1>1, BotsKept DEF Inv, BotsInTurn, combinedVars, loopVars
<1>7. ActorsMapConsistent'
  BY ActorsMapChanged
<1> QED BY <1>2, <1>3, <1>4, <1>5, <1>6, <1>7 DEF Inv

\* A deferred message leaves the records of the users where they are.
LEMMA DeferredRecords ==
  ASSUME TypeOK, NEW a \in Actors, NEW overwrite \in BOOLEAN,
         SendToUserDeferred(a, overwrite)
  PROVE  userInfo' \in [UserIds -> UserInfo \cup {NoUser}] /\ RecordsKept
<1>1. userInfo \in [UserIds -> UserInfo \cup {NoUser}]
  BY DEF TypeOK
<1>2. PICK v \in UserIds :
        /\ userInfo[v] # NoUser
        /\ userInfo' = [userInfo EXCEPT ![v].deferred =
                          IF overwrite THEN {a} ELSE @ \cup {a}]
  BY DEF SendToUserDeferred, Addressed
<1>3. PICK info \in UserInfo : info = userInfo[v]
  BY <1>1, <1>2
<1>4. PICK deferred \in SUBSET Actors :
        deferred = IF overwrite THEN {a} ELSE info.deferred \cup {a}
  BY <1>3 DEF UserInfo
<1>5. PICK new : new = [info EXCEPT !.deferred = deferred]
  OBVIOUS
<1>6. new \in UserInfo /\ new.guid = info.guid /\ new # NoUser
  BY <1>4, <1>5, SessionsAssumption DEF UserInfo
<1>7. userInfo' = [userInfo EXCEPT ![v] = new]
  BY <1>1, <1>2, <1>3, <1>4, <1>5
<1>8. userInfo' \in [UserIds -> UserInfo \cup {NoUser}]
  BY <1>1, <1>6, <1>7
<1>9. ASSUME NEW w \in UserIds
      PROVE  /\ userInfo'[w] # NoUser <=> userInfo[w] # NoUser
             /\ userInfo[w] # NoUser => userInfo'[w].guid = userInfo[w].guid
  <2>1. CASE w = v
    BY <1>1, <1>2, <1>3, <1>6, <1>7, <2>1
  <2>2. CASE w # v
    BY <1>1, <1>7, <2>2
  <2> QED BY <2>1, <2>2
<1> QED BY <1>8, <1>9 DEF RecordsKept

\* The steps of gamemode code that concern actors are of that kind.
LEMMA ActorsStepInv ==
  ASSUME Inv, NEW a \in Actors, NEW u \in UserIds,
         \/ CreateActor(a) \/ DestroyActor(a)
         \/ \E enabled \in BOOLEAN : SetEnabled(a, enabled)
         \/ \E overwrite \in BOOLEAN : SendToUserDeferred(a, overwrite)
         \/ SetUserActor(u, a)
  PROVE  Inv'
<1>1. /\ userInfo \in [UserIds -> UserInfo \cup {NoUser}]
      /\ actors \in SUBSET Actors /\ disabled \in SUBSET Actors
  BY DEF Inv, TypeOK
<1>2. /\ actorsMap \in ActorsMaps /\ MapInverse(actorsMap)
      /\ \A v \in UserIds :
           actorsMap.byUser[v] # NoActor =>
             userInfo[v] # NoUser /\ actorsMap.byUser[v] \in actors
  BY ActorsMapFacts DEF Inv, ActorsMapConsistent
<1>3. CASE CreateActor(a)
  <2>1. /\ UNCHANGED <<userIdsVars, maxConnectedId, disconnectingUserId,
                       userInfo, actorsMap>>
        /\ actors' = actors \cup {a} /\ disabled' = disabled
    BY <1>3 DEF CreateActor, stateVars
  <2> QED BY <1>1, <1>2, <2>1, WorldStepInv
<1>4. CASE DestroyActor(a)
  <2>1. /\ UNCHANGED <<userIdsVars, maxConnectedId, disconnectingUserId,
                       userInfo>>
        /\ actorsMap' = EraseActor(actorsMap, a)
        /\ actors' = actors \ {a} /\ disabled' = disabled \ {a}
    BY <1>4 DEF DestroyActor
  <2>2. /\ actorsMap' \in ActorsMaps /\ MapInverse(actorsMap')
        /\ \A v \in UserIds :
             /\ actorsMap'.byUser[v] \in {actorsMap.byUser[v], NoActor}
             /\ actorsMap'.byUser[v] # a
    BY <1>2, <2>1, EraseActorFacts
  <2> QED BY <1>1, <1>2, <2>1, <2>2, WorldStepInv
<1>5. CASE \E enabled \in BOOLEAN : SetEnabled(a, enabled)
  <2>1. /\ UNCHANGED <<userIdsVars, maxConnectedId, disconnectingUserId,
                       userInfo, actorsMap, actors>>
        /\ disabled' \in SUBSET Actors
    BY <1>1, <1>5 DEF SetEnabled, stateVars
  <2> QED BY <1>1, <1>2, <2>1, WorldStepInv
<1>6. CASE \E overwrite \in BOOLEAN : SendToUserDeferred(a, overwrite)
  <2>1. UNCHANGED <<userIdsVars, maxConnectedId, disconnectingUserId, actorsMap,
                    actors, disabled>>
    BY <1>6 DEF SendToUserDeferred, worldVars
  <2>2. userInfo' \in [UserIds -> UserInfo \cup {NoUser}] /\ RecordsKept
    BY <1>6, DeferredRecords DEF Inv
  <2> QED BY <1>1, <1>2, <2>1, <2>2, WorldStepInv DEF RecordsKept
<1>7. CASE SetUserActor(u, a)
  <2>1. /\ UNCHANGED <<userIdsVars, maxConnectedId, disconnectingUserId,
                       userInfo, actors, disabled>>
        /\ actorsMap' = SetActor(actorsMap, u, a)
        /\ userInfo[u] # NoUser /\ a \in actors
    BY <1>7 DEF SetUserActor, IsConnected, worldVars
  <2>2. /\ actorsMap' \in ActorsMaps /\ MapInverse(actorsMap')
        /\ actorsMap'.byUser[u] = a
        /\ \A v \in UserIds :
             v # u => actorsMap'.byUser[v] \in {actorsMap.byUser[v], NoActor}
    BY <1>2, <2>1, SetActorFacts
  <2> QED BY <1>1, <1>2, <2>1, <2>2, WorldStepInv
<1> QED BY <1>3, <1>4, <1>5, <1>6, <1>7

LEMMA ClearUserActorInv ==
  ASSUME Inv, NEW u \in UserIds, ClearUserActor(u)
  PROVE  Inv'
<1>1. /\ userInfo \in [UserIds -> UserInfo \cup {NoUser}]
      /\ actors \in SUBSET Actors /\ disabled \in SUBSET Actors
      /\ \A v \in UserIds :
           actorsMap.byUser[v] # NoActor =>
             userInfo[v] # NoUser /\ actorsMap.byUser[v] \in actors
  BY DEF Inv, TypeOK, ActorsMapConsistent
<1>2. /\ UNCHANGED <<userIdsVars, maxConnectedId, disconnectingUserId,
                     userInfo, actors, disabled>>
      /\ actorsMap' = EraseUser(actorsMap, u)
  BY DEF ClearUserActor, worldVars
<1>3. /\ actorsMap' \in ActorsMaps /\ MapInverse(actorsMap')
      /\ actorsMap'.byUser[u] = NoActor
      /\ \A v \in UserIds :
           v # u => actorsMap'.byUser[v] = actorsMap.byUser[v]
  BY <1>2, ActorsMapFacts, EraseUserFacts
<1> QED BY <1>1, <1>2, <1>3, WorldStepInv

\* A packet sent by a bot that is alive, or by one that comes to life or is
\* closed, keeps the order.
LEMMA BotSendsInv ==
  ASSUME Inv, NEW type \in {"connect", "disconnect", "message"},
         NEW s \in BotSlots, BotSends(type, s),
         UNCHANGED <<rakNetVars, idManagerVars, combinedVars, loopVars, leaked,
                     everRejected, stateVars, worldVars>>,
         type = "connect" => s \notin bots /\ bots' = bots \cup {s},
         type = "disconnect" => bots' \in {bots, bots \ {s}},
         type = "message" => bots' = bots,
         botsClosed' \in SUBSET BotSlots, closedTwice' \in BOOLEAN
  PROVE  Inv'
<1>1. botPackets \in Seq(BotPacket) /\ bots \in SUBSET BotSlots
  BY DEF Inv, TypeOK, UserIdsTypeOK
<1>2. PICK packet \in BotPacket : packet = [type |-> type, slot |-> s]
  BY DEF BotPacket
<1>3. PICK len \in Nat : len = Len(botPackets)
  BY <1>1
<1>4. /\ botPackets' \in Seq(BotPacket) /\ Len(botPackets') = len + 1
      /\ botPackets'[len + 1] = packet
      /\ \A k \in 1..len : botPackets'[k] = botPackets[k]
  BY <1>1, <1>2, <1>3 DEF BotSends
<1>5. bots' \in SUBSET BotSlots
  BY <1>1
<1>6. TypeOK'
  BY <1>4, <1>5 DEF Inv, TypeOK, UserIdsTypeOK, rakNetVars, idManagerVars,
     combinedVars, loopVars, stateVars, worldVars
<1>7. NextIsFree' /\ RoutesInverse' /\ FreeSlotsUnrouted'
  BY RoutesKept
<1>8. DisconnectingUnrouted' /\ UsersRecorded' /\ MaxIsHighest'
  BY UsersKept DEF loopVars, stateVars
<1>9. ActorsMapConsistent'
  BY ActorsKept DEF stateVars, worldVars
<1>10. combinedIdByReal' = combinedIdByReal
  BY DEF combinedVars
<1>11. ASSUME NEW t \in BotSlots, NEW k \in 1..(len + 1), ClosedBefore(t, k)
       PROVE  ClosedBefore(t, k)'
  <2>1. \A j \in 1..(k - 1) : j \in 1..len
    BY <1>3
  <2>2. CASE /\ combinedIdByReal[<<1, t>>] = InvalidUserId
             /\ \A j \in 1..(k - 1) : botPackets[j] # BotConnect(t)
    BY <1>4, <1>10, <2>1, <2>2 DEF ClosedBefore, BotConnect
  <2>3. CASE \E d \in 1..(k - 1) :
               /\ botPackets[d] = BotDisconnect(t)
               /\ \A j \in (d + 1)..(k - 1) : botPackets[j] # BotConnect(t)
    <3>1. PICK d \in 1..(k - 1) :
            /\ botPackets[d] = BotDisconnect(t)
            /\ \A j \in (d + 1)..(k - 1) : botPackets[j] # BotConnect(t)
      BY <2>3
    <3>2. \A j \in (d + 1)..(k - 1) : j \in 1..(k - 1)
      BY <1>3
    <3>3. \A j \in (d + 1)..(k - 1) : botPackets'[j] # BotConnect(t)
      BY <1>4, <2>1, <3>1, <3>2
    <3>4. botPackets'[d] = BotDisconnect(t)
      BY <1>4, <2>1, <3>1
    <3> QED BY <3>3, <3>4 DEF ClosedBefore, BotConnect, BotDisconnect
  <2> QED BY <1>11, <2>2, <2>3 DEF ClosedBefore
<1>12. \A t \in BotSlots \ bots : ClosedBefore(t, len + 1)
  BY <1>3 DEF Inv, BotsInTurn
<1>13. ASSUME NEW t \in BotSlots, NEW k \in 1..(len + 1),
              botPackets'[k] = BotConnect(t)
       PROVE  ClosedBefore(t, k)'
  <2>1. CASE k \in 1..len
    <3>1. ClosedBefore(t, k)
      BY <1>3, <1>4, <1>13, <2>1 DEF Inv, BotsInTurn
    <3> QED BY <1>11, <3>1
  <2>2. CASE k = len + 1
    <3>1. t = s /\ type = "connect"
      BY <1>2, <1>4, <1>13, <2>2 DEF BotConnect
    <3>2. ClosedBefore(t, k)
      BY <1>12, <2>2, <3>1
    <3> QED BY <1>11, <3>2
  <2> QED BY <1>3, <2>1, <2>2
<1>14. ASSUME NEW t \in BotSlots, t \notin bots', NEW k \in Nat, k = len + 2
       PROVE  ClosedBefore(t, k)'
  <2>1. len + 1 \in 1..(k - 1) /\ (len + 1) + 1 > k - 1
    BY <1>3, <1>14
  <2>2. CASE type = "disconnect" /\ t = s
    <3>1. botPackets'[len + 1] = BotDisconnect(t)
      BY <1>2, <1>4, <2>2 DEF BotDisconnect
    <3>2. \A j \in ((len + 1) + 1)..(k - 1) : botPackets'[j] # BotConnect(t)
      BY <1>3, <1>14
    <3> QED BY <2>1, <3>1, <3>2 DEF ClosedBefore, BotConnect, BotDisconnect
  <2>3. CASE ~(type = "disconnect" /\ t = s)
    <3>1. t \notin bots /\ packet # BotConnect(t)
      BY <1>2, <1>14, <2>3 DEF BotConnect
    <3>2. PICK n \in 1..(len + 1) : n = len + 1
      BY <1>3
    <3>3. ClosedBefore(t, n)'
      BY <1>11, <1>12, <3>1, <3>2
    <3>4. botPackets'[n] # BotConnect(t) /\ k - 1 = n
      BY <1>3, <1>4, <1>14, <3>1, <3>2
    <3>5. CASE /\ combinedIdByReal'[<<1, t>>] = InvalidUserId
               /\ \A j \in 1..(n - 1) : botPackets'[j] # BotConnect(t)
      <4>1. \A j \in 1..n : j \in 1..(n - 1) \/ j = n
        BY <3>2
      <4> QED BY <3>4, <3>5, <4>1 DEF ClosedBefore, BotConnect
    <3>6. CASE \E d \in 1..(n - 1) :
                 /\ botPackets'[d] = BotDisconnect(t)
                 /\ \A j \in (d + 1)..(n - 1) : botPackets'[j] # BotConnect(t)
      <4>1. PICK d \in 1..(n - 1) :
              /\ botPackets'[d] = BotDisconnect(t)
              /\ \A j \in (d + 1)..(n - 1) : botPackets'[j] # BotConnect(t)
        BY <3>6
      <4>2. d \in 1..n /\ \A j \in (d + 1)..n : j \in (d + 1)..(n - 1) \/ j = n
        BY <3>2
      <4> QED BY <3>4, <4>1, <4>2 DEF ClosedBefore, BotConnect, BotDisconnect
    <3> QED BY <3>3, <3>5, <3>6 DEF ClosedBefore, BotConnect, BotDisconnect
  <2> QED BY <2>2, <2>3
<1>15. BotsInTurn'
  <2>1. serverPc' = "mock" => pending' <= Len(botPackets')
    <3>1. serverPc' = serverPc /\ pending' = pending /\ pending \in Nat
      BY DEF loopVars, Inv, TypeOK, UserIdsTypeOK
    <3>2. serverPc = "mock" => pending <= len
      BY <1>3 DEF Inv, BotsInTurn
    <3> QED BY <1>3, <1>4, <3>1, <3>2
  <2>2. ASSUME NEW t \in BotSlots \ bots'
        PROVE  ClosedBefore(t, Len(botPackets) + 1)'
    <3>1. PICK k \in Nat : k = len + 2
      BY <1>3
    <3>2. ClosedBefore(t, k)'
      BY <1>14, <3>1
    <3>3. Len(botPackets') + 1 = k
      BY <1>3, <1>4, <3>1
    <3> QED BY <3>2, <3>3 DEF ClosedBefore, BotConnect, BotDisconnect
  <2> QED BY <1>4, <1>13, <2>1, <2>2 DEF BotsInTurn, BotConnect
<1> QED BY <1>6, <1>7, <1>8, <1>9, <1>15 DEF Inv

LEMMA BotStepInv ==
  ASSUME Inv, UNCHANGED <<stateVars, worldVars>>,
         \/ CreateBot
         \/ \E s \in BotSlots : DestroyBot(s) \/ BotMessage(s)
         \/ \E u \in UserIds : KickBot(u)
  PROVE  Inv'
<1>1. /\ bots \in SUBSET BotSlots /\ botsClosed \in SUBSET BotSlots
      /\ closedTwice \in BOOLEAN
  BY DEF Inv, TypeOK, UserIdsTypeOK
<1>2. CASE CreateBot
  <2>1. PICK s \in BotSlots \ bots :
          /\ bots' = bots \cup {s} /\ BotSends("connect", s)
          /\ botsClosed' = botsClosed \ {s}
    <3>1. \E t \in BotSlots \ bots : \A u \in BotSlots \ bots : t <= u
      <4>1. BotSlots \ bots \subseteq Nat /\ BotSlots \ bots # {}
        BY <1>1, <1>2, IdFacts DEF CreateBot
      <4> QED BY <4>1, SmallestOfSet
    <3> QED BY <1>2, <3>1 DEF CreateBot
  <2>2. UNCHANGED <<rakNetVars, idManagerVars, combinedVars, loopVars, leaked,
                    everRejected, closedTwice>>
    BY <1>2 DEF CreateBot
  <2> QED BY <1>1, <2>1, <2>2, BotSendsInv
<1>3. ASSUME NEW s \in BotSlots, CloseBot(s), bots' \in {bots, bots \ {s}}
      PROVE  Inv'
  <2>1. /\ BotSends("disconnect", s)
        /\ botsClosed' \in SUBSET BotSlots /\ closedTwice' \in BOOLEAN
        /\ UNCHANGED <<rakNetVars, idManagerVars, combinedVars, loopVars,
                       leaked, everRejected>>
    BY <1>1, <1>3 DEF CloseBot
  <2> QED BY <1>3, <2>1, BotSendsInv
<1>4. CASE \E s \in BotSlots : DestroyBot(s)
  BY <1>3, <1>4 DEF DestroyBot
<1>5. CASE \E s \in BotSlots : BotMessage(s)
  <2>1. PICK s \in BotSlots : BotMessage(s)
    BY <1>5
  <2>2. /\ BotSends("message", s)
        /\ UNCHANGED <<rakNetVars, idManagerVars, bots, combinedVars, loopVars,
                       leaked, everRejected, botsClosed, closedTwice>>
    BY <2>1 DEF BotMessage, historyVars
  <2> QED BY <1>1, <2>2, BotSendsInv
<1>6. CASE \E u \in UserIds : KickBot(u)
  <2>1. PICK u \in UserIds, s \in BotSlots :
          realIdByCombined[u] = <<1, s>> /\ CloseBot(s) /\ bots' = bots
    BY <1>6 DEF KickBot
  <2> QED BY <1>3, <2>1
<1> QED BY <1>2, <1>4, <1>5, <1>6

LEMMA JsInv ==
  ASSUME Inv, Js
  PROVE  Inv'
<1>1. 0 \in UserIds
  BY IdFacts
<1>2. ASSUME NEW a \in Actors,
             \/ CreateActor(a) \/ DestroyActor(a)
             \/ \E enabled \in BOOLEAN : SetEnabled(a, enabled)
             \/ \E overwrite \in BOOLEAN : SendToUserDeferred(a, overwrite)
      PROVE  Inv'
  BY <1>1, <1>2, ActorsStepInv
<1>3. ASSUME NEW a \in Actors, NEW u \in UserIds, SetUserActor(u, a)
      PROVE  Inv'
  BY <1>3, ActorsStepInv
<1>4. ASSUME NEW u \in UserIds, ClearUserActor(u)
      PROVE  Inv'
  BY <1>4, ClearUserActorInv
<1>5. CASE /\ \/ CreateBot
              \/ \E s \in BotSlots : DestroyBot(s) \/ BotMessage(s)
              \/ \E u \in UserIds : KickBot(u)
           /\ UNCHANGED <<stateVars, worldVars>>
  BY <1>5, BotStepInv
<1> QED BY <1>2, <1>3, <1>4, <1>5, Zenon DEF Js

-----------------------------------------------------------------------------
(* The end of a call.                                                       *)

\* The record of a user goes after its route, and with it the user's actor.
LEMMA RemoveUser ==
  ASSUME Inv, call.type = "disconnect", call' = NoCall,
         Disconnect(call.user), disconnectingUserId' = InvalidUserId,
         UNCHANGED <<combinedVars, worldVars>>,
         \A i \in Ids : <<0, i>> # call.real => guidById'[i] = guidById[i]
  PROVE  /\ DisconnectingUnrouted' /\ UsersRecorded' /\ MaxIsHighest'
         /\ ActorsMapConsistent'
         /\ userInfo' \in [UserIds -> UserInfo \cup {NoUser}]
         /\ maxConnectedId' \in UserIds
         /\ actorsMap' \in ActorsMaps
<1>1. PICK u \in UserIds : u = call.user
  BY DEF Inv, DisconnectingUnrouted
<1>2. /\ call.real \in RealIds /\ combinedIdByReal[call.real] = InvalidUserId
      /\ u \notin usedIds /\ disconnectingUserId = u
  BY <1>1 DEF Inv, DisconnectingUnrouted
<1>3. /\ userInfo' = [userInfo EXCEPT ![u] = NoUser]
      /\ maxConnectedId' = IF maxConnectedId = u THEN MaxConnected(userInfo')
                                                 ELSE maxConnectedId
      /\ actorsMap' = EraseUser(actorsMap, u)
  BY <1>1 DEF Disconnect
<1>4. /\ userInfo \in [UserIds -> UserInfo \cup {NoUser}]
      /\ maxConnectedId \in UserIds
      /\ usedIds \in SUBSET UserIds
      /\ realIdByCombined \in [UserIds -> RealIds \cup {NoReal}]
  BY DEF Inv, TypeOK, UserIdsTypeOK
<1>5. UNCHANGED <<usedIds, combinedIdByReal, realIdByCombined>>
  BY DEF combinedVars
<1>6. /\ userInfo' \in [UserIds -> UserInfo \cup {NoUser}]
      /\ userInfo'[u] = NoUser
      /\ \A v \in UserIds : v # u => userInfo'[v] = userInfo[v]
  BY <1>3, <1>4
<1>7. DisconnectingUnrouted'
  BY DEF DisconnectingUnrouted, NoCall
<1>8. UsersRecorded'
  <2>1. ASSUME NEW v \in UserIds
        PROVE  userInfo'[v] # NoUser
                 <=> v \in usedIds' \ {0} \/ v = disconnectingUserId'
    <3>1. userInfo[v] # NoUser <=> v \in usedIds \ {0} \/ v = disconnectingUserId
      BY DEF Inv, UsersRecorded
    <3> QED BY <1>2, <1>5, <1>6, <3>1, IdFacts
  <2>2. ASSUME NEW v \in usedIds' \ {0}
        PROVE  userInfo'[v].guid = IF realIdByCombined'[v][1] = 0
                                   THEN guidById'[realIdByCombined'[v][2]]
                                   ELSE NoGuid
    <3>1. v \in usedIds \ {0} /\ v \in UserIds /\ v # u
      BY <1>2, <1>4, <1>5, <2>2
    <3>2. PICK r \in RealIds : r = realIdByCombined[v]
      BY <1>4, <3>1 DEF Inv, RoutesInverse
    <3>3. r # call.real
      BY <1>2, <3>1, <3>2, IdFacts DEF Inv, RoutesInverse
    <3>4. r[1] = 0 => r[2] \in Ids /\ <<0, r[2]>> # call.real
      BY <3>3, IdFacts
    <3>5. userInfo[v].guid = IF r[1] = 0 THEN guidById[r[2]] ELSE NoGuid
      BY <3>1, <3>2 DEF Inv, UsersRecorded
    <3> QED BY <1>5, <1>6, <3>1, <3>2, <3>4, <3>5
  <2> QED BY <2>1, <2>2 DEF UsersRecorded
<1>9. MaxIsHighest' /\ maxConnectedId' \in UserIds
  <2>1. ASSUME NEW v \in UserIds, userInfo'[v] # NoUser
        PROVE  v <= maxConnectedId /\ v < KMaxPlayers
    BY <1>6, <2>1 DEF Inv, MaxIsHighest
  <2>2. CASE maxConnectedId # u
    <3>1. maxConnectedId' = maxConnectedId
      BY <1>3, <2>2
    <3> QED BY <1>4, <2>1, <3>1 DEF MaxIsHighest
  <2>3. CASE maxConnectedId = u /\ \E v \in UserIds : userInfo'[v] # NoUser
    <3>1. /\ maxConnectedId' \in UserIds
          /\ \A v \in UserIds : userInfo'[v] # NoUser => v <= maxConnectedId'
      BY <1>3, <2>3, MaxConnectedIsHighest
    <3> QED BY <2>1, <3>1 DEF MaxIsHighest
  <2>4. CASE maxConnectedId = u /\ \A v \in UserIds : userInfo'[v] = NoUser
    <3>1. maxConnectedId' = 0
      BY <1>3, <2>4 DEF MaxConnected
    <3> QED BY <2>4, <3>1, IdFacts DEF MaxIsHighest
  <2> QED BY <2>2, <2>3, <2>4
<1>10. /\ actorsMap' \in ActorsMaps /\ MapInverse(actorsMap')
       /\ actorsMap'.byUser[u] = NoActor
       /\ \A v \in UserIds :
            v # u => actorsMap'.byUser[v] = actorsMap.byUser[v]
  BY <1>3, ActorsMapFacts, EraseUserFacts
<1>11. ActorsMapConsistent'
  <2>1. ASSUME NEW v \in UserIds, actorsMap'.byUser[v] # NoActor
        PROVE  userInfo'[v] # NoUser /\ actorsMap'.byUser[v] \in actors'
    <3>1. v # u /\ actorsMap'.byUser[v] = actorsMap.byUser[v]
      BY <1>10, <2>1
    <3>2. userInfo[v] # NoUser /\ actorsMap.byUser[v] \in actors
      BY <2>1, <3>1 DEF Inv, ActorsMapConsistent
    <3> QED BY <1>6, <3>1, <3>2 DEF worldVars
  <2> QED BY <1>10, <2>1, ActorsMapChanged
<1> QED BY <1>6, <1>7, <1>8, <1>9, <1>10, <1>11

\* What is the same however the callback ends.
LEMMA EndOfCallFacts ==
  ASSUME Inv, EndOfCall, call' = NoCall, UNCHANGED combinedVars,
         \A i \in Ids :
           call.type # "disconnect" \/ <<0, i>> # call.real =>
             guidById'[i] = guidById[i]
  PROVE  /\ DisconnectingUnrouted' /\ UsersRecorded' /\ MaxIsHighest'
         /\ ActorsMapConsistent'
         /\ userInfo' \in [UserIds -> UserInfo \cup {NoUser}]
         /\ maxConnectedId' \in UserIds
         /\ disconnectingUserId' \in UserIds \cup {InvalidUserId}
         /\ actorsMap' \in ActorsMaps
         /\ UNCHANGED worldVars
<1>1. UNCHANGED worldVars
  BY DEF EndOfCall
<1>2. CASE call.type = "disconnect"
  BY <1>1, <1>2, RemoveUser DEF EndOfCall
<1>3. CASE call.type # "disconnect"
  <2>1. UNCHANGED <<userInfo, maxConnectedId, disconnectingUserId, actorsMap>>
    BY <1>3 DEF EndOfCall, stateVars
  <2>2. disconnectingUserId = InvalidUserId
    BY <1>3 DEF Inv, DisconnectingUnrouted
  <2>3. DisconnectingUnrouted'
    BY <2>1, <2>2 DEF DisconnectingUnrouted, NoCall
  <2>4. UsersRecorded'
    <3>1. ASSUME NEW v \in usedIds \ {0}
          PROVE  realIdByCombined[v][1] = 0 =>
                   guidById'[realIdByCombined[v][2]]
                     = guidById[realIdByCombined[v][2]]
      <4>1. realIdByCombined[v] \in RealIds
        BY DEF Inv, RoutesInverse, TypeOK, UserIdsTypeOK
      <4> QED BY <1>3, <4>1, IdFacts
    <3>2. UNCHANGED <<usedIds, realIdByCombined>>
      BY DEF combinedVars
    <3> QED BY <2>1, <3>1, <3>2 DEF Inv, UsersRecorded
  <2>5. MaxIsHighest'
    BY <2>1 DEF Inv, MaxIsHighest
  <2>6. ActorsMapConsistent'
    BY <1>1, <2>1, ActorsKept DEF worldVars
  <2> QED BY <1>1, <2>1, <2>3, <2>4, <2>5, <2>6 DEF Inv, TypeOK, ActorsMaps
<1> QED BY <1>2, <1>3

\* A slot that is given back has no user id any more.
LEMMA FreeIdFacts ==
  ASSUME Inv, NEW i \in Ids, combinedIdByReal[<<0, i>>] = InvalidUserId,
         FreeId(i), UNCHANGED combinedVars
  PROVE  /\ NextIsFree' /\ FreeSlotsUnrouted'
         /\ guidById' \in [Ids -> Guids \cup {NoGuid}]
         /\ idByGuid' \in [Guids -> Ids \cup {InvalidUserId}]
         /\ nextId' \in 0..MaxConnections
         /\ \A k \in Ids : k # i => guidById'[k] = guidById[k]
<1>1. /\ guidById' = [guidById EXCEPT ![i] = NoGuid]
      /\ idByGuid' = [g \in Guids |-> IF g = guidById[i] THEN InvalidUserId
                                                         ELSE idByGuid[g]]
      /\ nextId' = IF i < nextId THEN i ELSE nextId
  BY DEF FreeId
<1>2. /\ guidById \in [Ids -> Guids \cup {NoGuid}]
      /\ idByGuid \in [Guids -> Ids \cup {InvalidUserId}]
      /\ nextId \in 0..MaxConnections
  BY DEF Inv, TypeOK, UserIdsTypeOK
<1>3. /\ guidById' \in [Ids -> Guids \cup {NoGuid}]
      /\ guidById'[i] = NoGuid
      /\ \A k \in Ids : k # i => guidById'[k] = guidById[k]
  BY <1>1, <1>2
<1>4. nextId' \in 0..MaxConnections /\ nextId' \in {i, nextId}
  BY <1>1, <1>2, IdFacts DEF Ids
<1>5. NextIsFree'
  <2>1. ASSUME nextId' < MaxConnections PROVE guidById'[nextId'] = NoGuid
    <3>1. nextId' \in Ids
      BY <1>4, <2>1, IdFacts DEF Ids
    <3>2. nextId' # i => guidById[nextId'] = NoGuid
      BY <1>4, <2>1 DEF Inv, NextIsFree
    <3> QED BY <1>3, <3>1, <3>2
  <2> QED BY <2>1 DEF NextIsFree
<1>6. FreeSlotsUnrouted'
  BY <1>3 DEF Inv, FreeSlotsUnrouted, combinedVars
<1> QED BY <1>1, <1>2, <1>3, <1>4, <1>5, <1>6

LEMMA HandlerEndsInv ==
  ASSUME Inv, HandlerReturns \/ HandlerThrows
  PROVE  Inv'
<1>1. /\ call' = NoCall /\ EndOfCall
      /\ serverPc' \in {serverPc, "real"}
      /\ UNCHANGED <<rakNetVars, mockVars, combinedVars, pending, halted,
                     everRejected, botsClosed, closedTwice>>
  BY DEF HandlerReturns, HandlerThrows, CallReturns, CallThrows, TickAgain
<1>2. call.type = "disconnect" /\ call.real[1] = 0 =>
        /\ call.real[2] \in Ids /\ call.real = <<0, call.real[2]>>
        /\ combinedIdByReal[<<0, call.real[2]>>] = InvalidUserId
  BY IdFacts DEF Inv, DisconnectingUnrouted
<1>3. /\ NextIsFree' /\ FreeSlotsUnrouted'
      /\ guidById' \in [Ids -> Guids \cup {NoGuid}]
      /\ idByGuid' \in [Guids -> Ids \cup {InvalidUserId}]
      /\ nextId' \in 0..MaxConnections /\ leaked' \in SUBSET Ids
      /\ \A i \in Ids :
           call.type # "disconnect" \/ <<0, i>> # call.real =>
             guidById'[i] = guidById[i]
  <2>1. CASE UNCHANGED idManagerVars
    <3>1. leaked' \in SUBSET Ids
      <4>1. leaked \in SUBSET Ids
        BY DEF Inv, TypeOK, UserIdsTypeOK
      <4> QED BY <1>2, <2>1, <4>1 DEF HandlerReturns, HandlerThrows,
                CallReturns, CallThrows
    <3>2. NextIsFree' /\ FreeSlotsUnrouted'
      BY <1>1, <2>1, RoutesKept
    <3> QED BY <2>1, <3>1, <3>2 DEF idManagerVars, Inv, TypeOK, UserIdsTypeOK
  <2>2. CASE /\ call.type = "disconnect" /\ call.real[1] = 0
             /\ FreeId(call.real[2]) /\ leaked' = leaked \ {call.real[2]}
    <3>1. leaked' \in SUBSET Ids
      BY <2>2 DEF Inv, TypeOK, UserIdsTypeOK
    <3>2. PICK i \in Ids : i = call.real[2]
      BY <1>2, <2>2
    <3>3. /\ NextIsFree' /\ FreeSlotsUnrouted'
          /\ guidById' \in [Ids -> Guids \cup {NoGuid}]
          /\ idByGuid' \in [Guids -> Ids \cup {InvalidUserId}]
          /\ nextId' \in 0..MaxConnections
          /\ \A k \in Ids : k # i => guidById'[k] = guidById[k]
      BY <1>1, <1>2, <2>2, <3>2, FreeIdFacts
    <3> QED BY <1>2, <2>2, <3>1, <3>2, <3>3
  <2>3. \/ UNCHANGED idManagerVars
        \/ /\ call.type = "disconnect" /\ call.real[1] = 0
           /\ FreeId(call.real[2]) /\ leaked' = leaked \ {call.real[2]}
    BY DEF HandlerReturns, HandlerThrows, CallReturns, CallThrows
  <2> QED BY <2>1, <2>2, <2>3
<1>4. /\ DisconnectingUnrouted' /\ UsersRecorded' /\ MaxIsHighest'
      /\ ActorsMapConsistent'
      /\ userInfo' \in [UserIds -> UserInfo \cup {NoUser}]
      /\ maxConnectedId' \in UserIds
      /\ disconnectingUserId' \in UserIds \cup {InvalidUserId}
      /\ actorsMap' \in ActorsMaps
      /\ UNCHANGED worldVars
  BY <1>1, <1>3, EndOfCallFacts
<1>5. TypeOK'
  <2>1. NoCall \in Call
    BY IdFacts DEF NoCall, Call
  <2> QED BY <1>1, <1>3, <1>4, <2>1 DEF Inv, TypeOK, UserIdsTypeOK,
            rakNetVars, mockVars, combinedVars, worldVars, ActorsMaps
<1>6. RoutesInverse'
  BY <1>1 DEF Inv, RoutesInverse, combinedVars
<1>7. BotsInTurn'
  BY <1>1, BotsKept DEF Inv, BotsInTurn, combinedVars
<1> QED BY <1>3, <1>4, <1>5, <1>6, <1>7 DEF Inv

-----------------------------------------------------------------------------
(* The invariant, and what follows from it.                                 *)

LEMMA InitInv ==
  ASSUME Init
  PROVE  Inv
<1>1. /\ links = {} /\ received = <<>>
      /\ guidById = [i \in Ids |-> NoGuid]
      /\ idByGuid = [g \in Guids |-> InvalidUserId]
      /\ nextId = 0
      /\ bots = {} /\ botPackets = <<>> /\ pending = 0
      /\ usedIds = {0}
      /\ combinedIdByReal = [r \in RealIds |-> InvalidUserId]
      /\ realIdByCombined = [u \in UserIds |-> NoReal]
      /\ serverPc = "js" /\ call = NoCall /\ halted = "no"
      /\ leaked = {} /\ everRejected = FALSE
      /\ botsClosed = {} /\ closedTwice = FALSE
  BY DEF Init, UserIdsInit
<1>2. /\ userInfo = [u \in UserIds |-> NoUser]
      /\ maxConnectedId = 0
      /\ disconnectingUserId = InvalidUserId
      /\ actorsMap = [byUser |-> [u \in UserIds |-> NoActor],
                      byActor |-> [a \in Actors |-> InvalidUserId]]
      /\ actors = {} /\ disabled = {}
  BY DEF Init
<1>3. NoCall \in Call /\ NoCall.type = "none"
  BY IdFacts DEF NoCall, Call
<1>4. UserIdsTypeOK
  <2>1. links \in SUBSET Guids /\ received \in Seq(Packet)
    BY <1>1
  <2>2. /\ guidById \in [Ids -> Guids \cup {NoGuid}]
        /\ idByGuid \in [Guids -> Ids \cup {InvalidUserId}]
        /\ nextId \in 0..MaxConnections
    BY <1>1, IdFacts
  <2>3. /\ bots \in SUBSET BotSlots /\ botPackets \in Seq(BotPacket)
        /\ pending \in Nat
    BY <1>1
  <2>4. /\ usedIds \in SUBSET UserIds
        /\ combinedIdByReal \in [RealIds -> UserIds \cup {InvalidUserId}]
        /\ realIdByCombined \in [UserIds -> RealIds \cup {NoReal}]
    BY <1>1, IdFacts
  <2> QED BY <1>1, <1>3, <2>1, <2>2, <2>3, <2>4 DEF UserIdsTypeOK
<1>5. TypeOK
  BY <1>2, <1>4, IdFacts DEF TypeOK
<1>6. NextIsFree
  BY <1>1, IdFacts DEF NextIsFree
<1>7. RoutesInverse /\ FreeSlotsUnrouted
  BY <1>1, IdFacts DEF RoutesInverse, FreeSlotsUnrouted
<1>8. DisconnectingUnrouted
  BY <1>1, <1>2, <1>3 DEF DisconnectingUnrouted
<1>9. UsersRecorded /\ MaxIsHighest
  BY <1>1, <1>2, IdFacts DEF UsersRecorded, MaxIsHighest
<1>10. BotsInTurn
  <2>1. Len(botPackets) = 0
    BY <1>1
  <2>2. ASSUME NEW s \in BotSlots
        PROVE  ClosedBefore(s, Len(botPackets) + 1)
    <3>1. combinedIdByReal[<<1, s>>] = InvalidUserId
      BY <1>1, IdFacts
    <3>2. \A j \in 1..((Len(botPackets) + 1) - 1) : FALSE
      BY <2>1
    <3> QED BY <3>1, <3>2 DEF ClosedBefore
  <2> QED BY <1>1, <2>1, <2>2 DEF BotsInTurn
<1>11. ActorsMapConsistent
  BY <1>2, IdFacts, SessionsAssumption DEF ActorsMapConsistent
<1> QED BY <1>5, <1>6, <1>7, <1>8, <1>9, <1>10, <1>11 DEF Inv

LEMMA NextInv ==
  ASSUME Inv, [Next]_vars
  PROVE  Inv'
<1>1. CASE RakNetThread
  BY <1>1, RakNetInv
<1>2. CASE Js
  BY <1>2, JsInv
<1>3. CASE MainLoop
  <2>1. CASE \/ ServerTickStarts /\ UNCHANGED <<stateVars, worldVars>>
             \/ MockTickStarts /\ UNCHANGED <<stateVars, worldVars>>
             \/ ServerTickEnds /\ UNCHANGED <<stateVars, worldVars>>
    BY <2>1, TickInv
  <2>2. CASE PeerConnects \/ BotConnects \/ ConnectsOutOfBounds
    BY <2>2, PeerConnectsInv, BotConnectsInv, ConnectsOutOfBoundsInv
  <2>3. CASE PeerDisconnects \/ BotDisconnects
    BY <2>3, PeerDisconnectsInv, BotDisconnectsInv
  <2>4. CASE MessageOrError
    BY <2>4, MessageOrErrorInv
  <2>5. CASE HandlerReturns \/ HandlerThrows
    BY <2>5, HandlerEndsInv
  <2>6. CASE TickDeferredMessages
    BY <2>6, TickDeferredMessagesInv
  <2> QED BY <1>3, <2>1, <2>2, <2>3, <2>4, <2>5, <2>6, Zenon DEF MainLoop
<1>4. CASE UNCHANGED vars
  <2>1. UNCHANGED <<userIdsVars, stateVars, worldVars>>
    BY <1>4 DEF vars
  <2>2. UNCHANGED <<userInfo, maxConnectedId, disconnectingUserId, actorsMap,
                    actors, disabled>>
    BY <2>1 DEF stateVars, worldVars
  <2>3. /\ userInfo \in [UserIds -> UserInfo \cup {NoUser}]
        /\ actors \in SUBSET Actors /\ disabled \in SUBSET Actors
        /\ \A u \in UserIds :
             actorsMap.byUser[u] # NoActor =>
               userInfo[u] # NoUser /\ actorsMap.byUser[u] \in actors
    BY DEF Inv, TypeOK, ActorsMapConsistent
  <2> QED BY <2>1, <2>2, <2>3, ActorsMapFacts, WorldStepInv
<1> QED BY <1>1, <1>2, <1>3, <1>4 DEF Next

\* Inv holds in every state.
THEOREM InvHolds == Spec => []Inv
<1>1. Init => Inv
  BY InitInv
<1>2. Inv /\ [Next]_vars => Inv'
  BY NextInv
<1> QED BY <1>1, <1>2, PTL DEF Spec

\* Every variable of the ids, the records and the world keeps its type.
THEOREM TypeCorrect == Spec => []TypeOK
<1>1. Inv => TypeOK
  BY DEF Inv
<1> QED BY <1>1, InvHolds, PTL

\* What is sent to a connected user goes to the peer that its session is of,
\* although ids, slots and bots are used again while old packets still wait,
\* callbacks throw and gamemode code runs in the middle of a call.
THEOREM SendsReachTheirPeerHolds == Spec => []SendsReachTheirPeer
<1>1. ASSUME Inv PROVE SendsReachTheirPeer
  <2>1. ASSUME NEW u \in UserIds, userInfo[u] # NoUser,
               u # disconnectingUserId
        PROVE  /\ realIdByCombined[u] # NoReal
               /\ combinedIdByReal[realIdByCombined[u]] = u
               /\ userInfo[u].guid = IF realIdByCombined[u][1] = 0
                                     THEN guidById[realIdByCombined[u][2]]
                                     ELSE NoGuid
    <3>1. u \in usedIds \ {0}
      BY <1>1, <2>1 DEF Inv, UsersRecorded
    <3>2. realIdByCombined[u] \in RealIds /\ realIdByCombined[u] # NoReal
      BY <1>1, <3>1 DEF Inv, RoutesInverse, TypeOK, UserIdsTypeOK
    <3>3. combinedIdByReal[realIdByCombined[u]] = u
      BY <1>1, <3>2 DEF Inv, RoutesInverse
    <3> QED BY <1>1, <3>1, <3>2, <3>3 DEF Inv, UsersRecorded
  <2> QED BY <2>1 DEF SendsReachTheirPeer
<1>2. Inv => SendsReachTheirPeer
  BY <1>1
<1> QED BY <1>2, InvHolds, PTL

\* A user and an actor agree on whether they belong together, the user is
\* connected and the actor exists, whatever gamemode code does in whichever
\* callback.
THEOREM ActorsMapConsistentHolds == Spec => []ActorsMapConsistent
<1>1. Inv => ActorsMapConsistent
  BY DEF Inv
<1> QED BY <1>1, InvHolds, PTL

\* A tick in which no Send fails leaves no deferred message to any user: the
\* highest id that it looks at covers every connected user.
THEOREM DeferredDrainedHolds == Spec => DeferredDrained
<1>1. ASSUME Inv, TickDeferredMessages,
             ~ \E u \in UserIds : IsConnected(u) /\ ~Reachable(u)
      PROVE  \A u \in UserIds :
               userInfo'[u] # NoUser => userInfo'[u].deferred = {}
  <2>1. /\ userInfo \in [UserIds -> UserInfo \cup {NoUser}]
        /\ maxConnectedId \in UserIds
    BY <1>1 DEF Inv, TypeOK
  <2> DEFINE failing == {u \in 0..maxConnectedId :
                           /\ IsConnected(u) /\ ~Reachable(u)
                           /\ actorsMap.byUser[u] \in userInfo[u].deferred}
             served == {u \in 0..maxConnectedId :
                          IsConnected(u) /\ \A f \in failing : u < f}
  <2>2. failing = {}
    <3>1. 0..maxConnectedId \subseteq UserIds
      BY <2>1, IdFacts DEF UserIds
    <3> QED BY <1>1, <3>1
  <2>3. ASSUME NEW u \in UserIds, userInfo[u] # NoUser
        PROVE  u \in served
    <3>1. u <= maxConnectedId /\ u < KMaxPlayers
      BY <1>1, <2>3 DEF Inv, MaxIsHighest
    <3>2. u \in 0..maxConnectedId /\ u # InvalidUserId
      BY <2>1, <3>1, IdFacts
    <3> QED BY <2>2, <2>3, <3>1, <3>2 DEF IsConnected
  <2>4. userInfo' = [u \in UserIds |->
                       IF u \in served
                       THEN [userInfo[u] EXCEPT !.deferred = {}]
                       ELSE userInfo[u]]
    BY <1>1 DEF TickDeferredMessages
  <2> HIDE DEF served
  <2>5. ASSUME NEW u \in UserIds, userInfo'[u] # NoUser
        PROVE  userInfo'[u].deferred = {}
    <3>1. userInfo[u] # NoUser => userInfo[u] \in UserInfo
      BY <2>1
    <3> QED BY <2>3, <2>4, <2>5, <3>1 DEF UserInfo
  <2> QED BY <2>5
<1>2. Inv =>
        [TickDeferredMessages =>
           \/ \A u \in UserIds :
                userInfo'[u] # NoUser => userInfo'[u].deferred = {}
           \/ \E u \in UserIds : IsConnected(u) /\ ~Reachable(u)]_vars
  BY <1>1
<1> QED BY <1>2, InvHolds, PTL DEF DeferredDrained

-----------------------------------------------------------------------------
(* RakNet's packets: which peers are connected as they are received.        *)

\* What the packets say depends on the packets and the links only.
LEMMA SeenKept ==
  ASSUME UNCHANGED rakNetVars, NEW g, NEW k
  PROVE  SeenAfter(g, k)' <=> SeenAfter(g, k)
BY DEF rakNetVars, SeenAfter, Waiting

\* A packet that arrives changes nothing for what is received before it, and behind it
\* the links hold.
LEMMA ArrivalSeen ==
  ASSUME TypeOK, NEW p \in Guids, AcceptLink(p) \/ LoseLink(p) \/ MessageArrives(p)
  PROVE  /\ Len(received') = Len(received) + 1 /\ Len(received) \in Nat
         /\ \A j \in 1..Len(received) : received'[j] = received[j]
         /\ received'[Len(received) + 1].guid = p
         /\ received'[Len(received) + 1].type # "disconnect" <=> p \in links'
         /\ \A g \in Guids : \A k \in 0..Len(received) :
              SeenAfter(g, k)' <=> SeenAfter(g, k)
         /\ \A g \in Guids : SeenAfter(g, Len(received))' <=> g \in links'
<1>1. PICK type \in {"connect", "disconnect", "message"} :
        /\ Arrives(type, p)
        /\ type = "connect" => p \notin links /\ links' = links \cup {p}
        /\ type = "disconnect" => p \in links /\ links' = links \ {p}
        /\ type = "message" => p \in links /\ links' = links
  BY DEF AcceptLink, LoseLink, MessageArrives
<1>2. received \in Seq(Packet)
  BY DEF TypeOK, UserIdsTypeOK
<1>3. PICK n \in Nat : n = Len(received)
  BY <1>2
<1>4. /\ Len(received') = n + 1
      /\ \A j \in 1..n : received'[j] = received[j]
      /\ received'[n + 1] = [type |-> type, guid |-> p]
  BY <1>1, <1>2, <1>3 DEF Arrives
<1>5. /\ received'[n + 1].type = type /\ received'[n + 1].guid = p
  BY <1>4
<1>6. type # "disconnect" <=> p \in links'
  BY <1>1
<1>7. ASSUME NEW g \in Guids, NEW k \in 0..n
      PROVE  SeenAfter(g, k)' <=> SeenAfter(g, k)
  <2>1. \A j \in (k + 1)..(n + 1) : j \in (k + 1)..n \/ j = n + 1
    BY <1>3
  <2>2. \A j \in (k + 1)..n : j \in 1..n /\ j \in (k + 1)..(n + 1) /\ j <= n + 1 /\ ~(n + 1 <= j)
    BY <1>3
  <2>3. n + 1 \in (k + 1)..(n + 1) /\ n + 1 <= n + 1
    BY <1>3
  <2>4. Waiting(g, k) = {j \in (k + 1)..n : received[j].guid = g /\ received[j].type # "message"}
    BY <1>3 DEF Waiting
  <2>5. Waiting(g, k)' = {j \in (k + 1)..(n + 1) :
                            received'[j].guid = g /\ received'[j].type # "message"}
    BY <1>4 DEF Waiting
  <2>6. \A j \in Waiting(g, k) : j \in (k + 1)..n
    BY <2>4
  <2>7. CASE g # p \/ type = "message"
    <3>1. Waiting(g, k)' = Waiting(g, k)
      BY <1>4, <1>5, <2>1, <2>2, <2>4, <2>5, <2>7
    <3>2. g \in links' <=> g \in links
      BY <1>1, <2>7
    <3>3. \A j \in Waiting(g, k) : received'[j] = received[j]
      BY <1>4, <2>2, <2>6
    <3> QED BY <3>1, <3>2, <3>3 DEF SeenAfter
  <2>8. CASE g = p /\ type # "message"
    <3>1. Waiting(g, k)' = Waiting(g, k) \cup {n + 1}
      BY <1>4, <1>5, <2>1, <2>2, <2>3, <2>4, <2>5, <2>8
    <3>2. SeenAfter(g, k)'
            <=> \E j \in Waiting(g, k) \cup {n + 1} :
                  /\ received'[j].type = "disconnect"
                  /\ \A i \in Waiting(g, k) \cup {n + 1} : j <= i
      BY <3>1 DEF SeenAfter
    <3>3. CASE Waiting(g, k) = {}
      <4>1. SeenAfter(g, k) <=> g \in links
        BY <3>3 DEF SeenAfter
      <4>2. g \in links <=> type = "disconnect"
        BY <1>1, <2>8
      <4> QED BY <1>5, <2>3, <3>2, <3>3, <4>1, <4>2
    <3>4. CASE Waiting(g, k) # {}
      <4>1. SeenAfter(g, k)
              <=> \E j \in Waiting(g, k) :
                    received[j].type = "disconnect" /\ \A i \in Waiting(g, k) : j <= i
        BY <3>4 DEF SeenAfter
      <4>2. \A j \in Waiting(g, k) : j <= n + 1 /\ ~(n + 1 <= j) /\ received'[j] = received[j]
        BY <1>4, <2>2, <2>6
      <4> QED BY <3>2, <3>4, <4>1, <4>2
    <3> QED BY <3>3, <3>4
  <2> QED BY <2>7, <2>8
<1>8. ASSUME NEW g \in Guids, NEW k \in Nat, k = n + 1
      PROVE  SeenAfter(g, k)' <=> g \in links'
  <2>1. Waiting(g, k)' = {}
    BY <1>4, <1>8 DEF Waiting
  <2> QED BY <2>1 DEF SeenAfter
<1>9. ASSUME NEW g \in Guids PROVE SeenAfter(g, Len(received))' <=> g \in links'
  <2>1. PICK k \in Nat : k = n + 1
    BY <1>3
  <2>2. SeenAfter(g, k)' <=> g \in links'
    BY <1>8, <2>1
  <2>3. k = Len(received')
    BY <1>4, <2>1
  <2> QED BY <2>2, <2>3 DEF SeenAfter, Waiting
<1> QED BY <1>3, <1>4, <1>5, <1>6, <1>7, <1>9

\* The packets that are left when the first is taken.
LEMMA TailSeen ==
  ASSUME TypeOK, received # <<>>, received' = Tail(received), UNCHANGED links
  PROVE  /\ Len(received) \in Nat \ {0} /\ Len(received') = Len(received) - 1
         /\ received[1] = Head(received) /\ Sender \in Guids
         /\ \A j \in 1..Len(received') : received'[j] = received[j + 1]
         /\ \A g \in Guids : \A k \in 0..Len(received') :
              SeenAfter(g, k)' <=> SeenAfter(g, k + 1)
<1>1. received \in Seq(Packet)
  BY DEF TypeOK, UserIdsTypeOK
<1>2. PICK n \in Nat \ {0} : n = Len(received)
  BY <1>1
<1>3. /\ Len(received') = n - 1 /\ received[1] = Head(received)
      /\ Head(received) \in Packet
      /\ \A j \in 1..(n - 1) : received'[j] = received[j + 1]
  BY <1>1, <1>2
<1>4. ASSUME NEW g \in Guids, NEW k \in 0..(n - 1)
      PROVE  SeenAfter(g, k)' <=> SeenAfter(g, k + 1)
  <2>1. Waiting(g, k)' = {j \in (k + 1)..(n - 1) :
                            received'[j].guid = g /\ received'[j].type # "message"}
    BY <1>3 DEF Waiting
  <2>2. Waiting(g, k + 1) = {j \in (k + 2)..n :
                               received[j].guid = g /\ received[j].type # "message"}
    BY <1>2 DEF Waiting
  <2>3. \A j \in (k + 1)..(n - 1) :
          j + 1 \in (k + 2)..n /\ received'[j] = received[j + 1] /\ j \in Int
    BY <1>2, <1>3
  <2>4. \A j \in (k + 2)..n :
          /\ j - 1 \in (k + 1)..(n - 1) /\ (j - 1) + 1 = j /\ j \in Int
          /\ received'[j - 1] = received[j]
    BY <1>2, <1>3
  <2>5. \A j \in Waiting(g, k)' :
          j + 1 \in Waiting(g, k + 1) /\ received'[j] = received[j + 1] /\ j \in Int
    BY <2>1, <2>2, <2>3
  <2>6. \A j \in Waiting(g, k + 1) :
          j - 1 \in Waiting(g, k)' /\ received'[j - 1] = received[j] /\ j \in Int
    BY <2>1, <2>2, <2>4
  <2>7. CASE Waiting(g, k + 1) = {}
    <3>1. Waiting(g, k)' = {}
      BY <2>5, <2>7
    <3> QED BY <2>7, <3>1 DEF SeenAfter
  <2>8. CASE Waiting(g, k + 1) # {}
    <3>1. Waiting(g, k)' # {}
      BY <2>6, <2>8
    <3>2. PICK W, V : W = Waiting(g, k + 1) /\ V = Waiting(g, k)'
      OBVIOUS
    <3>3. ASSUME SeenAfter(g, k)' PROVE SeenAfter(g, k + 1)
      <4>1. PICK j \in V : received'[j].type = "disconnect" /\ \A i \in V : j <= i
        BY <3>1, <3>2, <3>3 DEF SeenAfter
      <4>2. \A i \in W : j + 1 <= i
        BY <2>5, <2>6, <3>2, <4>1
      <4> QED BY <2>5, <2>8, <3>2, <4>1, <4>2 DEF SeenAfter
    <3>4. ASSUME SeenAfter(g, k + 1) PROVE SeenAfter(g, k)'
      <4>1. PICK j \in W : received[j].type = "disconnect" /\ \A i \in W : j <= i
        BY <2>8, <3>2, <3>4 DEF SeenAfter
      <4>2. \A i \in V : j - 1 <= i
        BY <2>5, <2>6, <3>2, <4>1
      <4>3. j - 1 \in V /\ received'[j - 1].type = "disconnect"
        BY <2>6, <3>2, <4>1
      <4> QED BY <3>1, <3>2, <4>2, <4>3 DEF SeenAfter
    <3> QED BY <3>3, <3>4
  <2> QED BY <2>7, <2>8
<1>5. Sender \in Guids
  BY <1>3 DEF Sender, Packet
<1> QED BY <1>2, <1>3, <1>4, <1>5
\* Receiving a packet makes its sender known as connected, or as not connected any more.
LEMMA ReceivedSeen ==
  ASSUME TypeOK, PacketsInTurn, NEW type \in {"connect", "disconnect", "message"},
         Receives(type)
  PROVE  /\ Sender \in Guids /\ Len(received) \in Nat \ {0}
         /\ SeenConnected(Sender) <=> type # "connect"
         /\ \A g \in Guids :
              /\ SeenConnected(g)' <=> SeenAfter(g, 1)
              /\ SeenConnected(g)'
                   <=> IF g = Sender THEN type # "disconnect" ELSE SeenConnected(g)
<1>1. /\ received # <<>> /\ received' = Tail(received) /\ UNCHANGED links
      /\ Head(received).type = type
  BY DEF Receives
<1>2. /\ Len(received) \in Nat \ {0} /\ Len(received') = Len(received) - 1
      /\ received[1] = Head(received) /\ Sender \in Guids
      /\ \A g \in Guids : \A k \in 0..Len(received') :
           SeenAfter(g, k)' <=> SeenAfter(g, k + 1)
  BY <1>1, TailSeen
<1>3. received[1].guid = Sender /\ received[1].type = type
  BY <1>1, <1>2 DEF Sender
<1>4. PICK n \in Nat \ {0} : n = Len(received)
  BY <1>2
<1>5. ASSUME NEW g \in Guids PROVE SeenConnected(g)' <=> SeenAfter(g, 1)
  <2>1. 0 \in 0..Len(received') /\ 0 + 1 = 1
    BY <1>2
  <2> QED BY <1>2, <2>1 DEF SeenConnected
<1>6. SeenAfter(Sender, 1) <=> type # "disconnect"
  BY <1>2, <1>3 DEF PacketsInTurn
<1>7. ASSUME NEW g \in Guids
      PROVE  /\ Waiting(g, 0) = {j \in 1..n : received[j].guid = g /\ received[j].type # "message"}
             /\ Waiting(g, 1) = {j \in 2..n : received[j].guid = g /\ received[j].type # "message"}
             /\ \A j \in 1..n : 1 <= j /\ (j = 1 \/ j \in 2..n) /\ (j <= 1 => j = 1)
             /\ \A j \in 2..n : j \in 1..n
             /\ 1 \in 1..n
  BY <1>4 DEF Waiting
<1>8. ASSUME NEW g \in Guids, g # Sender \/ type = "message"
      PROVE  SeenConnected(g) <=> SeenAfter(g, 1)
  <2>1. Waiting(g, 0) = Waiting(g, 1)
    BY <1>3, <1>7, <1>8
  <2> QED BY <2>1 DEF SeenConnected, SeenAfter
<1>9. CASE type = "message"
  BY <1>2, <1>5, <1>6, <1>8, <1>9
<1>10. CASE type # "message"
  <2>1. 1 \in Waiting(Sender, 0) /\ \A j \in Waiting(Sender, 0) : 1 <= j /\ (j <= 1 => j = 1)
    BY <1>2, <1>3, <1>7, <1>10
  <2>2. SeenConnected(Sender) <=> type = "disconnect"
    BY <1>3, <2>1 DEF SeenConnected, SeenAfter
  <2> QED BY <1>2, <1>5, <1>6, <1>8, <1>10, <2>2
<1> QED BY <1>9, <1>10

\* What RakNet's thread, the ticks and gamemode code leave alone.
Quiet ==
  /\ UNCHANGED <<idManagerVars, combinedVars, call, halted, leaked, everRejected,
                 disconnectingUserId>>
  /\ RecordsKept
  /\ RakNetThread \/ UNCHANGED rakNetVars

TickSteps == ServerTickStarts \/ MockTickStarts \/ ServerTickEnds

LEMMA QuietSteps ==
  ASSUME TypeOK,
         \/ RakNetThread
         \/ TickSteps /\ UNCHANGED <<stateVars, worldVars>>
         \/ TickDeferredMessages
         \/ Js
  PROVE  Quiet
<1>1. ASSUME UNCHANGED userInfo PROVE RecordsKept
  BY <1>1 DEF RecordsKept
<1>2. CASE RakNetThread
  BY <1>1, <1>2 DEF RakNetThread, Quiet, loopVars, historyVars, stateVars
<1>3. CASE TickSteps /\ UNCHANGED <<stateVars, worldVars>>
  BY <1>1, <1>3 DEF TickSteps, ServerTickStarts, MockTickStarts, ServerTickEnds, Quiet,
     rakNetVars, historyVars, stateVars
<1>4. CASE TickDeferredMessages
  BY <1>4, TickRecords DEF TickDeferredMessages, Quiet, historyVars
<1>5. CASE Js
  <2>1. ASSUME UNCHANGED <<userIdsVars, disconnectingUserId>>, RecordsKept PROVE Quiet
    BY <2>1 DEF Quiet, userIdsVars, loopVars, historyVars
  <2>2. CASE \E a \in Actors :
               \/ CreateActor(a) \/ DestroyActor(a)
               \/ \E enabled \in BOOLEAN : SetEnabled(a, enabled)
               \/ \E u \in UserIds : SetUserActor(u, a)
    BY <1>1, <2>1, <2>2 DEF CreateActor, DestroyActor, SetEnabled, SetUserActor, stateVars
  <2>3. CASE \E a \in Actors : \E overwrite \in BOOLEAN : SendToUserDeferred(a, overwrite)
    <3>1. RecordsKept
      BY <2>3, DeferredRecords
    <3> QED BY <2>1, <2>3, <3>1 DEF SendToUserDeferred
  <2>4. CASE \E u \in UserIds : ClearUserActor(u)
    BY <1>1, <2>1, <2>4 DEF ClearUserActor
  <2>5. CASE /\ \/ CreateBot
                \/ \E s \in BotSlots : DestroyBot(s) \/ BotMessage(s)
                \/ \E u \in UserIds : KickBot(u)
             /\ UNCHANGED <<stateVars, worldVars>>
    BY <1>1, <2>5 DEF CreateBot, DestroyBot, BotMessage, KickBot, CloseBot, stateVars,
       loopVars, historyVars, Quiet
  <2> QED BY <1>5, <2>2, <2>3, <2>4, <2>5, Zenon DEF Js
<1> QED BY <1>2, <1>3, <1>4, <1>5

\* The other steps.
LEMMA StepKinds ==
  ASSUME Next
  PROVE  /\ Running
         /\ \/ RakNetThread
            \/ TickSteps /\ UNCHANGED <<stateVars, worldVars>>
            \/ TickDeferredMessages
            \/ Js
            \/ PeerConnects \/ BotConnects \/ ConnectsOutOfBounds
            \/ PeerDisconnects \/ BotDisconnects
            \/ MessageOrError
            \/ HandlerReturns \/ HandlerThrows
BY Zenon DEF Next, MainLoop, TickSteps

\* A step lets RakNet's thread add a packet, receives one, or leaves the packets alone.
LEMMA QueueSteps ==
  ASSUME TypeOK, Next
  PROVE  \/ RakNetThread
         \/ \E type \in {"connect", "disconnect", "message"} : Receives(type)
         \/ UNCHANGED rakNetVars
<1>1. CASE \/ RakNetThread
           \/ TickSteps /\ UNCHANGED <<stateVars, worldVars>>
           \/ TickDeferredMessages
           \/ Js
  BY <1>1, QuietSteps DEF Quiet
<1>2. CASE BotConnects \/ BotDisconnects \/ ConnectsOutOfBounds
  BY <1>2 DEF BotConnects, TakeBotConnection, BotDisconnects, TakeBotDisconnection,
     TakesBotPacket, ConnectsOutOfBounds
<1>3. CASE PeerConnects \/ PeerDisconnects
  BY <1>3 DEF PeerConnects, ReceiveConnection, PeerDisconnects, ReceiveDisconnection
<1>4. CASE MessageOrError
  BY <1>4 DEF MessageOrError, ReceiveMessage, TakeBotMessage, TakesBotPacket,
     ReceiveConnectionFull, ReceiveUnknownDisconnection, ReceiveDisconnectionTerminates,
     TakeBotDisconnectionTerminates
<1>5. CASE HandlerReturns \/ HandlerThrows
  BY <1>5 DEF HandlerReturns, HandlerThrows, CallReturns, CallThrows
<1> QED BY <1>1, <1>2, <1>3, <1>4, <1>5, StepKinds

Queue == PacketsInTurn /\ PeersHavePlaces

LEMMA PacketsHaveGuids ==
  ASSUME received \in Seq(Packet), NEW k \in 1..Len(received)
  PROVE  received[k].guid \in Guids
<1>1. received[k] \in Packet
  OBVIOUS
<1> QED BY <1>1 DEF Packet

LEMMA QueueNext ==
  ASSUME TypeOK, Queue, Next
  PROVE  Queue'
<1>1. received \in Seq(Packet) /\ Len(received) \in Nat
  BY DEF TypeOK, UserIdsTypeOK
<1>2. CASE RakNetThread
  <2>1. PICK p \in Guids : AcceptLink(p) \/ LoseLink(p) \/ MessageArrives(p)
    BY <1>2 DEF RakNetThread, RakNet
  <2>2. PICK n \in Nat : n = Len(received)
    BY <1>1
  <2>3. /\ Len(received') = n + 1
        /\ \A j \in 1..n : received'[j] = received[j]
        /\ received'[n + 1].guid = p
        /\ received'[n + 1].type # "disconnect" <=> p \in links'
        /\ \A g \in Guids : \A k \in 0..n : SeenAfter(g, k)' <=> SeenAfter(g, k)
        /\ \A g \in Guids : SeenAfter(g, Len(received))' <=> g \in links'
    BY <2>1, <2>2, ArrivalSeen
  <2>4. ASSUME NEW g \in Guids, NEW k \in Nat, k = n + 1
        PROVE  SeenAfter(g, k)' <=> g \in links'
    <3>1. SeenAfter(g, Len(received))' <=> SeenAfter(g, k)'
      BY <2>3, <2>4 DEF SeenAfter, Waiting
    <3> QED BY <2>3, <3>1
  <2>5. ASSUME NEW k \in 1..Len(received')
        PROVE  SeenAfter(received[k].guid, k)' <=> received'[k].type # "disconnect"
    <3>1. CASE k \in 1..n
      <4>1. PICK g \in Guids : g = received[k].guid
        BY <1>1, <2>2, <3>1, PacketsHaveGuids
      <4>2. SeenAfter(g, k) <=> received[k].type # "disconnect"
        BY <2>2, <3>1, <4>1 DEF Queue, PacketsInTurn
      <4>3. SeenAfter(g, k)' <=> received'[k].type # "disconnect"
        BY <2>3, <3>1, <4>2
      <4>4. received'[k].guid = g
        BY <2>3, <3>1, <4>1
      <4> QED BY <4>3, <4>4 DEF SeenAfter, Waiting
    <3>2. CASE k = n + 1
      <4>1. SeenAfter(p, k)' <=> received'[k].type # "disconnect"
        BY <2>2, <2>3, <2>4, <3>2
      <4>2. received'[k].guid = p
        BY <2>3, <3>2
      <4> QED BY <4>1, <4>2 DEF SeenAfter, Waiting
    <3> QED BY <2>2, <2>3, <3>1, <3>2
  <2>6. PacketsInTurn'
    BY <2>5 DEF PacketsInTurn
  <2>7. PeersAfter(n) = links
    <3>1. links \subseteq Guids
      BY DEF TypeOK, UserIdsTypeOK
    <3>2. \A g \in Guids : Waiting(g, n) = {}
      BY <2>2 DEF Waiting
    <3> QED BY <3>1, <3>2 DEF PeersAfter, SeenAfter
  <2>8. IsFiniteSet(links) /\ Cardinality(links) <= MaxConnections
    BY <2>2, <2>7 DEF Queue, PeersHavePlaces
  <2>9. IsFiniteSet(links') /\ Cardinality(links') <= MaxConnections
    <3>1. /\ IsFiniteSet(links \cup {p}) /\ IsFiniteSet(links \ {p})
          /\ Cardinality(links) \in Nat
          /\ Cardinality(links \cup {p}) <= Cardinality(links) + 1
          /\ Cardinality(links \ {p}) <= Cardinality(links)
      <4>1. IsFiniteSet(links) /\ Cardinality(links) \in Nat
        BY <2>8, FS_CardinalityType
      <4>2. /\ IsFiniteSet(links \cup {p})
            /\ Cardinality(links \cup {p}) \in {Cardinality(links), Cardinality(links) + 1}
        BY <4>1, FS_AddElement
      <4>3. /\ IsFiniteSet(links \ {p})
            /\ Cardinality(links \ {p}) \in {Cardinality(links), Cardinality(links) - 1}
        BY <4>1, FS_RemoveElement
      <4> QED BY <4>1, <4>2, <4>3
    <3>2. \/ links' = links \cup {p} /\ Cardinality(links) < MaxConnections
          \/ links' = links \ {p}
          \/ links' = links
      BY <2>1 DEF AcceptLink, LoseLink, MessageArrives
    <3>3. CASE links' = links \cup {p} /\ Cardinality(links) < MaxConnections
      <4>1. PICK m \in Nat : m = Cardinality(links)
        BY <3>1
      <4>2. Cardinality(links') \in Nat
        BY <3>1, <3>3, FS_CardinalityType
      <4> QED BY <3>1, <3>3, <4>1, <4>2, IdFacts
    <3>4. CASE links' = links \ {p}
      <4>1. Cardinality(links') \in Nat
        BY <3>1, <3>4, FS_CardinalityType
      <4> QED BY <2>8, <3>1, <3>4, <4>1, IdFacts
    <3> QED BY <2>8, <3>2, <3>3, <3>4
  <2>10. ASSUME NEW k \in 0..Len(received')
         PROVE  IsFiniteSet(PeersAfter(k)') /\ Cardinality(PeersAfter(k)') <= MaxConnections
    <3>1. CASE k \in 0..n
      <4>1. PeersAfter(k)' = PeersAfter(k)
        BY <2>3, <3>1 DEF PeersAfter
      <4> QED BY <2>2, <3>1, <4>1 DEF Queue, PeersHavePlaces
    <3>2. CASE k = n + 1
      <4>1. links' \subseteq Guids
        BY <2>1 DEF AcceptLink, LoseLink, MessageArrives, TypeOK, UserIdsTypeOK
      <4>2. PeersAfter(k)' = links'
        BY <2>2, <2>4, <3>2, <4>1 DEF PeersAfter
      <4> QED BY <2>9, <4>2
    <3> QED BY <2>2, <2>3, <3>1, <3>2
  <2>11. PeersHavePlaces'
    BY <2>10 DEF PeersHavePlaces
  <2> QED BY <2>6, <2>11 DEF Queue
<1>3. CASE \E type \in {"connect", "disconnect", "message"} : Receives(type)
  <2>1. received # <<>> /\ received' = Tail(received) /\ UNCHANGED links
    BY <1>3 DEF Receives
  <2>2. /\ Len(received) \in Nat \ {0} /\ Len(received') = Len(received) - 1
        /\ \A j \in 1..Len(received') : received'[j] = received[j + 1]
        /\ \A g \in Guids : \A k \in 0..Len(received') :
             SeenAfter(g, k)' <=> SeenAfter(g, k + 1)
    BY <2>1, TailSeen
  <2>3. ASSUME NEW k \in 1..Len(received')
        PROVE  SeenAfter(received[k].guid, k)' <=> received'[k].type # "disconnect"
    <3>1. k + 1 \in 1..Len(received) /\ k \in 0..Len(received')
      BY <2>2
    <3>2. PICK g \in Guids : g = received[k + 1].guid
      BY <1>1, <3>1, PacketsHaveGuids
    <3>3. SeenAfter(g, k + 1) <=> received[k + 1].type # "disconnect"
      BY <3>1, <3>2 DEF Queue, PacketsInTurn
    <3>4. SeenAfter(g, k)' <=> received'[k].type # "disconnect"
      BY <2>2, <3>1, <3>3
    <3>5. received'[k].guid = g
      BY <2>2, <3>2
    <3> QED BY <3>4, <3>5 DEF SeenAfter, Waiting
  <2>4. ASSUME NEW k \in 0..Len(received')
        PROVE  IsFiniteSet(PeersAfter(k)') /\ Cardinality(PeersAfter(k)') <= MaxConnections
    <3>1. PeersAfter(k)' = PeersAfter(k + 1)
      BY <2>2 DEF PeersAfter
    <3>2. k + 1 \in 0..Len(received)
      BY <2>2
    <3> QED BY <3>1, <3>2 DEF Queue, PeersHavePlaces
  <2> QED BY <2>3, <2>4 DEF Queue, PacketsInTurn, PeersHavePlaces
<1>4. CASE UNCHANGED rakNetVars
  <2>1. received' = received
    BY <1>4 DEF rakNetVars
  <2>2. PacketsInTurn'
    <3>1. ASSUME NEW k \in 1..Len(received)
          PROVE  SeenAfter(received[k].guid, k)' <=> received[k].type # "disconnect"
      <4>1. PICK g : g = received[k].guid
        OBVIOUS
      <4>2. SeenAfter(g, k)' <=> received[k].type # "disconnect"
        BY <1>4, <4>1, SeenKept DEF Queue, PacketsInTurn
      <4> QED BY <2>1, <4>1, <4>2 DEF SeenAfter, Waiting
    <3> QED BY <2>1, <3>1 DEF PacketsInTurn
  <2>3. \A k \in 0..Len(received) : PeersAfter(k)' = PeersAfter(k)
    BY <1>4, SeenKept DEF PeersAfter
  <2> QED BY <2>1, <2>2, <2>3 DEF Queue, PeersHavePlaces
<1> QED BY <1>2, <1>3, <1>4, QueueSteps

-----------------------------------------------------------------------------
(* Peers and their slots.                                                   *)

Peers == SlotsInUse /\ PeersOfSlots /\ UsersAreSeen /\ SlotsOfPeers

\* What Peers says depends on the slots, their routes and the peers that are connected.
LEMMA PeersKept ==
  ASSUME TypeOK, Peers,
         UNCHANGED <<guidById, idByGuid, nextId, leaked, everRejected>>,
         \A i \in Ids : Routed(i)' <=> Routed(i),
         \A i \in Ids : Closing(i)' <=> Closing(i),
         Running' => Running /\ \A g \in Guids : SeenConnected(g)' <=> SeenConnected(g)
  PROVE  Peers'
<1> /\ guidById \in [Ids -> Guids \cup {NoGuid}]
    /\ idByGuid \in [Guids -> Ids \cup {InvalidUserId}]
    /\ leaked \in SUBSET Ids
  BY DEF TypeOK, UserIdsTypeOK
<1>1. SlotsInUse' /\ PeersOfSlots'
  <2>1. SlotsInUse'
    BY Zenon DEF Peers, SlotsInUse
  <2>2. PeersOfSlots'
    BY Zenon DEF Peers, PeersOfSlots
  <2> QED BY <2>1, <2>2
<1>2. UsersAreSeen'
  <2>1. ASSUME Running', NEW i \in Ids, Routed(i)' PROVE SeenConnected(guidById[i])'
    <3>1. Routed(i) /\ SeenConnected(guidById[i])
      BY <2>1 DEF Peers, UsersAreSeen
    <3>2. PICK g \in Guids : g = guidById[i]
      BY <3>1, IdFacts DEF Peers, SlotsInUse
    <3>3. SeenConnected(g)'
      BY <2>1, <3>1, <3>2
    <3> QED BY <3>2, <3>3 DEF SeenConnected, SeenAfter, Waiting
  <2> QED BY <2>1 DEF UsersAreSeen
<1>3. SlotsOfPeers'
  <2>1. ASSUME ~everRejected, Running', NEW g \in Guids, SeenConnected(g)'
        PROVE  idByGuid[g] # InvalidUserId /\ Routed(idByGuid[g])'
    <3>1. idByGuid[g] # InvalidUserId /\ Routed(idByGuid[g])
      BY <2>1 DEF Peers, SlotsOfPeers
    <3>2. PICK i \in Ids : i = idByGuid[g]
      BY <3>1
    <3>3. Routed(i)'
      BY <3>1, <3>2
    <3> QED BY <3>1, <3>2, <3>3 DEF Routed
  <2>2. ASSUME ~everRejected', Running', NEW g \in Guids, SeenConnected(g)'
        PROVE  idByGuid'[g] # InvalidUserId /\ Routed(idByGuid[g])'
    BY <2>1, <2>2
  <2>3. ASSUME ~everRejected', NEW g \in Guids, idByGuid'[g] # InvalidUserId
        PROVE  guidById'[idByGuid'[g]] = g
    BY <2>3 DEF Peers, SlotsOfPeers
  <2> QED BY <2>2, <2>3 DEF SlotsOfPeers
<1> QED BY <1>1, <1>2, <1>3 DEF Peers
\* Steps that start or end no session of a peer.
LEMMA PeersKeptByRoutes ==
  ASSUME TypeOK, Peers, Running,
         UNCHANGED <<guidById, idByGuid, nextId, leaked, everRejected, combinedIdByReal>>,
         \A i \in Ids : Closing(i)' <=> Closing(i),
         Running' => \A g \in Guids : SeenConnected(g)' <=> SeenConnected(g)
  PROVE  Peers'
<1>1. \A i \in Ids : Routed(i)' <=> Routed(i)
  BY DEF Routed
<1> QED BY <1>1, PeersKept

LEMMA PeersKeptByBot ==
  ASSUME TypeOK, Peers, Running, rakNetVars' = rakNetVars,
         UNCHANGED <<idManagerVars, leaked, everRejected>>,
         \A i \in Ids : combinedIdByReal'[<<0, i>>] = combinedIdByReal[<<0, i>>],
         \A i \in Ids : ~Closing(i) /\ ~Closing(i)'
  PROVE  Peers'
<1>1. \A i \in Ids : Routed(i)' <=> Routed(i)
  BY DEF Routed
<1>2. \A g \in Guids : SeenConnected(g)' <=> SeenConnected(g)
  BY SeenKept DEF SeenConnected
<1> QED BY <1>1, <1>2, PeersKept DEF idManagerVars

LEMMA QuietPeers ==
  ASSUME Inv, Peers, Running, Quiet
  PROVE  Peers'
<1>1. TypeOK
  BY DEF Inv
<1>2. UNCHANGED <<guidById, idByGuid, nextId, leaked, everRejected, combinedIdByReal, call>>
  BY DEF Quiet, idManagerVars, combinedVars
<1>3. ASSUME NEW g \in Guids PROVE SeenConnected(g)' <=> SeenConnected(g)
  <2>1. CASE RakNetThread
    <3>1. PICK p \in Guids : AcceptLink(p) \/ LoseLink(p) \/ MessageArrives(p)
      BY <2>1 DEF RakNetThread, RakNet
    <3>2. Len(received) \in Nat
      BY <1>1 DEF TypeOK, UserIdsTypeOK
    <3> QED BY <1>1, <3>1, <3>2, ArrivalSeen DEF SeenConnected
  <2>2. CASE UNCHANGED rakNetVars
    BY <2>2, SeenKept DEF SeenConnected
  <2> QED BY <2>1, <2>2 DEF Quiet
<1>4. \A i \in Ids : Closing(i)' <=> Closing(i)
  BY <1>2 DEF Closing
<1> QED BY <1>1, <1>2, <1>3, <1>4, PeersKeptByRoutes

\* A new peer is given a slot that is not in use, nor lost.
LEMMA PeerConnectsPeers ==
  ASSUME Inv, PacketsInTurn, Peers, Running, PeerConnects
  PROVE  Peers'
<1>1. /\ guidById \in [Ids -> Guids \cup {NoGuid}]
      /\ idByGuid \in [Guids -> Ids \cup {InvalidUserId}]
      /\ nextId \in 0..MaxConnections /\ leaked \in SUBSET Ids
      /\ combinedIdByReal \in [RealIds -> UserIds \cup {InvalidUserId}]
      /\ TypeOK
  BY DEF Inv, TypeOK, UserIdsTypeOK
<1>2. /\ Receives("connect") /\ ~Full /\ AllocateId(Sender)
      /\ CombinedConnect(<<0, nextId>>, Sender)
      /\ UNCHANGED <<leaked, everRejected>>
  BY DEF PeerConnects, ReceiveConnection
<1>3. PICK p \in Guids : p = Sender
  BY <1>1, <1>2, ReceivedSeen
<1>4. PICK s \in Ids : s = nextId
  BY <1>1, <1>2, IdFacts DEF Full, Ids
<1>5. /\ guidById' = [guidById EXCEPT ![s] = p]
      /\ idByGuid' = [idByGuid EXCEPT ![p] = s]
      /\ nextId' = NextFree(s + 1)
  BY <1>2, <1>3, <1>4 DEF AllocateId
<1>6. /\ ~SeenConnected(p)
      /\ \A g \in Guids : SeenConnected(g)' <=> g = p \/ SeenConnected(g)
  BY <1>1, <1>2, <1>3, ReceivedSeen
<1>7. /\ guidById[s] = NoGuid /\ combinedIdByReal[<<0, s>>] = InvalidUserId
      /\ <<0, s>> \in RealIds
  BY <1>1, <1>2, <1>4, IdFacts DEF Full, Inv, NextIsFree, FreeSlotsUnrouted
<1>8. PICK u \in UserIds : u = NewUserId
  BY <1>7, NewUserIdIsFree DEF Inv
<1>9. /\ combinedIdByReal' = [combinedIdByReal EXCEPT ![<<0, s>>] = u]
      /\ call'.type = "connect" /\ call = NoCall
  BY <1>2, <1>3, <1>4, <1>8 DEF CombinedConnect, Receives
<1>10. /\ \A i \in Ids : ~Closing(i) /\ ~Closing(i)'
       /\ \A i \in Ids : Routed(i)' <=> i = s \/ Routed(i)
       /\ ~Routed(s)
  BY <1>1, <1>7, <1>9, IdFacts DEF Closing, Routed, NoCall
<1>11. /\ guidById'[s] = p /\ \A i \in Ids : i # s => guidById'[i] = guidById[i]
       /\ idByGuid'[p] = s /\ \A g \in Guids : g # p => idByGuid'[g] = idByGuid[g]
       /\ p # NoGuid
  BY <1>1, <1>5, IdFacts
<1>12. /\ \A i \in Ids : guidById[i] # NoGuid <=> Routed(i) \/ i \in leaked
       /\ \A i \in leaked : ~Routed(i)
       /\ \A i \in Ids : i < s => guidById[i] # NoGuid
       /\ s \notin leaked
  BY <1>4, <1>7, <1>10 DEF Peers, SlotsInUse
<1>13. SlotsInUse'
  <2>1. ASSUME NEW i \in Ids, i < nextId' PROVE guidById'[i] # NoGuid
    <3>1. s + 1 \in 0..MaxConnections /\ s + 1 \in Nat
      BY IdFacts DEF Ids
    <3>2. /\ NextFree(s + 1) \in (s + 1)..MaxConnections
          /\ \A m \in (s + 1)..(NextFree(s + 1) - 1) : guidById[m] # NoGuid
      BY <1>1, <3>1, NextFreeIsFree
    <3>3. i < s \/ i = s \/ i \in (s + 1)..(NextFree(s + 1) - 1)
      BY <1>5, <2>1, <3>2, IdFacts
    <3> QED BY <1>11, <1>12, <3>2, <3>3
  <2>2. \A i \in Ids : guidById'[i] # NoGuid <=> Routed(i)' \/ Closing(i)' \/ i \in leaked'
    BY <1>2, <1>10, <1>11, <1>12
  <2>3. \A i \in leaked' : ~Routed(i)' /\ ~Closing(i)'
    BY <1>1, <1>2, <1>10, <1>12
  <2> QED BY <2>1, <2>2, <2>3 DEF SlotsInUse
<1>14. ASSUME NEW i \in Ids, Routed(i), i # s
       PROVE  /\ guidById[i] \in Guids /\ guidById[i] # p /\ SeenConnected(guidById[i])
              /\ idByGuid[guidById[i]] = i /\ guidById'[i] = guidById[i]
  <2>1. SeenConnected(guidById[i]) /\ idByGuid[guidById[i]] = i
    BY <1>14 DEF Peers, UsersAreSeen, PeersOfSlots
  <2>2. guidById[i] \in Guids
    BY <1>1, <1>12, <1>14
  <2> QED BY <1>6, <1>11, <1>14, <2>1, <2>2
<1>15. PeersOfSlots'
  <2>1. ASSUME NEW i \in Ids, Routed(i)' PROVE idByGuid'[guidById'[i]] = i
    BY <1>10, <1>11, <1>14, <2>1
  <2> QED BY <1>10, <2>1 DEF PeersOfSlots
<1>16. UsersAreSeen'
  <2>1. ASSUME NEW i \in Ids, Routed(i)' PROVE SeenConnected(guidById[i])'
    <3>1. PICK g \in Guids : g = guidById'[i] /\ (g = p \/ SeenConnected(g))
      <4>1. CASE i = s
        BY <1>11, <4>1
      <4>2. CASE i # s
        BY <1>10, <1>14, <2>1, <4>2
      <4> QED BY <4>1, <4>2
    <3>2. SeenConnected(g)'
      BY <1>6, <3>1
    <3> QED BY <3>1, <3>2 DEF SeenConnected, SeenAfter, Waiting
  <2> QED BY <2>1 DEF UsersAreSeen
<1>17. SlotsOfPeers'
  <2>1. ASSUME ~everRejected, NEW g \in Guids, idByGuid'[g] # InvalidUserId
        PROVE  guidById'[idByGuid'[g]] = g
    <3>1. CASE g = p
      BY <1>11, <3>1
    <3>2. CASE g # p
      <4>1. PICK i \in Ids : i = idByGuid[g] /\ guidById[i] = g
        BY <1>1, <1>11, <2>1, <3>2 DEF Peers, SlotsOfPeers
      <4>2. i # s
        BY <1>7, <4>1, IdFacts
      <4> QED BY <1>11, <3>2, <4>1, <4>2
    <3> QED BY <3>1, <3>2
  <2>2. ASSUME ~everRejected, NEW g \in Guids, SeenConnected(g)'
        PROVE  idByGuid'[g] # InvalidUserId /\ Routed(idByGuid[g])'
    <3>1. PICK i \in Ids : i = idByGuid'[g] /\ Routed(i)'
      <4>1. CASE g = p
        BY <1>10, <1>11, <4>1
      <4>2. CASE g # p
        <5>1. idByGuid[g] # InvalidUserId /\ Routed(idByGuid[g])
          BY <1>6, <2>2, <4>2 DEF Peers, SlotsOfPeers
        <5> QED BY <1>1, <1>10, <1>11, <4>2, <5>1
      <4> QED BY <4>1, <4>2
    <3> QED BY <3>1, IdFacts DEF Routed
  <2> QED BY <1>2, <2>1, <2>2 DEF SlotsOfPeers
<1> QED BY <1>13, <1>15, <1>16, <1>17 DEF Peers
\* A packet that is refused: the peer of a connection has no user whose slot it could take,
\* and the peer of an unknown disconnection has none that it could leave behind.
LEMMA RejectPeers ==
  ASSUME Inv, PacketsInTurn, Peers, Running,
         \/ ReceiveConnectionFull
         \/ ReceiveUnknownDisconnection
         \/ ReceiveDisconnectionTerminates
  PROVE  Peers'
<1>1. /\ guidById \in [Ids -> Guids \cup {NoGuid}]
      /\ idByGuid \in [Guids -> Ids \cup {InvalidUserId}]
      /\ TypeOK
  BY DEF Inv, TypeOK, UserIdsTypeOK
<1>2. call = NoCall /\ UNCHANGED <<combinedIdByReal, call, guidById, nextId, leaked>>
  BY DEF ReceiveConnectionFull, ReceiveUnknownDisconnection, ReceiveDisconnectionTerminates,
         Receives, AllocateIdFails, CombinedDisconnectTerminates, combinedVars, idManagerVars
<1>3. /\ \A i \in Ids : ~Closing(i) /\ ~Closing(i)'
      /\ \A i \in Ids : Routed(i)' <=> Routed(i)
  BY <1>2 DEF Closing, Routed, NoCall
<1>4. ASSUME NEW i \in Ids, Routed(i)
      PROVE  /\ guidById[i] \in Guids /\ SeenConnected(guidById[i])
             /\ idByGuid[guidById[i]] = i
  BY <1>1, <1>4 DEF Peers, SlotsInUse, UsersAreSeen, PeersOfSlots
<1>5. CASE ReceiveConnectionFull
  <2>1. PICK p \in Guids : p = Sender
    BY <1>1, <1>5, ReceivedSeen DEF ReceiveConnectionFull
  <2>2. /\ ~SeenConnected(p)
        /\ \A g \in Guids : SeenConnected(g)' <=> g = p \/ SeenConnected(g)
    BY <1>1, <1>5, <2>1, ReceivedSeen DEF ReceiveConnectionFull
  <2>3. everRejected' = TRUE /\ \A g \in Guids : g # p => idByGuid'[g] = idByGuid[g]
    BY <1>1, <1>5, <2>1 DEF ReceiveConnectionFull, AllocateIdFails
  <2>4. SlotsInUse'
    BY <1>1, <1>2, <1>3 DEF Peers, SlotsInUse, TypeOK, UserIdsTypeOK
  <2>5. PeersOfSlots'
    BY <1>2, <1>3, <1>4, <2>2, <2>3 DEF PeersOfSlots
  <2>6. UsersAreSeen'
    <3>1. ASSUME NEW i \in Ids, Routed(i)' PROVE SeenConnected(guidById[i])'
      <4>1. PICK g \in Guids : g = guidById[i] /\ SeenConnected(g)
        BY <1>3, <1>4, <3>1
      <4>2. SeenConnected(g)'
        BY <2>2, <4>1
      <4> QED BY <1>2, <4>1, <4>2 DEF SeenConnected, SeenAfter, Waiting
    <3> QED BY <3>1 DEF UsersAreSeen
  <2>7. SlotsOfPeers'
    BY <2>3 DEF SlotsOfPeers
  <2> QED BY <2>4, <2>5, <2>6, <2>7 DEF Peers
<1>6. CASE ReceiveUnknownDisconnection
  <2>1. PICK p \in Guids : p = Sender
    BY <1>1, <1>6, ReceivedSeen DEF ReceiveUnknownDisconnection
  <2>2. \A g \in Guids : SeenConnected(g)' <=> g # p /\ SeenConnected(g)
    BY <1>1, <1>6, <2>1, ReceivedSeen DEF ReceiveUnknownDisconnection
  <2>3. idByGuid[p] = InvalidUserId /\ UNCHANGED <<idByGuid, everRejected>>
    BY <1>6, <2>1 DEF ReceiveUnknownDisconnection, idManagerVars
  <2>4. SlotsInUse' /\ PeersOfSlots'
    <3>1. SlotsInUse'
      BY <1>1, <1>2, <1>3 DEF Peers, SlotsInUse, TypeOK, UserIdsTypeOK
    <3>2. PeersOfSlots'
      BY <1>2, <1>3, <1>4, <2>3 DEF PeersOfSlots
    <3> QED BY <3>1, <3>2
  <2>5. UsersAreSeen'
    <3>1. ASSUME NEW i \in Ids, Routed(i)' PROVE SeenConnected(guidById[i])'
      <4>1. PICK g \in Guids : g = guidById[i] /\ SeenConnected(g) /\ idByGuid[g] = i
        BY <1>3, <1>4, <3>1
      <4>2. SeenConnected(g)'
        BY <2>2, <2>3, <4>1, IdFacts
      <4> QED BY <1>2, <4>1, <4>2 DEF SeenConnected, SeenAfter, Waiting
    <3> QED BY <3>1 DEF UsersAreSeen
  <2>6. SlotsOfPeers'
    <3>1. ASSUME ~everRejected, NEW g \in Guids, SeenConnected(g)'
          PROVE  idByGuid'[g] # InvalidUserId /\ Routed(idByGuid[g])'
      <4>1. idByGuid[g] # InvalidUserId /\ Routed(idByGuid[g])
        BY <2>2, <3>1 DEF Peers, SlotsOfPeers
      <4>2. PICK i \in Ids : i = idByGuid[g]
        BY <1>1, <4>1
      <4>3. Routed(i)'
        BY <1>3, <4>1, <4>2
      <4> QED BY <2>3, <4>1, <4>2, <4>3 DEF Routed
    <3>2. ASSUME ~everRejected, NEW g \in Guids, idByGuid'[g] # InvalidUserId
          PROVE  guidById'[idByGuid'[g]] = g
      BY <1>2, <2>3, <3>2 DEF Peers, SlotsOfPeers
    <3> QED BY <2>3, <3>1, <3>2 DEF SlotsOfPeers
  <2> QED BY <2>4, <2>5, <2>6 DEF Peers
<1>7. CASE ReceiveDisconnectionTerminates
  <2>1. ~Running' /\ UNCHANGED <<idByGuid, everRejected>>
    BY <1>7 DEF ReceiveDisconnectionTerminates, CombinedDisconnectTerminates, Running,
       idManagerVars
  <2> QED BY <1>1, <1>2, <1>3, <2>1, PeersKeptByRoutes
<1> QED BY <1>5, <1>6, <1>7

\* The slot of a peer that leaves stays in use until the call is over.
LEMMA PeerDisconnectsPeers ==
  ASSUME Inv, PacketsInTurn, Peers, Running, PeerDisconnects
  PROVE  Peers'
<1>1. /\ guidById \in [Ids -> Guids \cup {NoGuid}]
      /\ idByGuid \in [Guids -> Ids \cup {InvalidUserId}]
      /\ combinedIdByReal \in [RealIds -> UserIds \cup {InvalidUserId}]
      /\ usedIds \in SUBSET UserIds /\ leaked \in SUBSET Ids
      /\ TypeOK
  BY DEF Inv, TypeOK, UserIdsTypeOK
<1>2. /\ Receives("disconnect") /\ idByGuid[Sender] # InvalidUserId
      /\ CombinedDisconnect(<<0, idByGuid[Sender]>>, Sender)
      /\ UNCHANGED <<guidById, idByGuid, nextId, leaked, everRejected>>
  BY DEF PeerDisconnects, ReceiveDisconnection, idManagerVars
<1>3. PICK p \in Guids : p = Sender
  BY <1>1, <1>2, ReceivedSeen
<1>4. PICK s \in Ids : s = idByGuid[p]
  BY <1>1, <1>2, <1>3
<1>5. /\ combinedIdByReal' = [combinedIdByReal EXCEPT ![<<0, s>>] = InvalidUserId]
      /\ combinedIdByReal[<<0, s>>] \in usedIds
      /\ call'.type = "disconnect" /\ call'.real = <<0, s>> /\ call = NoCall
  BY <1>2, <1>3, <1>4 DEF CombinedDisconnect, Receives
<1>6. \A g \in Guids : SeenConnected(g)' <=> g # p /\ SeenConnected(g)
  BY <1>1, <1>2, <1>3, ReceivedSeen
<1>7. /\ Routed(s) /\ \A i \in Ids : Routed(i)' <=> i # s /\ Routed(i)
      /\ \A i \in Ids : ~Closing(i) /\ (Closing(i)' <=> i = s)
  <2>1. Routed(s)
    BY <1>1, <1>5, IdFacts DEF Routed
  <2>2. ASSUME NEW i \in Ids PROVE Routed(i)' <=> i # s /\ Routed(i)
    <3>1. <<0, i>> \in RealIds /\ (<<0, i>> = <<0, s>> <=> i = s)
      BY IdFacts
    <3> QED BY <1>1, <1>5, <3>1 DEF Routed
  <2>3. ASSUME NEW i \in Ids PROVE ~Closing(i) /\ (Closing(i)' <=> i = s)
    BY <1>5 DEF Closing, NoCall
  <2> QED BY <2>1, <2>2, <2>3
<1>8. ASSUME NEW i \in Ids, Routed(i)
      PROVE  /\ guidById[i] \in Guids /\ SeenConnected(guidById[i])
             /\ idByGuid[guidById[i]] = i
  BY <1>1, <1>8 DEF Peers, SlotsInUse, UsersAreSeen, PeersOfSlots
<1>9. SlotsInUse'
  <2>1. /\ \A i \in Ids : guidById[i] # NoGuid <=> Routed(i) \/ i \in leaked
        /\ \A i \in leaked : ~Routed(i)
        /\ \A i \in Ids : i < nextId => guidById[i] # NoGuid
        /\ s \notin leaked
    BY <1>7 DEF Peers, SlotsInUse
  <2> QED BY <1>1, <1>2, <1>7, <2>1 DEF SlotsInUse
<1>10. PeersOfSlots'
  BY <1>2, <1>7, <1>8 DEF PeersOfSlots
<1>11. UsersAreSeen'
  <2>1. ASSUME NEW i \in Ids, Routed(i)' PROVE SeenConnected(guidById[i])'
    <3>1. PICK g \in Guids : g = guidById[i] /\ SeenConnected(g) /\ idByGuid[g] = i
      BY <1>7, <1>8, <2>1
    <3>2. SeenConnected(g)'
      BY <1>4, <1>6, <1>7, <2>1, <3>1
    <3> QED BY <1>2, <3>1, <3>2 DEF SeenConnected, SeenAfter, Waiting
  <2> QED BY <2>1 DEF UsersAreSeen
<1>12. SlotsOfPeers'
  <2>1. ASSUME ~everRejected, NEW g \in Guids, SeenConnected(g)'
        PROVE  idByGuid'[g] # InvalidUserId /\ Routed(idByGuid[g])'
    <3>1. idByGuid[g] # InvalidUserId /\ Routed(idByGuid[g]) /\ g # p
      BY <1>6, <2>1 DEF Peers, SlotsOfPeers
    <3>2. PICK i \in Ids : i = idByGuid[g] /\ guidById[i] = g
      BY <1>1, <2>1, <3>1 DEF Peers, SlotsOfPeers
    <3>3. guidById[s] = p
      BY <1>4, <2>1, IdFacts DEF Peers, SlotsOfPeers
    <3>4. Routed(i)'
      BY <1>7, <3>1, <3>2, <3>3
    <3> QED BY <1>2, <3>1, <3>2, <3>4 DEF Routed
  <2>2. ASSUME ~everRejected, NEW g \in Guids, idByGuid'[g] # InvalidUserId
        PROVE  guidById'[idByGuid'[g]] = g
    BY <1>2, <2>2 DEF Peers, SlotsOfPeers
  <2> QED BY <1>2, <2>1, <2>2 DEF SlotsOfPeers
<1> QED BY <1>9, <1>10, <1>11, <1>12 DEF Peers

LEMMA ReceiveMessagePeers ==
  ASSUME Inv, PacketsInTurn, Peers, Running, ReceiveMessage
  PROVE  Peers'
<1>1. Receives("message") /\ TypeOK
  BY DEF ReceiveMessage, Inv
<1>2. UNCHANGED <<guidById, idByGuid, nextId, leaked, everRejected, combinedIdByReal>>
  BY DEF ReceiveMessage, CombinedMessage, combinedVars, idManagerVars
<1>3. call = NoCall /\ call'.type = "message"
  BY DEF ReceiveMessage, CombinedMessage, Receives
<1>4. \A i \in Ids : Closing(i)' <=> Closing(i)
  BY <1>3 DEF Closing, NoCall
<1>5. \A g \in Guids : SeenConnected(g)' <=> SeenConnected(g)
  BY <1>1, ReceivedSeen
<1> QED BY <1>1, <1>2, <1>4, <1>5, PeersKeptByRoutes

\* The slot of a peer that left is free when the callback returns, and lost when it throws.
LEMMA HandlerEndsPeers ==
  ASSUME Inv, Peers, Running, HandlerReturns \/ HandlerThrows
  PROVE  Peers'
<1>1. /\ guidById \in [Ids -> Guids \cup {NoGuid}]
      /\ idByGuid \in [Guids -> Ids \cup {InvalidUserId}]
      /\ leaked \in SUBSET Ids /\ nextId \in 0..MaxConnections
      /\ TypeOK
  BY DEF Inv, TypeOK, UserIdsTypeOK
<1>2. call' = NoCall /\ UNCHANGED <<rakNetVars, combinedIdByReal, everRejected>>
  BY DEF HandlerReturns, HandlerThrows, CallReturns, CallThrows, combinedVars
<1>3. \A g \in Guids : SeenConnected(g)' <=> SeenConnected(g)
  BY <1>2, SeenKept DEF SeenConnected
<1>4. \A i \in Ids : ~Closing(i)' /\ (Routed(i)' <=> Routed(i))
  BY <1>2 DEF Closing, Routed, NoCall
<1>5. CASE ~(call.type = "disconnect" /\ call.real[1] = 0)
  <2>1. UNCHANGED <<guidById, idByGuid, nextId, leaked>>
    BY <1>5 DEF HandlerReturns, HandlerThrows, CallReturns, CallThrows, idManagerVars
  <2>2. \A i \in Ids : ~Closing(i)
    BY <1>5 DEF Closing
  <2> QED BY <1>1, <1>2, <1>3, <1>4, <2>1, <2>2, PeersKeptByRoutes
<1>6. CASE call.type = "disconnect" /\ call.real[1] = 0
  <2>1. PICK s \in Ids : call.real = <<0, s>> /\ s = call.real[2]
    BY <1>6, IdFacts DEF Inv, DisconnectingUnrouted
  <2>2. Closing(s) /\ ~Routed(s) /\ \A i \in Ids : Closing(i) => i = s
    BY <1>6, <2>1 DEF Closing, Routed, Inv, DisconnectingUnrouted
  <2>3. /\ \A i \in Ids : guidById[i] # NoGuid <=> Routed(i) \/ i = s \/ i \in leaked
        /\ \A i \in leaked : ~Routed(i) /\ i # s
        /\ \A i \in Ids : i < nextId => guidById[i] # NoGuid
    BY <1>1, <2>2 DEF Peers, SlotsInUse
  <2>4. PICK p \in Guids : p = guidById[s] /\ idByGuid[p] = s
    BY <1>1, <2>2, <2>3 DEF Peers, PeersOfSlots
  <2>5. ASSUME NEW i \in Ids, Routed(i)
        PROVE  /\ guidById[i] \in Guids /\ guidById[i] # p /\ SeenConnected(guidById[i])
               /\ idByGuid[guidById[i]] = i /\ i # s
    <3>1. idByGuid[guidById[i]] = i /\ SeenConnected(guidById[i])
      BY <2>5 DEF Peers, UsersAreSeen, PeersOfSlots
    <3> QED BY <1>1, <2>2, <2>3, <2>4, <2>5, <3>1
  <2>6. CASE HandlerThrows
    <3>1. UNCHANGED <<guidById, idByGuid, nextId>> /\ leaked' = leaked \cup {s}
      BY <1>6, <2>1, <2>6 DEF HandlerThrows, CallThrows, idManagerVars
    <3>2. SlotsInUse'
      BY <1>1, <1>4, <2>2, <2>3, <3>1 DEF SlotsInUse
    <3>3. PeersOfSlots'
      BY <1>4, <2>5, <3>1 DEF PeersOfSlots
    <3>4. UsersAreSeen'
      <4>1. ASSUME NEW i \in Ids, Routed(i)' PROVE SeenConnected(guidById[i])'
        <5>1. PICK g \in Guids : g = guidById[i] /\ SeenConnected(g)
          BY <1>4, <2>5, <4>1
        <5>2. SeenConnected(g)'
          BY <1>3, <5>1
        <5> QED BY <3>1, <5>1, <5>2 DEF SeenConnected, SeenAfter, Waiting
      <4> QED BY <4>1 DEF UsersAreSeen
    <3>5. SlotsOfPeers'
      <4>1. ASSUME ~everRejected, NEW g \in Guids, SeenConnected(g)'
            PROVE  idByGuid'[g] # InvalidUserId /\ Routed(idByGuid[g])'
        <5>1. idByGuid[g] # InvalidUserId /\ Routed(idByGuid[g])
          BY <1>3, <4>1 DEF Peers, SlotsOfPeers
        <5>2. PICK i \in Ids : i = idByGuid[g]
          BY <1>1, <5>1
        <5> QED BY <1>4, <3>1, <5>1, <5>2 DEF Routed
      <4>2. ASSUME ~everRejected, NEW g \in Guids, idByGuid'[g] # InvalidUserId
            PROVE  guidById'[idByGuid'[g]] = g
        BY <3>1, <4>2 DEF Peers, SlotsOfPeers
      <4> QED BY <1>2, <4>1, <4>2 DEF SlotsOfPeers
    <3> QED BY <3>2, <3>3, <3>4, <3>5 DEF Peers
  <2>7. CASE HandlerReturns
    <3>1. /\ guidById' = [guidById EXCEPT ![s] = NoGuid]
          /\ idByGuid' = [g \in Guids |-> IF g = p THEN InvalidUserId ELSE idByGuid[g]]
          /\ nextId' = IF s < nextId THEN s ELSE nextId
          /\ leaked' = leaked \ {s}
      BY <1>6, <2>1, <2>4, <2>7 DEF HandlerReturns, CallReturns, FreeId
    <3>2. /\ guidById'[s] = NoGuid /\ \A i \in Ids : i # s => guidById'[i] = guidById[i]
          /\ idByGuid'[p] = InvalidUserId
          /\ \A g \in Guids : g # p => idByGuid'[g] = idByGuid[g]
      BY <1>1, <3>1
    <3>3. SlotsInUse'
      <4>1. ASSUME NEW i \in Ids, i < nextId' PROVE guidById'[i] # NoGuid
        <5>1. i < nextId /\ i # s
          BY <1>1, <3>1, <4>1, IdFacts
        <5> QED BY <2>3, <3>2, <5>1
      <4>2. \A i \in Ids : guidById'[i] # NoGuid <=> Routed(i)' \/ i \in leaked'
        BY <1>4, <2>2, <2>3, <3>1, <3>2
      <4> QED BY <1>1, <1>4, <2>3, <3>1, <4>1, <4>2 DEF SlotsInUse
    <3>4. PeersOfSlots'
      BY <1>4, <2>5, <3>2 DEF PeersOfSlots
    <3>5. UsersAreSeen'
      <4>1. ASSUME NEW i \in Ids, Routed(i)' PROVE SeenConnected(guidById[i])'
        <5>1. PICK g \in Guids : g = guidById'[i] /\ SeenConnected(g)
          BY <1>4, <2>5, <3>2, <4>1
        <5>2. SeenConnected(g)'
          BY <1>3, <5>1
        <5> QED BY <5>1, <5>2 DEF SeenConnected, SeenAfter, Waiting
      <4> QED BY <4>1 DEF UsersAreSeen
    <3>6. SlotsOfPeers'
      <4>1. ASSUME ~everRejected, NEW g \in Guids, SeenConnected(g)'
            PROVE  idByGuid'[g] # InvalidUserId /\ Routed(idByGuid[g])'
        <5>1. idByGuid[g] # InvalidUserId /\ Routed(idByGuid[g])
          BY <1>3, <4>1 DEF Peers, SlotsOfPeers
        <5>2. g # p
          BY <2>2, <2>4, <5>1
        <5>3. PICK i \in Ids : i = idByGuid'[g] /\ Routed(i)'
          BY <1>1, <1>4, <3>2, <5>1, <5>2
        <5> QED BY <5>3, IdFacts DEF Routed
      <4>2. ASSUME ~everRejected, NEW g \in Guids, idByGuid'[g] # InvalidUserId
            PROVE  guidById'[idByGuid'[g]] = g
        <5>1. g # p
          BY <3>2, <4>2
        <5>2. PICK i \in Ids : i = idByGuid[g] /\ guidById[i] = g
          BY <1>1, <3>2, <4>2, <5>1 DEF Peers, SlotsOfPeers
        <5>3. i # s
          BY <2>4, <5>1, <5>2
        <5> QED BY <3>2, <5>1, <5>2, <5>3
      <4> QED BY <1>2, <4>1, <4>2 DEF SlotsOfPeers
    <3> QED BY <3>3, <3>4, <3>5, <3>6 DEF Peers
  <2> QED BY <2>6, <2>7
<1> QED BY <1>5, <1>6
\* The slots of bots are none of peers.
LEMMA BotPeers ==
  ASSUME Inv, Peers, Running,
         BotConnects \/ BotDisconnects \/ TakeBotMessage \/ TakeBotDisconnectionTerminates
  PROVE  Peers'
<1>1. PICK type \in {"connect", "disconnect", "message"} : TakesBotPacket(type)
  BY DEF BotConnects, BotDisconnects, TakeBotConnection, TakeBotDisconnection,
         TakeBotMessage, TakeBotDisconnectionTerminates
<1>2. /\ call = NoCall /\ rakNetVars' = rakNetVars
      /\ UNCHANGED <<idManagerVars, leaked, everRejected>>
  BY <1>1 DEF TakesBotPacket, historyVars
<1>3. BotSlot[1] = 1 /\ \A i \in Ids : <<0, i>> # BotSlot /\ <<0, i>> # NoReal
  BY IdFacts DEF BotSlot, NoReal
<1>4. combinedIdByReal \in [RealIds -> UserIds \cup {InvalidUserId}] /\ TypeOK
  BY DEF Inv, TypeOK, UserIdsTypeOK
<1>5. PICK u : \/ combinedIdByReal' = [combinedIdByReal EXCEPT ![BotSlot] = u]
               \/ combinedIdByReal' = combinedIdByReal
  BY DEF BotConnects, BotDisconnects, TakeBotConnection, TakeBotDisconnection,
         TakeBotMessage, TakeBotDisconnectionTerminates, CombinedConnect, CombinedMessage,
         CombinedDisconnect, CombinedDisconnectTerminates, combinedVars
<1>6. \A i \in Ids : combinedIdByReal'[<<0, i>>] = combinedIdByReal[<<0, i>>]
  BY <1>3, <1>4, <1>5, IdFacts
<1>7. call'.real \in {BotSlot, NoReal}
  BY <1>2 DEF BotConnects, BotDisconnects, TakeBotConnection, TakeBotDisconnection,
         TakeBotMessage, TakeBotDisconnectionTerminates, CombinedConnect, CombinedMessage,
         CombinedDisconnect, CombinedDisconnectTerminates, NoCall
<1>8. \A i \in Ids : ~Closing(i) /\ ~Closing(i)'
  BY <1>2, <1>3, <1>7 DEF Closing, NoCall
<1> QED BY <1>2, <1>4, <1>6, <1>8, PeersKeptByBot

LEMMA PeersNext ==
  ASSUME Inv, PacketsInTurn, Peers, Next
  PROVE  Peers'
<1>1. Running
  BY StepKinds
<1>2. CASE \/ RakNetThread
           \/ TickSteps /\ UNCHANGED <<stateVars, worldVars>>
           \/ TickDeferredMessages
           \/ Js
  BY <1>1, <1>2, QuietSteps, QuietPeers DEF Inv
<1>3. CASE ConnectsOutOfBounds
  <2>1. /\ UNCHANGED <<idManagerVars, combinedIdByReal, call, leaked, everRejected>>
        /\ ~Running'
    BY <1>3 DEF ConnectsOutOfBounds, combinedVars, historyVars, Running
  <2>2. \A i \in Ids : Closing(i)' <=> Closing(i)
    BY <2>1 DEF Closing
  <2> QED BY <1>1, <2>1, <2>2, PeersKeptByRoutes DEF Inv, idManagerVars
<1>4. CASE PeerConnects \/ PeerDisconnects \/ HandlerReturns \/ HandlerThrows
  BY <1>1, <1>4, PeerConnectsPeers, PeerDisconnectsPeers, HandlerEndsPeers
<1>5. CASE MessageOrError
  BY <1>1, <1>5, RejectPeers, ReceiveMessagePeers, BotPeers DEF MessageOrError
<1>6. CASE BotConnects \/ BotDisconnects
  BY <1>1, <1>6, BotPeers
<1> QED BY <1>2, <1>3, <1>4, <1>5, <1>6, StepKinds

-----------------------------------------------------------------------------
(* Calls, and the ends of the process.                                      *)

\* A slot with a user id has a user with a record, of the peer in the slot.
LEMMA RoutedUser ==
  ASSUME Inv, NEW r \in RealIds, combinedIdByReal[r] # InvalidUserId
  PROVE  /\ combinedIdByReal[r] \in usedIds \ {0}
         /\ IsConnected(combinedIdByReal[r])
         /\ userInfo[combinedIdByReal[r]].guid
              = IF r[1] = 0 THEN guidById[r[2]] ELSE NoGuid
<1>1. PICK u \in UserIds : u = combinedIdByReal[r]
  BY DEF Inv, TypeOK, UserIdsTypeOK
<1>2. realIdByCombined[u] = r /\ u \in usedIds \ {0}
  BY <1>1, IdFacts DEF Inv, RoutesInverse
<1>3. userInfo[u] # NoUser /\ userInfo[u].guid = IF r[1] = 0 THEN guidById[r[2]] ELSE NoGuid
  BY <1>1, <1>2 DEF Inv, UsersRecorded
<1>4. u < KMaxPlayers /\ u # InvalidUserId
  BY <1>1, <1>3, IdFacts DEF Inv, MaxIsHighest
<1> QED BY <1>1, <1>2, <1>3, <1>4 DEF IsConnected

\* A peer that is connected as far as packets are received has a slot and a user.
LEMMA SeenPeer ==
  ASSUME Inv, Peers, Running, ~everRejected, NEW p \in Guids, SeenConnected(p)
  PROVE  /\ idByGuid[p] \in Ids /\ <<0, idByGuid[p]>> \in RealIds
         /\ combinedIdByReal[<<0, idByGuid[p]>>] \in usedIds \ {0}
         /\ IsConnected(combinedIdByReal[<<0, idByGuid[p]>>])
         /\ userInfo[combinedIdByReal[<<0, idByGuid[p]>>]].guid = p
<1>1. PICK i \in Ids : i = idByGuid[p] /\ guidById[i] = p /\ Routed(i)
  BY DEF Peers, SlotsOfPeers, Inv, TypeOK, UserIdsTypeOK
<1>2. <<0, i>> \in RealIds /\ combinedIdByReal[<<0, i>>] # InvalidUserId
  BY <1>1, IdFacts DEF Routed
<1> QED BY <1>1, <1>2, RoutedUser

Calls == PacketsFromOwner /\ DisconnectingRecorded

\* The user of a call has a record.
LEMMA CallsKept ==
  ASSUME Inv, Calls, UNCHANGED <<call, guidById, everRejected>>, RecordsKept
  PROVE  Calls'
<1>1. call \in Call
  BY DEF Inv, TypeOK, UserIdsTypeOK
<1>2. PacketsFromOwner'
  <2>1. ASSUME call.type # "none", call.peer # NoGuid, ~everRejected
        PROVE  IsConnected(call.user)' /\ userInfo'[call.user].guid = call.peer
    <3>1. IsConnected(call.user) /\ userInfo[call.user].guid = call.peer
      BY <2>1 DEF Calls, PacketsFromOwner
    <3>2. call.user \in UserIds
      BY <1>1, <3>1 DEF Call, IsConnected
    <3> QED BY <3>1, <3>2 DEF IsConnected, RecordsKept
  <2> QED BY <2>1 DEF PacketsFromOwner, IsConnected
<1>3. DisconnectingRecorded'
  <2>1. ASSUME call.type = "disconnect"
        PROVE  userInfo'[call.user].guid
                 = IF call.real[1] = 0 THEN guidById[call.real[2]] ELSE NoGuid
    <3>1. call.user \in UserIds /\ userInfo[call.user] # NoUser
      BY <2>1 DEF Inv, DisconnectingUnrouted, UsersRecorded
    <3> QED BY <2>1, <3>1 DEF Calls, DisconnectingRecorded, RecordsKept
  <2> QED BY <2>1 DEF DisconnectingRecorded
<1> QED BY <1>2, <1>3 DEF Calls

\* Between two calls there is nothing to say.
LEMMA NoCallCalls ==
  ASSUME call' = NoCall
  PROVE  Calls'
BY DEF Calls, PacketsFromOwner, DisconnectingRecorded, NoCall

LEMMA ConnectCalls ==
  ASSUME Inv, PeerConnects \/ BotConnects
  PROVE  Calls'
<1>1. PICK real \in RealIds, peer \in Guids \cup {NoGuid} :
        /\ combinedIdByReal[real] = InvalidUserId
        /\ CombinedConnect(real, peer) /\ Connect(NewUserId, peer)
  <2>1. CASE PeerConnects
    <3>1. /\ ~Full /\ CombinedConnect(<<0, nextId>>, Sender) /\ Connect(NewUserId, Sender)
      BY <2>1 DEF PeerConnects, ReceiveConnection
    <3>2. nextId \in Ids /\ combinedIdByReal[<<0, nextId>>] = InvalidUserId
      BY <3>1, IdFacts DEF Full, Ids, Inv, TypeOK, UserIdsTypeOK, NextIsFree,
         FreeSlotsUnrouted
    <3>3. <<0, nextId>> \in RealIds /\ Sender \in Guids
      BY <2>1, <3>2, IdFacts, PacketReceived DEF PeerConnects, ReceiveConnection
    <3> QED BY <3>1, <3>2, <3>3
  <2>2. CASE BotConnects
    <3>1. /\ TakesBotPacket("connect") /\ CombinedConnect(BotSlot, NoGuid)
          /\ Connect(NewUserId, NoGuid)
      BY <2>2 DEF BotConnects, TakeBotConnection
    <3>2. /\ Len(botPackets) \in Nat \ {0} /\ BotSlot \in RealIds
          /\ botPackets[1] = BotConnect(Head(botPackets).slot)
          /\ Head(botPackets).slot \in BotSlots
      BY <3>1, BotPacketTaken DEF BotConnect
    <3>3. ClosedBefore(Head(botPackets).slot, 1)
      BY <3>2 DEF Inv, BotsInTurn
    <3>4. combinedIdByReal[BotSlot] = InvalidUserId
      BY <3>3 DEF ClosedBefore, BotSlot
    <3> QED BY <3>1, <3>2, <3>4
  <2> QED BY <2>1, <2>2
<1>2. PICK u \in UserIds : u = NewUserId
  BY <1>1, NewUserIdIsFree DEF Inv
<1>3. /\ call'.type = "connect" /\ call'.user = u /\ call'.peer = peer
      /\ u < KMaxPlayers
      /\ userInfo' = [userInfo EXCEPT ![u] = [guid |-> peer, deferred |-> {}]]
  BY <1>1, <1>2 DEF CombinedConnect, Connect
<1>4. userInfo'[u] = [guid |-> peer, deferred |-> {}] /\ userInfo'[u] # NoUser
  <2>1. [guid |-> peer, deferred |-> {}] \in UserInfo
    BY DEF UserInfo
  <2> QED BY <1>3, <2>1, SessionsAssumption DEF Inv, TypeOK
<1>5. IsConnected(call.user)' /\ userInfo'[call'.user].guid = call'.peer
  BY <1>3, <1>4, IdFacts DEF IsConnected
<1> QED BY <1>3, <1>5 DEF Calls, PacketsFromOwner, DisconnectingRecorded

LEMMA DisconnectCalls ==
  ASSUME Inv, PacketsInTurn, Peers, Running, PeerDisconnects \/ BotDisconnects
  PROVE  Calls'
<1>1. PICK real \in RealIds, peer \in Guids \cup {NoGuid} :
        /\ CombinedDisconnect(real, peer) /\ UNCHANGED <<guidById, userInfo, everRejected>>
        /\ peer # NoGuid /\ ~everRejected => real[1] = 0 /\ guidById[real[2]] = peer
  <2>1. CASE PeerDisconnects
    <3>1. /\ Receives("disconnect") /\ idByGuid[Sender] # InvalidUserId
          /\ CombinedDisconnect(<<0, idByGuid[Sender]>>, Sender)
          /\ UNCHANGED <<guidById, userInfo, everRejected>>
      BY <2>1 DEF PeerDisconnects, ReceiveDisconnection, Disconnecting, idManagerVars
    <3>2. PICK p \in Guids : p = Sender
      BY <3>1, PacketReceived
    <3>3. PICK i \in Ids : i = idByGuid[p]
      BY <3>1, <3>2 DEF Inv, TypeOK, UserIdsTypeOK
    <3>4. ~everRejected => guidById[i] = p
      BY <3>3, IdFacts DEF Peers, SlotsOfPeers
    <3> QED BY <3>1, <3>2, <3>3, <3>4, IdFacts
  <2>2. CASE BotDisconnects
    <3>1. /\ TakesBotPacket("disconnect") /\ CombinedDisconnect(BotSlot, NoGuid)
          /\ UNCHANGED <<guidById, userInfo, everRejected>>
      BY <2>2 DEF BotDisconnects, TakeBotDisconnection, Disconnecting, TakesBotPacket,
         idManagerVars, historyVars
    <3>2. BotSlot \in RealIds
      BY <3>1, BotPacketTaken
    <3> QED BY <3>1, <3>2
  <2> QED BY <2>1, <2>2
<1>2. PICK u : u = combinedIdByReal[real]
  OBVIOUS
<1>3. /\ call'.type = "disconnect" /\ call'.real = real /\ call'.user = u
      /\ call'.peer = peer /\ u \in usedIds
  BY <1>1, <1>2 DEF CombinedDisconnect
<1>4. combinedIdByReal[real] # InvalidUserId
  BY <1>2, <1>3, IdFacts DEF Inv, TypeOK, UserIdsTypeOK
<1>5. /\ IsConnected(u)
      /\ userInfo[u].guid = IF real[1] = 0 THEN guidById[real[2]] ELSE NoGuid
  BY <1>2, <1>4, RoutedUser
<1>6. PacketsFromOwner'
  <2>1. IsConnected(call.user)'
    BY <1>1, <1>3, <1>5 DEF IsConnected
  <2> QED BY <1>1, <1>3, <1>5, <2>1 DEF PacketsFromOwner
<1>7. DisconnectingRecorded'
  BY <1>1, <1>3, <1>5 DEF DisconnectingRecorded
<1> QED BY <1>6, <1>7 DEF Calls

LEMMA MessageCalls ==
  ASSUME Inv, PacketsInTurn, Peers, Running, ReceiveMessage \/ TakeBotMessage,
         UNCHANGED userInfo
  PROVE  Calls'
<1>1. CASE ReceiveMessage
  <2>1. PICK p \in Guids : p = Sender /\ SeenConnected(p)
    BY <1>1, ReceivedSeen DEF ReceiveMessage, Inv
  <2>2. /\ call'.type = "message" /\ call'.peer = p /\ everRejected' = everRejected
        /\ idByGuid[p] # InvalidUserId => call'.user = combinedIdByReal[<<0, idByGuid[p]>>]
    BY <1>1, <2>1 DEF ReceiveMessage, CombinedMessage
  <2>3. ASSUME ~everRejected
        PROVE  IsConnected(call.user)' /\ userInfo'[call'.user].guid = call'.peer
    <3>1. PICK u : u = combinedIdByReal[<<0, idByGuid[p]>>]
      OBVIOUS
    <3>2. IsConnected(u) /\ userInfo[u].guid = p /\ idByGuid[p] # InvalidUserId
      BY <2>1, <2>3, <3>1, SeenPeer, IdFacts
    <3>3. call'.user = u
      BY <2>2, <3>1, <3>2
    <3> QED BY <2>2, <3>2, <3>3 DEF IsConnected
  <2> QED BY <2>2, <2>3 DEF Calls, PacketsFromOwner, DisconnectingRecorded
<1>2. CASE TakeBotMessage
  BY <1>2 DEF TakeBotMessage, CombinedMessage, Calls, PacketsFromOwner,
     DisconnectingRecorded
<1> QED BY <1>1, <1>2

LEMMA CallsNext ==
  ASSUME Inv, PacketsInTurn, Peers, Calls, Next
  PROVE  Calls'
<1>1. Running
  BY StepKinds
<1>2. CASE \/ RakNetThread
           \/ TickSteps /\ UNCHANGED <<stateVars, worldVars>>
           \/ TickDeferredMessages
           \/ Js
  BY <1>2, QuietSteps, CallsKept DEF Inv, Quiet, idManagerVars
<1>3. CASE ConnectsOutOfBounds
  BY <1>3, NoCallCalls DEF ConnectsOutOfBounds
<1>4. CASE HandlerReturns \/ HandlerThrows
  BY <1>4, NoCallCalls DEF HandlerReturns, HandlerThrows, CallReturns, CallThrows
<1>5. CASE MessageOrError
  <2>1. userInfo' = userInfo
    BY <1>5 DEF MessageOrError, stateVars
  <2>2. CASE ReceiveMessage \/ TakeBotMessage
    BY <1>1, <2>1, <2>2, MessageCalls
  <2>3. CASE \/ ReceiveConnectionFull \/ ReceiveUnknownDisconnection
             \/ ReceiveDisconnectionTerminates \/ TakeBotDisconnectionTerminates
    BY <2>3, NoCallCalls DEF ReceiveConnectionFull, ReceiveUnknownDisconnection,
       ReceiveDisconnectionTerminates, TakeBotDisconnectionTerminates, Receives,
       TakesBotPacket, CombinedDisconnectTerminates
  <2> QED BY <1>5, <2>2, <2>3 DEF MessageOrError
<1>6. CASE PeerConnects \/ BotConnects \/ PeerDisconnects \/ BotDisconnects
  BY <1>1, <1>6, ConnectCalls, DisconnectCalls
<1> QED BY <1>2, <1>3, <1>4, <1>5, <1>6, StepKinds

-----------------------------------------------------------------------------
(* Bots that are closed once at most.                                       *)

LEMMA BotsCloseKept ==
  ASSUME TypeOK, BotsCloseOnce, UNCHANGED <<mockVars, botsClosed, closedTwice>>,
         \A s \in BotSlots : combinedIdByReal'[<<1, s>>] = combinedIdByReal[<<1, s>>]
  PROVE  BotsCloseOnce'
<1>1. botPackets' = botPackets /\ bots' = bots
  BY DEF mockVars
<1>2. bots \in SUBSET BotSlots /\ Len(botPackets) \in Nat
  BY DEF TypeOK, UserIdsTypeOK
<1>3. ASSUME NEW s \in BotSlots, NEW k \in Nat, OpenBefore(s, k)
      PROVE  OpenBefore(s, k)'
  BY <1>1, <1>3 DEF OpenBefore, BotConnect, BotDisconnect
<1>4. ASSUME ~closedTwice, NEW s \in BotSlots, NEW k \in 1..Len(botPackets),
             botPackets[k] = BotDisconnect(s)
      PROVE  OpenBefore(s, k)'
  BY <1>2, <1>3, <1>4 DEF BotsCloseOnce
<1>5. ASSUME ~closedTwice, NEW s \in bots \ botsClosed
      PROVE  OpenBefore(s, Len(botPackets) + 1)'
  <2>1. PICK k \in Nat : k = Len(botPackets) + 1
    BY <1>2
  <2>2. OpenBefore(s, k)'
    BY <1>2, <1>3, <1>5, <2>1 DEF BotsCloseOnce
  <2> QED BY <1>1, <2>1, <2>2 DEF OpenBefore, BotConnect, BotDisconnect
<1> QED BY <1>1, <1>4, <1>5 DEF BotsCloseOnce, BotDisconnect

\* Taking a packet keeps the order.
LEMMA BotTakenClose ==
  ASSUME Inv, BotsCloseOnce, NEW type \in {"connect", "disconnect", "message"},
         TakesBotPacket(type),
         \A s \in BotSlots :
           s # Head(botPackets).slot \/ type = "message" =>
             combinedIdByReal'[<<1, s>>] = combinedIdByReal[<<1, s>>],
         type = "connect" =>
           combinedIdByReal'[<<1, Head(botPackets).slot>>] # InvalidUserId
  PROVE  BotsCloseOnce'
<1>1. PICK n \in Nat : n = Len(botPackets)
  BY BotPacketTaken
<1>2. /\ n >= 1 /\ Len(botPackets') = n - 1
      /\ botPackets[1] = [type |-> type, slot |-> Head(botPackets).slot]
      /\ \A k \in 1..(n - 1) : botPackets'[k] = botPackets[k + 1]
      /\ UNCHANGED <<bots, botsClosed, closedTwice>>
      /\ Head(botPackets).slot \in BotSlots
  <2>1. UNCHANGED <<bots, botsClosed, closedTwice>>
    BY DEF TakesBotPacket, historyVars
  <2> QED BY <1>1, <2>1, BotPacketTaken
<1>3. ASSUME NEW s \in BotSlots, NEW k \in 1..n, OpenBefore(s, k + 1)
      PROVE  OpenBefore(s, k)'
  <2>1. \A j \in 1..(k - 1) : /\ j \in 1..(n - 1) /\ j + 1 \in 1..k
                              /\ botPackets'[j] = botPackets[j + 1]
    BY <1>1, <1>2
  <2>2. CASE /\ combinedIdByReal[<<1, s>>] # InvalidUserId
             /\ \A j \in 1..k : botPackets[j] # BotDisconnect(s)
    <3>1. botPackets[1] # BotDisconnect(s)
      BY <1>2, <2>2
    <3>2. combinedIdByReal'[<<1, s>>] # InvalidUserId
      BY <1>2, <2>2, <3>1 DEF BotDisconnect
    <3>3. \A j \in 1..(k - 1) : botPackets'[j] # BotDisconnect(s)
      BY <2>1, <2>2
    <3> QED BY <3>2, <3>3 DEF OpenBefore, BotDisconnect
  <2>3. CASE \E d \in 1..k :
               /\ botPackets[d] = BotConnect(s)
               /\ \A j \in (d + 1)..k : botPackets[j] # BotDisconnect(s)
    <3>1. PICK d \in 1..k :
            /\ botPackets[d] = BotConnect(s)
            /\ \A j \in (d + 1)..k : botPackets[j] # BotDisconnect(s)
      BY <2>3
    <3>2. \A j \in d..(k - 1) : j \in 1..(k - 1) /\ j + 1 \in (d + 1)..k
      BY <1>1
    <3>3. \A j \in d..(k - 1) : botPackets'[j] # BotDisconnect(s)
      BY <2>1, <3>1, <3>2
    <3>4. CASE d = 1
      <4>1. combinedIdByReal'[<<1, s>>] # InvalidUserId
        BY <1>2, <3>1, <3>4 DEF BotConnect
      <4> QED BY <3>3, <3>4, <4>1 DEF OpenBefore, BotDisconnect
    <3>5. CASE d # 1
      <4>1. d - 1 \in 1..(k - 1) /\ (d - 1) + 1 = d
        BY <1>1, <3>5
      <4>2. botPackets'[d - 1] = BotConnect(s)
        BY <2>1, <3>1, <4>1
      <4> QED BY <3>3, <4>1, <4>2 DEF OpenBefore, BotConnect, BotDisconnect
    <3> QED BY <3>4, <3>5
  <2>4. (k + 1) - 1 = k
    BY <1>1
  <2> QED BY <1>3, <2>2, <2>3, <2>4 DEF OpenBefore
<1>4. ASSUME ~closedTwice, NEW s \in BotSlots, NEW k \in 1..(n - 1),
             botPackets'[k] = BotDisconnect(s)
      PROVE  OpenBefore(s, k)'
  <2>1. k + 1 \in 1..n /\ k \in 1..n /\ botPackets[k + 1] = BotDisconnect(s)
    BY <1>1, <1>2, <1>4
  <2>2. OpenBefore(s, k + 1)
    BY <1>1, <1>4, <2>1 DEF BotsCloseOnce
  <2> QED BY <1>3, <2>1, <2>2
<1>5. ASSUME ~closedTwice, NEW s \in bots \ botsClosed
      PROVE  OpenBefore(s, Len(botPackets) + 1)'
  <2>1. OpenBefore(s, n + 1) /\ s \in BotSlots /\ n \in 1..n
    BY <1>1, <1>2, <1>5 DEF BotsCloseOnce, Inv, TypeOK, UserIdsTypeOK
  <2>2. OpenBefore(s, n)'
    BY <1>3, <2>1
  <2>3. Len(botPackets') + 1 = n
    BY <1>1, <1>2
  <2> QED BY <2>2, <2>3 DEF OpenBefore, BotConnect, BotDisconnect
<1>6. ASSUME ~closedTwice, NEW s \in BotSlots \ (bots \cup botsClosed)
      PROVE  /\ combinedIdByReal'[<<1, s>>] = InvalidUserId
             /\ \A k \in 1..(n - 1) : botPackets'[k].slot # s
  <2>1. /\ combinedIdByReal[<<1, s>>] = InvalidUserId
        /\ \A k \in 1..n : botPackets[k].slot # s
    BY <1>1, <1>6 DEF BotsCloseOnce
  <2>2. 1 \in 1..n /\ \A k \in 1..(n - 1) : k + 1 \in 1..n
    BY <1>1, <1>2
  <2>3. s # Head(botPackets).slot
    BY <1>2, <2>1, <2>2
  <2> QED BY <1>2, <2>1, <2>2, <2>3
<1> QED BY <1>2, <1>4, <1>5, <1>6 DEF BotsCloseOnce, BotDisconnect

\* A packet that a bot sends keeps the order, if the bot was not closed before.
LEMMA BotSendsClose ==
  ASSUME Inv, BotsCloseOnce, NEW type \in {"connect", "disconnect", "message"},
         NEW s \in BotSlots, BotSends(type, s), UNCHANGED combinedIdByReal,
         closedTwice => closedTwice', ~closedTwice' =>
           \/ /\ type = "connect" /\ s \notin bots
              /\ bots' = bots \cup {s} /\ botsClosed' = botsClosed \ {s}
           \/ /\ type = "message" /\ s \in bots
              /\ UNCHANGED <<bots, botsClosed>>
           \/ /\ type = "disconnect" /\ s \in bots \ botsClosed
              /\ bots' \in {bots, bots \ {s}} /\ botsClosed' = botsClosed \cup {s}
  PROVE  BotsCloseOnce'
<1> SUFFICES ASSUME ~closedTwice', ~closedTwice PROVE BotsCloseOnce'
  BY DEF BotsCloseOnce
<1>1. botPackets \in Seq(BotPacket) /\ bots \in SUBSET BotSlots
  BY DEF Inv, TypeOK, UserIdsTypeOK
<1>2. PICK n \in Nat : n = Len(botPackets)
  BY <1>1
<1>3. PICK packet : packet = [type |-> type, slot |-> s]
  OBVIOUS
<1>4. /\ Len(botPackets') = n + 1 /\ botPackets'[n + 1] = packet
      /\ \A k \in 1..n : botPackets'[k] = botPackets[k]
  BY <1>1, <1>2, <1>3 DEF BotSends, BotPacket
<1>5. ASSUME NEW t \in BotSlots, NEW k \in 1..(n + 1), OpenBefore(t, k)
      PROVE  OpenBefore(t, k)'
  <2>1. \A j \in 1..(k - 1) : j \in 1..n /\ botPackets'[j] = botPackets[j]
    BY <1>2, <1>4
  <2>2. CASE /\ combinedIdByReal[<<1, t>>] # InvalidUserId
             /\ \A j \in 1..(k - 1) : botPackets[j] # BotDisconnect(t)
    BY <2>1, <2>2 DEF OpenBefore, BotDisconnect
  <2>3. CASE \E d \in 1..(k - 1) :
               /\ botPackets[d] = BotConnect(t)
               /\ \A j \in (d + 1)..(k - 1) : botPackets[j] # BotDisconnect(t)
    <3>1. PICK d \in 1..(k - 1) :
            /\ botPackets[d] = BotConnect(t)
            /\ \A j \in (d + 1)..(k - 1) : botPackets[j] # BotDisconnect(t)
      BY <2>3
    <3>2. \A j \in (d + 1)..(k - 1) : j \in 1..(k - 1)
      BY <1>2
    <3> QED BY <2>1, <3>1, <3>2 DEF OpenBefore, BotConnect, BotDisconnect
  <2> QED BY <1>5, <2>2, <2>3 DEF OpenBefore
<1>6. ASSUME NEW t \in BotSlots, OpenBefore(t, n + 1), packet # BotDisconnect(t)
      PROVE  OpenBefore(t, Len(botPackets) + 1)'
  <2>1. PICK k \in 1..(n + 1) : k = n + 1
    BY <1>2
  <2>2. OpenBefore(t, k)' /\ k - 1 = n
    BY <1>2, <1>5, <1>6, <2>1
  <2>3. \A d \in 0..n : \A j \in (d + 1)..(n + 1) : j \in (d + 1)..n \/ j = n + 1
    BY <1>2
  <2>4. \A j \in 1..n : j \in 1..(n + 1) /\ j \in 0..n
    BY <1>2
  <2>5. \/ /\ combinedIdByReal'[<<1, t>>] # InvalidUserId
           /\ \A j \in 1..(n + 1) : botPackets'[j] # BotDisconnect(t)
        \/ \E d \in 1..(n + 1) :
             /\ botPackets'[d] = BotConnect(t)
             /\ \A j \in (d + 1)..(n + 1) : botPackets'[j] # BotDisconnect(t)
    <3>1. CASE /\ combinedIdByReal'[<<1, t>>] # InvalidUserId
               /\ \A j \in 1..n : botPackets'[j] # BotDisconnect(t)
      <4>1. \A j \in 1..(n + 1) : j \in 1..n \/ j = n + 1
        BY <1>2
      <4> QED BY <1>4, <1>6, <3>1, <4>1
    <3>2. CASE \E d \in 1..n :
                 /\ botPackets'[d] = BotConnect(t)
                 /\ \A j \in (d + 1)..n : botPackets'[j] # BotDisconnect(t)
      BY <1>4, <1>6, <2>3, <2>4, <3>2
    <3> QED BY <2>2, <3>1, <3>2 DEF OpenBefore, BotConnect, BotDisconnect
  <2>6. (Len(botPackets') + 1) - 1 = n + 1
    BY <1>2, <1>4
  <2> QED BY <2>5, <2>6 DEF OpenBefore, BotConnect, BotDisconnect
<1>7. \A t \in bots \ botsClosed : OpenBefore(t, n + 1) /\ t \in BotSlots
  BY <1>1, <1>2 DEF BotsCloseOnce
<1>8. ASSUME NEW t \in BotSlots, NEW k \in 1..(n + 1), botPackets'[k] = BotDisconnect(t)
      PROVE  OpenBefore(t, k)'
  <2>1. CASE k \in 1..n
    <3>1. OpenBefore(t, k)
      BY <1>2, <1>4, <1>8, <2>1 DEF BotsCloseOnce
    <3> QED BY <1>5, <3>1
  <2>2. CASE k = n + 1
    <3>1. type = "disconnect" /\ t = s
      BY <1>3, <1>4, <1>8, <2>2 DEF BotDisconnect
    <3>2. OpenBefore(t, k)
      BY <1>7, <2>2, <3>1
    <3> QED BY <1>5, <3>2
  <2> QED BY <1>2, <2>1, <2>2
<1>9. ASSUME NEW t \in bots' \ botsClosed'
      PROVE  OpenBefore(t, Len(botPackets) + 1)'
  <2>1. CASE type = "connect" /\ t = s
    <3>1. (Len(botPackets') + 1) - 1 = n + 1 /\ n + 1 \in 1..(n + 1)
      BY <1>2, <1>4
    <3>2. botPackets'[n + 1] = BotConnect(t)
      BY <1>3, <1>4, <2>1 DEF BotConnect
    <3>3. \A j \in ((n + 1) + 1)..(n + 1) : FALSE
      BY <1>2
    <3> QED BY <3>1, <3>2, <3>3 DEF OpenBefore, BotConnect, BotDisconnect
  <2>2. CASE ~(type = "connect" /\ t = s)
    <3>1. t \in bots \ botsClosed /\ ~(type = "disconnect" /\ t = s)
      BY <1>9, <2>2
    <3>2. packet # BotDisconnect(t)
      BY <1>3, <3>1 DEF BotDisconnect
    <3> QED BY <1>6, <1>7, <3>1, <3>2
  <2> QED BY <2>1, <2>2
<1>10. ASSUME NEW t \in BotSlots \ (bots' \cup botsClosed')
       PROVE  /\ combinedIdByReal'[<<1, t>>] = InvalidUserId
              /\ \A k \in 1..(n + 1) : botPackets'[k].slot # t
  <2>1. t # s /\ t \in BotSlots \ (bots \cup botsClosed)
    BY <1>10
  <2>2. /\ combinedIdByReal[<<1, t>>] = InvalidUserId
        /\ \A k \in 1..n : botPackets[k].slot # t
    BY <1>2, <2>1 DEF BotsCloseOnce
  <2>3. \A k \in 1..(n + 1) : k \in 1..n \/ k = n + 1
    BY <1>2
  <2> QED BY <1>3, <1>4, <2>1, <2>2, <2>3
<1> QED BY <1>4, <1>8, <1>9, <1>10 DEF BotsCloseOnce, BotDisconnect
LEMMA BotStepClose ==
  ASSUME Inv, BotsCloseOnce,
         \/ CreateBot
         \/ \E s \in BotSlots : DestroyBot(s) \/ BotMessage(s)
         \/ \E u \in UserIds : KickBot(u)
  PROVE  BotsCloseOnce'
<1>1. CASE CreateBot
  <2>1. PICK s \in BotSlots \ bots :
          /\ bots' = bots \cup {s} /\ BotSends("connect", s)
          /\ botsClosed' = botsClosed \ {s}
    <3>1. bots \in SUBSET BotSlots
      BY DEF Inv, TypeOK, UserIdsTypeOK
    <3>2. \E t \in BotSlots \ bots : \A u \in BotSlots \ bots : t <= u
      <4>1. BotSlots \ bots \subseteq Nat /\ BotSlots \ bots # {}
        BY <1>1, <3>1, IdFacts DEF CreateBot
      <4> QED BY <4>1, SmallestOfSet
    <3> QED BY <1>1, <3>2 DEF CreateBot
  <2>2. UNCHANGED <<combinedIdByReal, closedTwice>>
    BY <1>1 DEF CreateBot, combinedVars
  <2> QED BY <2>1, <2>2, BotSendsClose
<1>2. CASE \E s \in BotSlots : BotMessage(s)
  <2>1. PICK s \in BotSlots : BotMessage(s)
    BY <1>2
  <2>2. /\ BotSends("message", s) /\ s \in bots
        /\ UNCHANGED <<combinedIdByReal, bots, botsClosed, closedTwice>>
    BY <2>1 DEF BotMessage, combinedVars, historyVars
  <2> QED BY <2>2, BotSendsClose
<1>3. ASSUME NEW s \in BotSlots, CloseBot(s), bots' \in {bots, bots \ {s}},
             ~closedTwice /\ s \notin botsClosed => s \in bots
      PROVE  BotsCloseOnce'
  <2>1. /\ BotSends("disconnect", s) /\ botsClosed' = botsClosed \cup {s}
        /\ closedTwice' <=> (closedTwice \/ s \in botsClosed)
        /\ UNCHANGED combinedIdByReal
    BY <1>3 DEF CloseBot, combinedVars
  <2> QED BY <1>3, <2>1, BotSendsClose
<1>4. CASE \E s \in BotSlots : DestroyBot(s)
  BY <1>3, <1>4 DEF DestroyBot
<1>5. CASE \E u \in UserIds : KickBot(u)
  <2>1. PICK u \in UserIds, s \in BotSlots :
          realIdByCombined[u] = <<1, s>> /\ CloseBot(s) /\ bots' = bots
    BY <1>5 DEF KickBot
  <2>2. combinedIdByReal[<<1, s>>] = u /\ u # InvalidUserId
    BY <2>1, IdFacts DEF Inv, RoutesInverse
  <2>3. ~closedTwice /\ s \notin botsClosed => s \in bots
    BY <2>2 DEF BotsCloseOnce
  <2> QED BY <1>3, <2>1, <2>3
<1> QED BY <1>1, <1>2, <1>4, <1>5

LEMMA BotsCloseNext ==
  ASSUME Inv, BotsCloseOnce, Next
  PROVE  BotsCloseOnce'
<1>1. /\ TypeOK /\ combinedIdByReal \in [RealIds -> UserIds \cup {InvalidUserId}]
      /\ \A s \in BotSlots : \A i \in Ids : <<1, s>> # <<0, i>> /\ <<1, s>> \in RealIds
  BY IdFacts DEF Inv, TypeOK, UserIdsTypeOK
<1>2. ASSUME UNCHANGED <<mockVars, botsClosed, closedTwice, combinedIdByReal>>
      PROVE  BotsCloseOnce'
  BY <1>1, <1>2, BotsCloseKept
<1>3. CASE RakNetThread \/ TickSteps \/ TickDeferredMessages \/ ConnectsOutOfBounds
  BY <1>2, <1>3 DEF RakNetThread, TickSteps, ServerTickStarts, MockTickStarts, ServerTickEnds,
     TickDeferredMessages, ConnectsOutOfBounds, combinedVars, historyVars
<1>4. CASE HandlerReturns \/ HandlerThrows
  BY <1>2, <1>4 DEF HandlerReturns, HandlerThrows, CallReturns, CallThrows, combinedVars
<1>5. CASE Js
  <2>1. ASSUME UNCHANGED userIdsVars PROVE BotsCloseOnce'
    BY <1>2, <2>1 DEF userIdsVars, combinedVars, historyVars
  <2>2. CASE \E a \in Actors :
               \/ CreateActor(a) \/ DestroyActor(a)
               \/ \E enabled \in BOOLEAN : SetEnabled(a, enabled)
               \/ \E overwrite \in BOOLEAN : SendToUserDeferred(a, overwrite)
               \/ \E u \in UserIds : SetUserActor(u, a)
    BY <2>1, <2>2 DEF CreateActor, DestroyActor, SetEnabled, SendToUserDeferred, SetUserActor
  <2>3. CASE \E u \in UserIds : ClearUserActor(u)
    BY <2>1, <2>3 DEF ClearUserActor
  <2>4. CASE \/ CreateBot
             \/ \E s \in BotSlots : DestroyBot(s) \/ BotMessage(s)
             \/ \E u \in UserIds : KickBot(u)
    BY <2>4, BotStepClose
  <2> QED BY <1>5, <2>2, <2>3, <2>4, Zenon DEF Js
<1>6. CASE \/ ReceiveMessage \/ ReceiveConnectionFull \/ ReceiveUnknownDisconnection
           \/ ReceiveDisconnectionTerminates
  BY <1>2, <1>6 DEF ReceiveMessage, CombinedMessage, ReceiveConnectionFull,
     ReceiveUnknownDisconnection, ReceiveDisconnectionTerminates,
     CombinedDisconnectTerminates, Receives, combinedVars
<1>7. CASE PeerConnects \/ PeerDisconnects
  <2>1. UNCHANGED <<mockVars, botsClosed, closedTwice>>
    BY <1>7 DEF PeerConnects, ReceiveConnection, PeerDisconnects, ReceiveDisconnection,
       Receives
  <2>2. PICK i \in Ids :
          \E u : combinedIdByReal' = [combinedIdByReal EXCEPT ![<<0, i>>] = u]
    <3>1. CASE PeerConnects
      <4>1. nextId \in Ids
        BY <3>1, IdFacts DEF PeerConnects, ReceiveConnection, Full, Ids, Inv, TypeOK,
           UserIdsTypeOK
      <4> QED BY <3>1, <4>1 DEF PeerConnects, ReceiveConnection, CombinedConnect
    <3>2. CASE PeerDisconnects
      <4>1. PICK p \in Guids : p = Sender
        BY <3>2, PacketReceived DEF PeerDisconnects, ReceiveDisconnection
      <4>2. idByGuid[p] \in Ids
        BY <3>2, <4>1 DEF PeerDisconnects, ReceiveDisconnection, Inv, TypeOK, UserIdsTypeOK
      <4> QED BY <3>2, <4>1, <4>2 DEF PeerDisconnects, ReceiveDisconnection,
                CombinedDisconnect
    <3> QED BY <1>7, <3>1, <3>2
  <2>3. \A s \in BotSlots : combinedIdByReal'[<<1, s>>] = combinedIdByReal[<<1, s>>]
    BY <1>1, <2>2
  <2> QED BY <1>1, <2>1, <2>3, BotsCloseKept
<1>8. CASE TakeBotMessage \/ TakeBotDisconnectionTerminates \/ BotConnects \/ BotDisconnects
  <2>1. PICK type \in {"connect", "disconnect", "message"} :
          /\ TakesBotPacket(type)
          /\ type = "connect" => CombinedConnect(BotSlot, NoGuid)
          /\ type = "message" => combinedIdByReal' = combinedIdByReal
    BY <1>8 DEF TakeBotMessage, TakeBotDisconnectionTerminates, BotConnects, BotDisconnects,
       TakeBotConnection, TakeBotDisconnection, CombinedMessage, combinedVars
  <2>2. PICK s \in BotSlots : s = Head(botPackets).slot /\ BotSlot = <<1, s>>
    BY <2>1, BotPacketTaken DEF BotSlot
  <2>3. PICK u : \/ combinedIdByReal' = [combinedIdByReal EXCEPT ![<<1, s>>] = u]
                 \/ combinedIdByReal' = combinedIdByReal
    BY <1>8, <2>2 DEF TakeBotMessage, TakeBotDisconnectionTerminates, BotConnects,
       BotDisconnects, TakeBotConnection, TakeBotDisconnection, CombinedMessage,
       CombinedConnect, CombinedDisconnect, CombinedDisconnectTerminates, combinedVars
  <2>4. \A t \in BotSlots :
          t # s \/ type = "message" =>
            combinedIdByReal'[<<1, t>>] = combinedIdByReal[<<1, t>>]
    <3>1. ASSUME NEW t \in BotSlots, t # s
          PROVE  combinedIdByReal'[<<1, t>>] = combinedIdByReal[<<1, t>>]
      <4>1. <<1, t>> \in RealIds /\ <<1, t>> # <<1, s>>
        BY <3>1, IdFacts
      <4> QED BY <1>1, <2>3, <4>1
    <3> QED BY <2>1, <3>1
  <2>5. ASSUME type = "connect" PROVE combinedIdByReal'[<<1, s>>] # InvalidUserId
    <3>1. botPackets[1] = BotConnect(s) /\ Len(botPackets) \in Nat \ {0}
      BY <2>1, <2>2, <2>5, BotPacketTaken DEF BotConnect
    <3>2. ClosedBefore(s, 1)
      BY <3>1 DEF Inv, BotsInTurn
    <3>3. combinedIdByReal[<<1, s>>] = InvalidUserId /\ <<1, s>> \in RealIds
      BY <1>1, <3>2, IdFacts DEF ClosedBefore
    <3>4. NewUserId \in UserIds
      BY <3>3, NewUserIdIsFree DEF Inv
    <3> QED BY <1>1, <2>1, <2>2, <2>5, <3>3, <3>4, IdFacts DEF CombinedConnect
  <2> QED BY <2>1, <2>2, <2>4, <2>5, BotTakenClose
<1> QED BY <1>3, <1>4, <1>5, <1>6, <1>7, <1>8, StepKinds DEF MessageOrError

-----------------------------------------------------------------------------
(* The ends of the process.                                                 *)

Ends == TerminatesForCause /\ OutOfBoundsOnlyWhenFull

\* When a new user finds no entry of userInfo, every entry but that of id 0 has a record.
LEMMA FullWhenOutOfBounds ==
  ASSUME Inv, call = NoCall, NEW real \in RealIds, combinedIdByReal[real] = InvalidUserId,
         NewUserId >= KMaxPlayers
  PROVE  Cardinality({u \in UserIds : userInfo[u] # NoUser}) = KMaxPlayers - 1
<1>1. PICK n \in UserIds \ usedIds : n = NewUserId
  BY NewUserIdIsFree DEF Inv
<1>2. \A v \in UserIds \ usedIds : n <= v
  BY <1>1, NewUserIdIsFree DEF Inv
<1>3. /\ n \in Nat /\ KMaxPlayers \in Nat \ {0} /\ n >= KMaxPlayers
      /\ disconnectingUserId = InvalidUserId
  BY <1>1, IdFacts, SessionsAssumption DEF Inv, DisconnectingUnrouted, NoCall
<1>4. \A u \in UserIds : userInfo[u] # NoUser <=> u \in usedIds \ {0}
  BY <1>3, IdFacts DEF Inv, UsersRecorded
<1>5. \A u \in 1..(KMaxPlayers - 1) : u \in UserIds /\ ~(n <= u) /\ u # 0
  BY <1>1, <1>3, IdFacts DEF UserIds
<1>6. {u \in UserIds : userInfo[u] # NoUser} = 1..(KMaxPlayers - 1)
  <2>1. ASSUME NEW u \in UserIds, userInfo[u] # NoUser
        PROVE  u \in 1..(KMaxPlayers - 1)
    <3>1. u < KMaxPlayers /\ u # 0 /\ u \in Nat
      BY <1>4, <2>1, IdFacts DEF Inv, MaxIsHighest
    <3> QED BY <1>3, <3>1
  <2>2. ASSUME NEW u \in 1..(KMaxPlayers - 1)
        PROVE  u \in UserIds /\ userInfo[u] # NoUser
    BY <1>2, <1>4, <1>5
  <2> QED BY <2>1, <2>2
<1>7. Cardinality(1..(KMaxPlayers - 1)) = KMaxPlayers - 1
  <2>1. 1 \in Int /\ KMaxPlayers - 1 \in Int
    BY <1>3
  <2>2. Cardinality(1..(KMaxPlayers - 1))
          = IF 1 > KMaxPlayers - 1 THEN 0 ELSE (KMaxPlayers - 1) - 1 + 1
    BY <2>1, FS_Interval
  <2> QED BY <1>3, <2>2
<1> QED BY <1>6, <1>7

LEMMA EndsNext ==
  ASSUME Inv, PacketsInTurn, Peers, BotsCloseOnce, Next
  PROVE  Ends'
<1>1. halted = "no" /\ Running
  BY StepKinds DEF Running
<1>2. ASSUME halted' = halted PROVE Ends'
  BY <1>1, <1>2 DEF Ends, TerminatesForCause, OutOfBoundsOnlyWhenFull
<1>3. CASE \/ RakNetThread
           \/ TickSteps /\ UNCHANGED <<stateVars, worldVars>>
           \/ TickDeferredMessages
           \/ Js
  BY <1>2, <1>3, QuietSteps DEF Inv, Quiet
<1>4. CASE PeerConnects \/ BotConnects \/ PeerDisconnects \/ BotDisconnects
  BY <1>2, <1>4 DEF PeerConnects, ReceiveConnection, BotConnects, TakeBotConnection,
     PeerDisconnects, ReceiveDisconnection, BotDisconnects, TakeBotDisconnection,
     CombinedConnect, CombinedDisconnect
<1>5. CASE HandlerReturns \/ HandlerThrows
  BY <1>2, <1>5 DEF HandlerReturns, HandlerThrows, CallReturns, CallThrows
<1>6. CASE \/ ReceiveMessage \/ TakeBotMessage \/ ReceiveConnectionFull
           \/ ReceiveUnknownDisconnection
  BY <1>2, <1>6 DEF ReceiveMessage, TakeBotMessage, CombinedMessage, ReceiveConnectionFull,
     ReceiveUnknownDisconnection
<1>7. CASE ReceiveDisconnectionTerminates
  <2>1. PICK p \in Guids : p = Sender /\ SeenConnected(p)
    BY <1>7, ReceivedSeen DEF ReceiveDisconnectionTerminates, Inv
  <2>2. /\ combinedIdByReal[<<0, idByGuid[p]>>] \notin usedIds
        /\ halted' = "terminated" /\ everRejected' = everRejected
    BY <1>7, <2>1 DEF ReceiveDisconnectionTerminates, CombinedDisconnectTerminates
  <2>3. everRejected
    BY <1>1, <2>1, <2>2, SeenPeer
  <2> QED BY <2>2, <2>3 DEF Ends, TerminatesForCause, OutOfBoundsOnlyWhenFull
<1>8. CASE TakeBotDisconnectionTerminates
  <2>1. /\ TakesBotPacket("disconnect") /\ combinedIdByReal[BotSlot] \notin usedIds
        /\ halted' = "terminated" /\ closedTwice' = closedTwice
    BY <1>8 DEF TakeBotDisconnectionTerminates, CombinedDisconnectTerminates,
       TakesBotPacket, historyVars
  <2>2. PICK s \in BotSlots : /\ BotSlot = <<1, s>> /\ BotSlot \in RealIds
                              /\ botPackets[1] = BotDisconnect(s)
                              /\ Len(botPackets) \in Nat \ {0}
    BY <2>1, BotPacketTaken DEF BotSlot, BotDisconnect
  <2>3. closedTwice
    <3>1. SUFFICES ASSUME ~closedTwice PROVE FALSE
      OBVIOUS
    <3>2. OpenBefore(s, 1)
      BY <2>2, <3>1 DEF BotsCloseOnce
    <3>3. combinedIdByReal[BotSlot] # InvalidUserId
      BY <2>2, <3>2 DEF OpenBefore
    <3> QED BY <2>1, <2>2, <3>3, RoutedUser
  <2> QED BY <2>1, <2>3 DEF Ends, TerminatesForCause, OutOfBoundsOnlyWhenFull
<1>9. CASE ConnectsOutOfBounds
  <2>1. /\ call = NoCall /\ NewUserId >= KMaxPlayers /\ halted' = "undefined"
        /\ userInfo' = userInfo
        /\ \/ ~Full
           \/ /\ serverPc = "mock" /\ pending > 0 /\ Head(botPackets).type = "connect"
    BY <1>9 DEF ConnectsOutOfBounds, stateVars
  <2>2. PICK real \in RealIds : combinedIdByReal[real] = InvalidUserId
    <3>1. CASE ~Full
      <4>1. nextId \in Ids /\ nextId < MaxConnections
        BY <3>1, IdFacts DEF Full, Ids, Inv, TypeOK, UserIdsTypeOK
      <4> QED BY <4>1, IdFacts DEF Inv, NextIsFree, FreeSlotsUnrouted
    <3>2. CASE serverPc = "mock" /\ pending > 0 /\ Head(botPackets).type = "connect"
      <4>1. /\ botPackets \in Seq(BotPacket) /\ pending \in Nat /\ pending <= Len(botPackets)
        BY <3>2 DEF Inv, TypeOK, UserIdsTypeOK, BotsInTurn
      <4>2. Len(botPackets) \in Nat \ {0} /\ botPackets[1] = Head(botPackets)
        BY <3>2, <4>1
      <4>3. botPackets[1] \in BotPacket
        BY <4>1, <4>2
      <4>4. PICK s \in BotSlots : botPackets[1] = BotConnect(s)
        BY <3>2, <4>2, <4>3 DEF BotPacket, BotConnect
      <4>5. ClosedBefore(s, 1)
        BY <4>2, <4>4 DEF Inv, BotsInTurn
      <4> QED BY <4>5, IdFacts DEF ClosedBefore
    <3> QED BY <2>1, <3>1, <3>2
  <2>3. Cardinality({u \in UserIds : userInfo[u] # NoUser}) = KMaxPlayers - 1
    BY <2>1, <2>2, FullWhenOutOfBounds
  <2> QED BY <2>1, <2>3 DEF Ends, TerminatesForCause, OutOfBoundsOnlyWhenFull
<1> QED BY <1>3, <1>4, <1>5, <1>6, <1>7, <1>8, <1>9, StepKinds DEF MessageOrError

-----------------------------------------------------------------------------
(* The strengthened invariant.                                              *)

LEMMA InitStrong ==
  ASSUME Init
  PROVE  Strong
<1>1. /\ links = {} /\ received = <<>> /\ Len(received) = 0
      /\ guidById = [i \in Ids |-> NoGuid]
      /\ idByGuid = [g \in Guids |-> InvalidUserId]
      /\ nextId = 0
      /\ bots = {} /\ botPackets = <<>> /\ Len(botPackets) = 0
      /\ combinedIdByReal = [r \in RealIds |-> InvalidUserId]
      /\ call = NoCall /\ halted = "no" /\ leaked = {}
  BY DEF Init, UserIdsInit
<1>2. \A g \in Guids : ~SeenAfter(g, 0)
  <2>1. \A g \in Guids : Waiting(g, 0) = {}
    BY <1>1 DEF Waiting
  <2> QED BY <1>1, <2>1 DEF SeenAfter
<1>3. PacketsInTurn
  BY <1>1 DEF PacketsInTurn
<1>4. PeersHavePlaces
  <2>1. PeersAfter(0) = {}
    BY <1>2 DEF PeersAfter
  <2>2. \A k \in 0..Len(received) : k = 0
    BY <1>1
  <2> QED BY <2>1, <2>2, FS_EmptySet, IdFacts DEF PeersHavePlaces
<1>5. \A i \in Ids : ~Routed(i) /\ ~Closing(i)
  BY <1>1, IdFacts DEF Routed, Closing, NoCall
<1>6. SlotsInUse /\ PeersOfSlots /\ UsersAreSeen
  BY <1>1, <1>5, IdFacts DEF SlotsInUse, PeersOfSlots, UsersAreSeen
<1>7. SlotsOfPeers
  BY <1>1, <1>2 DEF SlotsOfPeers, SeenConnected
<1>8. Calls
  BY <1>1 DEF Calls, PacketsFromOwner, DisconnectingRecorded, NoCall
<1>9. BotsCloseOnce
  BY <1>1, IdFacts DEF BotsCloseOnce
<1>10. TerminatesForCause /\ OutOfBoundsOnlyWhenFull
  BY <1>1 DEF TerminatesForCause, OutOfBoundsOnlyWhenFull
<1> QED BY <1>3, <1>4, <1>6, <1>7, <1>8, <1>9, <1>10, InitInv DEF Strong, Calls

LEMMA StrongNext ==
  ASSUME Strong, [Next]_vars
  PROVE  Strong'
<1>1. Inv /\ TypeOK /\ Queue /\ PacketsInTurn /\ Peers /\ Calls /\ BotsCloseOnce /\ Ends
  BY DEF Strong, Inv, Queue, Peers, Calls, Ends
<1>2. Inv'
  BY <1>1, NextInv
<1>3. CASE Next
  <2>1. Queue' /\ Peers' /\ Calls' /\ BotsCloseOnce' /\ Ends'
    BY <1>1, <1>3, QueueNext, PeersNext, CallsNext, BotsCloseNext, EndsNext
  <2> QED BY <1>2, <2>1 DEF Strong, Queue, Peers, Calls, Ends
<1>4. CASE UNCHANGED vars
  <2>1. UNCHANGED <<rakNetVars, idManagerVars, mockVars, combinedVars, loopVars, historyVars,
                    stateVars, worldVars>>
    BY <1>4 DEF vars, userIdsVars
  <2>2. /\ UNCHANGED <<links, received, guidById, idByGuid, nextId, bots, botPackets,
                       combinedIdByReal, call, halted, leaked, everRejected>>
        /\ UNCHANGED <<botsClosed, closedTwice, userInfo>>
    BY <2>1 DEF rakNetVars, idManagerVars, mockVars, combinedVars, loopVars, historyVars,
       stateVars
  <2>3. Queue'
    <3>1. PacketsInTurn'
      BY <1>1, <2>2 DEF PacketsInTurn, SeenAfter, Waiting
    <3>2. \A k : PeersAfter(k)' = PeersAfter(k)
      BY <2>1, SeenKept DEF PeersAfter
    <3> QED BY <1>1, <2>2, <3>1, <3>2 DEF Queue, PeersHavePlaces
  <2>4. Peers'
    BY <1>1, <2>2 DEF Peers, SlotsInUse, PeersOfSlots, UsersAreSeen, SlotsOfPeers, Routed,
       Closing, Running, SeenConnected, SeenAfter, Waiting
  <2>5. Calls' /\ Ends'
    BY <1>1, <2>2 DEF Calls, PacketsFromOwner, DisconnectingRecorded, IsConnected, Ends,
       TerminatesForCause, OutOfBoundsOnlyWhenFull
  <2>6. BotsCloseOnce'
    BY <1>1, <2>2 DEF BotsCloseOnce, OpenBefore
  <2> QED BY <1>2, <2>3, <2>4, <2>5, <2>6 DEF Strong, Queue, Peers, Calls, Ends
<1> QED BY <1>3, <1>4

\* Strong holds in every state: with Inv, the order of RakNet's packets and its limit of
\* connections, which slots are in use and which are lost, that the peer of a user is known
\* to have its slot, and the order of what bots send.
THEOREM StrongHolds == Spec => []Strong
<1>1. Init => Strong
  BY InitStrong
<1>2. Strong /\ [Next]_vars => Strong'
  BY StrongNext
<1> QED BY <1>1, <1>2, PTL DEF Spec

-----------------------------------------------------------------------------
(* Sessions and peers.                                                      *)

\* The user of a peer has the slot of the peer, or had it until the disconnection in progress.
LEMMA SlotOfUser ==
  ASSUME Strong, NEW u \in UserIds, userInfo[u] # NoUser, userInfo[u].guid # NoGuid
  PROVE  \E i \in Ids :
           /\ guidById[i] = userInfo[u].guid
           /\ \/ Routed(i) /\ combinedIdByReal[<<0, i>>] = u
              \/ Closing(i) /\ call.user = u
<1>1. CASE u \in usedIds \ {0}
  <2>1. PICK r \in RealIds : r = realIdByCombined[u]
    BY <1>1 DEF Strong, Inv, TypeOK, UserIdsTypeOK, RoutesInverse
  <2>2. userInfo[u].guid = IF r[1] = 0 THEN guidById[r[2]] ELSE NoGuid
    BY <1>1, <2>1 DEF Strong, Inv, UsersRecorded
  <2>3. PICK i \in Ids : r = <<0, i>>
    BY <2>2, IdFacts
  <2>4. combinedIdByReal[r] = u
    BY <2>1 DEF Strong, Inv, RoutesInverse
  <2>5. guidById[i] = userInfo[u].guid
    BY <2>2, <2>3
  <2> QED BY <2>3, <2>4, <2>5, IdFacts DEF Routed
<1>2. CASE u = disconnectingUserId
  <2>1. call.type = "disconnect" /\ call.user = u /\ call.real \in RealIds
    BY <1>2, IdFacts DEF Strong, Inv, DisconnectingUnrouted
  <2>2. userInfo[u].guid = IF call.real[1] = 0 THEN guidById[call.real[2]] ELSE NoGuid
    BY <2>1 DEF Strong, DisconnectingRecorded
  <2>3. PICK i \in Ids : call.real = <<0, i>>
    BY <2>1, <2>2, IdFacts
  <2> QED BY <2>1, <2>2, <2>3 DEF Closing
<1> QED BY <1>1, <1>2 DEF Strong, Inv, UsersRecorded

\* A slot has one user at a time.
LEMMA ClosingUnrouted ==
  ASSUME Inv, NEW i, Closing(i)
  PROVE  ~Routed(i)
BY DEF Closing, Routed, Inv, DisconnectingUnrouted

LEMMA StrongOneSession ==
  ASSUME Strong
  PROVE  OneSessionPerPeer
<1> SUFFICES ASSUME NEW u \in UserIds, NEW v \in UserIds,
                    userInfo[u] # NoUser, userInfo[v] # NoUser,
                    userInfo[u].guid = userInfo[v].guid, userInfo[u].guid # NoGuid
             PROVE  u = v
  BY DEF OneSessionPerPeer
<1>1. PICK i \in Ids : /\ guidById[i] = userInfo[u].guid
                       /\ \/ Routed(i) /\ combinedIdByReal[<<0, i>>] = u
                          \/ Closing(i) /\ call.user = u
  BY SlotOfUser
<1>2. PICK j \in Ids : /\ guidById[j] = userInfo[v].guid
                       /\ \/ Routed(j) /\ combinedIdByReal[<<0, j>>] = v
                          \/ Closing(j) /\ call.user = v
  BY SlotOfUser
<1>3. i = j
  BY <1>1, <1>2 DEF Strong, PeersOfSlots
<1> QED BY <1>1, <1>2, <1>3, ClosingUnrouted DEF Strong

LEMMA StrongMatchesLinks ==
  ASSUME Strong
  PROVE  SessionsMatchLinks
<1> SUFFICES ASSUME Running, ~everRejected, call.type # "disconnect", NEW g \in Guids
             PROVE  SeenConnected(g) <=>
                      \E u \in UserIds : userInfo[u] # NoUser /\ userInfo[u].guid = g
  BY DEF SessionsMatchLinks
<1>1. Inv /\ Peers
  BY DEF Strong, Peers
<1>2. ASSUME SeenConnected(g)
      PROVE  \E u \in UserIds : userInfo[u] # NoUser /\ userInfo[u].guid = g
  <2>1. PICK u : /\ u = combinedIdByReal[<<0, idByGuid[g]>>] /\ u \in usedIds
                 /\ IsConnected(u) /\ userInfo[u].guid = g
    BY <1>1, <1>2, SeenPeer
  <2>2. u \in UserIds
    BY <1>1, <2>1 DEF Inv, TypeOK, UserIdsTypeOK
  <2> QED BY <2>1, <2>2 DEF IsConnected
<1>3. ASSUME NEW u \in UserIds, userInfo[u] # NoUser, userInfo[u].guid = g
      PROVE  SeenConnected(g)
  <2>1. userInfo[u].guid # NoGuid
    BY <1>3, IdFacts
  <2>2. PICK i \in Ids : guidById[i] = g /\ Routed(i)
    BY <1>3, <2>1, SlotOfUser DEF Closing
  <2> QED BY <1>1, <2>2 DEF Peers, UsersAreSeen
<1> QED BY <1>2, <1>3

\* The slots that are not lost are as many as the connected peers.
LEMMA StrongCounts ==
  ASSUME Strong
  PROVE  ClientsCounted
<1> SUFFICES ASSUME Running, call = NoCall, received = <<>>, ~everRejected
             PROVE  Cardinality({i \in Ids : guidById[i] # NoGuid})
                      = Cardinality(links) + Cardinality(leaked)
  BY DEF ClientsCounted
<1> DEFINE R == {i \in Ids : Routed(i)}
           f == [i \in R |-> guidById[i]]
<1>1. /\ guidById \in [Ids -> Guids \cup {NoGuid}]
      /\ idByGuid \in [Guids -> Ids \cup {InvalidUserId}]
      /\ leaked \in SUBSET Ids /\ links \in SUBSET Guids
  BY DEF Strong, Inv, TypeOK, UserIdsTypeOK
<1>2. \A g \in Guids : SeenConnected(g) <=> g \in links
  <2>1. \A g \in Guids : Waiting(g, 0) = {}
    BY DEF Waiting
  <2> QED BY <2>1 DEF SeenConnected, SeenAfter
<1>3. \A i \in Ids : ~Closing(i)
  BY DEF Closing, NoCall
<1>4. {i \in Ids : guidById[i] # NoGuid} = R \cup leaked /\ R \cap leaked = {}
  BY <1>1, <1>3 DEF Strong, SlotsInUse
<1>5. IsFiniteSet(R) /\ IsFiniteSet(leaked)
  <2>1. 0 \in Int /\ MaxConnections - 1 \in Int
    BY IdFacts
  <2>2. IsFiniteSet(Ids)
    BY <2>1, FS_Interval DEF Ids
  <2> QED BY <1>1, <2>2, FS_Subset
<1>6. \A i \in R : guidById[i] \in links
  <2>1. \A i \in R : guidById[i] \in Guids
    BY <1>1 DEF Strong, SlotsInUse
  <2> QED BY <1>2, <2>1 DEF Strong, UsersAreSeen
<1>7. \A i, j \in R : guidById[i] = guidById[j] => i = j
  BY DEF Strong, PeersOfSlots
<1>8. \A g \in links : \E i \in R : guidById[i] = g
  BY <1>1, <1>2 DEF Strong, SlotsOfPeers
<1>9. ExistsBijection(R, links)
  <2>1. f \in Injection(R, links)
    <3>1. f \in [R -> links] /\ \A i \in R : f[i] = guidById[i]
      BY <1>6
    <3> HIDE DEF f, R
    <3> QED BY <1>7, <3>1 DEF Injection, IsInjective
  <2>2. f \in Surjection(R, links)
    BY <1>6, <1>8 DEF Surjection
  <2> QED BY <2>1, <2>2 DEF ExistsBijection, Bijection
<1>10. Cardinality(links) = Cardinality(R)
  BY <1>5, <1>9, FS_Bijection
<1>11. Cardinality(R \cup leaked) = Cardinality(R) + Cardinality(leaked)
  <2>1. Cardinality(R \cup leaked)
          = Cardinality(R) + Cardinality(leaked) - Cardinality(R \cap leaked)
    BY <1>5, FS_Union
  <2>2. Cardinality(R) \in Nat /\ Cardinality(leaked) \in Nat
    BY <1>5, FS_CardinalityType
  <2>3. Cardinality(R \cap leaked) = 0
    BY <1>4, FS_EmptySet
  <2> HIDE DEF R
  <2> QED BY <2>1, <2>2, <2>3
<1> QED BY <1>4, <1>10, <1>11

\* Sessions, links and routes agree.  A peer has at most one session; as long as nobody was
\* turned away, exactly the connected peers have one, packets are handled as of the session
\* of their peer, and the gauge of clients is too large by the lost slots alone; the process
\* ends only after a bot was closed twice or a peer turned away, or when all ids are taken.
THEOREM SessionsSoundHolds == Spec => []SessionsSound
<1>1. Strong => SessionsSound
  BY StrongOneSession, StrongMatchesLinks, StrongCounts DEF Strong, SessionsSound
<1> QED BY <1>1, StrongHolds, PTL

\* When every slot is in use and none is lost, RakNet has no connection left.
LEMMA FullOnlyAfterLeak ==
  ASSUME Strong, Running, ReceiveConnectionFull
  PROVE  leaked # {}
<1> SUFFICES ASSUME leaked = {} PROVE FALSE
  OBVIOUS
<1> DEFINE T == PeersAfter(1) \ {Sender}
           f == [i \in Ids |-> guidById[i]]
<1>1. /\ Receives("connect") /\ Full /\ call = NoCall
      /\ nextId \in 0..MaxConnections /\ guidById \in [Ids -> Guids \cup {NoGuid}]
      /\ TypeOK /\ PacketsInTurn
  BY DEF ReceiveConnectionFull, Receives, Strong, Inv, TypeOK, UserIdsTypeOK
<1>2. /\ Sender \in Guids /\ Len(received) \in Nat \ {0} /\ ~SeenConnected(Sender)
      /\ \A g \in Guids :
           SeenAfter(g, 1) <=> IF g = Sender THEN TRUE ELSE SeenConnected(g)
  BY <1>1, ReceivedSeen
<1>3. \A i \in Ids : Routed(i) /\ guidById[i] \in Guids
  <2>1. nextId = MaxConnections /\ \A i \in Ids : i < nextId
    BY <1>1, IdFacts DEF Full, Ids
  <2>2. \A i \in Ids : ~Closing(i)
    BY <1>1 DEF Closing, NoCall
  <2> QED BY <1>1, <2>1, <2>2 DEF Strong, SlotsInUse
<1>4. \A i \in Ids : SeenConnected(guidById[i])
  BY <1>3 DEF Strong, UsersAreSeen
<1>5. f \in Injection(Ids, T)
  <2>1. \A i \in Ids : guidById[i] \in T
    BY <1>2, <1>3, <1>4 DEF PeersAfter
  <2>2. \A i, j \in Ids : guidById[i] = guidById[j] => i = j
    BY <1>3 DEF Strong, PeersOfSlots
  <2>3. f \in [Ids -> T] /\ \A i \in Ids : f[i] = guidById[i]
    BY <2>1
  <2> HIDE DEF f, T
  <2> QED BY <2>2, <2>3 DEF Injection, IsInjective
<1>6. IsFiniteSet(PeersAfter(1)) /\ Cardinality(PeersAfter(1)) <= MaxConnections
  BY <1>2 DEF Strong, PeersHavePlaces
<1>7. Sender \in PeersAfter(1)
  BY <1>2 DEF PeersAfter
<1>8. IsFiniteSet(T) /\ Cardinality(T) = Cardinality(PeersAfter(1)) - 1
  BY <1>6, <1>7, FS_RemoveElement
<1>9. Cardinality(Ids) <= Cardinality(T)
  BY <1>5, <1>8, FS_Injection
<1>10. Cardinality(Ids) = MaxConnections
  <2>1. 0 \in Int /\ MaxConnections - 1 \in Int /\ MaxConnections \in Nat \ {0}
    BY IdFacts
  <2>2. Cardinality(Ids) = IF 0 > MaxConnections - 1 THEN 0 ELSE (MaxConnections - 1) - 0 + 1
    BY <2>1, FS_Interval DEF Ids
  <2> QED BY <2>1, <2>2
<1>11. Cardinality(PeersAfter(1)) \in Nat
  BY <1>6, FS_CardinalityType
<1> QED BY <1>6, <1>8, <1>9, <1>10, <1>11, IdFacts

\* allocateId finds a slot for every peer that RakNet accepts, unless a slot was lost because
\* a handler threw in an earlier disconnection.
THEOREM RejectsOnlyAfterLeakHolds == Spec => RejectsOnlyAfterLeak
<1>1. ASSUME Strong, [Next]_vars, everRejected', ~everRejected
      PROVE  leaked # {}
  <2>1. CASE UNCHANGED vars
    BY <1>1, <2>1 DEF vars, userIdsVars, historyVars
  <2>2. CASE Next /\ ReceiveConnectionFull
    BY <1>1, <2>2, StepKinds, FullOnlyAfterLeak
  <2>3. CASE Next /\ ~ReceiveConnectionFull
    <3>1. UNCHANGED everRejected
      <4>1. CASE \/ RakNetThread
                 \/ TickSteps /\ UNCHANGED <<stateVars, worldVars>>
                 \/ TickDeferredMessages
                 \/ Js
        BY <1>1, <4>1, QuietSteps DEF Quiet, Strong, Inv
      <4>2. CASE PeerConnects \/ PeerDisconnects \/ BotConnects \/ BotDisconnects
        BY <4>2 DEF PeerConnects, ReceiveConnection, PeerDisconnects, ReceiveDisconnection,
           BotConnects, TakeBotConnection, BotDisconnects, TakeBotDisconnection,
           TakesBotPacket, historyVars
      <4>3. CASE MessageOrError
        BY <2>3, <4>3 DEF MessageOrError, ReceiveMessage, TakeBotMessage, TakesBotPacket,
           ReceiveUnknownDisconnection, ReceiveDisconnectionTerminates,
           TakeBotDisconnectionTerminates, historyVars
      <4>4. CASE HandlerReturns \/ HandlerThrows \/ ConnectsOutOfBounds
        BY <4>4 DEF HandlerReturns, HandlerThrows, CallReturns, CallThrows,
           ConnectsOutOfBounds, historyVars
      <4> QED BY <2>3, <4>1, <4>2, <4>3, <4>4, StepKinds
    <3> QED BY <1>1, <3>1
  <2> QED BY <1>1, <2>1, <2>2, <2>3
<1>2. Strong /\ [Next]_vars => (everRejected' /\ ~everRejected => leaked # {})
  BY <1>1
<1> QED BY <1>2, StrongHolds, PTL DEF Spec, RejectsOnlyAfterLeak
=============================================================================
