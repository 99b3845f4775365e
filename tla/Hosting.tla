------------------------------ MODULE Hosting ------------------------------
(***************************************************************************)
(* Who simulates an actor that no player drives.  The server keeps one     *)
(* hoster per actor; clients ask to host what nobody moves                 *)
(* (ActionListener::OnHostAttempt), send the movement of what they host,   *)
(* and are told to stop with HostStop, also by a refused update            *)
(* (SendToNeighbours).  A client learns from the property isHostedByOther  *)
(* whether it may ask at all (formView.ts).                                *)
(*                                                                         *)
(* The server speaks over an ordered, reliable link; host attempts and     *)
(* movement of clients are unreliable.  All clients that are near are near *)
(* every modelled actor.  A tick of time is longer than every timeout here *)
(* (hostResetTimeout, two seconds, is the longest).                        *)
(***************************************************************************)
EXTENDS Naturals, Sequences, SequencesExt, FiniteSets

CONSTANTS
  Clients,      \* players, named by their own actors
  Npcs,         \* actors that may be hosted
  None,
  MaxUnread     \* bound: messages of the server a client has not read yet

ASSUME ConstantsAssumption ==
  /\ Clients \cap Npcs = {} /\ None \notin Clients \cup Npcs
  /\ IsFiniteSet(Npcs) /\ MaxUnread \in Nat

VARIABLES
  hosters,    \* WorldState::hosters, None where the map has no entry
  lastMov,    \* the entry of an actor in lastMovUpdateByIdx: "missing" when its index is
              \* not below the size, "recent", or "old" (also: never moved)
  riding,     \* WorldState::ridingHorseByRider
  owned,      \* whether a player outside Clients has the actor: "never", "now" or
              \* "left" it; "animal" for one that no player takes, and all may ride
  listeners,  \* the actor listeners of an actor, in the order of actorListenerArray
  up,         \* the server runs
  conn,       \* "off", or connected and "near" the actors or "away" from them
  queue,      \* what the server sent and a client has not read
  attempts,   \* actors whose Host message of a client is under way
  updates,    \* actors whose UpdateMovement of a client is under way
  view,       \* isHostedByOther of a client's form: "free", "other", or "none" (no form)
  hosted      \* storage['hosted'] of a client

server == <<hosters, lastMov, riding, owned, listeners, up>>
wire == <<attempts, updates>>
client == <<view, hosted>>
vars == <<server, conn, queue, wire, client>>

\* What one handler of the server sends to one client about one actor, one after the
\* other, is one message here: what becomes of the form, and HostStart or HostStop.
Views == {"free", "other"}
Message == [npc : Npcs, form : {"create", "destroy", "flag", "same"}, flag : Views,
            host : {"start", "stop", "same"}]

TypeOK ==
  /\ hosters \in [Npcs -> Clients \cup {None}]
  /\ lastMov \in [Npcs -> {"missing", "old", "recent"}]
  /\ riding \in [Clients -> Npcs \cup {None}]
  /\ owned \in [Npcs -> {"animal", "never", "now", "left"}]
  /\ listeners \in [Npcs -> Seq(Clients \cup Npcs)]
  /\ up \in BOOLEAN
  /\ conn \in [Clients -> {"off", "away", "near"}]
  /\ queue \in [Clients -> Seq(Message)]
  /\ attempts \in [Clients -> SUBSET Npcs]
  /\ updates \in [Clients -> SUBSET Npcs]
  /\ view \in [Clients -> [Npcs -> {"none", "free", "other"}]]
  /\ hosted \in [Clients -> SUBSET Npcs]

Online(c) == conn[c] # "off"
Animals == {n \in Npcs : owned[n] = "animal"}
Near == {c \in Clients : conn[c] = "near"}

ViewOf(other) == IF other THEN "other" ELSE "free"
About(n) == [npc |-> n, form |-> "same", flag |-> "free", host |-> "same"]
Create(n, other) == [About(n) EXCEPT !.form = "create", !.flag = ViewOf(other)]
Destroy(n) == [About(n) EXCEPT !.form = "destroy"]
HostStop(n) == [About(n) EXCEPT !.host = "stop"]

\* Appends said[c] to what c has to read.  Answers to clients have room for one more
\* message than the rest, so that the bound never keeps the server from answering.
Tell(said, room) ==
  /\ queue' = [c \in Clients |-> queue[c] \o said[c]]
  /\ \A c \in Clients : said[c] # << >> => Len(queue'[c]) <= room
Announce(said) == Tell(said, MaxUnread)
Answer(said) == Tell(said, MaxUnread + 1)
AnswerOnly(c, m) == Answer([x \in Clients |-> IF x = c THEN <<m>> ELSE << >>])

NpcsInSomeOrder == CHOOSE s \in SetToSeqs(Npcs) : TRUE

-----------------------------------------------------------------------------
(* Who is told that an actor has a hoster.                                 *)

\* onSubscribe: the client hears of an actor it comes near to.
HostedByOther(n, c) == owned[n] = "now" \/ hosters[n] \notin {None, c}
Greetings(c) ==
  [i \in 1..Len(NpcsInSomeOrder) |->
     Create(NpcsInSomeOrder[i], HostedByOther(NpcsInSomeOrder[i], c))]

\* GetActorToSendTo: messages to an actor without a user go to its hoster.
Addressee(l, hosts) ==
  IF l \in Clients THEN l ELSE IF owned[l] = "now" THEN None ELSE hosts[l]

\* UpdateHoster.  An actor listens to itself and to other actors, so the new hoster
\* is also told what is meant for those it hosts: that somebody else is the hoster.
\* The last word counts.
HosterNews(n, hoster, hosts, c) ==
  LET via == {i \in DOMAIN listeners[n] : Addressee(listeners[n][i], hosts) = c}
      last == {i \in via : \A j \in via : j <= i}
  IN IF via = {} THEN About(n)
     ELSE [About(n) EXCEPT !.form = "flag",
                           !.flag = ViewOf(\A i \in last : listeners[n][i] # hoster)]

-----------------------------------------------------------------------------
(* The server: messages of clients.                                        *)

Silent(n) == lastMov[n] # "recent"
Rides(c, n) == riding[c] = n
MayHost(c, n) == Rides(c, n) \/ hosters[n] = None \/ Silent(n)

\* lastMovUpdateByIdx[remoteIdx] = now, without a look at the size: a write past
\* the end is lost to every reader, or ends the process.
StampUnchecked(n) ==
  \/ /\ lastMov[n] # "missing"
     /\ lastMov' = [lastMov EXCEPT ![n] = "recent"] /\ up' = up
  \/ /\ lastMov[n] = "missing"
     /\ lastMov' = lastMov /\ up' \in BOOLEAN

\* mutant: the hoster before is not told
QuietGrant(c, n) ==
  LET prev == hosters[n]
      hosts == [hosters EXCEPT ![n] = c]
      news(x) == [HosterNews(n, c, hosts, x) EXCEPT
                    !.host = IF x = c THEN "start" ELSE "same"]
  IN /\ hosters' = hosts
     /\ StampUnchecked(n)
     /\ Answer([x \in Clients |-> IF Online(x) /\ news(x) # About(n) THEN <<news(x)>> ELSE << >>])

\* mutant: nor is it looked at whether it is the new one
StoppingGrant(c, n) ==
  LET prev == hosters[n]
      hosts == [hosters EXCEPT ![n] = c]
      news(x) == [HosterNews(n, c, hosts, x) EXCEPT
                    !.host = IF x = prev THEN "stop" ELSE IF x = c THEN "start" ELSE "same"]
  IN /\ hosters' = hosts
     /\ StampUnchecked(n)
     /\ Answer([x \in Clients |-> IF Online(x) /\ news(x) # About(n) THEN <<news(x)>> ELSE << >>])

Grant(c, n) ==
  LET prev == hosters[n]
      hosts == [hosters EXCEPT ![n] = c]
      news(x) == [HosterNews(n, c, hosts, x) EXCEPT
                    !.host = IF x = c THEN "start" ELSE IF x = prev THEN "stop" ELSE "same"]
  IN /\ hosters' = hosts
     /\ StampUnchecked(n)
     /\ Answer([x \in Clients |-> IF Online(x) /\ news(x) # About(n) THEN <<news(x)>> ELSE << >>])

\* EquipBestWeapon and the late ChangeValues do not change who hosts.
OnHostAttempt(c, n) ==
  /\ up /\ n \in attempts[c]
  /\ attempts' = [attempts EXCEPT ![c] = @ \ {n}]
  /\ IF owned[n] # "now" /\ MayHost(c, n)
     THEN Grant(c, n)
     ELSE UNCHANGED <<hosters, lastMov, up, queue>>
  /\ UNCHANGED <<riding, owned, listeners, conn, updates, client>>

\* The entry of an actor that has moved.  The table is resized to its index, which
\* makes entries for all smaller ones.
Resize(covered) ==
  [n \in Npcs |-> IF n \in covered /\ lastMov[n] = "missing" THEN "old" ELSE lastMov[n]]
Stamp(n) == \E covered \in SUBSET Npcs :
  lastMov' = [Resize(covered) EXCEPT ![n] = "recent"]

\* The update is refused by SendToNeighbours, by the validation of the movement
\* (valid is what it says), or taken.
OnUpdateMovement(c, n, valid) ==
  /\ up /\ n \in updates[c]
  /\ updates' = [updates EXCEPT ![c] = @ \ {n}]
  /\ \/ /\ owned[n] = "now"
        /\ hosters' = [hosters EXCEPT ![n] = None]
        /\ AnswerOnly(c, HostStop(n))
        /\ UNCHANGED lastMov
     \/ /\ owned[n] # "now" /\ hosters[n] # c
        /\ AnswerOnly(c, HostStop(n))
        /\ UNCHANGED <<hosters, lastMov>>
     \/ /\ owned[n] # "now" /\ hosters[n] = c
        /\ IF valid THEN Stamp(n) ELSE UNCHANGED lastMov
        /\ UNCHANGED <<hosters, queue>>
  /\ UNCHANGED <<riding, owned, listeners, up, conn, attempts, client>>

\* A client moves its own actor, on a horse or on foot; covered are the actors whose
\* indices are smaller.
OnOwnMovement(c, horse, covered) ==
  /\ up /\ Online(c)
  /\ riding' = [riding EXCEPT ![c] = horse]
  /\ lastMov' = Resize(covered)
  /\ UNCHANGED <<hosters, owned, listeners, up, conn, queue, wire, client>>

-----------------------------------------------------------------------------
(* The server: users and the grid.                                         *)

\* The first player around makes the server load the actors, which subscribe to each
\* other in an order that depends on addresses; later ones come last.
Listen(c) ==
  \/ /\ \A n \in Npcs : listeners[n] = << >>
     /\ \E order \in SetToSeqs(Npcs \cup {c}) : listeners' = [n \in Npcs |-> order]
  \/ /\ \A n \in Npcs : listeners[n] # << >>
     /\ listeners' = [n \in Npcs |-> Append(listeners[n], c)]
Unlisten(c) == listeners' = [n \in Npcs |-> RemoveFirst(listeners[n], c)]

\* SetUserActor of a player who connects near the actors, or one who walks up to them:
\* a movement that crosses the border is OnOwnMovement and then Arrive or Leave.
Arrive(c) ==
  /\ up /\ conn[c] # "near"
  /\ conn' = [conn EXCEPT ![c] = "near"]
  /\ Listen(c)
  /\ Announce([x \in Clients |-> IF x = c THEN Greetings(c) ELSE << >>])
  /\ UNCHANGED <<hosters, lastMov, riding, owned, up, wire, client>>

Leave(c) ==
  /\ up /\ conn[c] = "near"
  /\ conn' = [conn EXCEPT ![c] = "away"]
  /\ Unlisten(c)
  /\ Announce([x \in Clients |-> IF x # c THEN << >> ELSE
             [i \in 1..Len(NpcsInSomeOrder) |-> Destroy(NpcsInSomeOrder[i])]])
  /\ UNCHANGED <<hosters, lastMov, riding, owned, up, wire, client>>

\* invalidateSpawn on the client; the server forgets the user and nothing else.
Disconnect(c) ==
  /\ up /\ Online(c)
  /\ conn' = [conn EXCEPT ![c] = "off"]
  /\ Unlisten(c)
  /\ queue' = [queue EXCEPT ![c] = << >>]
  /\ attempts' = [attempts EXCEPT ![c] = {}]
  /\ updates' = [updates EXCEPT ![c] = {}]
  /\ view' = [view EXCEPT ![c] = [n \in Npcs |-> "none"]]
  /\ hosted' = [hosted EXCEPT ![c] = {}]
  /\ UNCHANGED <<hosters, lastMov, riding, owned, up>>

\* SetUserActor gives the actor to a player outside Clients.  Its hoster is erased
\* and not told; those around hear of the actor anew.
Take(n) ==
  /\ up /\ owned[n] \in {"never", "left"}
  /\ owned' = [owned EXCEPT ![n] = "now"]
  /\ hosters' = [hosters EXCEPT ![n] = None]
  /\ \E order \in SetToSeqs(Range(listeners[n])) :
       listeners' = [listeners EXCEPT ![n] = order]
  /\ Announce([c \in Clients |-> IF c \in Near THEN <<Create(n, TRUE)>> ELSE << >>])
  /\ UNCHANGED <<lastMov, riding, up, conn, wire, client>>

\* The owner moves it, or goes.
OwnerMoves(n) ==
  /\ up /\ owned[n] = "now"
  /\ Stamp(n)
  /\ UNCHANGED <<hosters, riding, owned, listeners, up, conn, queue, wire, client>>

\* A player is given another character.  (spawn.ts disables the character of one who
\* disconnects, so nobody would host it; here it may be hosted all the same.)
Abandon(n) ==
  /\ up /\ owned[n] = "now"
  /\ owned' = [owned EXCEPT ![n] = "left"]
  /\ UNCHANGED <<hosters, lastMov, riding, listeners, up, conn, queue, wire, client>>

-----------------------------------------------------------------------------
(* The client.                                                             *)

Forms(c) == {n \in Npcs : view[c][n] # "none"}

\* FormView.applyAll: movement is applied to what another client hosts, news or not,
\* and that is noted in lastApply.  (Any other form gets it once, when it is new; a
\* frame less than 33 ms after the last does nothing.)
Applies(c) == {n \in Forms(c) : view[c][n] = "other"}

\* tryHostIfNeed: for what may be hosted, and, before that, for what nothing was applied
\* to for long: also what the client hosts, and all if this frame comes late, after a
\* standstill of the game.  An attempt that lastTryHost or lastRehost puts off for a
\* second is like one that is lost.
Tries(c, late) == IF late THEN Forms(c) ELSE Forms(c) \ Applies(c)

\* One frame: the views, then sendInputs with the movement of the hosted actors that
\* have a form.  hostAttempts, one of which is sent per frame, is emptied in one.
Frame(c, late) ==
  /\ up /\ Online(c)
  /\ attempts' = [attempts EXCEPT ![c] = @ \cup Tries(c, late)]
  /\ updates' = [updates EXCEPT ![c] = @ \cup (hosted[c] \cap Forms(c))]
  /\ UNCHANGED <<server, conn, queue, client>>

\* The next message is read.  A property of a form that is gone changes nothing.
ShownAs(m, now) ==
  CASE m.form = "same" -> now
    [] m.form = "create" -> m.flag
    [] m.form = "flag" -> IF now = "none" THEN "none" ELSE m.flag
    [] m.form = "destroy" -> "none"
HostedAs(m, now) ==
  CASE m.host = "same" -> now
    [] m.host = "start" -> now \cup {m.npc}
    [] m.host = "stop" -> now \ {m.npc}

Read(c) ==
  /\ up /\ queue[c] # << >>
  /\ queue' = [queue EXCEPT ![c] = Tail(@)]
  /\ LET m == Head(queue[c])
     IN /\ view' = [view EXCEPT ![c][m.npc] = ShownAs(m, @)]
        /\ hosted' = [hosted EXCEPT ![c] = HostedAs(m, @)]
  /\ UNCHANGED <<server, conn, wire>>

-----------------------------------------------------------------------------
(* The surroundings.                                                       *)

Lose(c) ==
  /\ up
  /\ \E n \in Npcs :
       \/ /\ n \in attempts[c]
          /\ attempts' = [attempts EXCEPT ![c] = @ \ {n}] /\ UNCHANGED updates
       \/ /\ n \in updates[c]
          /\ updates' = [updates EXCEPT ![c] = @ \ {n}] /\ UNCHANGED attempts
  /\ UNCHANGED <<server, conn, queue, client>>

\* More than two seconds pass.
Tick ==
  /\ up
  /\ lastMov' = [n \in Npcs |-> IF lastMov[n] = "recent" THEN "old" ELSE lastMov[n]]
  /\ UNCHANGED <<hosters, riding, owned, listeners, up, conn, queue, wire, client>>

Init ==
  /\ hosters = [n \in Npcs |-> None]
  /\ lastMov = [n \in Npcs |-> "missing"]
  /\ riding = [c \in Clients |-> None]
  /\ owned \in [Npcs -> {"animal", "never"}]
  /\ listeners = [n \in Npcs |-> << >>]
  /\ up = TRUE
  /\ conn = [c \in Clients |-> "off"]
  /\ queue = [c \in Clients |-> << >>]
  /\ attempts = [c \in Clients |-> {}]
  /\ updates = [c \in Clients |-> {}]
  /\ view = [c \in Clients |-> [n \in Npcs |-> "none"]]
  /\ hosted = [c \in Clients |-> {}]

Next ==
  \/ \E c \in Clients :
       \/ Arrive(c) \/ Leave(c) \/ Disconnect(c)
       \/ Read(c) \/ Lose(c)
       \/ \E late \in BOOLEAN : Frame(c, late)
       \/ \E horse \in Animals \cup {None}, covered \in SUBSET Npcs :
            OnOwnMovement(c, horse, covered)
       \/ \E n \in Npcs :
            \/ OnHostAttempt(c, n)
            \/ \E valid \in BOOLEAN : OnUpdateMovement(c, n, valid)
  \/ \E n \in Npcs : Take(n) \/ OwnerMoves(n) \/ Abandon(n)
  \/ Tick

\* Time passes, the game of a client draws frames and its network is polled; a message
\* that is sent again and again arrives in the end.  No game has to stand still.
Fairness ==
  /\ WF_vars(Tick)
  /\ \A c \in Clients :
       /\ WF_vars(Frame(c, FALSE)) /\ WF_vars(Read(c))
       /\ \A n \in Npcs :
            /\ SF_vars(OnHostAttempt(c, n))
            /\ SF_vars(\E valid \in BOOLEAN : OnUpdateMovement(c, n, valid))

Spec == Init /\ [][Next]_vars /\ Fairness

-----------------------------------------------------------------------------
(* Properties.                                                             *)

OfForm(m, n) == m.npc = n /\ m.form # "same"
OfHost(m, n) == m.npc = n /\ m.host # "same"

\* The last message of q that says something of the host, or the form, of n says so.
LastHostIs(q, n, word) ==
  \E i \in DOMAIN q : /\ q[i].npc = n /\ q[i].host = word
                     /\ \A j \in DOMAIN q : j > i => ~OfHost(q[j], n)
LastFormFree(q, n) ==
  \E i \in DOMAIN q : /\ q[i].npc = n /\ q[i].form \in {"create", "flag"} /\ q[i].flag = "free"
                     /\ \A j \in DOMAIN q : j > i => ~OfForm(q[j], n)

\* Whether a client hosts n, and takes it for free, once it has read what it was sent.
WillHost(c, n) ==
  \/ LastHostIs(queue[c], n, "start")
  \/ n \in hosted[c] /\ \A i \in DOMAIN queue[c] : ~OfHost(queue[c][i], n)
WillBeFree(c, n) ==
  \/ LastFormFree(queue[c], n)
  \/ view[c][n] = "free" /\ \A i \in DOMAIN queue[c] : ~OfForm(queue[c][i], n)

\* Two clients never go on simulating one actor: whoever will host it, once it has read
\* what it was sent, is its hoster, however hosts, walks and reconnects interleave.
\* (An actor that a player has taken: StrangersStop.)
HostsAreHosters ==
  \A c \in Clients, n \in Npcs :
    owned[n] \in {"animal", "never"} /\ WillHost(c, n) => hosters[n] = c

\* The hoster is not told to stop: a HostStop that crosses a new HostStart would leave
\* the actor with a hoster that does not simulate it.
HosterNotStopped ==
  \A c \in Clients, n \in Npcs : LastHostIs(queue[c], n, "stop") => hosters[n] # c

\* A client that may ask for an actor, by isHostedByOther, does not ask for one that a
\* player drives or another client hosts, when it is up to date.
FreeMeansFree ==
  \A c \in Clients, n \in Npcs :
    WillBeFree(c, n) => owned[n] # "now" /\ hosters[n] \in {None, c}

\* What else has to be right between the server and its clients about hosters.
Inv == TypeOK /\ HosterNotStopped /\ FreeMeansFree

\* Does not hold.  ActionListener.cpp:731 stamps an actor when its hoster changes:
\* "Prevents too fast host switch".  A hoster is replaced only when that, or its last
\* movement, is more than two seconds ago, unless the actor is ridden.
NoFastSwitch ==
  [][\A n \in Npcs :
       hosters[n] # None /\ hosters'[n] \notin {hosters[n], None}
         => Rides(hosters'[n], n) \/ lastMov[n] = "old"]_vars

\* Does not hold.  formView.ts:499: a client tries to host what it is "not seeing movement
\* for long time" of.  The hoster is gone; it does not move the actor.
Forsaken(c, n) ==
  /\ up /\ view[c][n] = "other" /\ owned[n] = "animal"
  /\ hosters[n] \notin Near \cup {None}
ForsakenAreTried ==
  \A c \in Clients, n \in Npcs :
    Forsaken(c, n) ~> ~Forsaken(c, n) \/ n \in attempts[c]

\* Holds, for one client.  SetUserActor (PartOne.cpp:188) erases the hoster without a word
\* and relies on the next movement for it: a client that has the actor in view and hosts
\* it although the server thinks otherwise stops, or becomes the hoster.
Stranger(c, n) == up /\ n \in hosted[c] /\ hosters[n] # c /\ n \in Forms(c)
StrangersStop ==
  \A c \in Clients, n \in Npcs : Stranger(c, n) ~> ~Stranger(c, n)

\* Holds, for one client.  An actor in view that a client takes for free does not stand
\* still for ever, also when the server still has that client as the hoster from before it
\* reconnected.
Unmoved(c, n) == up /\ view[c][n] = "free" /\ n \notin hosted[c]
FreeActorsGetHosts ==
  \A c \in Clients, n \in Npcs : Unmoved(c, n) ~> ~Unmoved(c, n)
=============================================================================
