------------------------------ MODULE AdminPanel ------------------------------
(***************************************************************************)
(* The players page of the admin dashboard, through three processes: the   *)
(* game publishes who plays (ui.ts), the dashboard process keeps the last  *)
(* list and serves the page, or hands its requests on to the game          *)
(* (dashboardGameProxy.ts, adminWebSocket.ts), and the page shows lists    *)
(* from a socket that reconnects (useAdminWebSocket.ts) and from requests  *)
(* whose answers come in any order (features/adminDashboard/index.tsx).    *)
(*                                                                         *)
(* The manager between game and dashboard (GameSupervisor.tla) is a queue  *)
(* here.  A slot, the userId, is given to another player once it is free;  *)
(* what the dashboard knows of a slot outlives the player, in              *)
(* admin-player-stats.json.                                                *)
(***************************************************************************)
EXTENDS Naturals, Sequences, FiniteSets, Optional

CONSTANTS
  UserIds, Profiles,
  FirstPlayers, \* profiles that play at first
  MaxIncidents, \* players that come or go, stops and crashes of the game, broken sockets, pages hidden
  MaxClicks,   \* inventories that are opened
  MaxFetches,  \* lists that are asked for at a time
  MaxQueue     \* messages under way from the game, and to the page

ASSUME PanelAssumption ==
  /\ {MaxIncidents, MaxClicks, MaxFetches, MaxQueue} \subseteq Nat
  /\ None \notin Nat \cup Profiles /\ FirstPlayers \subseteq Profiles

VARIABLES
  game,  \* its state, who plays, and what it knows of a slot
  file,  \* admin-player-stats.json
  ipc,   \* from the game, by way of the manager, to the dashboard
  dash,  \* the dashboard process
  wire,  \* the sockets of the page: their state and what is under way
  calls, \* requests of the page
  page,
  incidents \* how much happened

panelVars == <<game, file, ipc, dash, wire, calls, page, incidents>>

Clicks == 1..MaxClicks
Fetches == 1..MaxFetches
Sockets == 1..(1 + MaxIncidents)
Generations == 0..MaxIncidents

Slots == [UserIds -> Profiles \cup {None}]
Lists == [UserIds -> [online : BOOLEAN, profile : Profiles] \cup {None}]
Nobody == [u \in UserIds |-> None]
Answers == [state : {"idle", "asked", "answered", "failed"}, list : Lists]

\* States the manager tells of; down is stopped or crashed.
States == {"starting", "running", "stopping", "down"}

PanelTypeOK ==
  /\ game \in [state : States \ {"starting"}, gen : Generations, slots : Slots, stats : Slots]
  /\ file \in Slots
  /\ ipc \in Seq([op : {"state"}, state : States, gen : Generations]
                   \cup [op : {"players"}, list : Lists, gen : Generations])
  /\ dash \in [state : States, gen : Generations, stats : Slots,
               players : Lists, from : Generations \cup {None}]  \* managedPlayers, and of which game
  /\ wire \in [state : [Sockets -> {"none", "connecting", "open", "closed"}], sent : [Sockets -> Seq(Lists)]]
  /\ calls \in [
       lists : [Fetches -> Answers],
       inventories : [Clicks -> [user : UserIds, profile : Profiles] \cup {None}]]
  /\ page \in [visible : BOOLEAN, list : Lists,
               request : 0..MaxClicks,             \* inventoryRequest
               target : Profiles \cup {None}, shown : Profiles \cup {None},
               ref : Sockets \cup {None}, timer : BOOLEAN, closedByUser : BOOLEAN]
  /\ incidents \in 0..MaxIncidents

-----------------------------------------------------------------------------
(* Lists.                                                                   *)

\* Who plays, and who was in the other slots before.
ListOf(slots, stats) ==
  [u \in UserIds |->
     IF slots[u] # None THEN [online |-> TRUE, profile |-> slots[u]]
     ELSE IF stats[u] # None THEN [online |-> FALSE, profile |-> stats[u]] ELSE None]

\* updatePlayerStatsSnapshot
Snapshot(slots, stats) == [u \in UserIds |-> IF slots[u] # None THEN slots[u] ELSE stats[u]]

Alive == game.state \in {"running", "stopping"}

-----------------------------------------------------------------------------
(* The game.                                                                *)

Incident == incidents < MaxIncidents /\ incidents' = incidents + 1

StateOf(state, gen) == [op |-> "state", state |-> state, gen |-> gen]
Tell(state) == ipc' = Append(ipc, StateOf(state, game.gen))

Join(u, p) ==
  /\ game.state = "running" /\ Incident
  /\ game.slots[u] = None /\ \A v \in UserIds : game.slots[v] # p
  /\ game' = [game EXCEPT !.slots[u] = p]
  /\ UNCHANGED <<file, ipc, dash, wire, calls, page>>

Leave(u) ==
  /\ Alive /\ game.slots[u] # None /\ Incident
  /\ game' = [game EXCEPT !.slots[u] = None]
  /\ UNCHANGED <<file, ipc, dash, wire, calls, page>>

\* Every 200 ms; what changed is written at most every 30 s.
Broadcast ==
  LET stats == Snapshot(game.slots, game.stats) IN
  /\ Alive /\ Len(ipc) < MaxQueue
  /\ game' = [game EXCEPT !.stats = stats]
  /\ file' \in {file, stats}
  /\ ipc' = Append(ipc, [op |-> "players", list |-> ListOf(game.slots, stats), gen |-> game.gen])
  /\ UNCHANGED <<dash, wire, calls, page, incidents>>

\* SIGTERM: what is known is written, and the game goes on until it exits.
StopGame ==
  /\ game.state = "running" /\ Incident
  /\ game' = [game EXCEPT !.state = "stopping"]
  /\ file' = game.stats
  /\ Tell("stopping")
  /\ UNCHANGED <<dash, wire, calls, page>>

Down == [game EXCEPT !.state = "down", !.slots = Nobody, !.stats = Nobody]

GameExits ==
  /\ game.state = "stopping"
  /\ game' = Down
  /\ Tell("down")
  /\ UNCHANGED <<file, dash, wire, calls, page, incidents>>

GameCrashes ==
  /\ game.state # "down" /\ Incident
  /\ game' = Down
  /\ Tell("down")
  /\ UNCHANGED <<file, dash, wire, calls, page>>

\* A game publishes nothing before it is ready.
GameStarts ==
  /\ game.state = "down"
  /\ game' = [state |-> "running", gen |-> game.gen + 1, slots |-> Nobody, stats |-> file]
  /\ ipc' = ipc \o <<StateOf("starting", game'.gen), StateOf("running", game'.gen)>>
  /\ UNCHANGED <<file, dash, wire, calls, page, incidents>>

-----------------------------------------------------------------------------
(* The dashboard process.                                                   *)

Room == \A s \in Sockets : wire.state[s] = "open" => Len(wire.sent[s]) < MaxQueue

Push(list) ==
  wire' = [wire EXCEPT !.sent = [s \in Sockets |-> IF wire.state[s] = "open" THEN Append(@[s], list) ELSE @[s]]]

\* A state of the game: nobody is known to play in another one than a running one, and
\* what a game that is down wrote is read.
TakeState(message) ==
  LET d == [dash EXCEPT !.state = message.state, !.gen = message.gen,
                        !.stats = IF message.state = "down" THEN file ELSE @]
  IN IF message.state = "running" THEN d ELSE [d EXCEPT !.players = Nobody, !.from = None]

\* onManagedMessage; the page is told of a new state at once.
DashboardReceives ==
  /\ ipc # <<>>
  /\ ipc' = Tail(ipc)
  /\ LET message == Head(ipc) IN
     IF message.op = "state" THEN dash' = TakeState(message) /\ Push(dash'.players)
     ELSE dash' = [dash EXCEPT !.players = message.list, !.from = message.gen] /\ UNCHANGED wire
  /\ UNCHANGED <<game, file, calls, page, incidents>>

\* Every 200 ms
DashboardBroadcasts ==
  /\ Room /\ \E s \in Sockets : wire.state[s] = "open"
  /\ Push(IF dash.state = "running" THEN dash.players ELSE ListOf(Nobody, dash.stats))
  /\ UNCHANGED <<game, file, ipc, dash, calls, page, incidents>>

\* A request of the page is handed on to a game that runs, as far as the dashboard knows.
ServeList(i) ==
  /\ calls.lists[i].state = "asked"
  /\ LET stats == Snapshot(game.slots, game.stats)
         proxied == dash.state = "running"
         answer == [calls EXCEPT !.lists[i].state = "answered"]
     IN /\ calls' = IF ~proxied THEN [answer EXCEPT !.lists[i].list = ListOf(Nobody, dash.stats)]
                   ELSE IF Alive THEN [answer EXCEPT !.lists[i].list = ListOf(game.slots, stats)]
                   ELSE [calls EXCEPT !.lists[i].state = "failed"]
        /\ IF proxied /\ Alive THEN game' = [game EXCEPT !.stats = stats] /\ file' \in {file, stats}
           ELSE UNCHANGED <<game, file>>
  /\ UNCHANGED <<ipc, dash, wire, page, incidents>>

\* The profile the page names must be the one the slot is, or was last, known for.
InventoryOf(slot, stats, profile) ==
  LET known == IF slot # None THEN slot ELSE stats IN IF profile = known THEN known ELSE None

\* What is answered, None for a failure: the dashboard reads the file first.
ServeInventory(call) ==
  IF dash.state # "running" THEN InventoryOf(None, file[call.user], call.profile)
  ELSE IF Alive THEN InventoryOf(game.slots[call.user], game.stats[call.user], call.profile)
  ELSE None

-----------------------------------------------------------------------------
(* The page.                                                                *)

Unasked == [state |-> "idle", list |-> Nobody]
Fetched(cs, i) == [cs EXCEPT !.lists[i].state = "asked"]

\* connect of the hook: a new socket takes the place of the reference.
Connect(p) ==
  LET s == CHOOSE t \in Sockets : wire.state[t] = "none" /\ \A r \in Sockets : r < t => wire.state[r] # "none"
  IN IF p.closedByUser THEN page' = p /\ UNCHANGED wire
     ELSE page' = [p EXCEPT !.ref = s] /\ wire' = [wire EXCEPT !.state[s] = "connecting"]

\* show, with the hooks that become enabled
Show ==
  /\ ~page.visible
  /\ Connect([page EXCEPT !.visible = TRUE, !.closedByUser = FALSE])
  /\ \/ \E i \in Fetches : calls.lists[i].state = "idle" /\ calls' = Fetched(calls, i)
     \/ (\A i \in Fetches : calls.lists[i].state # "idle") /\ UNCHANGED calls
  /\ UNCHANGED <<game, file, ipc, dash, incidents>>

\* disconnect of the hook
Disconnected(p) == [p EXCEPT !.closedByUser = TRUE, !.ref = None, !.timer = FALSE]

Hide ==
  /\ page.visible /\ Incident
  /\ page' = [Disconnected(page) EXCEPT !.visible = FALSE, !.list = Nobody]
  /\ wire' = IF page.ref = None THEN wire ELSE [wire EXCEPT !.state[page.ref] = "closed", !.sent[page.ref] = <<>>]
  /\ UNCHANGED <<game, file, ipc, dash, calls>>

SocketOpens(s) ==
  /\ wire.state[s] = "connecting"
  /\ wire' = [wire EXCEPT !.state[s] = "open"]
  /\ UNCHANGED <<game, file, ipc, dash, calls, page, incidents>>

\* Mutant: only the error is shown.
QuietSocketCloses(s) ==
  /\ wire.state[s] \in {"connecting", "open"} /\ Incident
  /\ wire' = [wire EXCEPT !.state[s] = "closed", !.sent[s] = <<>>]
  /\ page' = IF page.ref # s THEN page ELSE [page EXCEPT !.ref = None]
  /\ UNCHANGED <<game, file, ipc, dash, calls>>

SocketCloses(s) ==
  /\ wire.state[s] \in {"connecting", "open"} /\ Incident
  /\ wire' = [wire EXCEPT !.state[s] = "closed", !.sent[s] = <<>>]
  /\ page' = IF page.ref # s THEN page ELSE [page EXCEPT !.ref = None, !.timer = ~page.closedByUser]
  /\ UNCHANGED <<game, file, ipc, dash, calls>>

ReconnectTimer ==
  /\ page.timer
  /\ Connect([page EXCEPT !.timer = FALSE])
  /\ UNCHANGED <<game, file, ipc, dash, calls, incidents>>

SocketMessage(s) ==
  /\ wire.state[s] = "open" /\ wire.sent[s] # <<>>
  /\ wire' = [wire EXCEPT !.sent[s] = Tail(@)]
  /\ page' = IF page.ref = s THEN [page EXCEPT !.list = Head(wire.sent[s])] ELSE page
  /\ UNCHANGED <<game, file, ipc, dash, calls, incidents>>

\* The page asks for lists while the socket for the status, another one, is not open.
Poll(i) ==
  /\ page.visible
  /\ calls.lists[i].state = "idle"
  /\ calls' = Fetched(calls, i)
  /\ UNCHANGED <<game, file, ipc, dash, wire, page, incidents>>

\* fetchData
ListAnswered(i) ==
  /\ calls.lists[i].state \in {"answered", "failed"}
  /\ calls' = [calls EXCEPT !.lists[i] = Unasked]
  /\ page' = IF calls.lists[i].state = "failed" THEN page ELSE [page EXCEPT !.list = calls.lists[i].list]
  /\ UNCHANGED <<game, file, ipc, dash, wire, incidents>>

\* showPlayerInventory of a row
ShowPlayerInventory(u) ==
  LET n == page.request + 1
      row == page.list[u] IN
  /\ page.visible /\ n \in Clicks /\ row # None
  /\ page' = [page EXCEPT !.request = n, !.target = row.profile, !.shown = None]
  /\ calls' = [calls EXCEPT !.inventories[n] = [user |-> u, profile |-> row.profile]]
  /\ UNCHANGED <<game, file, ipc, dash, wire, incidents>>

\* Mutant: the last answer is shown, whatever was asked for since.
HastyInventoryAnswered(n) ==
  LET call == calls.inventories[n]
      answer == ServeInventory(call) IN
  /\ call # None
  /\ calls' = [calls EXCEPT !.inventories[n] = None]
  /\ page' = IF answer # None THEN [page EXCEPT !.shown = answer] ELSE page
  /\ dash' = IF dash.state = "running" THEN dash ELSE [dash EXCEPT !.stats = file]
  /\ UNCHANGED <<game, file, ipc, wire, incidents>>

\* The answers come in any order: each is of the time it arrives, as it names a profile
\* and not who has the slot.  (A row without a profile would ask without one; rows here
\* have one.)
InventoryAnswered(n) ==
  LET call == calls.inventories[n]
      answer == ServeInventory(call) IN
  /\ call # None
  /\ calls' = [calls EXCEPT !.inventories[n] = None]
  /\ page' = IF n = page.request THEN [page EXCEPT !.shown = answer] ELSE page
  /\ dash' = IF dash.state = "running" THEN dash ELSE [dash EXCEPT !.stats = file]
  /\ UNCHANGED <<game, file, ipc, wire, incidents>>

-----------------------------------------------------------------------------

\* The game ran for a while, and an admin just opened the page.
PanelInit ==
  /\ \E slots \in Slots :
       /\ \A p \in Profiles : Cardinality({u \in UserIds : slots[u] = p}) = IF p \in FirstPlayers THEN 1 ELSE 0
       /\ game = [state |-> "running", gen |-> 0, slots |-> slots, stats |-> slots]
  /\ file = Nobody /\ ipc = <<>>
  /\ dash = [state |-> "running", gen |-> 0, stats |-> Nobody, players |-> Nobody, from |-> None]
  /\ wire = [state |-> [s \in Sockets |-> IF s = 1 THEN "connecting" ELSE "none"], sent |-> [s \in Sockets |-> <<>>]]
  /\ calls = [lists |-> [i \in Fetches |-> IF i = 1 THEN [Unasked EXCEPT !.state = "asked"] ELSE Unasked], inventories |-> [n \in Clicks |-> None]]
  /\ page = [visible |-> TRUE, list |-> Nobody, request |-> 0, target |-> None, shown |-> None,
             ref |-> 1, timer |-> FALSE, closedByUser |-> FALSE]
  /\ incidents = 0

GameStep ==
  \/ \E u \in UserIds : Leave(u) \/ \E p \in Profiles : Join(u, p)
  \/ Broadcast \/ StopGame \/ GameExits \/ GameCrashes \/ GameStarts

DashboardStep ==
  \/ DashboardReceives \/ DashboardBroadcasts
  \/ \E i \in Fetches : ServeList(i)

PageStep ==
  \/ Show \/ Hide \/ ReconnectTimer
  \/ \E s \in Sockets : SocketOpens(s) \/ SocketCloses(s) \/ SocketMessage(s)
  \/ \E i \in Fetches : Poll(i) \/ ListAnswered(i)
  \/ \E u \in UserIds : ShowPlayerInventory(u)
  \/ \E n \in Clicks : InventoryAnswered(n)

PanelNext == GameStep \/ DashboardStep \/ PageStep

PanelSpec == PanelInit /\ [][PanelNext]_panelVars

\* Intervals and timers fire, messages and answers arrive, and a game that stops or
\* starts gets there.
PanelFairness ==
  /\ WF_panelVars(Broadcast) /\ WF_panelVars(GameExits)
  /\ WF_panelVars(DashboardReceives) /\ WF_panelVars(DashboardBroadcasts) /\ WF_panelVars(ReconnectTimer)
  /\ WF_panelVars(\E s \in Sockets : SocketOpens(s) \/ SocketMessage(s))
  /\ WF_panelVars(\E i \in Fetches : ServeList(i) \/ ListAnswered(i))

FairPanelSpec == PanelSpec /\ PanelFairness

-----------------------------------------------------------------------------
(* Properties.                                                              *)

\* index.tsx, ui.ts: an inventory is shown under the name of the player whose row was
\* clicked last, whatever order answers come in, whoever has the slot by then, and
\* whichever process answers from whichever file.
InventoryMatchesDialog == page.shown # None => page.shown = page.target

\* useAdminWebSocket.ts: the hook has one socket at most, and none when the page is hidden,
\* through failures, pending reconnects, and pages hidden and shown again meanwhile.
OneSocket ==
  LET open == {s \in Sockets : wire.state[s] \in {"connecting", "open"}}
  IN /\ open \subseteq {page.ref}
     /\ ~page.visible => open = {}

\* ui.ts, onManagedMessage: the players the dashboard takes to be in a running game are
\* never those of an earlier one, although a stopping game still publishes its list after
\* it was cleared.
FreshPlayers == dash.state = "running" => dash.from \in {None, dash.gen}

\* What the page and the dashboard may never be wrong about.
PanelInv == PanelTypeOK /\ InventoryMatchesDialog /\ OneSocket /\ FreshPlayers

\* Once nothing happens any more, a page that is shown settles on who really plays, or on
\* whom the file of a game that is down knows, although old lists arrive late by three ways.
Actual ==
  IF game.state = "running" THEN ListOf(game.slots, Snapshot(game.slots, game.stats)) ELSE ListOf(Nobody, file)

ListConverges == <>[](page.visible => page.list = Actual)
=============================================================================
