----------------------------- MODULE PlayerSpawn -----------------------------
(***************************************************************************)
(* How a game client puts its own character where the server says          *)
(* (remoteServer.ts, playerSpawnLocation.ts), and holds its movement back  *)
(* until then (sendInputsService.ts).                                      *)
(*                                                                         *)
(* Messages are handled on ticks, which also run at the main menu.  Most   *)
(* of the work is left to callbacks for the next update, which only comes  *)
(* in the world, and to promises of the engine.  A revision tells the      *)
(* spawns apart, so that what is left of an old one can give up.           *)
(***************************************************************************)
EXTENDS Integers, Sequences, Optional

CONSTANTS
  Places,      \* where the server may put the character
  Template,    \* where the save that is loaded begins
  MaxRevision, \* connections, losses and spawns
  MaxDisturbances \* teleports, inventories, doors and saves that move the player

ASSUME PlaceAssumption ==
  /\ Template \notin Places /\ None \notin Nat \cup Places \cup {Template}
  /\ MaxRevision \in Nat /\ MaxDisturbances \in Nat

VARIABLES
  sc,        \* what the scripts hold
  g,         \* the engine: its world, the player's place and a move under way
  connected, \* to the server
  told       \* events so far, the newest inventory, a game that quit since the spawn

spawnVars == <<sc, g, connected, told>>

Revisions == 1..MaxRevision
Inventories == 1..(MaxRevision + MaxDisturbances)

Callbacks ==
  [op : {"teleport"}, place : Places] \cup [op : {"spawn", "loaded"}, rev : Revisions]
    \cup [op : {"inventory"}, inv : Inventories] \cup [op : {"quit"}]

SpawnTypeOK ==
  /\ sc \in [
       revision : 0..MaxRevision,       \* spawnRevision
       spawning : BOOLEAN,              \* playerSpawning
       current : Revisions \cup {None}, \* whose target spawnTarget is
       target : [Revisions -> Places \cup {None}],
       running : SUBSET Revisions,      \* spawnTask.running
       ticks : [Revisions -> 0..2],     \* ticks until the save is loaded instead
       loop : [Revisions -> {"none", "check", "wait", "arrived"}], \* restorePlayerSpawn
       queue : Seq(Callbacks),          \* once("update")
       me : BOOLEAN,                    \* playerCharacterFormIdx is not -1
       sets : Nat,                      \* numSetInventory
       known : [Revisions -> Nat],      \* numSetInventory when the spawn began
       inv : [Revisions -> Inventories \cup {None}],
       timers : [Revisions -> 0..2],    \* applyPcInv yet to come
       pcInv : Inventories \cup {None}]
  /\ g \in [world : {"menu", "loading", "playing"}, at : Places \cup {Template},
            move : Places \cup {None}]
  /\ connected \in BOOLEAN
  /\ told \in [events : 0..MaxDisturbances, inv : {0} \cup Inventories, quit : BOOLEAN]

SpawnInit ==
  /\ sc = [revision |-> 0, spawning |-> TRUE, current |-> None,
          target |-> [r \in Revisions |-> None], running |-> {},
          ticks |-> [r \in Revisions |-> 0], loop |-> [r \in Revisions |-> "none"],
          queue |-> <<>>, me |-> FALSE, sets |-> 0, known |-> [r \in Revisions |-> 0],
          inv |-> [r \in Revisions |-> None], timers |-> [r \in Revisions |-> 0], pcInv |-> None]
  /\ g = [world |-> "menu", at |-> Template, move |-> None]
  /\ connected = FALSE
  /\ told = [events |-> 0, inv |-> 0, quit |-> FALSE]

-----------------------------------------------------------------------------
(* Messages, handled on a tick.                                             *)

\* handleConnectionAccepted, and invalidateSpawn for the three ways to lose a connection.
Invalidated(s) == [s EXCEPT !.revision = @ + 1, !.spawning = TRUE, !.current = None, !.me = FALSE]

SpawnConnected ==
  /\ ~connected /\ sc.revision < MaxRevision
  /\ connected' = TRUE
  /\ sc' = Invalidated(sc)
  /\ UNCHANGED <<g, told>>

SpawnConnectionLost ==
  /\ connected /\ sc.revision < MaxRevision
  /\ connected' = FALSE
  /\ sc' = [Invalidated(sc) EXCEPT !.pcInv = None]
  /\ UNCHANGED <<g, told>>

CreatePlayerMessage(place) ==
  LET r == sc.revision + 1
      inv == told.inv + 1 IN
  /\ connected /\ ~sc.me /\ r \in Revisions
  /\ told' = [told EXCEPT !.inv = inv, !.quit = FALSE]
  /\ sc' = [sc EXCEPT !.me = TRUE, !.revision = r, !.spawning = TRUE, !.current = r,
                    !.target[r] = place, !.ticks[r] = 2, !.known[r] = sc.sets, !.inv[r] = inv,
                    !.queue = Append(@, [op |-> "spawn", rev |-> r])]
  /\ UNCHANGED <<g, connected>>

\* The server takes the character away: the game quits to the main menu.
DestroyActorMessage ==
  /\ connected /\ sc.me
  /\ sc' = [sc EXCEPT !.me = FALSE, !.queue = Append(@, [op |-> "quit"])]
  /\ UNCHANGED <<g, connected, told>>

TeleportMessage(place) ==
  /\ connected /\ sc.me /\ told.events < MaxDisturbances
  /\ told' = [told EXCEPT !.events = @ + 1]
  /\ sc' = [sc EXCEPT !.queue = Append(@, [op |-> "teleport", place |-> place])]
  /\ UNCHANGED <<g, connected>>

SetInventory(s, inv) ==
  [s EXCEPT !.sets = @ + 1, !.queue = Append(@, [op |-> "inventory", inv |-> inv])]

SetInventoryMessage ==
  /\ connected /\ sc.me /\ told.events < MaxDisturbances
  /\ told' = [told EXCEPT !.events = @ + 1, !.inv = @ + 1]
  /\ sc' = SetInventory(sc, told.inv + 1)
  /\ UNCHANGED <<g, connected>>

-----------------------------------------------------------------------------
(* Callbacks.                                                               *)

\* applyPcInv, unless the inventory was set since the spawn began.
ApplyPcInv(s, r) == IF s.sets = s.known[r] THEN SetInventory(s, s.inv[r]) ELSE s

StartLoop(s, r) == [s EXCEPT !.loop[r] = "check"]

RunCallback(sg, cb) ==
  LET s == sg.s IN
  CASE cb.op = "teleport" ->
         [s |-> IF s.me /\ s.spawning /\ s.current # None THEN [s EXCEPT !.target[s.current] = cb.place] ELSE s,
          g |-> [sg.g EXCEPT !.move = cb.place]]
    [] cb.op = "spawn" ->
         IF s.revision # cb.rev \/ cb.rev \in s.running THEN sg
         ELSE [sg EXCEPT !.s = [StartLoop(s, cb.rev) EXCEPT !.running = @ \cup {cb.rev}, !.timers[cb.rev] = 2]]
    [] cb.op = "loaded" ->
         IF s.revision # cb.rev THEN sg
         ELSE [sg EXCEPT !.s = [ApplyPcInv(StartLoop(s, cb.rev), cb.rev) EXCEPT !.timers[cb.rev] = 1]]
    [] cb.op = "inventory" -> [sg EXCEPT !.s.pcInv = cb.inv]
    [] cb.op = "quit" -> [sg EXCEPT !.g.world = "menu"]

\* The callbacks of a queue, in their order.
RunCallbacksInWorld(sg, callbacks) ==
  LET after[n \in 0..Len(callbacks)] == IF n = 0 THEN sg ELSE RunCallback(after[n - 1], callbacks[n])
  IN after[Len(callbacks)]

\* One update runs the callbacks that were waiting for it.
UpdateInWorld ==
  /\ g.world = "playing" /\ sc.queue # <<>>
  /\ LET done == RunCallbacksInWorld([s |-> [sc EXCEPT !.queue = <<>>], g |-> g], sc.queue)
     IN /\ sc' = done.s /\ g' = done.g
        /\ told' = [told EXCEPT !.quit = @ \/ done.g.world = "menu"]
  /\ UNCHANGED connected

\* Mutant: the save is loaded although an update came first.
HastyTick ==
  /\ \E r \in Revisions : sc.ticks[r] > 0
  /\ LET due == {r \in Revisions : sc.ticks[r] = 1 /\ r = sc.revision}
     IN /\ sc' = [sc EXCEPT !.ticks = [r \in Revisions |-> IF @[r] > 0 THEN @[r] - 1 ELSE 0],
                          !.running = @ \cup due,
                          !.queue = IF due = {} THEN @ ELSE Append(@, [op |-> "loaded", rev |-> sc.revision])]
        /\ g' = IF due = {} THEN g ELSE [g EXCEPT !.world = "loading", !.at = Template, !.move = None]
  /\ UNCHANGED <<connected, told>>

\* The second of two ticks: at the main menu no update came first, so a save is loaded.
Tick ==
  /\ \E r \in Revisions : sc.ticks[r] > 0
  /\ LET due == {r \in Revisions : sc.ticks[r] = 1 /\ r = sc.revision /\ r \notin sc.running}
     IN /\ sc' = [sc EXCEPT !.ticks = [r \in Revisions |-> IF @[r] > 0 THEN @[r] - 1 ELSE 0],
                          !.running = @ \cup due,
                          !.queue = IF due = {} THEN @ ELSE Append(@, [op |-> "loaded", rev |-> sc.revision])]
        /\ g' = IF due = {} THEN g ELSE [g EXCEPT !.world = "loading", !.at = Template, !.move = None]
  /\ UNCHANGED <<connected, told>>

\* One round of restorePlayerSpawn.
LoopCheck(r) ==
  /\ sc.loop[r] = "check" /\ g.world = "playing"
  /\ IF sc.revision # r THEN sc' = [sc EXCEPT !.loop[r] = "none"] /\ UNCHANGED g
     ELSE IF g.at = sc.target[r] THEN sc' = [sc EXCEPT !.loop[r] = "arrived"] /\ UNCHANGED g
     ELSE sc' = [sc EXCEPT !.loop[r] = "wait"] /\ g' = [g EXCEPT !.move = sc.target[r]]
  /\ UNCHANGED <<connected, told>>

\* Utility.wait counts game time.
LoopWait(r) ==
  /\ sc.loop[r] = "wait" /\ g.world = "playing"
  /\ sc' = [sc EXCEPT !.loop[r] = "check"]
  /\ UNCHANGED <<g, connected, told>>

\* Mutant: what the loop saw is trusted.
TrustingArrived(r) ==
  /\ sc.loop[r] = "arrived" /\ g.world = "playing"
  /\ sc' = IF sc.revision # r THEN [sc EXCEPT !.loop[r] = "none"]
          ELSE [sc EXCEPT !.loop[r] = "none", !.spawning = FALSE]
  /\ UNCHANGED <<g, connected, told>>

\* Mutant: a player that was moved away meanwhile is not restored again.
GivingUpArrived(r) ==
  /\ sc.loop[r] = "arrived" /\ g.world = "playing"
  /\ sc' = IF sc.revision # r \/ g.at # sc.target[r] THEN [sc EXCEPT !.loop[r] = "none"]
          ELSE [sc EXCEPT !.loop[r] = "none", !.spawning = FALSE]
  /\ UNCHANGED <<g, connected, told>>

\* The promise of the loop is kept later; the place is looked at again.
Arrived(r) ==
  /\ sc.loop[r] = "arrived" /\ g.world = "playing"
  /\ sc' = IF sc.revision # r THEN [sc EXCEPT !.loop[r] = "none"]
          ELSE IF g.at # sc.target[r] THEN StartLoop(sc, r)
          ELSE [sc EXCEPT !.loop[r] = "none", !.spawning = FALSE]
  /\ UNCHANGED <<g, connected, told>>

InventoryTimer(r) ==
  /\ sc.timers[r] > 0 /\ g.world = "playing"
  /\ sc' = ApplyPcInv([sc EXCEPT !.timers[r] = @ - 1], r)
  /\ UNCHANGED <<g, connected, told>>

-----------------------------------------------------------------------------
(* The engine.                                                              *)

\* A loading screen ends.
Loaded ==
  /\ g.world = "loading"
  /\ g' = [g EXCEPT !.world = "playing"]
  /\ UNCHANGED <<sc, connected, told>>

Moved ==
  /\ g.world = "playing" /\ g.move # None
  /\ g' = [g EXCEPT !.at = g.move, !.move = None]
  /\ UNCHANGED <<sc, connected, told>>

\* The save that was loaded still moves the player to its own place.
Unsettled ==
  /\ g.world = "playing" /\ g.at # Template /\ sc.spawning /\ told.events < MaxDisturbances
  /\ g' = [g EXCEPT !.at = Template]
  /\ told' = [told EXCEPT !.events = @ + 1]
  /\ UNCHANGED <<sc, connected>>

\* The session ended, or the player left; a door starts a loading screen.
QuitToMainMenu ==
  /\ g.world = "playing"
  /\ g' = [g EXCEPT !.world = "menu", !.move = None]
  /\ told' = [told EXCEPT !.quit = TRUE]
  /\ UNCHANGED <<sc, connected>>

LoadingScreen ==
  /\ g.world = "playing" /\ told.events < MaxDisturbances
  /\ g' = [g EXCEPT !.world = "loading"]
  /\ told' = [told EXCEPT !.events = @ + 1]
  /\ UNCHANGED <<sc, connected>>

SpawnMessages ==
  \/ SpawnConnected \/ SpawnConnectionLost \/ DestroyActorMessage \/ SetInventoryMessage
  \/ \E place \in Places : CreatePlayerMessage(place) \/ TeleportMessage(place)

SpawnNext ==
  \/ SpawnMessages
  \/ UpdateInWorld \/ Tick
  \/ \E r \in Revisions : LoopCheck(r) \/ LoopWait(r) \/ Arrived(r) \/ InventoryTimer(r)
  \/ Loaded \/ Moved \/ Unsettled \/ QuitToMainMenu \/ LoadingScreen

SpawnSpec == SpawnInit /\ [][SpawnNext]_spawnVars

\* Ticks, updates and the engine go on, and a move that was asked for is made.
SpawnFairness ==
  /\ WF_spawnVars(Tick) /\ WF_spawnVars(Loaded) /\ WF_spawnVars(UpdateInWorld) /\ WF_spawnVars(Moved)
  /\ WF_spawnVars(\E r \in Revisions : LoopCheck(r) \/ LoopWait(r) \/ Arrived(r))

FairSpawnSpec == SpawnSpec /\ SpawnFairness

-----------------------------------------------------------------------------
(* Properties.                                                              *)

SendsMovement == connected /\ sc.me /\ ~sc.spawning

\* playerSpawnLocation.ts: movement goes upstream only after the player was seen where
\* the server put it.  Whatever old spawns, loading screens and teleports are still under
\* way, the spawning that ends is the one the client is in, at its target.
MovementWaitsForPlace ==
  [][SendsMovement' /\ ~SendsMovement => g.at = sc.target[sc.revision] /\ sc.current = sc.revision]_spawnVars

\* Once the player may move, nothing pulls it back: no restoring loop of this spawn goes
\* on, although an update and a loaded save may both start one.
NothingPullsBack ==
  ~sc.spawning => sc.current = sc.revision /\ sc.loop[sc.revision] = "none"

SpawnInv == SpawnTypeOK /\ NothingPullsBack

\* A spawn ends with the player in its place, or its character is taken away, or the game
\* went back to the main menu meanwhile, whichever of the two starters runs first.
SpawnEnds == (sc.me /\ sc.spawning) ~> (~sc.me \/ ~sc.spawning \/ told.quit)
=============================================================================
