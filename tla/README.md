# A TLA+ model of SkyMP

TLA+ modules, TLC configurations and TLAPS proofs about SkyMP, a multiplayer
modification of Skyrim: the native server, the TypeScript around it, the client's
scripts and the admin dashboard. Paths below are relative to the repository;
`server_guest_lib` is `skymp5-server/cpp/server_guest_lib`, `mp_common` is
`skymp5-server/cpp/mp_common`, `ts` is `skymp5-server/ts`, `client` is
`skymp5-client/src`, `front` is `skymp5-front/src`.

## Inventory of the system

A packaged server is a manager process with two children: the game and the dashboard.
In the game, a C++ core (`server_guest_lib`) keeps the world and handles packets on one
main thread, which a JavaScript loop drives by calling `PartOne::Tick`; TypeScript
systems on that loop decide who may play. A second thread, the saver, writes changed
forms to a database. Each player runs a client: scripts on one JavaScript thread inside
the game executable, with a native network client under them. An admin runs a page in a
browser, which the dashboard process serves.

| Component | State | Operations | Made correct by |
|---|---|---|---|
| Save storage, `viet/include/save_storages/AsyncSaveStorage.h` | two request queues, two lists of finished callbacks, a list of exceptions, recycled buffers, each under its own mutex; the saver's local tasks; callbacks that Tick has prepared | Upsert, Iterate, Tick, GetRecycledChangeFormsBuffer, destructor; the saver's ProcessUpserts and ProcessIterates | a request has exactly one outcome, outcomes in order, an acknowledgement means stored, an iterate sees what was acknowledged |
| Database drivers, `server_guest_lib/database_drivers` | one record per form (a file, a document, an archive entry) | UpsertImpl, Iterate | a record is replaced as a whole; a failure is reported with its batch |
| World saving, `WorldState.cpp`, `ChangeFormGuard.h` | forms by id and by index, the buffer of changed forms with its empty flag, `saveStorageBusy`, `nextId` | AddForm, DestroyForm, EditChangeForm, RequestSave, TickSaveStorage, loading at start | no requested save is lost, the database never goes back, what a restart finds is one moment of the world |
| User ids, `mp_common` (`IdManager`, `Networking`, `NetworkingMock`, `NetworkingCombined`) | slots by guid and guids by slot, slots of bots, user ids by slot and slots by user id, queued packets | HandlePacketServerside, MockServer::CreateClient and Tick, ServerCombined::Tick, Send, CloseConnection | a user id leads to the peer it was given to, a packet counts as one of its sender, slots are not lost |
| Sessions, `ServerState.cpp`, `ActorsMap.cpp`, `PartOne.cpp` | user records, the map between users and actors, deferred messages, packet playbacks | connect, disconnect, SetUserActor, message dispatch, TickDeferredMessages | sessions follow the connections, the maps are inverse, nothing of an old user reaches a new one |
| Object references, `MpObjectReference.cpp` | grid cells, emitters and listeners, occupant, harvest state, inventory | SetPos, Subscribe, Unsubscribe, Activate, PutItem, TakeItem, RequestReloot | neighbours are subscribed, a client shows what its actor is subscribed to, one occupant, items are conserved |
| Actors, `MpActor.cpp` | death state, respawn timer, effects, dropped items | Kill, RespawnWithDelay, Respawn, DropItem | a timer belongs to one death |
| Message handlers, `ActionListener.cpp`, with `hostAttempts.ts` and `formView.ts` on the client | the hoster of each actor, when it last moved, who rides what; what a client hosts, has asked for, and may ask for | OnHostAttempt, OnUpdateMovement, OnHit... | one client simulates an actor, who does not host it stops, an actor finds a host |
| `viet` Promise, Timer, TaskQueue | pending callbacks | Then, SetTimer, Tick, AddTask | each callback runs once |
| Admission, `ts/systems/login.ts`, `spawn.ts`, `ts/playerAccess.ts`, `playerSessionEnd.ts`, `adminBans.ts` | Steam sessions and identities on disk, who is verified and who plays as an identity, logins that await answers, bans, pending ends of sessions | loginWithSteam, steamLoginStatus, loginWithSkympIo, the routes that kick, ban, unban and block, disconnect, shutdown | an answer belongs to the connection that asked, one player per identity, a ban ends the session, a session that is ended ends |
| Manager, `misc/deploy/test-server/server-supervisor.cjs` | the game and the dashboard as children, the desired and the last known state, startup and kill timers | start, stop, restart (over HTTP or IPC), ready, exit, timeouts, SIGTERM | the state tells whether there is a game, a transition ends, a service told to close closes |
| Restart schedule, `ts/restartSchedule.ts`, `managedRuntime.ts` | claimed slots on disk, the last state of the game it was told | tick, skip | a slot is served once |
| Client session, `client/services/services` (`authService`, `skympClient`, `settingsService`, `networkingService`, `sessionEndClient`) | notice, reconnect window and retry, watchdog, stored credentials, login timer, the form on screen | packets of the native client, ticks, menus, buttons, answers of the master server | a player who is offline is told, an attempt to reconnect ends, a hung server is noticed |
| Client spawn, `remoteServer.ts`, `playerSpawnLocation.ts`, `sendInputsService.ts` | revision of the spawn, its target, callbacks for the next update, the loop that restores the place | spawn, teleport, inventory, loss of the connection, loading of a save | movement goes upstream only from where the server put the player |
| Client view, `remoteServer.ts`, `idManager.ts`, `view/*.ts` | forms and their ids, a view per form, what each view spawned | create, destroy, movement, appearance, death; updates; respawn | a view shows the form it is named for, nothing spawned is forgotten or deleted twice |
| Players page, `front/features/adminDashboard`, `front/hooks/useAdminWebSocket.ts`, `ts/ui.ts`, `dashboardGameProxy.ts`, `adminWebSocket.ts` | the last list in three processes, a socket that reconnects, requests under way, the open dialog | publish, broadcast, fetch, show and hide, open an inventory | one socket, an answer is shown for what was asked, the list settles |
| Skyrim Platform, Papyrus VM, file formats | | | outside the scope of the model |

Interactions: handlers edit change forms of references, which call
`WorldState::RequestSave`; `WorldState::TickSaveStorage` hands the buffer to the save
storage and gets a callback or an exception from it in a later Tick; the save storage
calls the driver on its own thread; `PartOne::AttachSaveStorage` reads the database back
when the server starts. PartOne tells the TypeScript systems of connections and
disconnections; they call back to set actors and to kick, and a notice of a kick is a
packet that the client's `sessionEndClient` understands. A user id is the only name these
parts have for a connection, and it is given away again. The dashboard asks the manager
for restarts and hands requests of the page on to the game; manager, game and dashboard
see each other through messages, exits and timers only.

Hard behaviours: the interleaving of two threads over six mutexes, exceptions that
unwind Tick half way, drivers that fail after some records, a retry that races newer
edits and reused indices, a kill between any two steps; user ids, form ids and form
indices that are reused; a handler that awaits the master server while its slot changes
hands; timers that outlive their cause; work left to the next update, which at the main
menu never comes; a child that hangs, crashes or is slow at any moment; answers and
pushed lists in any order. `PROJECT.json` lists each of them, under "hazards", at the
line where it bites.

## Modules

    FileDatabase        what the database holds; write, reject, truncate a record
      UpsertPipeline    the steps of the two threads for upserts
        AsyncSaveStorage   the storage with any client (adds iterates, shutdown)
          AsyncSaveStorage_proofs   it implements UpsertQueue; what it promises of a request
        WorldSave          the storage with its real client, the world, and restarts
          WorldSave_proofs   theorems about WorldSave
      UpsertQueue       what the storage promises, as a queue without threads
    UserIds             how RakNet's peers and the bots get their user ids
      Sessions          users and their actors in PartOne, on top of the ids
        Sessions_proofs    theorems about Sessions
    Subscriptions       the grid, who is subscribed to whom, what a client shows
      Subscriptions_proofs   theorems about Subscriptions
    Admission           how a connection becomes a player, and stops being one
      Admission_proofs   theorems about Admission
    Hosting             which client simulates an actor that no player drives
      Hosting_proofs     theorems about Hosting
    Optional            None, the value of what is not there; the four modules of
                        clients and their pages extend it
      ClientSession       how a client logs in, reconnects and ends
      PlayerSpawn         how a client puts its own character in its place
      ClientView          what a client shows of the others
      AdminPanel          the players page through game, dashboard and browser
      Clients_proofs      theorems about these four
    GameSupervisor      the manager, its two children, the restart schedule
      GameSupervisor_proofs   theorems about GameSupervisor
    MC*                 instances for TLC

`Clients_proofs` extends four modules that share nothing but `None`, so the names of three
of them tell whose they are (`SpawnNext`, `PanelInv`, `ViewSpec`...).

Each module stands for the parts next to it by what can arrive from them. Admission takes
connections as Sessions proves them (a user id has one peer at a time); AdminPanel takes
the manager of GameSupervisor as a queue of states and messages; PlayerSpawn and
ClientView divide `remoteServer.ts` between the player's own character and the others.

### Saving

`UpsertPipeline` has one action per critical section of `AsyncSaveStorage.h`
(`SaverTakeUpserts` is the block under `share3.m`, `SaverPublishCallbacks` the one
under `share4.m`, `SaverPublishExceptions` the one under `share2.m`), one for each
record the driver writes while the saver holds `share.m`, and one for each turn of
the callback loop of Tick. Local data of a thread between two locks is state
(`tasks`, `okTasks`, `failedTasks`, `prepared`), so every interleaving of the two
threads is a behaviour. Callbacks already marked `CanBeGarbageCollected` are left
out of `prepared`: the code never looks at them again.

`FileDatabase` abstracts a change form to the number of edits that produced it. A
record is written to a temporary file and renamed. The driver tests the stream
before it closes it and looks at the result of the close only after the rename
(FileDatabase.cpp:46-66): a flush that fails in `close` leaves a truncated file
under the final name. `TruncateRecord` is that case, and `Corrupt` what it leaves.

`AsyncSaveStorage` adds iterates, the counters, the destructor, and a client that
may request anything outside Tick. A callback may throw. Upsert n saves version n
of a set of forms, so that the database tells which upserts reached it.

`UpsertQueue` is the abstract specification: one queue, the head is stored record
by record, succeeds only when all of it is stored, or fails; outcomes come out in
order. `ImplementsQueue` maps the queue to `tasks \o upsertTasks`, the waiting
outcomes to the concatenation of the places they pass through. The exceptions of
iterates wait in the same list as those of upserts, so the queue lets other errors
join it (`OtherErrors`) and be delivered in their turn.

`WorldSave` composes the pipeline with `WorldState`: a handler runs between two
ticks (`worldPc = "idle"`), TickSaveStorage is split where the other thread can be
seen (Tick, Upsert, GetRecycledChangeFormsBuffer). `DestroyForm` contains the last
save that BeforeDestroy requests by moving the form. `refrByIdx` keeps pointers to
destroyed objects as `refrByIdxUnreliable` does; reading one gives either what the
object held (`freed`) or an index that does not match, chosen freely. `Restart` may
happen at any step; it keeps only the database and loads the forms that parse, in
any directory order, some of them possibly skipped (AttachSaveStorage skips deleted
forms and dropped items). The variables `requested`, `destroyed`, `cutRequested`
and `cutVer` are history: no action of the code depends on them.

Left out of WorldSave: the branch for a general `std::exception` from Tick
(WorldState.cpp:809-814). WorldState never iterates asynchronously, its callback
does not throw, and the drivers wrap every exception in UpsertFailedException.

### Users, sessions, subscriptions

`UserIds` has one action per kind of packet and outcome. RakNet is external: it
queues a connection, messages and a disconnection of each peer in this order, and a
new connection of the same peer after them (`AcceptLink`, `LoseLink`,
`MessageArrives`). The main thread takes one packet at a time; what the two
id layers do with it (`AllocateId`, `CombinedConnect`...) is one step with the
beginning of PartOne's handler, because nothing else runs in between. The handler
calls JavaScript, which may use the network again and may throw, so it is a state
(`call`) that ends in `CallReturns` or `CallThrows`. An exception unwinds
`HandlePacketServerside` (freeId is skipped) and `ScampServer::Tick` starts over
with the packets that are left (`TickAgain`). `serverPc` is the place in
`ScampServer::Tick`: the RakNet server, the mock server, `PartOne::Tick`, and then
the rest of the loop of index.ts. Vectors indexed by ids are functions on all ids, with
`InvalidUserId` or `NoReal` where the vector is too short. A message of a peer that
has no slot makes ServerCombined read beyond its vector: the id it finds is chosen
freely. `std::terminate` and an access out of bounds set `halted`. The variables
`leaked`, `everRejected`, `botsClosed` and `closedTwice` are history.

`Sessions` adds `ServerState` and `ActorsMap` and what the gamemode can do to them
(`Js`), inside a call and between two ticks. A deferred message is abstracted to the
actor it expects, so a user's channels are a set. A Send fails when the user has no
route or the client of the bot is gone; it leaves the messages of that user and of
higher users for a later tick. Kicking a peer is `LoseLink`: RakNet closes the
connection in its own time.

`Subscriptions` is the main thread alone, so each action is a whole call of a handler,
a script or the gamemode. These nest (Teleport calls SetCellOrWorldObsolete and SetPos,
which may call ForceSubscriptionsUpdate, which may load references that subscribe
themselves), so each function of `MpObjectReference.cpp` is an operator from a record
of the world to the next one, under the name it has in the code, and the action applies
it to `World`. The sets `listeners` and `emitters` are one relation `subs`: only
Subscribe and Unsubscribe write them, both at once. `actorListenerArray` is kept apart
(`audience` counts), because it is a vector that only follows `listeners` if each
insertion is seen to be new. `view` is what the client of a user was told to create and
not to destroy. References of the game files are loaded by GetNeighborsByPosition when
somebody comes near, and stay on the grid when they are disabled, as in the code. The
two dimensions of a grid are one, and positions are the few `Spots` of an instance.

### Hosting

`Hosting` has both sides of one protocol. On the server, `OnHostAttempt` and
`OnUpdateMovement` are the two handlers whole, `Arrive` and `Leave` what subscriptions
send, `Take` is SetUserActor when a player takes an actor that a client hosts, and
`Disconnect` is all the server does about a hoster that goes: nothing. On the client,
`Frame` is an update of the views (`Applies`, `Tries`) followed by `sendInputs`, and `Read`
is a message of the server. What one handler sends to one client about one actor is one
record, since nothing can come between: what becomes of the form, and HostStart or
HostStop. The server's messages are reliable and in order (`queue`); attempts and
movement are sent unreliably, so they are sets from which one is handled in any order, or
lost (`Lose`). An attempt that the client holds back (`lastTryHost`, `lastRehost`) is like one
that is lost; copies under way are one.

Times are compared with two seconds, so `Tick` is more than that: what was recent is old.
That a game stood still for long before a frame is a choice of the frame (`late`), since
it needs less time. `lastMov` distinguishes an actor whose index lies beyond the table
(`lastMovUpdateByIdx`), because the handler writes there without looking
(`StampUnchecked`). The order of an actor's listeners is state: it decides which message
about the hoster is the last one (`HosterNews`). All modelled actors are near each other.

### Players: admission, client

`Admission` has one action for each stretch of JavaScript between two awaits. A login
(`logins`) remembers what the code captures in its closure: the user id, the guid, the
generation and the identity it started with. `ProfileAnswered` and `DiscordAnswered` go
on with it whenever they come, whoever holds the user id then, and check what login.ts
checks again after each await. `PlayerSessionEnd` counts connects and disconnects of a
user id (`generations`) and closes the connection 150 ms after a notice if both guid and
generation are still the same (`SessionTimer`). The order of handlers on a disconnection
is the order in which index.ts registers them. A managed server changes the store in the
process of the dashboard and tells the game to read it again (`refresh`,
`SettingsChanged`). Steam, the master server and Discord are external: an answer is any
of those the code tells apart. `spawned` and `misled` are history.

`ClientSession` holds the state of five services in one record, because their handlers
call each other; a call is an operator from that record to the next one (`End`, `Lost`,
`BeginConnection`, `Close`), and an action is a whole handler of a packet, a tick, a menu
or a button, with the services in the order they registered. Timestamps are countdowns:
`PassTime` is the clock, which waits for the handlers of ticks that are due, since a tick
runs every frame; `Stall` lets time pass without them, and the watchdog sees the gap. The native client is `link`; a
server that hangs (`ServerHangs`) leaves the link as it is. `ReloadScripts` runs the
constructors again over what the storage kept, while the native client lives on.

`PlayerSpawn` models the two clocks of the client: ticks, which also run at the main
menu, and updates, which only run in the world. What a message leaves to `once("update")`
is a queue of callbacks, run in order by `UpdateInWorld`. A spawn has two starters, the next
update and the second tick after (which loads a save at the main menu), and each may start
the loop that moves the player to its target; the promise of that loop is kept in a later
turn (`Arrived`). The engine may take the player elsewhere (`Unsettled`), load, or quit.

`ClientView` keeps `IdManager` as it is, arrays and smallest unused id, because what can
go wrong is two names for one form. An update (`UpdateGame`) is a sequence of jobs, done one
after the other (`RunJobs`): the callbacks that waited for it and the loops over the views
(`ViewJobs`), in either order, as nothing fixes the order of their listeners. The engine
numbers what it spawns; a spawn process ends some time later (`SpawnDone`), perhaps when its
view is gone.

### The server around the game

`GameSupervisor` is the manager with the two processes it starts. A request over HTTP is
checked and answered, and carried out 50 ms later (`HttpControl`, `QueuedControl`); one
over IPC comes from the dashboard with the slot it is for, or none. The manager's
functions (`StartChild`, `StopChild`, `Control`, `FinishClose`) are operators on the
record of all three processes. The game may hang, crash or boot slowly at any time; a
process that cannot be created (`GameSpawnFails`) is known to the manager and will not exit,
so `TransitionsEnd` makes an exception of it; timers may run out at any time while they are set. `ServiceStarts` is a kill of everything
at any moment: only the slots that were claimed on disk are kept.

`AdminPanel` follows a list of players from the game, over the manager's pipe, to the
dashboard process, and over a socket or as an answer to the page; and the inventory that
an admin opens for a row of it. Who answers depends on what the dashboard takes for the
state of the game. Sockets are never reused: the hook makes a new one for each connection,
and the events of old ones still arrive.

## Runs

| Run | Instance | Shows |
|---|---|---|
| storage | 2 forms, 2 indices, 2 upserts, 1 iterate | a request is in one place, outcomes in order, an acknowledgement means stored, shutdown tears no batch, an iterate sees what was acknowledged; every request settles; refinement of UpsertQueue (550,000 states) |
| world | 2 forms, 2 indices, 2 edits per form | no requested save is lost, an acknowledged batch is one moment of the world, files never go back; requested saves are stored in the end; the inductive invariant of the proof (89,000 states) |
| world_reissue | 2 forms, 2 indices, 3 edits | violation: a created form loses its save to a dead one with its id |
| sessions | 2 peers, 2 slots, 1 bot, 1 actor, 1 message waiting, records for 3 users | one session per peer, sessions follow connections, packets count as their sender's, clients are counted, what the process may end for, sends reach their peer, deferred messages, rejections only after a lost slot; the inductive invariant of the proof (1,120,000 states) |
| subscriptions | 2 actors, 1 reference of the game files, 2 squares and a second cell, 1 user | pointers, grid, listeners and the client's view stay in step (72,000 states) |
| admission | 2 clients on 2 slots, 3 connections, 2 identities, 1 account, 1 login at a time, 1 act of moderation | a player is who logged in, one per identity, bans and blocks end sessions, ended sessions close (539,000 states) |
| hosting | 2 clients, 1 actor (an animal to ride, or a character another player takes and leaves), 1 unread message and room for an answer | whoever will host an actor is its hoster, the hoster is not told to stop, nobody takes for free what a player drives or another hosts (622,000 states) |
| client_session | timers of 1 or 2 units, 1 question to the master server at a time; any number of accepted connections, loads, stalls and reloads | an ended session stays stopped, nobody is silently offline, reconnects end unless the server accepts for ever, a hung server is noticed unless loads or stalls never end (1,089,000 states) |
| player_spawn | 2 places and the save's own, 3 revisions, 1 event | movement waits for the place, nothing pulls the player back, a spawn ends (79,000 states) |
| client_view | 2 indexes, 3 ids, 2 actors and a door, 2 cells, 3 references, 4 events | messages find their form, views show it, nothing spawned is lost or deleted twice (230,000 states) |
| supervisor | 1 slot, 2 minutes, 1 request, 1 fault | the state tells whether there is a game, the dashboard's view catches up, a slot is served once, transitions end unless a process could not be spawned (482,000 states) |
| admin_panel | 1 slot, 2 players, 2 clicks, 1 list at a time, 2 events | the dialog shows whom it names, one socket, no players of an earlier game, the page settles (587,000 states) |

An `Inv` (`SpawnInv`, `ViewInv`, `PanelInv`) bundles the type invariant of its module with the named conditions that belong
together; each is stated and commented on its own in the module. The run of sessions
checks `Strong`, which contains `Inv`.

Why the bounds are enough. The races of the storage need two requests: one on its
way while the other is requested, acknowledged or failing. The races of saving need two
forms that exchange indices, or two indices for one id, and two edits: one in the flight,
one in the buffer. A batch is never in flight beside another one (`SingleFlight`, proved
without bounds); the same invariants are proved for any number of edits.

Sessions need as many peers as there are slots, and a bot beside them, to fill the server
when a slot was lost and to let a slot of the mock server, an id and a record pass from one
to the other. `LoseLink` is not bounded by the queue, so that a disconnection waits
behind what is queued already. `KMaxPlayers` is chosen so
that the last id does not fit. Longer queues of the bots are left to the proof
(`BotsInTurn`), which needs no bound.

Subscriptions relate two forms at a time, with a third that may be the cause of the
update; the places give two squares that see each other and a pair that does not, by
cell. One user suffices for views: it can take an actor, leave it, take the other and come
back as a new client. The reference of the game files is the one that is loaded by others,
does not leave the grid and subscribes to actors only. `Deletable` bounds what scripts
delete.

Hosting is about one actor at a time, apart from `HosterNews`, which a second actor would
only give more listeners. Two clients give a hoster and one that takes over; the queue
has room for a message that announces and the answer behind it, which is what crosses with
attempts and updates under way. An answer has room for one more than an announcement, so
that the bound delays who comes and goes and no answer.

Admission needs two connections of one slot for a late answer, and a third on the other
slot for a claim of the same identity; two policies are chosen freely at the start, a
server that approves its guests itself and a managed one that asks for an account and a
Discord role. An account may be banned from the start, so that one act of moderation is
free for another purpose. The three ways to get an account through (`approvedLicense`,
`discordMember`, `open`) differ in one line from the one that is checked.

ClientSession counts time in the fewest units that keep the order of its timers: the
reconnect window is longer than the delay between attempts, a pong counts longer than the
beat. Events are not bounded: only timers, and the questions to the master server, count.
PlayerSpawn has three revisions: a spawn, the loss of its connection, and a new one while
the loop of the first still waits; the loss itself takes one. ClientView has as many ids
as a form that is forgotten by a reset, its successor and one freed below need.
GameSupervisor's races are between one order and one fault: every timer may run out in
any state in which it is set, so that more requests repeat states. AdminPanel needs one slot that changes players and a page that is
hidden and shown again, or a game that stops and starts, while one list and two inventories
are under way.

Several runs disable the deadlock check, since their systems may stop: a process that was
terminated (sessions), a storage that was destroyed or a client of it that has made all its
requests (storage), a client or a manager that was closed or whose budget of events is used
up (the others). The world runs, subscriptions and client_session check it: a process can
always be killed and started again, and time always passes.

Fairness. `AsyncSaveStorage!FairSpec`: the saver loops and the server ticks (weak
fairness of each thread's steps). `WorldSave!FairSpec` has the same and, because a
batch can be rejected at any record, strong fairness of the write of each form: the
disk does not reject a form forever. Nothing is assumed of handlers, failures or
restarts. Strong fairness of the completion of batches is not needed: what was written
before a failure stays. `ClientSession!FairSpec`: the clock goes on, the handlers that ticks
run do run, and a loading screen ends. What else the two properties need is their premise: that
the server does not accept connections for ever (`ReconnectEnds`; the attempts may
also be refused or lost for ever), that loading screens and stalls do not begin for ever
(`HungServerIsNoticed`). `Hosting!Fairness`: time passes while no game stands still, frames
are drawn, the network is polled, and of the attempts and updates that are sent again and again one arrives in the
end (strong fairness of their handlers; any number is lost before). `PlayerSpawn!FairSpawnSpec`: ticks, updates and the engine's moves and loads go on;
updates only where there is a world, so that a game at the main menu may stay there.
`GameSupervisor!FairSpec`: weak fairness of the manager's event loop as a whole; nothing is
asked of the game or the dashboard, since timers kill a child that does nothing.
`AdminPanel!FairPanelSpec`: intervals and timers fire, messages and answers arrive, and a game
that stops exits; a broken socket is found out only by the events that are bounded.
`ListConverges` says where the page settles once these events are used up.

## Proofs

`AsyncSaveStorage_proofs` proves, for any number of forms, upserts and iterates, type
correctness, that a shutdown leaves no batch half done, and that the specification of
the two threads implements `UpsertQueue` (`ImplementsQueueHolds`). The assumptions are
those of the modules, on the numbers and on `NoChange`. Most steps only move a batch or
an outcome from one part of a concatenation to the next, so the queue does not see them;
that follows from facts on concatenations (`TailConcat`, `AppendConcat`,
`FailuresFacts`). Three things are not local. A batch that leaves the queue as a success
must be in the database: `PrefixWritten`, which the write of a record keeps because a
buffer has a form at one index at most (`BatchesSeparate`). The saver may put the batches
it takes in front of those that were requested since only because it has none left from
its last loop, and the errors of iterates may join the list only because those of upserts
were published before (`SectionsEnd`).

The same module proves `Inv` (`EveryRequestInOnePlace`,
`OutcomesInRequestOrder`, `AckedIsStored` and the two above) and `IterateSeesAcked`. There it
looks at each step as the step of the queue that it implements, of which there are few.
`Arranged` says that the numbers in each place rise, that every place holds older requests
than the one it is filled from (fired before waiting acknowledgements, raised before waiting
errors, all of them before what is pending), and that a request cannot succeed and fail: then
the head of the queue is newer than all that has an outcome, so that it can join either list.
`Kept` adds to `AckedIsStored` the same for every acknowledgement that waits (`Promised`):
the writes of the head are newer than what they replace, and a file that is torn is torn by
a newer request than any it had vouched for (`KeptWithoutAck`). `Floors` says of every
iterate that waits that its floor is still acknowledged, which is so because `acked` never
falls (`AckedGrows`, from `Arranged`).

`WorldSave_proofs` proves, for any number of forms and indices and any bound on
edits, type correctness, `SingleFlight`, `NothingLost`, `NoHiddenChange`,
`SnapshotOnAck` and the action property `FilesGrow`. The assumptions are those of
the modules: the constants are natural numbers, `NoChange` and `NoForm` are no entry
and no form, and the only callback is the one that clears the flag.

The argument is one invariant, `Inv`. `NothingLost` alone is not inductive: a batch
that failed is saved again only if the entry's index still leads to its form
(`IndexesOwned`, `EntriesPlaced`), the write of a record covers a request only if
the entry is at least as new as what the database has (`VersionsOrdered`), a batch
may be dropped at its success only if every index the cursor has passed is written
(`PrefixWritten`), and all of it needs that there is one batch at most
(`BatchPlaces`, which contains `SingleFlight`). `SnapshotOnAck` needs, in addition,
that a batch that may still be stored makes up for what was requested at the cut
(`CutCovered`). `Inv` excludes forms that were destroyed since the start: for them
the statement is false, as world_reissue shows.

The proof has three layers: lemmas on the range of a sequence; for each action, where
the batch moves (`StoreMoves`, `FailMoves`...); for each action, what happens to the
contents (`StoreContents`, ...). `NextInv` puts them together.

`Sessions_proofs` proves, for any number of peers, slots, bots, actors and entries of
`userInfo`, type correctness, `SendsReachTheirPeer`, `ActorsMapConsistent`, `SessionsSound`
and the action properties `DeferredDrained` and `RejectsOnlyAfterLeak`. It assumes that the
constants are numbers, that there is a slot and an entry of `userInfo` at least
(`KMaxPlayers` is what the build sets as MAX_PLAYERS, 1000), and that the values for "none"
(`NoGuid`, `NoActor`, `NoUser`, `InvalidUserId`) are none of the others. Of RakNet it uses
what `AcceptLink`, `LoseLink` and `MessageArrives` do to the queue. The first invariant,
`Inv`, needs no order of these packets.

`SendsReachTheirPeer` is not inductive, because it only speaks of users that have a
record. A connection must not take a slot, a route or an id of someone else, so the
invariant says in addition that the next slot is free (`NextIsFree`), that a slot
without a guid has no id (`FreeSlotsUnrouted`), that routes are inverse of each other on
exactly the ids in use (`RoutesInverse`), and that records exist for those ids and the
user that is disconnecting (`UsersRecorded`, `DisconnectingUnrouted`). Slots of bots have
no guid that says whether they are free. There the order of the packets does it: a
bot's slot is used again only behind the disconnection of its last client, also when
that client was kicked and destroyed (`BotsInTurn`, the longest part of the proof, since
each packet that is taken moves the places of all others). `DeferredDrained` needs
`MaxIsHighest`.

Lemmas on ids come first: every set of numbers that is not empty has a least element
(`SmallestOfSet`), so `NextFree`, `NewUserId` and `MaxConnected` return what their names say; that some id
is free whenever a slot without an id connects is a pigeonhole argument on the routes.
Then one lemma per kind of step (`ConnectUser`, `DisconnectUser`, `RemoveUser`,
`BotTakenInTurn`, `BotSendsInv`, `WorldStepInv`...), which the actions share.

`SessionsSound` and `RejectsOnlyAfterLeak` compare sessions with connections of which the
server has not heard yet. `SeenAfter(g, k)` is what the first k packets that wait tell of a
peer, and `Strong` adds to `Inv`:

- RakNet tells of connections and ends in turn and of messages in between
  (`PacketsInTurn`), and at no place of the queue of more peers than it has connections
  (`PeersHavePlaces`). Both are statements about every place, as packets move up
  (`ArrivalSeen`, `TailSeen`, `ReceivedSeen`).
- A slot is in use exactly if it is routed, its user is disconnecting, or it was lost for
  ever (`SlotsInUse`); the peer of a slot that is not lost is known to have it
  (`PeersOfSlots`), is connected (`UsersAreSeen`), and, until somebody was turned away, a
  peer that is connected has one (`SlotsOfPeers`). Rejections break the last, because
  `operator[]` inserts slot 0 for whoever is turned away.
- The record of a user that disconnects still has the guid (`DisconnectingRecorded`), and a
  bot that is closed once was connected before (`BotsCloseOnce`, the mirror of
  `BotsInTurn`).

Then a peer is turned away only after a leak because the slots in use, if none is lost,
have as many connected peers as there are slots, and the one that connects would be one
more than RakNet allows (`FullOnlyAfterLeak`). The gauge of clients is counted by the same
map from slots to peers, a bijection (`StrongCounts`). A new id is the least that is free,
so one beyond `userInfo` means that all below have records (`FullWhenOutOfBounds`).

`Subscriptions_proofs` proves, for any forms, places, cells, squares and users, `Inv`,
`NeighborsFindsAll`, `ClientShowsEmitters` and the action property
`NewPlayerSeesNeighbours`, from `SubscriptionsAssumption` (actors, references and those of
the game files are different forms, references of the game files have a home). A call is
an operator from a world to the next, and calls nest, so the invariant is `Sound(w, X)` of
a world w in the middle of a call, where X are the forms that are being moved and exempt
from being on their square (`Follows`), invisible when disabled (`Invisible`) and
subscribed to their neighbours (`Finds`). What is exempt from nothing is `Firm`: forms of
the grid and of subscriptions exist, listeners are listed once, views show emitters. A form
that leaves must be gone from the grid, which looks only at its own cell and square, so a
form has one entry and it is in the cell of its place (`OneEntry`); between two calls of
one handler the place may be one that no form goes to (`Wide`). ForceSubscriptionsUpdate
ends the exemption (`ForcedSound`). As it takes its own listeners for both directions, it
makes form and neighbours hear each other only if those that were left did (`Mutual`,
`Acquainted`). An actor that is given to a user is withdrawn first, so it starts from
nobody, which gives `NewPlayerSeesNeighbours`.

`Hosting_proofs` proves, for any number of clients, actors and unread messages, `Inv` and
`HostsAreHosters`, from `ConstantsAssumption`. Clients act on messages that are not read
yet, so `Agrees` is about what a client will make of an actor when it has read everything:
the last word of its queue on a subject, or what it holds if there is none (`Hosts`,
`Frees`, `LastIs`). Lemmas on the last word say what an append and a removal of the head do
to it. It agrees with the server because a handler that changes the hoster tells all
listeners, in the order of their vector, once each (`Listening`), and a client that is
gone reads nothing (`OfflineForgets`).

`Clients_proofs` has four parts. Of `ClientSession` it proves, for any lengths of the timers
and any number of events, `Inv` and the action property `NeverSilentlyOffline`, from
`SessionAssumption` (timers are positive, `None` is none of the values). The operators of the
services keep `Sound`, that an ended session is stopped and does not reconnect. One path to
being offline is not in one step: authService denies a login, shows its form, and closes the
connection in the next tick. So the invariant has `DeniedIsShown`: a connection that is to be
closed still has its form, whatever packets, clicks and answers come in between.

Of `PlayerSpawn` it proves, for any places and any number of spawns, connections and
disturbances, `SpawnInv` and the action property `MovementWaitsForPlace`, from
`PlaceAssumption` (the place of the save is none of the server's, `None` is no value). The
loop that moves the player has two starters, and the loading of a save leaves a callback of
its own, so `SpawnStrong` says of every revision what may still start its loop: a tick that
is counted down or a callback that waits, neither of a revision to come (`Restores`). A loop
that goes on is of a revision that was started, and while it is the present one, the spawn
has not ended; a spawn that has ended was started (`SpawnEnded`). The queue of an update runs
in one step, so the same is stated of the state after n of its callbacks (`Underway`); each
callback keeps it (`CallbackRuns`), and so do all (`CallbacksRun`).

Of `ClientView` it proves, for any forms, cells, ids, references and changes, `ViewInv`,
`ViewsMatchForms` and `NoOrphans`, from `ViewAssumption` (doors and actors are different forms
and no numbers, `None` is none of the values). `Whole` says of a state in the middle of an
update, with n of its jobs done, that ids and indexes are inverse of each other as far as
forms go (`IdsSound`), that a view has an id that is still given away and the form of that id
(`ViewsNamed`), and that a reference is in one place: held by one view, to be deleted by one
callback of the next update, or by one of the jobs that this update has left
(`InOnePlace`, `Accounted`). Two lemmas carry the references: a view lets go of what it holds
(`ReleaseAccounted`), a view without one takes a new one (`SpawnAccounted`). `FormView.update`
is one or both of them (`UpdateFormWhole`), a job is one of these or a deletion (`JobDone`), and
an update begins by calling its queue jobs (`UpdateBegins`) and ends when none is left
(`UpdateEnds`). A reset forgets the forms and not the ids, which is what keeps `ViewsNamed`:
an id is given back only by `DestroyActor`, whose loop has destroyed its view
(`LoopDestroys`).

Both of these run a sequence through a recursive function. The library's induction theorems
take an operator as a parameter, so the induction is done by hand: the function exists because
there is no least n up to which it does not, and its values keep the invariant because
there is no least n at which one does not (`StatesBetween`, `CallbacksRun`, `JobsRun`). The
least element is `SmallestOfSet`, which rests on the well-foundedness of finite sets.

Of `AdminPanel` it proves, for any slots, profiles, clicks, lists and incidents, `PanelInv`,
from `PanelAssumption` (the players at the start are profiles, `None` is no value).
`PanelStrong` has three sides. Of the game (`GameSide`): its messages under way follow each
other as its life does, the first of them what the dashboard knows (`Follows`, `Behind`), the
last of them tells that it plays if it does (`LastTold`), and the dashboard has no players of
an earlier game (`Fresh`). Of the hook (`HookSide`): its socket is the only one that is not
closed, a timer is set only when there is none, and sockets are used one after the other
(`Used`). Of the dialog (`DialogSide`): the request that still counts asks for the profile that
the dialog is for (`Asks`).

`Admission_proofs` proves, for any number of user ids, clients, identities, accounts,
connections and logins under way and every policy, type correctness, `Inv` (with
`OneSessionPerIdentity`), `SpawnedAsVerified`, `BannedAreLeaving` and the action property
`EndedSessionsClose`. It assumes `AdmissionAssumption` (a ticket is of one identity, a
guest profile of one identity and of no account) and that `None` is no value of the
others. Of Steam, the master server and Discord it assumes nothing: a login may be
answered at any time, or never.

The invariant is `Strong`, the three state properties together, since none holds by
itself. Two users have two identities because whoever was let in is the one noted as
playing (`AllowedPlays`), and a note has room for one. The note is of the connection that
holds the slot only while verifications are (`VerifiedHere`). Two users have two
characters because a profile is bound to an identity (`ProfilesBound`) and an actor is the
one of the last spawn (`ActorsAreSpawned`). That a ban reaches everybody it names needs
both, to find the player from the profile; that a timer closes the right connection is
`EndsOfThis`. The lemmas follow the functions of the code: what a call of endPlayerSession
does (`EndSessionsEnds`), steps that admit nobody (`SamePlayers`, `OnlyEnds`), and the end
of every kind of login, which is one of two: the applicant is let in (`LetInStrong`, the
longest part) or is not (`RefusedStrong`).

`GameSupervisor_proofs` proves, for any slots, minutes, requests and faults, `Inv` (with
`StateTellsChild`), `ViewCatchesUp` and `ServedOnce`, from `SlotAssumption` (slots are
minutes, `None` is none of them). Handlers of the manager are functions on the record of
the three processes, and so is the invariant: `Sound(s)` says of a record that the state
tells whether there is a child, with what the timers need for it, and that a dashboard
that is connected has read the state or will: the last message about it that is under way
carries the state the manager has (`Knows`). Each function keeps `Sound` (`StopChildSound`,
`ControlSound`, `FinishCloseSound`...), and a step is a function applied to `Service`. That
a kill timer is set only while the manager is stopping is needed for an exit that comes
before the timer; that a slot was stored before it was served (`ServedIsClaimed`), for a
service that is killed in between.

## What the runs show about the code

One run finds a disagreement, described in `PROJECT.json` under "findings": a form
created under a reused id loses its first save (world_reissue). These further
statements are kept in the modules with the mark "does not hold"; TLC refutes each in
a few minutes at most when it is put into a cfg as described:

| Statement | Where the repository says so | Instance |
|---|---|---|
| `Sessions!FreedIdsAreUsed` (an id that is freed was in use): a bot that is closed twice terminates the process | NetworkingCombined.h:173-177, NetworkingMock.cpp:61-65, 176-182 | MCSessions with Guids={g1}, MaxConnections=1, NumBots=1, MaxQueue=2, KMaxPlayers=3 |
| `Sessions!DisconnectsOwnSession`: a peer that was turned away by a full server ends the session of the user of slot 0 | Networking.cpp:371, IdManager.cpp:13 | MCSessions with three Guids, MaxConnections=2, NumBots=0, MaxQueue=2 |
| `Subscriptions!ActorsNearbyListen`: a form that is moved while disabled may stay unseen by who walks up to it | unit/ObjectReferenceTest.cpp:30-40, MpObjectReference.cpp:714-716, 1747 | MCSubscriptions with one actor, one reference (Refs), Spots <- OneRow, nothing else |
| `Admission!FailuresReachTheirUser`: the notice of a failed login goes to the next user of the slot | the comment at login.ts:482, against login.ts:314 | MCAdmission as it is |
| `Hosting!ForsakenAreTried`: an actor whose hoster has gone stands still for those who see it as hosted by another. Their clients would ask for it after 1.5 seconds without movement, but applying its last movement again, which they do 30 times a second (formView.ts:507-532), counts as movement | formView.ts:499, "not seeing movement for long time" | MCHosting as it is, without symmetry |
| `Hosting!NoFastSwitch`: the stamp that protects a new hoster for two seconds is written past the end of the vector when nobody has moved the actor yet (ActionListener.cpp:732, against the look at the size in line 710 and the resize in line 190); if the process survives, the stamp is lost | ActionListener.cpp:731, "Prevents too fast host switch" | MCHosting as it is |
| `GameSupervisor!ScheduleSparesStopped`: the restart schedule starts a game that an admin has just stopped, as it acts on the last state it was told | restartSchedule.ts:113-114, "never start a stopped game" | MCGameSupervisor with Slots={0, 1}, MaxTime=1, MaxRequests=1, MaxFaults=0 |
| `GameSupervisor!FailedSpawnsEnd`: a game that could not be spawned raises an error and no exit, so `child` stays set and killing it does nothing: the manager is stopping for ever, refuses every order, and its shutdown does not complete | docs_vps_ports_and_process_control.md:128 (the operator starts the game again), against server-supervisor.cjs:153 | MCGameSupervisor as it is |
| `ClientSession!WindowIsFinal`: the attempts to reconnect may go on for ever, since each accepted connection extends the window to 15 seconds at least and a loss only schedules the next attempt | docs_session_end.md:10, "bis zu 30 Sekunden" (line 14 tells of the extension, not that it has no limit), against sessionEndClient.ts:59-61, 109 | MCClientSession as it is |
| `ClientSession!BanStaysStored`: a stored ban is removed when a connection begins | docs_session_end.md, against skympClient.ts:110 | MCClientSession as it is |

More facts are built into the statements of passing runs:

- A listener that throws in OnDisconnect skips freeId (Networking.cpp:374-376): the
  slot and the guid in it are lost until a restart, and the gauge of connected clients
  counts them (`ClientsCounted`, `RejectsOnlyAfterLeak`).
- `Server::Server` accepts kMaxPlayers slots, but user ids start at 1 and bots take ids
  too, so ServerState::Connect can be called with id kMaxPlayers, beyond its array
  (`OutOfBoundsOnlyWhenFull`).
- AsyncSaveStorage::Tick rethrows one stored error before it calls any callback; what is
  ready waits for a later Tick, although ISaveStorage.h:29 says that Tick calls all
  callbacks that are ready (`EveryRequestSettles` needs further Ticks).
- A message of a peer without a slot is looked up at index InvalidUserId
  (NetworkingCombined.h:156); `PacketsFromOwner` therefore assumes that no peer was
  turned away.
- Disable drops the listeners of a form and not its emitters, so the relation is not
  symmetric; what holds is that of two neighbours one is subscribed to the other
  (`NeighborsFindsAll`), which is what scripts see. SetUserActor repairs the actor it
  gives away (`NewPlayerSeesNeighbours`).
- The comment "Should be empty for non-actor refs" on `emitters`
  (MpObjectReference.h:244) does not hold: every reference near an actor has it as an
  emitter, because Subscribe returns early only if both are not actors.
- A reference of the game files that is moved while it is disabled is not put back on
  the grid by Enable (MpObjectReference.cpp:533); `GridFollowsPlace` leaves them out.
- A deleted form that is moved returns to the grid; nothing on that path reads isDeleted.
- A user that gets another actor keeps showing what the first one was subscribed to;
  `ClientShowsEmitters` is therefore an inclusion.
- A ban is looked up when a login ends, not only when it starts, which is what makes
  `BannedAreLeaving` hold through an await. On a managed server a block takes effect only
  when the game is told to read the store again (`refresh`).
- A reload of the scripts disarms the watchdog: `HungServerIsNoticed` asks that the client
  is still watching.
- The engine can take the player away between the loop's last look and the promise it
  keeps; `Arrived` looks again, and `MovementWaitsForPlace` depends on it.
- The timers that apply the inventory of a spawn are not tied to its revision
  (remoteServer.ts:588): with three spawns in a row an old inventory can be put on, and the
  newer one then counts as set. No text of the repository rules it out, so no property speaks
  of it.
- The server relies on the next update of a hoster that it deposed without a word
  (PartOne.cpp:188-190). The client has to hear the refusal, so `StrangersStop` speaks of
  forms it has in view: what it hosts and does not see, it does not send. `StrangersStop`
  and `FreeActorsGetHosts` (an actor that may be hosted is hosted in the end, also by a
  client that reconnects) hold in MCHosting with Clients={a}, MaxUnread=2 and no symmetry,
  within seconds; with two clients they take too long to be among the runs.
- Whether a new hoster hears that it is the hoster depends on the order of a vector: the
  actor itself and others it hosts are listeners whose messages go to it as well
  (MpObjectReference.cpp:741, MpActor.cpp:457). `HostsAreHosters` does not depend on it.
- Ids of forms are not given back when a connection is lost (`ConnectionReset`); the views
  depend on it, as an id that was given away again could be looked up for another form.
- The state that the dashboard has of the game is late by what is on its way, and right
  when nothing is (`ViewCatchesUp`); `ScheduleSparesStopped` fails because of that.
- A game that is stopping still publishes its players, after the dashboard has cleared
  them; they are cleared again by the states that follow (`FreshPlayers`).

## Model-checked only

The properties of liveness (`EveryRequestSettles`, `EventuallySaved`, `ReconnectEnds`,
`HungServerIsNoticed`, `SpawnEnds`, `TransitionsEnd`, `ListConverges`) are checked on the
instances above and not proved: temporal reasoning with fairness and ENABLED is out of the
prover's reach. `CreatedFormsAreSaved` is refuted. Every other property of a run is stated by
a theorem.

## Not modelled

- Occupancy, harvest and inventories of object references; death, respawn and dropped
  items; the handlers of ActionListener other than movement and hosting; Papyrus classes.
  They depend on espm records and on each other's data more than on order. Two
  protocols in them are worth a module: a container whose occupant leaves
  (MpObjectReference.cpp:1460), and timers of respawns and reloots that outlive their cause
  (MpActor.cpp:1362, WorldState.cpp:259). Of hosting: animation, appearance and values of
  hosted actors, and spells and hits in their name.
- A character that is disabled when its player disconnects (spawn.ts:105-110): in `Hosting`
  an actor that a player left may be hosted, which adds behaviours and takes none away.
- Rows of the players page without a profile: the page then asks for an inventory without one
  (adminDashboard/index.tsx:2452) and the server does not compare (ui.ts:4380). Every row of
  `AdminPanel` has a profile, so `InventoryMatchesDialog` says nothing of the others.
- Packet history playbacks (PartOne.cpp:969), which go on after their user has left.
- Primitives (trigger volumes), and change forms that are applied when a form is loaded
  (WorldState.cpp:52).
- `viet` Promise, Timer and TaskQueue: single-threaded helpers; their callbacks appear as
  steps of the modules that use them.
- The zip driver acknowledges without looking at the result of the archive's close
  (ZipDatabase.cpp:63); the pipeline assumes drivers that report failures. Other drivers
  and formats (JSON, BSON, archives) are I/O and computation.
- Of the TypeScript server: voice activity, announcements, tool systems, and the pages of
  the dashboard other than the players, most of which load and store settings. Of the client:
  animations, hooks, settings, browser widgets, inventories beyond the spawn. These are many
  lines with little state that several actors share.
- The Papyrus virtual machine and the Skyrim Platform: an interpreter, and code inside the
  game executable.
