------------------------------ MODULE ClientView ------------------------------
(***************************************************************************)
(* What a game client shows of the server's world: the forms it was told   *)
(* of (remoteServer.ts, idManager.ts), the views of them (worldView.ts,    *)
(* formViewArray.ts, formView.ts) and the references these spawn in the    *)
(* game, which worldCleanerService.ts would delete unless protected.       *)
(*                                                                         *)
(* Messages are handled on ticks, views are brought up to date on updates, *)
(* and both leave callbacks for the next update.  Forms below 0xff000000   *)
(* get no view, except doors.  The engine gives every reference it spawns   *)
(* a number of its own.                                                    *)
(***************************************************************************)
EXTENDS Integers, Sequences, FiniteSets, FiniteSetsExt, Optional

CONSTANTS
  Indexes,    \* idx, by which messages name a form: a small number of the server
  Actors,     \* forms of the server that are spawned in the game
  Doors,      \* forms of the game that have a view
  Cells,
  MaxIds,     \* forms the client has room for
  MaxRefs,    \* references spawned
  MaxChanges  \* changes of forms, moves and loads of the player, lost connections

VARIABLES
  world,  \* the forms and their ids
  view,   \* the views, and what they did in the game
  queue,  \* once("update")
  player, \* the cell the player is in, and the one the views know of
  changes

viewVars == <<world, view, queue, player, changes>>

Ids == 0..(MaxIds - 1)
Refs == 1..MaxRefs

Forms == [idx : Indexes, refr : Actors \cup Doors, cell : Cells, dead : BOOLEAN, look : {0, 1}]
Views == [remote : Actors \cup Doors, local : Refs \cup Doors \cup {None}, ready : BOOLEAN, cell : Cells \cup {None}]
Callback ==
  [op : {"delete"}, ref : Refs] \cup [op : {"dead"}, idx : Indexes, dead : BOOLEAN]
    \cup [op : {"respawn"}, refr : Actors]

ASSUME ViewAssumption ==
  /\ Indexes \subseteq Nat /\ Actors \cap Doors = {} /\ Doors \cap Nat = {}
  /\ {MaxIds, MaxRefs, MaxChanges} \subseteq Nat
  /\ None \notin Actors \cup Doors \cup Cells \cup Nat \cup Forms \cup Views

ViewTypeOK ==
  /\ world \in [
       forms : [Ids -> Forms \cup {None}],          \* worldModel.forms
       me : Ids \cup {None},                        \* playerCharacterFormIdx
       idByValue : [Indexes -> Ids \cup {None}], valueById : [Ids -> Indexes \cup {None}],
       minimumUnusedId : 0..MaxIds]
  /\ view \in [
       of : [Ids -> Views \cup {None}],             \* formViews
       refs : [Refs -> {"none", "spawning", "shown"}], base : [Refs -> {0, 1}],
       owner : [Refs -> Ids \cup {None}],           \* the view a spawn process reports to
       protection : [Refs -> Int],                  \* WorldCleanerService.protection
       spawned : 0..MaxRefs]
  /\ queue \in Seq(Callback)
  /\ player \in [cell : Cells, known : Cells]
  /\ changes \in 0..MaxChanges

ViewInit ==
  /\ world = [forms |-> [i \in Ids |-> None], me |-> None, idByValue |-> [x \in Indexes |-> None],
              valueById |-> [i \in Ids |-> None], minimumUnusedId |-> 0]
  /\ view = [of |-> [i \in Ids |-> None], refs |-> [r \in Refs |-> "none"], base |-> [r \in Refs |-> 0],
             owner |-> [r \in Refs |-> None], protection |-> [r \in Refs |-> 0],
             spawned |-> 0]
  /\ queue = <<>>
  /\ \E cell \in Cells : player = [cell |-> cell, known |-> cell]
  /\ changes = 0

-----------------------------------------------------------------------------
(* IdManager.                                                               *)

\* Mutant: an id that is in use is given away again.
SteppingNextUnused(values, id) == id + 1

\* The smallest id above the one just given away that has no value.
NextUnused(values, id) == Min({i \in (id + 1)..MaxIds : i = MaxIds \/ values[i] = None})

AllocateIdFor(w, idx) ==
  LET id == w.minimumUnusedId
      values == [w.valueById EXCEPT ![id] = idx]
  IN [w EXCEPT !.idByValue[idx] = id, !.valueById = values, !.minimumUnusedId = NextUnused(values, id)]

FreeIdFor(w, idx) ==
  LET id == w.idByValue[idx] IN
  IF id = None THEN w
  ELSE [w EXCEPT !.minimumUnusedId = IF id < @ THEN id ELSE @, !.idByValue[idx] = None, !.valueById[id] = None]

-----------------------------------------------------------------------------
(* Views.  A game state s has the world, the view and the queue.            *)

Game == [world |-> world, view |-> view, queue |-> queue]

Becomes(s) == world' = s.world /\ view' = s.view /\ queue' = s.queue

\* FormView.destroy: what was spawned is deleted on the next update.
DestroyRefr(s, v) ==
  IF v.local \in Refs THEN [s EXCEPT !.queue = Append(@, [op |-> "delete", ref |-> v.local])] ELSE s

\* FormViewArray.destroyForm
DestroyForm(s, i) ==
  IF s.view.of[i] = None THEN s
  ELSE [DestroyRefr(s, s.view.of[i]) EXCEPT
         !.view.of[i] = None,
         !.view.owner = [r \in Refs |-> IF @[r] = i THEN None ELSE @[r]]]

\* The view gives up what it shows, and begins again with the next update.
Vanish(s, i, cell) ==
  [DestroyRefr(s, s.view.of[i]) EXCEPT !.view.of[i] = [@ EXCEPT !.local = None, !.cell = cell]]

\* Mutant: the reference a view spawned before is forgotten.
LeakySpawn(s, i, cell, look) ==
  LET r == s.view.spawned + 1
  IN [s EXCEPT !.view = [s.view EXCEPT
       !.of[i] = [@ EXCEPT !.local = r, !.ready = FALSE, !.cell = cell], !.refs[r] = "spawning",
       !.base[r] = look, !.owner[r] = i, !.protection[r] = 1, !.spawned = r]]

\* A new reference in the game, at first without its spawn process done.
Spawn(s, i, cell, look) ==
  LET r == s.view.spawned + 1
  IN [DestroyRefr(s, s.view.of[i]) EXCEPT !.view = [s.view EXCEPT
       !.of[i] = [@ EXCEPT !.local = r, !.ready = FALSE, !.cell = cell], !.refs[r] = "spawning",
       !.base[r] = look, !.owner[r] = i, !.protection[r] = 1, !.spawned = r]]

\* FormView.update for a form of the server.
UpdateActor(s, i, form) ==
  LET v == s.view.of[i]
      stands == v.local \in Refs /\ s.view.refs[v.local] # "none" /\ s.view.base[v.local] = form.look IN
  IF v.cell \notin {None, form.cell} THEN Vanish(s, i, form.cell)
  ELSE IF form.dead /\ v.local = None THEN [s EXCEPT !.view.of[i] = [@ EXCEPT !.cell = form.cell]]
  ELSE IF form.cell # player.cell THEN Vanish(s, i, form.cell)
  ELSE IF stands THEN s
  ELSE Spawn(s, i, form.cell, form.look)

UpdateDoor(s, i, form) ==
  IF s.view.of[i].local = form.refr \/ (form.dead /\ s.view.of[i].local = None) THEN s
  ELSE [DestroyRefr(s, s.view.of[i]) EXCEPT !.view.of[i] = [@ EXCEPT !.local = form.refr, !.ready = TRUE]]

UpdateForm(s, i) ==
  LET form == s.world.forms[i] IN
  IF form = None \/ i = s.world.me THEN DestroyForm(s, i)
  ELSE IF s.view.of[i] = None
  THEN [s EXCEPT !.view.of[i] = [remote |-> form.refr, local |-> None, ready |-> FALSE, cell |-> None]]
  ELSE IF form.refr \in Doors THEN UpdateDoor(s, i, form) ELSE UpdateActor(s, i, form)

-----------------------------------------------------------------------------
(* What an update does: callbacks, and a loop over the views.               *)

\* remoteIdToLocalId: the first view of a form of the server.
LocalOf(s, refr) ==
  LET views == {i \in Ids : s.view.of[i] # None /\ s.view.of[i].remote = refr}
  IN IF views = {} THEN None ELSE s.view.of[Min(views)].local

Deleted(s, r) == [s EXCEPT !.view.refs[r] = "none"]

Run(s, job) ==
  CASE job.op = "delete" -> [Deleted(s, job.ref) EXCEPT !.view.protection[job.ref] = @ - 1]
    [] job.op = "dead" ->     \* onUpdatePropertyMessage; a form that is gone throws
         LET id == s.world.idByValue[job.idx] IN
         IF id = None \/ s.world.forms[id] = None THEN s
         ELSE [s EXCEPT !.world.forms[id].dead = job.dead]
    [] job.op = "respawn" ->  \* RespawnNeededError: the actor is deleted under its view
         LET r == LocalOf(s, job.refr) IN IF r \in Refs THEN Deleted(s, r) ELSE s
    [] job.op = "destroyForm" -> DestroyForm(s, job.id)
    [] job.op = "updateForm" -> UpdateForm(s, job.id)
    [] job.op = "skip" -> s

\* One after the other.
RunJobs(s, jobs) ==
  LET after[n \in 0..Len(jobs)] == IF n = 0 THEN s ELSE Run(after[n - 1], jobs[n])
  IN after[Len(jobs)]

\* A loop over the forms that concerns those of ids.
ForEach(ids, op) == [n \in 1..MaxIds |-> [op |-> IF n - 1 \in ids THEN op ELSE "skip", id |-> n - 1]]

DestroyForms(s, ids) == RunJobs(s, ForEach(ids, "destroyForm"))

\* WorldView.onUpdate; a player that changed the cell gets all views anew.
ViewJobs ==
  (IF player.known # player.cell THEN ForEach(Ids, "destroyForm") ELSE <<>>) \o ForEach(Ids, "updateForm")

\* One update: the callbacks that waited for it, and the views, whichever comes first.
UpdateGame ==
  /\ \/ Becomes(RunJobs([Game EXCEPT !.queue = <<>>], queue \o ViewJobs))
     \/ Becomes(RunJobs([Game EXCEPT !.queue = <<>>], ViewJobs \o queue))
  /\ view'.spawned <= MaxRefs
  /\ player' = [player EXCEPT !.known = player.cell]
  /\ UNCHANGED changes

\* A spawn process ends; its view may have spawned something else since.
SpawnDone(r) ==
  /\ view.refs[r] = "spawning"
  /\ view' = [view EXCEPT
       !.refs[r] = "shown",
       !.of = [i \in Ids |-> IF i = view.owner[r] THEN [@[i] EXCEPT !.ready = TRUE] ELSE @[i]]]
  /\ UNCHANGED <<world, queue, player, changes>>

\* applyMovement throws RespawnNeededError: the view gives up what it shows.
RespawnNeeded(i) ==
  /\ changes < MaxChanges
  /\ world.forms[i] # None /\ view.of[i] # None
  /\ view.of[i].ready /\ view.of[i].local \in Refs /\ view.refs[view.of[i].local] # "none"
  /\ Becomes(Vanish(Game, i, world.forms[i].cell))
  /\ changes' = changes + 1
  /\ UNCHANGED player

-----------------------------------------------------------------------------
(* Messages of the server, handled on ticks.                                *)

Change == changes < MaxChanges /\ changes' = changes + 1

NoForms(w) == [w EXCEPT !.forms = [i \in Ids |-> None], !.me = None]

\* Mutant: the ids are given away anew with every connection.
ResettingConnectionReset ==
  /\ Change
  /\ world' = [NoForms(world) EXCEPT !.idByValue = [x \in Indexes |-> None],
                 !.valueById = [i \in Ids |-> None], !.minimumUnusedId = 0]
  /\ UNCHANGED <<view, queue, player>>

\* handleConnectionAccepted and invalidateSpawn: the ids are not given back.
ConnectionReset ==
  /\ Change
  /\ world' = NoForms(world)
  /\ UNCHANGED <<view, queue, player>>

FormOf(idx) == LET id == world.idByValue[idx] IN IF id = None THEN None ELSE world.forms[id]

\* The server tells of a form it has not told of since the connection began.
CreateActor(idx, refr, cell, dead, isMe) ==
  LET id == world.minimumUnusedId IN
  /\ Change /\ id < MaxIds
  /\ FormOf(idx) = None /\ \A i \in Ids : world.forms[i] # None => world.forms[i].refr # refr
  /\ isMe => refr \in Actors /\ world.me = None
  /\ world' = [AllocateIdFor(world, idx) EXCEPT
       !.forms[id] = [idx |-> idx, refr |-> refr, cell |-> cell, dead |-> dead, look |-> 0],
       !.me = IF isMe THEN id ELSE @]
  /\ UNCHANGED <<view, queue, player>>

\* The form goes, and with it every view that has none (syncFormArray).
DestroyActor(idx) ==
  LET id == world.idByValue[idx]
      w == [world EXCEPT !.forms[id] = None, !.me = IF @ = id THEN None ELSE @]
  IN /\ FormOf(idx) # None
     /\ Becomes([DestroyForms(Game, {i \in Ids : (w.forms[i] = None \/ i = world.me)
                    /\ \E j \in Ids : j >= i /\ world.forms[j] # None}) EXCEPT !.world = FreeIdFor(w, idx)])
     /\ UNCHANGED <<player, changes>>

\* Movements come unreliably: late, or not at all.
UpdateMovement(idx, cell) ==
  /\ Change /\ FormOf(idx) # None /\ FormOf(idx).cell # cell
  /\ world' = [world EXCEPT !.forms[world.idByValue[idx]].cell = cell]
  /\ UNCHANGED <<view, queue, player>>

UpdateAppearance(idx) ==
  /\ Change /\ FormOf(idx) # None
  /\ world' = [world EXCEPT !.forms[world.idByValue[idx]].look = 1 - @]
  /\ UNCHANGED <<view, queue, player>>

\* The form is looked up now for the actor, and again on the update for isDead.
DeathState(idx, dead) ==
  LET form == FormOf(idx)
      reload == IF ~dead /\ world.me # world.idByValue[idx] THEN <<[op |-> "respawn", refr |-> form.refr]>> ELSE <<>>
  IN /\ Change /\ form # None /\ form.refr \in Actors
     /\ queue' = Append(queue, [op |-> "dead", idx |-> idx, dead |-> dead]) \o reload
     /\ UNCHANGED <<world, view, player>>

-----------------------------------------------------------------------------
(* The game.                                                                *)

PlayerMoves(cell) ==
  /\ Change /\ player.cell # cell
  /\ player' = [player EXCEPT !.cell = cell]
  /\ UNCHANGED <<world, view, queue>>

\* A save is loaded: what was spawned before is gone.
GameLoads ==
  /\ Change /\ \E r \in Refs : view.refs[r] # "none"
  /\ view' = [view EXCEPT !.refs = [r \in Refs |-> "none"]]
  /\ UNCHANGED <<world, queue, player>>

ServerMessages ==
  \/ ConnectionReset
  \/ \E idx \in Indexes :
       \/ \E refr \in Actors \cup Doors, cell \in Cells, dead, isMe \in BOOLEAN :
            CreateActor(idx, refr, cell, dead, isMe)
       \/ DestroyActor(idx) \/ UpdateAppearance(idx)
       \/ \E cell \in Cells : UpdateMovement(idx, cell)
       \/ \E dead \in BOOLEAN : DeathState(idx, dead)

ViewNext ==
  \/ ServerMessages
  \/ UpdateGame
  \/ \E r \in Refs : SpawnDone(r)
  \/ \E i \in Ids : RespawnNeeded(i)
  \/ \E cell \in Cells : PlayerMoves(cell)
  \/ GameLoads

ViewSpec == ViewInit /\ [][ViewNext]_viewVars

-----------------------------------------------------------------------------
(* Properties.                                                              *)

\* remoteServer.ts, idManager.ts: a message finds its form by the idx, also after ids were
\* freed out of order and connections forgot all forms: every form is where its idx leads,
\* and the next id that is given away has no form.
FormsReachable ==
  /\ \A i \in Ids : world.forms[i] # None =>
       /\ world.idByValue[world.forms[i].idx] = i
       /\ world.valueById[i] = world.forms[i].idx
  /\ world.minimumUnusedId < MaxIds => world.forms[world.minimumUnusedId] = None

ViewInv == ViewTypeOK /\ FormsReachable

\* formViewArray.ts: a view lives on under its id while forms come, go and are forgotten
\* with a connection between two updates; it never shows one form under the name of
\* another, which hits, activations and hosting would then be reported for.
ViewsMatchForms ==
  \A i \in Ids : view.of[i] # None /\ world.forms[i] # None => view.of[i].remote = world.forms[i].refr

\* formView.ts: whatever a view spawned is either still held by exactly one view or will be
\* deleted on the next update, never both and never twice, and the world cleaner keeps its
\* hands off exactly until then, although views vanish, are reset, lose their references
\* to a load or a respawn and are destroyed from four places.
NoOrphans ==
  \A r \in 1..view.spawned :
    LET held == Cardinality({i \in Ids : view.of[i] # None /\ view.of[i].local = r})
        leaving == Cardinality({k \in 1..Len(queue) : queue[k].op = "delete" /\ queue[k].ref = r})
    IN /\ held + leaving = view.protection[r]
       /\ view.protection[r] \in {0, 1}
       /\ view.refs[r] # "none" => view.protection[r] = 1
=============================================================================
