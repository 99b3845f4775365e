--------------------------- MODULE Subscriptions ---------------------------
(***************************************************************************)
(* Who sees whom.  A form on the grid of its cell is subscribed to what is *)
(* in the grid squares around it, and these to it; a player's client shows *)
(* what the player's actor is subscribed to.  Main thread only: each       *)
(* action is a call from a handler, a script or the gamemode.              *)
(*                                                                         *)
(* Squares of a grid are a row: the two dimensions are treated alike.  The *)
(* sets `listeners' and `emitters' of all forms are one relation, because  *)
(* Subscribe and Unsubscribe, their only writers, change both.             *)
(***************************************************************************)
EXTENDS Integers, FiniteSets

CONSTANTS
  Actors,   \* ids of MpActor
  Refs,     \* ids of plain references made at run time
  MapRefs,  \* ids of plain references of the game files
  Home,     \* where the game files put the latter
  Spots,    \* the places forms go to: a cell or world and a square of its grid
  Deletable, \* forms that scripts may delete: bounds the model
  Users,
  NoActor

Forms == Actors \cup Refs \cup MapRefs
Cells == {p.cell : p \in Spots}
FarAway == -10  \* the square of { -1'000'000'000, 0, 0 }
Places == Spots \cup [cell : Cells, x : {FarAway}]

ASSUME SubscriptionsAssumption ==
  /\ Actors \cap Refs = {} /\ Actors \cap MapRefs = {} /\ Refs \cap MapRefs = {}
  /\ NoActor \notin Forms
  /\ Spots # {} /\ \A p \in Spots : p = [cell |-> p.cell, x |-> p.x] /\ p.x \in Nat
  /\ Home \in [MapRefs -> Spots]

VARIABLES
  forms,     \* WorldState::forms
  place,     \* cell and position in the change form, to the grid square
  disabled,  \* forms whose change form says isDisabled
  ever,      \* forms with everSubscribedOrListened
  grid,      \* WorldState::grids: <<form, place>>
  subs,      \* <<emitter, listener>>: listeners and emitters
  audience,  \* actorListenerArray: how often it holds an actor
  actorOf,   \* actorsMap: the actor of a user
  online,    \* connected users
  view       \* what the client of a user shows

vars == <<forms, place, disabled, ever, grid, subs, audience, actorOf, online, view>>

TypeOK ==
  /\ forms \in SUBSET Forms
  /\ place \in [Forms -> Places]
  /\ disabled \in SUBSET forms /\ ever \in SUBSET forms
  /\ grid \in SUBSET (Forms \X Places)
  /\ subs \in SUBSET (Forms \X Forms)
  /\ audience \in [Forms \X Actors -> Nat]
  /\ actorOf \in [Users -> Actors \cup {NoActor}]
  /\ online \in SUBSET Users
  /\ view \in [Users -> SUBSET Forms]

Nowhere == CHOOSE p \in Spots : TRUE

Init ==
  /\ forms = {} /\ disabled = {} /\ ever = {} /\ grid = {} /\ subs = {}
  /\ place = [f \in Forms |-> IF f \in MapRefs THEN Home[f] ELSE Nowhere]
  /\ audience = [p \in Forms \X Actors |-> 0]
  /\ actorOf = [u \in Users |-> NoActor]
  /\ online = {}
  /\ view = [u \in Users |-> {}]

\* A handler makes several of the calls below; each maps a world to a world.
World == [forms |-> forms, place |-> place, disabled |-> disabled, ever |-> ever,
          grid |-> grid, subs |-> subs, audience |-> audience,
          actorOf |-> actorOf, online |-> online, view |-> view]

Becomes(w) ==
  /\ forms' = w.forms /\ place' = w.place
  /\ disabled' = w.disabled /\ ever' = w.ever
  /\ grid' = w.grid /\ subs' = w.subs /\ audience' = w.audience
  /\ actorOf' = w.actorOf /\ online' = w.online /\ view' = w.view

-----------------------------------------------------------------------------
(* The grid.                                                                *)

Near(p, q) == p.cell = q.cell /\ p.x - q.x \in -1 .. 1

Neighbours(w, p) == {e[1] : e \in {e \in w.grid : Near(e[2], p)}}

Forget(w, f) ==
  [w EXCEPT !.grid = {e \in @ : e[1] # f \/ e[2].cell # w.place[f].cell}]

MoveOnGrid(w, f) == [w EXCEPT !.grid = Forget(w, f).grid \cup {<<f, w.place[f]>>}]

-----------------------------------------------------------------------------
(* Subscribe and Unsubscribe, for sets of pairs <<emitter, listener>>.      *)

Listeners(w, f) == {l \in Forms : <<f, l>> \in w.subs}
Emitters(w, f) == {e \in Forms : <<e, f>> \in w.subs}

\* Two references that are not actors have nothing to tell each other.
WithActor(P) == {p \in P : p[1] \in Actors \/ p[2] \in Actors}

EmittersFor(P, a) == {p[1] : p \in {p \in P : p[2] = a}}

BothWays(f, S) == ({f} \X S) \cup (S \X {f})

Subscribe(w, P) ==
  LET pairs == WithActor(P)
  IN [w EXCEPT !.subs = @ \cup pairs,
               !.audience = [p \in DOMAIN @ |->
                               @[p] + IF p \in pairs \ w.subs THEN 1 ELSE 0],
               !.view = [u \in Users |-> @[u] \cup EmittersFor(pairs, w.actorOf[u])]]

Unsubscribe(w, P) ==
  LET pairs == WithActor(P)
  IN [w EXCEPT !.subs = @ \ pairs,
               !.audience = [p \in DOMAIN @ |->
                               IF p \in pairs \cap w.subs THEN 0 ELSE @[p]],
               !.view = [u \in Users |-> @[u] \ EmittersFor(pairs, w.actorOf[u])]]

\* GetNeighborsByPosition loads the references of the squares around p first;
\* each one subscribes itself to what is around it.  (Without a saved change form.)
LoadChunks(w, p) ==
  LET new == {m \in MapRefs \ w.forms : Near(Home[m], p)}
      placed == [w EXCEPT !.forms = @ \cup new, !.ever = @ \cup new,
                          !.grid = @ \cup {<<m, Home[m]>> : m \in new}]
  IN Subscribe(placed, UNION {BothWays(m, Neighbours(placed, Home[m])) : m \in new})

ForceSubscriptionsUpdateEnabled(w, f) ==
  LET loaded == LoadChunks(MoveOnGrid(w, f), w.place[f])
      was == Listeners(loaded, f)
      now == Neighbours(loaded, w.place[f])
      left == Unsubscribe(loaded, BothWays(f, was \ now))
  IN [Subscribe(left, BothWays(f, now \ was)) EXCEPT !.ever = @ \cup {f}]

ForceSubscriptionsUpdate(w, f) ==
  IF f \in w.disabled THEN w ELSE ForceSubscriptionsUpdateEnabled(w, f)

\* Mutant: not called.
RemoveFromGridAndUnsubscribeAllSkipped(w, f) == w

RemoveFromGridAndUnsubscribeAll(w, f) ==
  [Unsubscribe(Forget(w, f), {f} \X Listeners(w, f)) EXCEPT !.ever = @ \ {f}]

\* Mutant: not called.
UnsubscribeFromAllSkipped(w, f) == w

UnsubscribeFromAll(w, f) == Unsubscribe(w, Emitters(w, f) \X {f})

-----------------------------------------------------------------------------
(* Calls on a reference.                                                    *)

SetPos(w, f, x) ==
  LET moved == [w EXCEPT !.place[f].x = x]
  IN IF x = w.place[f].x /\ f \in w.ever
       THEN moved ELSE ForceSubscriptionsUpdate(moved, f)

\* Mutant: stays on the grid of the old cell.
SetCellOrWorldObsoleteStaying(w, f, c) ==
  [w EXCEPT !.place[f].cell = c, !.ever = @ \ {f}]

SetCellOrWorldObsolete(w, f, c) ==
  [Forget(w, f) EXCEPT !.place[f].cell = c, !.ever = @ \ {f}]

SetCellOrWorld(w, f, c) == ForceSubscriptionsUpdate(SetCellOrWorldObsolete(w, f, c), f)

Disable(w, f) ==
  LET off == [w EXCEPT !.disabled = @ \cup {f}]
  IN IF f \in w.disabled THEN w
     ELSE IF f \in MapRefs THEN off ELSE RemoveFromGridAndUnsubscribeAll(off, f)

Enable(w, f) ==
  LET on == [w EXCEPT !.disabled = @ \ {f}]
  IN IF f \notin w.disabled THEN w
     ELSE IF f \in MapRefs THEN on ELSE ForceSubscriptionsUpdate(on, f)

\* Mutant: only what MpObjectReference::BeforeDestroy does.
BeforeDestroyReference(w, a) == RemoveFromGridAndUnsubscribeAll(SetPos(w, a, FarAway), a)

\* MpActor::BeforeDestroy.
BeforeDestroy(w, a) ==
  UnsubscribeFromAll(RemoveFromGridAndUnsubscribeAll(SetPos(w, a, FarAway), a), a)

AddForm(w, f, p) == [w EXCEPT !.forms = @ \cup {f}, !.place[f] = p]

EraseActor(w, a) ==
  [w EXCEPT !.actorOf = [u \in Users |-> IF @[u] = a THEN NoActor ELSE @[u]]]

-----------------------------------------------------------------------------
(* What handlers, scripts and the gamemode do.                              *)

CreateActor(a, p) ==
  /\ a \in Actors \ forms
  /\ Becomes(AddForm(World, a, p))

\* Papyrus PlaceAtMe.
PlaceAtMe(f, p, initiallyDisabled) ==
  /\ f \in (Actors \cup Refs) \ forms
  /\ LET placed == ForceSubscriptionsUpdate(AddForm(World, f, p), f)
     IN Becomes(IF initiallyDisabled THEN Disable(placed, f) ELSE placed)

\* Movement of a player or of a hosted actor.
Move(a, x) ==
  /\ a \in forms \cap Actors /\ [place[a] EXCEPT !.x = x] \in Spots
  /\ Becomes(SetPos(World, a, x))

\* Papyrus SetPosition: SetPosAndAngleSilent, then an update in any case.
SetPosition(f, x) ==
  /\ f \in forms /\ [place[f] EXCEPT !.x = x] \in Spots
  /\ Becomes(ForceSubscriptionsUpdate([World EXCEPT !.place[f].x = x], f))

\* MpActor::Teleport, respawn and teleport doors.
Teleport(a, p) ==
  /\ a \in forms \cap Actors
  /\ Becomes(SetPos(SetCellOrWorldObsolete(World, a, p.cell), a, p.x))

\* Papyrus MoveTo of something that is not an actor.
MoveTo(f, p) ==
  /\ f \in forms \ Actors
  /\ Becomes(SetPos(SetCellOrWorld(World, f, p.cell), f, p.x))

SetEnabled(f, enabled) ==
  /\ f \in forms
  /\ Becomes(IF enabled THEN Enable(World, f) ELSE Disable(World, f))

\* Nothing here reads the flag isDeleted that it sets.
Delete(f) ==
  /\ f \in (forms \cap Deletable) \ MapRefs
  /\ Becomes(RemoveFromGridAndUnsubscribeAll(World, f))

DestroyActor(a) ==
  /\ a \in forms \cap Actors
  /\ LET left == BeforeDestroy(World, a)
     IN Becomes(EraseActor([left EXCEPT !.forms = @ \ {a}, !.disabled = @ \ {a},
                                        !.place[a] = Nowhere], a))

Connect(u) ==
  /\ u \notin online
  /\ Becomes([World EXCEPT !.online = @ \cup {u}])

\* The disconnect handler of spawn.ts disables the actor; the client is gone.
Disconnect(u) ==
  /\ u \in online
  /\ LET w == IF actorOf[u] = NoActor THEN World ELSE Disable(World, actorOf[u])
     IN Becomes([w EXCEPT !.actorOf[u] = NoActor, !.view[u] = {}, !.online = @ \ {u}])

SetUserActor(u, a) ==
  /\ u \in online
  /\ a \in (forms \cap Actors) \ disabled
  /\ LET cleared == RemoveFromGridAndUnsubscribeAll(UnsubscribeFromAll(World, a), a)
     IN Becomes(ForceSubscriptionsUpdate([EraseActor(cleared, a) EXCEPT !.actorOf[u] = a], a))

ClearUserActor(u) ==
  /\ u \in online
  /\ Becomes([World EXCEPT !.actorOf[u] = NoActor])

Next ==
  \/ \E f \in Forms, p \in Spots :
       \/ CreateActor(f, p)
       \/ \E b \in BOOLEAN : PlaceAtMe(f, p, b)
       \/ Move(f, p.x)
       \/ SetPosition(f, p.x)
       \/ Teleport(f, p)
       \/ MoveTo(f, p)
  \/ \E f \in Forms : \/ \E b \in BOOLEAN : SetEnabled(f, b)
                      \/ Delete(f)
                      \/ DestroyActor(f)
  \/ \E u \in Users : \/ Connect(u)
                      \/ Disconnect(u)
                      \/ \E a \in Actors : SetUserActor(u, a)
                      \/ ClearUserActor(u)

Spec == Init /\ [][Next]_vars

-----------------------------------------------------------------------------
(* Properties.                                                              *)

\* Pointers: the grids, the listeners and emitters of every form and the actors
\* of users hold forms that exist, although DestroyForm frees a form that moved,
\* was disabled or deleted in any order before.
NoDanglingPointers ==
  /\ \A e \in grid : e[1] \in forms
  /\ subs \in SUBSET (forms \X forms)
  /\ \A u \in Users : actorOf[u] \in forms \cup {NoActor}

\* The grid is where the world is: a form that is not of the game files is on a
\* grid exactly if it ran ForceSubscriptionsUpdate since it last left, and then
\* only at its own cell and position.
GridFollowsPlace ==
  \A f \in forms \ MapRefs :
    {e \in grid : e[1] = f} = IF f \in ever THEN {<<f, place[f]>>} ELSE {}

\* unit/ObjectReferenceTest.cpp "Disable makes ref invisible": nobody listens to a
\* disabled form that is not of the game files, wherever it or others move.
DisabledIsInvisible ==
  \A f \in disabled \ MapRefs : Listeners(World, f) = {}

\* NeighborsBinding: what is next to a form on the grid is among its listeners or
\* its emitters, so the property `neighbors' of scripts misses nothing.
NeighborsFindsAll ==
  \A d, e \in grid :
    Near(d[2], e[2]) =>
      \A p \in WithActor({<<d[1], e[1]>>}) : p \in subs \/ <<p[2], p[1]>> \in subs

\* Streaming: a player's client shows all that the player's actor is subscribed
\* to, also when the actor was used or left by other users before.
ClientShowsEmitters ==
  \A u \in Users : actorOf[u] # NoActor => Emitters(World, actorOf[u]) \subseteq view[u]

\* actorListenerArray: an actor that listens is in it once, other actors are not,
\* although Subscribe may be called for a pair that is subscribed already.
EachListenerListedOnce ==
  \A p \in Forms \X Actors : audience[p] = IF p \in subs THEN 1 ELSE 0

\* Forms, grids and listeners stay consistent through moves, disabling and deletion in
\* any order.
Inv ==
  TypeOK /\ NoDanglingPointers /\ GridFollowsPlace /\ DisabledIsInvisible /\ EachListenerListedOnce

\* PartOne::SetUserActor, "players will not be able to interact with items in the
\* same cell after reconnecting": a user that gets an actor is shown all that is
\* next to it, and these are subscribed to the actor.
NewPlayerSeesNeighbours ==
  [][\A u \in Users, a \in Actors :
       actorOf[u] # a /\ actorOf'[u] = a =>
         \A e \in grid' : Near(e[2], place[a]) =>
           /\ e[1] \in view'[u]
           /\ {<<a, e[1]>>, <<e[1], a>>} \subseteq subs']_vars

-----------------------------------------------------------------------------
(* What a test says of the code, and what does not hold.                    *)

\* unit/ObjectReferenceTest.cpp:30-40: after Enable an actor next to a reference is
\* among its listeners, as it was before Disable.
ActorsNearbyListen ==
  \A d, e \in {e \in grid : e[1] \notin MapRefs} :
    e[1] \in Actors /\ Near(d[2], e[2]) => <<d[1], e[1]>> \in subs
=============================================================================
