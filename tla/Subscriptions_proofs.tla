------------------------ MODULE Subscriptions_proofs ------------------------
(***************************************************************************)
(* Proofs about Subscriptions for any forms, places and users: pointers,   *)
(* the grid and the subscriptions stay consistent, neighbours are          *)
(* subscribed, and a client shows what its actor is subscribed to.         *)
(***************************************************************************)
EXTENDS Subscriptions, TLAPS

(* A call maps a world to a world, so the invariant is stated of such a w.  *)

\* In the middle of a call, places are not always those forms go to.
Wide == [cell : Cells, x : Int]

Worlds ==
  [forms : SUBSET Forms, place : [Forms -> Wide], disabled : SUBSET Forms,
   ever : SUBSET Forms, grid : SUBSET (Forms \X Wide), subs : SUBSET (Forms \X Forms),
   audience : [Forms \X Actors -> Nat], actorOf : [Users -> Actors \cup {NoActor}],
   online : SUBSET Users, view : [Users -> SUBSET Forms]]

\* NoDanglingPointers of w, and no subscription without an actor.
Exist(w) ==
  /\ w.disabled \subseteq w.forms /\ w.ever \subseteq w.forms
  /\ \A e \in w.grid : e[1] \in w.forms
  /\ \A p \in w.subs : /\ p[1] \in w.forms /\ p[2] \in w.forms
                       /\ p[1] \in Actors \/ p[2] \in Actors
  /\ \A u \in Users : w.actorOf[u] \in w.forms \cup {NoActor}

\* A form is on the grid once, and on that of its cell.
OneEntry(w) ==
  /\ \A d, e \in w.grid : d[1] = e[1] => d = e
  /\ \A e \in w.grid : e[2].cell = w.place[e[1]].cell
  /\ \A m \in MapRefs \ w.forms : w.place[m] = Home[m]

\* EachListenerListedOnce and ClientShowsEmitters of w.
Listed(w) == \A p \in Forms \X Actors : w.audience[p] = IF p \in w.subs THEN 1 ELSE 0

Shows(w) ==
  \A u \in Users, e \in Forms :
    w.actorOf[u] # NoActor /\ <<e, w.actorOf[u]>> \in w.subs => e \in w.view[u]

\* What holds all through a call.
Firm(w) == w \in Worlds /\ Exist(w) /\ OneEntry(w) /\ Listed(w) /\ Shows(w)

\* What is not so for the forms of X while a call is at work on them:
\* GridFollowsPlace, DisabledIsInvisible, NeighborsFindsAll and the type of places.
Follows(w, X) ==
  \A g \in (w.forms \ MapRefs) \ X :
    /\ g \in w.ever => <<g, w.place[g]>> \in w.grid
    /\ g \notin w.ever => \A e \in w.grid : e[1] # g

Invisible(w, X) ==
  \A g \in (w.disabled \ MapRefs) \ X :
    g \notin w.ever /\ \A l \in Forms : <<g, l>> \notin w.subs

Finds(w, X) ==
  \A d, e \in w.grid :
    /\ d[1] \notin X /\ e[1] \notin X
    /\ Near(d[2], e[2])
    /\ d[1] \in Actors \/ e[1] \in Actors
    => <<d[1], e[1]>> \in w.subs \/ <<e[1], d[1]>> \in w.subs

Sound(w, X) == Firm(w) /\ Follows(w, X) /\ Invisible(w, X) /\ Finds(w, X)

Placed(w, X) ==
  /\ \A g \in Forms \ X : w.place[g] \in Places
  /\ \A e \in w.grid : e[1] \notin X => e[2] \in Places

Strong == Sound(World, {}) /\ Placed(World, {})
-----------------------------------------------------------------------------
(* Places and squares.                                                      *)

LEMMA PlacesAreWide ==
  /\ Spots \subseteq Places /\ Places \subseteq Wide
  /\ \A m \in MapRefs : Home[m] \in Places /\ Home[m] \in Wide
  /\ Nowhere \in Spots
<1>1. \A p \in Spots : p \in Wide
  <2> SUFFICES ASSUME NEW p \in Spots PROVE p \in Wide
    OBVIOUS
  <2>1. p = [cell |-> p.cell, x |-> p.x] /\ p.x \in Nat /\ p.cell \in Cells
    BY SubscriptionsAssumption DEF Cells
  <2>2. [cell |-> p.cell, x |-> p.x] \in Wide
    BY <2>1 DEF Wide
  <2> QED BY <2>1, <2>2
<1>2. \A p \in [cell : Cells, x : {FarAway}] : p \in Wide
  BY DEF Wide, FarAway
<1>3. Nowhere \in Spots
  BY SubscriptionsAssumption DEF Nowhere
<1> QED BY <1>1, <1>2, <1>3, SubscriptionsAssumption DEF Places

LEMMA NearIsMutual ==
  /\ \A p, q \in Wide : Near(p, q) <=> Near(q, p)
  /\ \A p \in Wide : Near(p, p)
  BY DEF Near, Wide

LEMMA NeighboursAre ==
  ASSUME NEW w, NEW p, NEW g
  PROVE  g \in Neighbours(w, p) <=> \E e \in w.grid : Near(e[2], p) /\ e[1] = g
  BY DEF Neighbours

\* A form moves within its cell, or to another cell.
LEMMA PlacesChange ==
  ASSUME NEW w \in Worlds, NEW f \in Forms
  PROVE  /\ \A x \in Int :
              LET pl == [w.place EXCEPT ![f].x = x]
              IN pl \in [Forms -> Wide] /\ pl[f] = [cell |-> w.place[f].cell, x |-> x]
         /\ \A c \in Cells :
              LET pl == [w.place EXCEPT ![f].cell = c]
              IN pl \in [Forms -> Wide] /\ pl[f] = [cell |-> c, x |-> w.place[f].x]
<1>1. w.place \in [Forms -> Wide] /\ w.place[f] \in Wide
  BY DEF Worlds
<1> DEFINE q == w.place[f]
<1>2. \A x \in Int : [q EXCEPT !.x = x] = [cell |-> q.cell, x |-> x] /\ [q EXCEPT !.x = x] \in Wide
  BY <1>1 DEF Wide
<1>3. \A c \in Cells : [q EXCEPT !.cell = c] = [cell |-> c, x |-> q.x] /\ [q EXCEPT !.cell = c] \in Wide
  BY <1>1 DEF Wide
<1>4. ASSUME NEW r \in Wide
      PROVE  [w.place EXCEPT ![f] = r] \in [Forms -> Wide] /\ [w.place EXCEPT ![f] = r][f] = r
  BY <1>1
<1> QED BY <1>2, <1>3, <1>4

-----------------------------------------------------------------------------
(* Subscribe and Unsubscribe.                                               *)

\* v is w up to subscriptions and what clients show.
SameGround(v, w) ==
  /\ v \in Worlds
  /\ v.forms = w.forms /\ v.place = w.place /\ v.disabled = w.disabled /\ v.ever = w.ever
  /\ v.grid = w.grid /\ v.actorOf = w.actorOf /\ v.online = w.online

LEMMA SubscribeFields ==
  ASSUME NEW w \in Worlds, NEW P, P \subseteq Forms \X Forms
  PROVE  LET v == Subscribe(w, P)
         IN /\ SameGround(v, w)
            /\ v.subs = w.subs \cup WithActor(P)
            /\ \A p \in Forms \X Actors :
                 v.audience[p] = w.audience[p] + IF p \in WithActor(P) \ w.subs THEN 1 ELSE 0
            /\ \A u \in Users : v.view[u] = w.view[u] \cup EmittersFor(WithActor(P), w.actorOf[u])
<1> DEFINE pairs == WithActor(P)
           heard == [p \in DOMAIN w.audience |->
                       w.audience[p] + IF p \in pairs \ w.subs THEN 1 ELSE 0]
           shown == [u \in Users |-> w.view[u] \cup EmittersFor(pairs, w.actorOf[u])]
           v == [w EXCEPT !.subs = @ \cup pairs, !.audience = heard, !.view = shown]
<1>1. Subscribe(w, P) = v
  BY DEF Subscribe, Worlds
<1>2. pairs \subseteq Forms \X Forms
  BY DEF WithActor
<1>3. heard \in [Forms \X Actors -> Nat]
  BY DEF Worlds
<1>4. shown \in [Users -> SUBSET Forms]
  <2>1. \A u \in Users : EmittersFor(pairs, w.actorOf[u]) \subseteq Forms
    BY <1>2 DEF EmittersFor
  <2> QED BY <2>1 DEF Worlds
<1>5. /\ \A p \in Forms \X Actors :
           heard[p] = w.audience[p] + IF p \in pairs \ w.subs THEN 1 ELSE 0
      /\ \A u \in Users : shown[u] = w.view[u] \cup EmittersFor(pairs, w.actorOf[u])
  BY DEF Worlds
<1> HIDE DEF heard, shown, pairs
<1>6. /\ SameGround(v, w)
      /\ v.subs = w.subs \cup pairs /\ v.audience = heard /\ v.view = shown
  BY <1>2, <1>3, <1>4 DEF Worlds, SameGround
<1> QED BY <1>1, <1>5, <1>6 DEF pairs

LEMMA UnsubscribeFields ==
  ASSUME NEW w \in Worlds, NEW P, P \subseteq Forms \X Forms
  PROVE  LET v == Unsubscribe(w, P)
         IN /\ SameGround(v, w)
            /\ v.subs = w.subs \ WithActor(P)
            /\ \A p \in Forms \X Actors :
                 v.audience[p] = IF p \in WithActor(P) \cap w.subs THEN 0 ELSE w.audience[p]
            /\ \A u \in Users : v.view[u] = w.view[u] \ EmittersFor(WithActor(P), w.actorOf[u])
<1> DEFINE pairs == WithActor(P)
           heard == [p \in DOMAIN w.audience |->
                       IF p \in pairs \cap w.subs THEN 0 ELSE w.audience[p]]
           shown == [u \in Users |-> w.view[u] \ EmittersFor(pairs, w.actorOf[u])]
           v == [w EXCEPT !.subs = @ \ pairs, !.audience = heard, !.view = shown]
<1>1. Unsubscribe(w, P) = v
  BY DEF Unsubscribe, Worlds
<1>3. heard \in [Forms \X Actors -> Nat]
  BY DEF Worlds
<1>4. shown \in [Users -> SUBSET Forms]
  BY DEF Worlds
<1>5. /\ \A p \in Forms \X Actors :
           heard[p] = IF p \in pairs \cap w.subs THEN 0 ELSE w.audience[p]
      /\ \A u \in Users : shown[u] = w.view[u] \ EmittersFor(pairs, w.actorOf[u])
  BY DEF Worlds
<1> HIDE DEF heard, shown, pairs
<1>6. /\ SameGround(v, w)
      /\ v.subs = w.subs \ pairs /\ v.audience = heard /\ v.view = shown
  BY <1>3, <1>4 DEF Worlds, SameGround
<1> QED BY <1>1, <1>5, <1>6 DEF pairs

\* Subscribe, between forms that exist and are not invisible.
LEMMA SubscribeSound ==
  ASSUME NEW w, NEW X, NEW P, Sound(w, X),
         \A p \in P : /\ p \in w.forms \X w.forms
                      /\ p[1] \in (w.disabled \ MapRefs) => p[1] \in X
  PROVE  Sound(Subscribe(w, P), X)
<1> DEFINE pairs == WithActor(P)
           v == Subscribe(w, P)
<1>1. w \in Worlds /\ Exist(w) /\ OneEntry(w) /\ Listed(w) /\ Shows(w)
  BY DEF Sound, Firm
<1>2. P \subseteq Forms \X Forms
  BY <1>1 DEF Worlds
<1>3. /\ SameGround(v, w)
      /\ v.subs = w.subs \cup pairs
      /\ \A p \in Forms \X Actors :
           v.audience[p] = w.audience[p] + IF p \in pairs \ w.subs THEN 1 ELSE 0
      /\ \A u \in Users : v.view[u] = w.view[u] \cup EmittersFor(pairs, w.actorOf[u])
  BY <1>1, <1>2, SubscribeFields
<1>4. \A p \in pairs : p \in P /\ (p[1] \in Actors \/ p[2] \in Actors)
  BY DEF WithActor
<1>5. \A e, a : <<e, a>> \in pairs => e \in EmittersFor(pairs, a)
  <2> SUFFICES ASSUME NEW e, NEW a, <<e, a>> \in pairs PROVE e \in EmittersFor(pairs, a)
    OBVIOUS
  <2>1. <<e, a>> \in {p \in pairs : p[2] = a}
    OBVIOUS
  <2> QED BY <2>1 DEF EmittersFor
<1> HIDE DEF v, pairs
<1>6. Exist(v)
  BY <1>1, <1>3, <1>4 DEF Exist, SameGround
<1>7. OneEntry(v)
  BY <1>1, <1>3 DEF OneEntry, SameGround
<1>8. Listed(v)
  BY <1>1, <1>3, <1>4 DEF Listed
<1>9. Shows(v)
  BY <1>1, <1>3, <1>5 DEF Shows, SameGround
<1>10. Follows(v, X)
  BY <1>3 DEF Sound, Follows, SameGround
<1>11. Invisible(v, X)
  BY <1>3, <1>4 DEF Sound, Invisible, SameGround
<1>12. Finds(v, X)
  BY <1>3 DEF Sound, Finds, SameGround
<1>13. v \in Worlds
  BY <1>3 DEF SameGround
<1> QED BY <1>6, <1>7, <1>8, <1>9, <1>10, <1>11, <1>12, <1>13 DEF Sound, Firm, v

\* Unsubscribe, of pairs with a form that the call is at work on.
LEMMA UnsubscribeSound ==
  ASSUME NEW w, NEW X, NEW P, Sound(w, X), P \subseteq Forms \X Forms,
         \A p \in P : p[1] \in X \/ p[2] \in X
  PROVE  Sound(Unsubscribe(w, P), X)
<1> DEFINE pairs == WithActor(P)
           v == Unsubscribe(w, P)
<1>1. w \in Worlds /\ Exist(w) /\ OneEntry(w) /\ Listed(w) /\ Shows(w)
  BY DEF Sound, Firm
<1>3. /\ SameGround(v, w)
      /\ v.subs = w.subs \ pairs
      /\ \A p \in Forms \X Actors :
           v.audience[p] = IF p \in pairs \cap w.subs THEN 0 ELSE w.audience[p]
      /\ \A u \in Users : v.view[u] = w.view[u] \ EmittersFor(pairs, w.actorOf[u])
  BY <1>1, UnsubscribeFields
<1>4. \A p \in pairs : p \in P /\ p = <<p[1], p[2]>>
  BY DEF WithActor
<1>5. \A e, a : e \in EmittersFor(pairs, a) => <<e, a>> \in pairs
  <2> SUFFICES ASSUME NEW e, NEW a, e \in EmittersFor(pairs, a) PROVE <<e, a>> \in pairs
    OBVIOUS
  <2>1. PICK p \in pairs : p[2] = a /\ e = p[1]
    BY DEF EmittersFor
  <2> QED BY <2>1, <1>4
<1> HIDE DEF v, pairs
<1>6. Exist(v)
  BY <1>1, <1>3 DEF Exist, SameGround
<1>7. OneEntry(v)
  BY <1>1, <1>3 DEF OneEntry, SameGround
<1>8. Listed(v)
  BY <1>1, <1>3 DEF Listed
<1>9. Shows(v)
  BY <1>1, <1>3, <1>5 DEF Shows, SameGround
<1>10. Follows(v, X)
  BY <1>3 DEF Sound, Follows, SameGround
<1>11. Invisible(v, X)
  BY <1>3 DEF Sound, Invisible, SameGround
<1>12. Finds(v, X)
  BY <1>3, <1>4 DEF Sound, Finds, SameGround
<1>13. v \in Worlds
  BY <1>3 DEF SameGround
<1> QED BY <1>6, <1>7, <1>8, <1>9, <1>10, <1>11, <1>12, <1>13 DEF Sound, Firm, v
-----------------------------------------------------------------------------
(* The grid.                                                                *)

\* v is w up to the grid.
SameBonds(v, w) ==
  /\ v \in Worlds
  /\ v.forms = w.forms /\ v.place = w.place /\ v.disabled = w.disabled /\ v.ever = w.ever
  /\ v.subs = w.subs /\ v.audience = w.audience /\ v.actorOf = w.actorOf
  /\ v.online = w.online /\ v.view = w.view

\* A form is only on the grid of its cell, so it is gone from all of them.
LEMMA ForgetFields ==
  ASSUME NEW w, Firm(w), NEW f
  PROVE  /\ SameBonds(Forget(w, f), w)
         /\ Forget(w, f).grid = {e \in w.grid : e[1] # f}
<1> DEFINE g == {e \in w.grid : e[1] # f \/ e[2].cell # w.place[f].cell}
           v == [w EXCEPT !.grid = g]
<1>1. w \in Worlds /\ OneEntry(w)
  BY DEF Firm
<1>2. Forget(w, f) = v
  BY DEF Forget
<1>3. g \subseteq Forms \X Wide
  BY <1>1 DEF Worlds
<1>4. g = {e \in w.grid : e[1] # f}
  BY <1>1 DEF OneEntry
<1> HIDE DEF g
<1>5. SameBonds(v, w) /\ v.grid = g
  BY <1>1, <1>3 DEF Worlds, SameBonds
<1> QED BY <1>2, <1>4, <1>5

LEMMA ForgetSound ==
  ASSUME NEW w, NEW f, Sound(w, {f})
  PROVE  Sound(Forget(w, f), {f})
<1> DEFINE v == Forget(w, f)
<1>1. w \in Worlds /\ Exist(w) /\ OneEntry(w) /\ Listed(w) /\ Shows(w)
  BY DEF Sound, Firm
<1>2. SameBonds(v, w) /\ v.grid = {e \in w.grid : e[1] # f}
  BY ForgetFields DEF Sound
<1> HIDE DEF v
<1>3. Exist(v) /\ OneEntry(v)
  BY <1>1, <1>2 DEF Exist, OneEntry, SameBonds
<1>4. Listed(v) /\ Shows(v)
  BY <1>1, <1>2 DEF Listed, Shows, SameBonds
<1>5. Follows(v, {f})
  BY <1>2 DEF Sound, Follows, SameBonds
<1>6. Invisible(v, {f})
  BY <1>2 DEF Sound, Invisible, SameBonds
<1>7. Finds(v, {f})
  BY <1>2 DEF Sound, Finds, SameBonds
<1> QED BY <1>2, <1>3, <1>4, <1>5, <1>6, <1>7 DEF Sound, Firm, SameBonds, v

LEMMA MoveOnGridSound ==
  ASSUME NEW w, NEW f, Sound(w, {f}), f \in w.forms
  PROVE  LET v == MoveOnGrid(w, f)
         IN /\ Sound(v, {f})
            /\ SameBonds(v, w)
            /\ v.grid = {e \in w.grid : e[1] # f} \cup {<<f, w.place[f]>>}
<1> DEFINE g == {e \in w.grid : e[1] # f} \cup {<<f, w.place[f]>>}
           v == [w EXCEPT !.grid = g]
<1>1. w \in Worlds /\ Exist(w) /\ OneEntry(w) /\ Listed(w) /\ Shows(w)
  BY DEF Sound, Firm
<1>2. MoveOnGrid(w, f) = v
  BY ForgetFields DEF Sound, MoveOnGrid
<1>3. g \subseteq Forms \X Wide
  BY <1>1 DEF Worlds
<1>4. \A e \in g : (e \in w.grid /\ e[1] # f) \/ e = <<f, w.place[f]>>
  OBVIOUS
<1>5. \A e \in w.grid : e[1] # f => e \in g
  OBVIOUS
<1>6. <<f, w.place[f]>> \in g
  OBVIOUS
<1> HIDE DEF g
<1>7. SameBonds(v, w) /\ v.grid = g
  BY <1>1, <1>3 DEF Worlds, SameBonds
<1> HIDE DEF v
<1>8. Exist(v)
  BY <1>1, <1>4, <1>7 DEF Exist, SameBonds
<1>9. OneEntry(v)
  BY <1>1, <1>4, <1>7 DEF OneEntry, SameBonds
<1>10. Listed(v) /\ Shows(v)
  BY <1>1, <1>7 DEF Listed, Shows, SameBonds
<1>11. Follows(v, {f})
  BY <1>4, <1>5, <1>7 DEF Sound, Follows, SameBonds
<1>12. Invisible(v, {f})
  BY <1>7 DEF Sound, Invisible, SameBonds
<1>13. Finds(v, {f})
  BY <1>4, <1>7 DEF Sound, Finds, SameBonds
<1>14. Sound(v, {f})
  BY <1>7, <1>8, <1>9, <1>10, <1>11, <1>12, <1>13 DEF Sound, Firm, SameBonds
<1> QED BY <1>2, <1>7, <1>14 DEF g

\* Who is on the grid may be subscribed to.
LEMMA OnGridIsVisible ==
  ASSUME NEW w, NEW X, Sound(w, X), NEW e \in w.grid, e[1] \in w.disabled \ MapRefs
  PROVE  e[1] \in X
<1> SUFFICES ASSUME e[1] \notin X PROVE FALSE
  OBVIOUS
<1>1. e[1] \in w.forms
  BY DEF Sound, Firm, Exist
<1>2. e[1] \notin w.ever
  BY DEF Sound, Invisible
<1> QED BY <1>1, <1>2 DEF Sound, Follows

\* A reference that is loaded is on the grid, and nobody is missed.
New(w, p) == {m \in MapRefs \ w.forms : Near(Home[m], p)}

PlacedNew(w, p) ==
  [w EXCEPT !.forms = @ \cup New(w, p), !.ever = @ \cup New(w, p),
            !.grid = @ \cup {<<m, Home[m]>> : m \in New(w, p)}]

Around(w, p) ==
  UNION {BothWays(m, Neighbours(PlacedNew(w, p), Home[m])) : m \in New(w, p)}

LEMMA LoadChunksIs ==
  ASSUME NEW w, NEW p
  PROVE  LoadChunks(w, p) = Subscribe(PlacedNew(w, p), Around(w, p))
  BY DEF LoadChunks, PlacedNew, Around, New

LEMMA PlacedNewFields ==
  ASSUME NEW w \in Worlds, NEW p
  PROVE  LET v == PlacedNew(w, p)
         IN /\ v \in Worlds
            /\ v.forms = w.forms \cup New(w, p) /\ v.ever = w.ever \cup New(w, p)
            /\ v.grid = w.grid \cup {<<m, Home[m]>> : m \in New(w, p)}
            /\ v.place = w.place /\ v.disabled = w.disabled
            /\ v.subs = w.subs /\ v.audience = w.audience /\ v.actorOf = w.actorOf
            /\ v.online = w.online /\ v.view = w.view
<1> DEFINE g == w.grid \cup {<<m, Home[m]>> : m \in New(w, p)}
           n == w.forms \cup New(w, p)
           h == w.ever \cup New(w, p)
           v == [w EXCEPT !.forms = n, !.ever = h, !.grid = g]
<1>1. PlacedNew(w, p) = v
  BY DEF PlacedNew, Worlds
<1>2. New(w, p) \subseteq Forms
  BY DEF New, Forms
<1>3. g \subseteq Forms \X Wide
  BY <1>2, PlacesAreWide DEF Worlds, New
<1>4. n \subseteq Forms /\ h \subseteq Forms
  BY <1>2 DEF Worlds
<1> HIDE DEF g, n, h
<1>5. /\ v \in Worlds
      /\ v.forms = n /\ v.ever = h /\ v.grid = g
      /\ v.place = w.place /\ v.disabled = w.disabled
      /\ v.subs = w.subs /\ v.audience = w.audience /\ v.actorOf = w.actorOf
      /\ v.online = w.online /\ v.view = w.view
  BY <1>3, <1>4 DEF Worlds
<1> QED BY <1>1, <1>5 DEF g, n, h

LEMMA PlacedNewSound ==
  ASSUME NEW w, NEW X, Sound(w, X), NEW p
  PROVE  LET v == PlacedNew(w, p)
         IN /\ Sound(v, X \cup New(w, p))
            /\ \A e \in v.grid :
                 \/ e \in w.grid /\ e[1] \notin New(w, p)
                 \/ e[1] \in New(w, p) /\ e = <<e[1], Home[e[1]]>>
<1> DEFINE v == PlacedNew(w, p)
           N == New(w, p)
<1>1. w \in Worlds /\ Exist(w) /\ OneEntry(w) /\ Listed(w) /\ Shows(w)
  BY DEF Sound, Firm
<1>2. /\ v \in Worlds
      /\ v.forms = w.forms \cup N /\ v.ever = w.ever \cup N
      /\ v.grid = w.grid \cup {<<m, Home[m]>> : m \in N}
      /\ v.place = w.place /\ v.disabled = w.disabled
      /\ v.subs = w.subs /\ v.audience = w.audience /\ v.actorOf = w.actorOf
      /\ v.online = w.online /\ v.view = w.view
  BY <1>1, PlacedNewFields
<1>3. N \subseteq MapRefs /\ N \cap w.forms = {}
  BY DEF New
<1>4. \A e \in v.grid : \/ e \in w.grid /\ e[1] \notin N
                        \/ e[1] \in N /\ e = <<e[1], Home[e[1]]>>
  BY <1>1, <1>2, <1>3 DEF Exist
<1>5. w.grid \subseteq v.grid
  BY <1>2
<1> HIDE DEF v, N
<1>6. Exist(v)
  BY <1>1, <1>2, <1>4 DEF Exist
<1>7. OneEntry(v)
  BY <1>1, <1>2, <1>3, <1>4 DEF OneEntry
<1>8. Listed(v) /\ Shows(v)
  BY <1>1, <1>2 DEF Listed, Shows
<1>9. Follows(v, X \cup N)
  BY <1>2, <1>4, <1>5 DEF Sound, Follows
<1>10. Invisible(v, X \cup N)
  BY <1>2 DEF Sound, Invisible
<1>11. Finds(v, X \cup N)
  BY <1>2, <1>4 DEF Sound, Finds
<1> QED BY <1>2, <1>4, <1>6, <1>7, <1>8, <1>9, <1>10, <1>11 DEF Sound, Firm, v, N
LEMMA AroundAre ==
  ASSUME NEW w, NEW p
  PROVE  /\ \A q \in Around(w, p) :
              \E m \in New(w, p), e \in PlacedNew(w, p).grid :
                Near(e[2], Home[m]) /\ (q = <<m, e[1]>> \/ q = <<e[1], m>>)
         /\ \A m \in New(w, p), e \in PlacedNew(w, p).grid :
              Near(e[2], Home[m]) => <<m, e[1]>> \in Around(w, p) /\ <<e[1], m>> \in Around(w, p)
         /\ \A g, h : <<g, h>> \in Around(w, p) => <<h, g>> \in Around(w, p)
<1> DEFINE v == PlacedNew(w, p)
           N == New(w, p)
<1>1. \A q : q \in Around(w, p) <=>
               \E m \in N : \E g \in Neighbours(v, Home[m]) : q = <<m, g>> \/ q = <<g, m>>
  BY DEF Around, BothWays
<1>2. \A m, g : g \in Neighbours(v, Home[m]) <=> \E e \in v.grid : Near(e[2], Home[m]) /\ e[1] = g
  BY NeighboursAre
<1> HIDE DEF v, N
<1>3. \A q \in Around(w, p) :
        \E m \in N, e \in v.grid : Near(e[2], Home[m]) /\ (q = <<m, e[1]>> \/ q = <<e[1], m>>)
  <2> SUFFICES ASSUME NEW q \in Around(w, p)
               PROVE  \E m \in N, e \in v.grid :
                        Near(e[2], Home[m]) /\ (q = <<m, e[1]>> \/ q = <<e[1], m>>)
    OBVIOUS
  <2>1. PICK m \in N : \E g \in Neighbours(v, Home[m]) : q = <<m, g>> \/ q = <<g, m>>
    BY <1>1
  <2>2. PICK g \in Neighbours(v, Home[m]) : q = <<m, g>> \/ q = <<g, m>>
    BY <2>1
  <2>3. PICK e \in v.grid : Near(e[2], Home[m]) /\ e[1] = g
    BY <1>2
  <2> QED BY <2>2, <2>3
<1>4. \A m \in N, e \in v.grid :
        Near(e[2], Home[m]) => <<m, e[1]>> \in Around(w, p) /\ <<e[1], m>> \in Around(w, p)
  BY <1>1, <1>2
<1>5. \A g, h : <<g, h>> \in Around(w, p) => <<h, g>> \in Around(w, p)
  BY <1>1
<1> QED BY <1>3, <1>4, <1>5 DEF v, N

\* GetNeighborsByPosition: what is loaded is on the grid and subscribed to what is
\* around it, both ways; nothing else changes.
LEMMA LoadChunksSound ==
  ASSUME NEW w, NEW X, Sound(w, X), X \subseteq w.forms, NEW p
  PROVE  LET v == LoadChunks(w, p)
         IN /\ Sound(v, X)
            /\ v.place = w.place /\ v.disabled = w.disabled
            /\ v.actorOf = w.actorOf /\ v.online = w.online
            /\ w.forms \subseteq v.forms /\ w.grid \subseteq v.grid /\ w.subs \subseteq v.subs
            /\ \A e \in v.grid \ w.grid : e[1] \in MapRefs \ w.forms /\ e[2] = Home[e[1]]
            /\ \A g \in v.forms \ w.forms : g \in MapRefs
            /\ \A g, h : <<g, h>> \in v.subs \ w.subs => <<h, g>> \in v.subs
<1> DEFINE s == PlacedNew(w, p)
           N == New(w, p)
           P == Around(w, p)
           v == Subscribe(s, P)
<1>1. LoadChunks(w, p) = v
  BY LoadChunksIs
<1>2. w \in Worlds
  BY DEF Sound, Firm
<1>3. /\ s.forms = w.forms \cup N
      /\ s.grid = w.grid \cup {<<m, Home[m]>> : m \in N}
      /\ s.place = w.place /\ s.disabled = w.disabled /\ s.subs = w.subs
      /\ s.actorOf = w.actorOf /\ s.online = w.online
  BY <1>2, PlacedNewFields
<1>4. /\ Sound(s, X \cup N)
      /\ \A e \in s.grid : \/ e \in w.grid /\ e[1] \notin N
                           \/ e[1] \in N /\ e = <<e[1], Home[e[1]]>>
  BY PlacedNewSound
<1>5. N \subseteq MapRefs /\ N \cap w.forms = {} /\ N \cap X = {}
  BY DEF New
<1>6. \A q \in P : \E m \in N, e \in s.grid :
        Near(e[2], Home[m]) /\ (q = <<m, e[1]>> \/ q = <<e[1], m>>)
  BY AroundAre
<1>7. \A m \in N, e \in s.grid : Near(e[2], Home[m]) => <<m, e[1]>> \in P /\ <<e[1], m>> \in P
  BY AroundAre
<1>8. \A g, h : <<g, h>> \in P => <<h, g>> \in P
  BY AroundAre
<1> HIDE DEF s, N, P
<1>9. s \in Worlds /\ \A e \in s.grid : e[1] \in s.forms
  BY <1>4 DEF Sound, Firm, Exist
<1>10. \A e \in s.grid : e[1] \in s.disabled \ MapRefs => e[1] \in X
  BY <1>4, <1>5, OnGridIsVisible
<1>11. \A q \in P : /\ q \in s.forms \X s.forms
                    /\ q[1] \in (s.disabled \ MapRefs) => q[1] \in X \cup N
  <2> SUFFICES ASSUME NEW q \in P
               PROVE  /\ q \in s.forms \X s.forms
                      /\ q[1] \in (s.disabled \ MapRefs) => q[1] \in X \cup N
    OBVIOUS
  <2>1. PICK m \in N, e \in s.grid : q = <<m, e[1]>> \/ q = <<e[1], m>>
    BY <1>6
  <2>2. m \in s.forms /\ e[1] \in s.forms
    BY <1>3, <1>9
  <2> QED BY <2>1, <2>2, <1>5, <1>10
<1>12. Sound(v, X \cup N)
  BY <1>4, <1>11, SubscribeSound
<1>13. SameGround(v, s) /\ v.subs = s.subs \cup WithActor(P)
  <2>1. P \subseteq Forms \X Forms
    BY <1>9, <1>11 DEF Worlds
  <2> QED BY <2>1, <1>9, SubscribeFields
<1> HIDE DEF v
<1>14. Follows(v, X) /\ Invisible(v, X)
  BY <1>5, <1>12 DEF Sound, Follows, Invisible
<1>15. Finds(v, X)
  <2> SUFFICES ASSUME NEW d \in v.grid, NEW e \in v.grid, d[1] \notin X, e[1] \notin X,
                      Near(d[2], e[2]), d[1] \in Actors \/ e[1] \in Actors
               PROVE  <<d[1], e[1]>> \in v.subs \/ <<e[1], d[1]>> \in v.subs
    BY DEF Finds
  <2>1. /\ d \in s.grid /\ e \in s.grid /\ d[2] \in Wide /\ e[2] \in Wide
        /\ Near(e[2], d[2])
    BY <1>9, <1>13, NearIsMutual DEF SameGround, Worlds
  <2>2. CASE d[1] \in N
    <3>1. d[2] = Home[d[1]]
      BY <1>4, <2>1, <2>2
    <3>2. Near(e[2], Home[d[1]])
      BY <2>1, <3>1
    <3>3. <<d[1], e[1]>> \in P
      BY <1>7, <2>1, <2>2, <3>2
    <3> QED BY <3>3, <1>13 DEF WithActor
  <2>3. CASE e[1] \in N
    <3>1. e[2] = Home[e[1]]
      BY <1>4, <2>1, <2>3
    <3>2. Near(d[2], Home[e[1]])
      BY <2>1, <3>1
    <3>3. <<d[1], e[1]>> \in P
      BY <1>7, <2>1, <2>3, <3>2
    <3> QED BY <3>3, <1>13 DEF WithActor
  <2>4. CASE d[1] \notin X \cup N /\ e[1] \notin X \cup N
    BY <2>4, <1>12 DEF Sound, Finds
  <2> QED BY <2>2, <2>3, <2>4
<1>16. Sound(v, X)
  BY <1>12, <1>14, <1>15 DEF Sound
<1>17. \A g, h : <<g, h>> \in v.subs \ w.subs => <<h, g>> \in v.subs
  BY <1>3, <1>8, <1>13 DEF WithActor
<1>18. \A e \in v.grid \ w.grid : e[1] \in MapRefs \ w.forms /\ e[2] = Home[e[1]]
  BY <1>3, <1>4, <1>5, <1>13 DEF SameGround
<1>19. /\ v.place = w.place /\ v.disabled = w.disabled
       /\ v.actorOf = w.actorOf /\ v.online = w.online
       /\ w.forms \subseteq v.forms /\ w.grid \subseteq v.grid /\ w.subs \subseteq v.subs
       /\ \A g \in v.forms \ w.forms : g \in MapRefs
  BY <1>3, <1>5, <1>13 DEF SameGround
<1> QED BY <1>1, <1>16, <1>17, <1>18, <1>19 DEF v

-----------------------------------------------------------------------------
(* ForceSubscriptionsUpdate, which a call on f ends with or without.        *)

\* What v, the end of a call on f, keeps of w.
Updates(v, w, f) ==
  /\ v.place = w.place /\ v.disabled = w.disabled
  /\ v.actorOf = w.actorOf /\ v.online = w.online
  /\ w.forms \subseteq v.forms /\ \A g \in v.forms \ w.forms : g \in MapRefs
  /\ \A e \in v.grid : \/ e \in w.grid /\ e[1] # f
                       \/ e = <<f, w.place[f]>>
                       \/ e[1] # f /\ e[1] \in MapRefs /\ e[2] = Home[e[1]]

\* f and what it hears hear each other.
Mutual(w, f) == \A l : <<f, l>> \in w.subs <=> <<l, f>> \in w.subs

\* All that is around f on the grid is subscribed to it, and it to that.
Acquainted(w, f) ==
  \A e \in w.grid :
    Near(e[2], w.place[f]) /\ (f \in Actors \/ e[1] \in Actors)
      => <<f, e[1]>> \in w.subs /\ <<e[1], f>> \in w.subs

LEMMA ForcedSound ==
  ASSUME NEW w, NEW f, Sound(w, {f}), f \in w.forms, f \in w.disabled => f \in MapRefs
  PROVE  LET v == ForceSubscriptionsUpdateEnabled(w, f)
         IN /\ Sound(v, {})
            /\ Updates(v, w, f)
            /\ Mutual(w, f) => Acquainted(v, f)
<1> DEFINE m == MoveOnGrid(w, f)
           loaded == LoadChunks(m, w.place[f])
           was == Listeners(loaded, f)
           now == Neighbours(loaded, w.place[f])
           left == Unsubscribe(loaded, BothWays(f, was \ now))
           met == Subscribe(left, BothWays(f, now \ was))
           v == [met EXCEPT !.ever = @ \cup {f}]
<1>1. ForceSubscriptionsUpdateEnabled(w, f) = v
  BY DEF ForceSubscriptionsUpdateEnabled
<1>2. w \in Worlds /\ f \in Forms /\ w.place[f] \in Wide
  BY DEF Sound, Firm, Worlds
<1>3. /\ Sound(m, {f}) /\ SameBonds(m, w)
      /\ m.grid = {e \in w.grid : e[1] # f} \cup {<<f, w.place[f]>>}
  BY MoveOnGridSound
<1>4. /\ Sound(loaded, {f})
      /\ loaded.place = m.place /\ loaded.disabled = m.disabled
      /\ loaded.actorOf = m.actorOf /\ loaded.online = m.online
      /\ m.forms \subseteq loaded.forms /\ m.grid \subseteq loaded.grid /\ m.subs \subseteq loaded.subs
      /\ \A e \in loaded.grid \ m.grid : e[1] \in MapRefs \ m.forms /\ e[2] = Home[e[1]]
      /\ \A g \in loaded.forms \ m.forms : g \in MapRefs
      /\ \A g, h : <<g, h>> \in loaded.subs \ m.subs => <<h, g>> \in loaded.subs
  <2>1. {f} \subseteq m.forms
    BY <1>3 DEF SameBonds
  <2> HIDE DEF m
  <2> QED BY <2>1, <1>3, LoadChunksSound
<1> HIDE DEF m, loaded
<1>5. loaded \in Worlds /\ \A e \in loaded.grid : e[1] \in loaded.forms
  BY <1>4 DEF Sound, Firm, Exist
<1>6. /\ \A l : l \in was => l \in Forms /\ <<f, l>> \in loaded.subs
      /\ \A l : <<f, l>> \in loaded.subs => l \in was
  BY <1>5 DEF Worlds, Listeners
<1>7. \A g : g \in now <=> \E e \in loaded.grid : Near(e[2], w.place[f]) /\ e[1] = g
  BY NeighboursAre
<1>8. \A g \in now : g \in loaded.forms /\ (g \in loaded.disabled \ MapRefs => g = f)
  BY <1>4, <1>5, <1>7, OnGridIsVisible
<1>9. \A S, q : q \in BothWays(f, S) <=> \E s \in S : q = <<f, s>> \/ q = <<s, f>>
  BY DEF BothWays
<1> HIDE DEF was, now
<1>10. /\ Sound(left, {f})
       /\ SameGround(left, loaded)
       /\ left.subs = loaded.subs \ WithActor(BothWays(f, was \ now))
  <2>1. /\ BothWays(f, was \ now) \subseteq Forms \X Forms
        /\ \A q \in BothWays(f, was \ now) : q[1] \in {f} \/ q[2] \in {f}
    <3>1. \A q \in BothWays(f, was \ now) :
            q \in Forms \X Forms /\ (q[1] = f \/ q[2] = f)
      <4> SUFFICES ASSUME NEW q \in BothWays(f, was \ now)
                   PROVE  q \in Forms \X Forms /\ (q[1] = f \/ q[2] = f)
        OBVIOUS
      <4>1. PICK s \in was \ now : q = <<f, s>> \/ q = <<s, f>>
        BY <1>9
      <4>2. s \in Forms
        BY <1>6
      <4> QED BY <4>1, <4>2, <1>2
    <3> QED BY <3>1
  <2> QED BY <2>1, <1>4, <1>5, UnsubscribeSound, UnsubscribeFields
<1> HIDE DEF left
<1>11. /\ Sound(met, {f})
       /\ SameGround(met, left)
       /\ met.subs = left.subs \cup WithActor(BothWays(f, now \ was))
  <2>1. f \in left.forms
    BY <1>3, <1>4, <1>10 DEF SameBonds, SameGround
  <2>2. \A q \in BothWays(f, now \ was) :
          /\ q \in left.forms \X left.forms
          /\ q[1] \in (left.disabled \ MapRefs) => q[1] \in {f}
    BY <2>1, <1>8, <1>9, <1>10 DEF SameGround
  <2>3. BothWays(f, now \ was) \subseteq Forms \X Forms /\ left \in Worlds
    BY <2>2, <1>10 DEF SameGround, Worlds
  <2> QED BY <2>2, <2>3, <1>10, SubscribeSound, SubscribeFields
<1> HIDE DEF met
<1>12. met \in Worlds /\ Exist(met) /\ OneEntry(met) /\ Listed(met) /\ Shows(met)
  BY <1>11 DEF Sound, Firm
<1>13. /\ v \in Worlds
       /\ v.ever = met.ever \cup {f}
       /\ v.forms = met.forms /\ v.place = met.place /\ v.disabled = met.disabled
       /\ v.grid = met.grid /\ v.subs = met.subs /\ v.audience = met.audience
       /\ v.actorOf = met.actorOf /\ v.online = met.online /\ v.view = met.view
  <2> DEFINE h == met.ever \cup {f}
  <2>1. h \subseteq Forms /\ v = [met EXCEPT !.ever = h]
    BY <1>2, <1>12 DEF Worlds
  <2> HIDE DEF h, v
  <2>2. v.ever = h /\ v \in Worlds /\ v.forms = met.forms /\ v.place = met.place
        /\ v.disabled = met.disabled
        /\ v.grid = met.grid /\ v.subs = met.subs /\ v.audience = met.audience
        /\ v.actorOf = met.actorOf /\ v.online = met.online /\ v.view = met.view
    BY <2>1, <1>12 DEF Worlds
  <2> QED BY <2>2 DEF h
<1> HIDE DEF v
<1>14. /\ v.forms = loaded.forms /\ v.place = w.place /\ v.disabled = w.disabled
       /\ v.grid = loaded.grid /\ v.actorOf = w.actorOf /\ v.online = w.online
  BY <1>3, <1>4, <1>10, <1>11, <1>13 DEF SameGround, SameBonds
<1>15. <<f, w.place[f]>> \in v.grid /\ f \in v.forms
  BY <1>3, <1>4, <1>14 DEF SameBonds
<1>16. \A g \in now : f \in Actors \/ g \in Actors => <<f, g>> \in v.subs
  <2> SUFFICES ASSUME NEW g \in now, f \in Actors \/ g \in Actors PROVE <<f, g>> \in v.subs
    OBVIOUS
  <2>1. CASE g \in was
    <3>1. <<f, g>> \in loaded.subs /\ <<f, g>> \notin BothWays(f, was \ now)
      BY <2>1, <1>6, <1>9
    <3> QED BY <3>1, <1>10, <1>11, <1>13 DEF WithActor
  <2>2. CASE g \notin was
    <3>1. <<f, g>> \in BothWays(f, now \ was)
      BY <2>2, <1>9
    <3> QED BY <2>2, <3>1, <1>11, <1>13 DEF WithActor
  <2> QED BY <2>1, <2>2
<1>17. Finds(v, {})
  <2> SUFFICES ASSUME NEW d \in v.grid, NEW e \in v.grid, Near(d[2], e[2]),
                      d[1] \in Actors \/ e[1] \in Actors
               PROVE  <<d[1], e[1]>> \in v.subs \/ <<e[1], d[1]>> \in v.subs
    BY DEF Finds
  <2>1. /\ \A b \in v.grid : b[1] = f => b[2] = w.place[f]
        /\ d[2] \in Wide /\ e[2] \in Wide /\ Near(e[2], d[2])
    <3>1. d[2] \in Wide /\ e[2] \in Wide
      BY <1>13 DEF Worlds
    <3>2. \A b \in v.grid : b[1] = f => b = <<f, w.place[f]>>
      BY <1>12, <1>13, <1>15 DEF OneEntry
    <3> QED BY <3>1, <3>2, NearIsMutual
  <2>2. CASE d[1] = f
    <3>1. e[1] \in now
      BY <2>1, <2>2, <1>7, <1>14
    <3> QED BY <3>1, <2>2, <1>16
  <2>3. CASE e[1] = f
    <3>1. d[1] \in now
      BY <2>1, <2>3, <1>7, <1>14
    <3> QED BY <3>1, <2>3, <1>16
  <2>4. CASE d[1] # f /\ e[1] # f
    BY <2>4, <1>11, <1>13 DEF Sound, Finds
  <2> QED BY <2>2, <2>3, <2>4
<1>18. Sound(v, {})
  <2>1. Exist(v) /\ OneEntry(v) /\ Listed(v) /\ Shows(v)
    BY <1>12, <1>13, <1>15 DEF Exist, OneEntry, Listed, Shows
  <2>2. Follows(v, {})
    BY <1>11, <1>13, <1>14, <1>15 DEF Sound, Follows
  <2>3. Invisible(v, {})
    BY <1>11, <1>13, <1>14 DEF Sound, Invisible
  <2> QED BY <2>1, <2>2, <2>3, <1>13, <1>17 DEF Sound, Firm
<1>19. Updates(v, w, f)
  <2>1. \A e \in v.grid : \/ e \in w.grid /\ e[1] # f
                          \/ e = <<f, w.place[f]>>
                          \/ e[1] # f /\ e[1] \in MapRefs /\ e[2] = Home[e[1]]
    BY <1>3, <1>4, <1>14 DEF SameBonds
  <2>2. w.forms \subseteq v.forms /\ \A g \in v.forms \ w.forms : g \in MapRefs
    BY <1>3, <1>4, <1>14 DEF SameBonds
  <2> QED BY <2>1, <2>2, <1>14 DEF Updates
<1>20. ASSUME Mutual(w, f) PROVE Acquainted(v, f)
  <2>1. \A l : <<f, l>> \in loaded.subs <=> <<l, f>> \in loaded.subs
    <3>1. m.subs = w.subs
      BY <1>3 DEF SameBonds
    <3> QED BY <1>4, <1>20, <3>1 DEF Mutual
  <2>2. \A g \in now : f \in Actors \/ g \in Actors => <<g, f>> \in v.subs
    <3> SUFFICES ASSUME NEW g \in now, f \in Actors \/ g \in Actors PROVE <<g, f>> \in v.subs
      OBVIOUS
    <3>1. CASE g \in was
      <4>1. <<g, f>> \in loaded.subs
        BY <2>1, <3>1, <1>6
      <4>2. <<g, f>> \notin BothWays(f, was \ now)
        BY <3>1, <1>9
      <4> QED BY <4>1, <4>2, <1>10, <1>11, <1>13 DEF WithActor
    <3>2. CASE g \notin was
      <4>1. <<g, f>> \in BothWays(f, now \ was)
        BY <3>2, <1>9
      <4> QED BY <3>2, <4>1, <1>11, <1>13 DEF WithActor
    <3> QED BY <3>1, <3>2
  <2>3. \A e \in v.grid : Near(e[2], v.place[f]) => e[1] \in now
    BY <1>7, <1>14
  <2> QED BY <2>2, <2>3, <1>16 DEF Acquainted
<1> QED BY <1>1, <1>18, <1>19, <1>20 DEF v
LEMMA SoundWeakens ==
  ASSUME NEW w, NEW X, Sound(w, {}) PROVE Sound(w, X)
  BY DEF Sound, Follows, Invisible, Finds

LEMMA UpdateSound ==
  ASSUME NEW w, NEW f, Sound(w, {f}), f \in w.forms, f \in w.disabled => Sound(w, {})
  PROVE  LET v == ForceSubscriptionsUpdate(w, f)
         IN /\ Sound(v, {})
            /\ f \in w.disabled => v = w
            /\ f \notin w.disabled => Updates(v, w, f) /\ (Mutual(w, f) => Acquainted(v, f))
<1>1. CASE f \in w.disabled
  BY <1>1 DEF ForceSubscriptionsUpdate
<1>2. CASE f \notin w.disabled
  <2>1. ForceSubscriptionsUpdate(w, f) = ForceSubscriptionsUpdateEnabled(w, f)
    BY <1>2 DEF ForceSubscriptionsUpdate
  <2> QED BY <1>2, <2>1, ForcedSound
<1> QED BY <1>1, <1>2

\* Places are those of the model if that of f is.
LEMMA UpdatePlaced ==
  ASSUME NEW w, NEW v, NEW f, Updates(v, w, f), Placed(w, {f})
  PROVE  Placed(v, {f}) /\ (w.place[f] \in Places => Placed(v, {}))
<1>1. \A e \in v.grid : \/ e \in w.grid /\ e[1] # f
                        \/ e = <<f, w.place[f]>>
                        \/ e[1] \in MapRefs /\ e[2] = Home[e[1]]
  BY DEF Updates
<1>2. v.place = w.place
  BY DEF Updates
<1> QED BY <1>1, <1>2, PlacesAreWide DEF Placed

-----------------------------------------------------------------------------
(* RemoveFromGridAndUnsubscribeAll and UnsubscribeFromAll.                  *)

\* v is w without f on the grid and without who heard f.
Withdrawn(v, w, f) ==
  /\ v.forms = w.forms /\ v.place = w.place /\ v.disabled = w.disabled
  /\ v.actorOf = w.actorOf /\ v.online = w.online
  /\ v.grid = {e \in w.grid : e[1] # f}
  /\ v.subs \subseteq w.subs /\ \A l : <<f, l>> \notin v.subs
  /\ f \notin v.ever

LEMMA RemoveSound ==
  ASSUME NEW w, NEW f, Sound(w, {f}), f \in w.forms
  PROVE  LET v == RemoveFromGridAndUnsubscribeAll(w, f)
         IN Sound(v, {}) /\ Withdrawn(v, w, f)
<1> DEFINE g == Forget(w, f)
           P == {f} \X Listeners(w, f)
           q == Unsubscribe(g, P)
           v == [q EXCEPT !.ever = @ \ {f}]
<1>1. RemoveFromGridAndUnsubscribeAll(w, f) = v
  BY DEF RemoveFromGridAndUnsubscribeAll
<1>2. Sound(g, {f}) /\ SameBonds(g, w) /\ g.grid = {e \in w.grid : e[1] # f}
  BY ForgetSound, ForgetFields DEF Sound
<1>3. f \in Forms /\ w \in Worlds /\ \A p \in w.subs : p[1] \in Actors \/ p[2] \in Actors
  BY DEF Sound, Firm, Worlds, Exist
<1>4. \A l : <<f, l>> \in w.subs => <<f, l>> \in WithActor(P)
  <2> SUFFICES ASSUME NEW l, <<f, l>> \in w.subs PROVE <<f, l>> \in WithActor(P)
    OBVIOUS
  <2>1. l \in Forms
    BY <1>3 DEF Worlds
  <2>2. <<f, l>> \in P
    BY <2>1 DEF Listeners
  <2>3. f \in Actors \/ l \in Actors
    BY <1>3
  <2> QED BY <2>2, <2>3 DEF WithActor
<1>5. P \subseteq Forms \X Forms /\ \A p \in P : p[1] \in {f}
  BY <1>3 DEF Listeners
<1> HIDE DEF g, P
<1>6. Sound(q, {f}) /\ SameGround(q, g) /\ q.subs = g.subs \ WithActor(P)
  BY <1>2, <1>5, UnsubscribeSound, UnsubscribeFields DEF SameBonds
<1> HIDE DEF q
<1>7. q \in Worlds /\ Exist(q) /\ OneEntry(q) /\ Listed(q) /\ Shows(q)
  BY <1>6 DEF Sound, Firm
<1>8. /\ v \in Worlds
      /\ v.ever = q.ever \ {f}
      /\ v.forms = q.forms /\ v.place = q.place /\ v.disabled = q.disabled
      /\ v.grid = q.grid /\ v.subs = q.subs /\ v.audience = q.audience
      /\ v.actorOf = q.actorOf /\ v.online = q.online /\ v.view = q.view
  BY <1>7 DEF Worlds
<1> HIDE DEF v
<1>9. Withdrawn(v, w, f)
  BY <1>2, <1>4, <1>6, <1>8 DEF Withdrawn, SameGround, SameBonds
<1>10. Exist(v) /\ OneEntry(v) /\ Listed(v) /\ Shows(v)
  BY <1>7, <1>8 DEF Exist, OneEntry, Listed, Shows
<1>11. Follows(v, {}) /\ Invisible(v, {})
  BY <1>6, <1>8, <1>9 DEF Sound, Follows, Invisible, Withdrawn
<1>12. Finds(v, {})
  BY <1>6, <1>8, <1>9 DEF Sound, Finds, Withdrawn
<1> QED BY <1>1, <1>8, <1>9, <1>10, <1>11, <1>12 DEF Sound, Firm, v

LEMMA WithdrawnPlaced ==
  ASSUME NEW w, NEW v, NEW f, Withdrawn(v, w, f), Placed(w, {f})
  PROVE  w.place[f] \in Places => Placed(v, {})
  BY DEF Withdrawn, Placed

LEMMA DeafSound ==
  ASSUME NEW w, NEW f, Sound(w, {f}), f \in w.forms
  PROVE  LET v == UnsubscribeFromAll(w, f)
         IN /\ Sound(v, {f}) /\ SameGround(v, w)
            /\ v.subs \subseteq w.subs /\ \A e : <<e, f>> \notin v.subs
<1> DEFINE P == Emitters(w, f) \X {f}
           v == Unsubscribe(w, P)
<1>1. UnsubscribeFromAll(w, f) = v
  BY DEF UnsubscribeFromAll
<1>2. f \in Forms /\ w \in Worlds /\ \A p \in w.subs : p[1] \in Actors \/ p[2] \in Actors
  BY DEF Sound, Firm, Worlds, Exist
<1>3. \A e : <<e, f>> \in w.subs => <<e, f>> \in WithActor(P)
  <2> SUFFICES ASSUME NEW e, <<e, f>> \in w.subs PROVE <<e, f>> \in WithActor(P)
    OBVIOUS
  <2>1. e \in Forms
    BY <1>2 DEF Worlds
  <2>2. <<e, f>> \in P
    BY <2>1 DEF Emitters
  <2>3. f \in Actors \/ e \in Actors
    BY <1>2
  <2> QED BY <2>2, <2>3 DEF WithActor
<1>4. P \subseteq Forms \X Forms /\ \A p \in P : p[2] \in {f}
  BY <1>2 DEF Emitters
<1> HIDE DEF P
<1>5. Sound(v, {f}) /\ SameGround(v, w) /\ v.subs = w.subs \ WithActor(P)
  BY <1>2, <1>4, UnsubscribeSound, UnsubscribeFields
<1> QED BY <1>1, <1>3, <1>5

-----------------------------------------------------------------------------
(* Calls on a reference.                                                    *)

LEMMA MovedSound ==
  ASSUME NEW w, NEW f, NEW x \in Int, Sound(w, {}), f \in w.forms
  PROVE  LET v == [w EXCEPT !.place[f].x = x]
         IN /\ Sound(v, {f})
            /\ f \in v.disabled => Sound(v, {})
            /\ x = w.place[f].x => v = w
            /\ v.place = [w.place EXCEPT ![f].x = x]
            /\ v.place[f] = [cell |-> w.place[f].cell, x |-> x]
            /\ v.forms = w.forms /\ v.disabled = w.disabled /\ v.ever = w.ever
            /\ v.grid = w.grid /\ v.subs = w.subs
            /\ v.actorOf = w.actorOf /\ v.online = w.online
<1> DEFINE pl == [w.place EXCEPT ![f].x = x]
           v == [w EXCEPT !.place = pl]
<1>1. [w EXCEPT !.place[f].x = x] = v
  BY DEF Sound, Firm, Worlds
<1>2. w \in Worlds /\ f \in Forms /\ Exist(w) /\ OneEntry(w) /\ Listed(w) /\ Shows(w)
  BY DEF Sound, Firm, Worlds
<1>3. pl \in [Forms -> Wide] /\ pl[f] = [cell |-> w.place[f].cell, x |-> x]
  BY <1>2, PlacesChange
<1>4. \A g \in Forms : pl[g].cell = w.place[g].cell
  BY <1>2, <1>3 DEF Worlds
<1>5. \A g \in Forms : g # f => pl[g] = w.place[g]
  BY <1>2 DEF Worlds
<1>6. x = w.place[f].x => pl = w.place
  <2> SUFFICES ASSUME x = w.place[f].x PROVE pl = w.place
    OBVIOUS
  <2>1. pl[f] = w.place[f]
    BY <1>2, <1>3 DEF Worlds, Wide
  <2>2. \A g \in Forms : pl[g] = w.place[g]
    BY <2>1, <1>5
  <2> HIDE DEF pl
  <2> QED BY <2>2, <1>2, <1>3 DEF Worlds
<1> HIDE DEF pl
<1>7. /\ v \in Worlds /\ v.place = pl
      /\ v.forms = w.forms /\ v.disabled = w.disabled /\ v.ever = w.ever
      /\ v.grid = w.grid /\ v.subs = w.subs /\ v.audience = w.audience
      /\ v.actorOf = w.actorOf /\ v.online = w.online /\ v.view = w.view
  BY <1>2, <1>3 DEF Worlds
<1>8. x = w.place[f].x => v = w
  BY <1>2, <1>6 DEF Worlds
<1> HIDE DEF v
<1>9. OneEntry(v)
  <2>1. \A m \in MapRefs \ v.forms : m # f /\ m \in Forms
    BY <1>7 DEF Forms
  <2>2. \A e \in v.grid : e[1] \in Forms
    BY <1>7 DEF Worlds
  <2> QED BY <2>1, <2>2, <1>2, <1>4, <1>5, <1>7 DEF OneEntry
<1>10. Exist(v) /\ Listed(v) /\ Shows(v)
  BY <1>2, <1>7 DEF Exist, Listed, Shows
<1>11. Invisible(v, {}) /\ Finds(v, {}) /\ Invisible(v, {f}) /\ Finds(v, {f})
  BY <1>7 DEF Sound, Invisible, Finds
<1>12. Follows(v, {f})
  <2>1. v.forms \subseteq Forms
    BY <1>7 DEF Worlds
  <2> QED BY <2>1, <1>5, <1>7 DEF Sound, Follows
<1>13. f \in v.disabled => Follows(v, {})
  <2>1. f \in v.disabled => f \in MapRefs \/ f \notin v.ever
    BY <1>7 DEF Sound, Invisible
  <2>2. v.forms \subseteq Forms
    BY <1>7 DEF Worlds
  <2> QED BY <2>1, <2>2, <1>5, <1>7 DEF Sound, Follows
<1>14. Sound(v, {f}) /\ (f \in v.disabled => Sound(v, {}))
  BY <1>7, <1>9, <1>10, <1>11, <1>12, <1>13 DEF Sound, Firm
<1> QED BY <1>1, <1>3, <1>7, <1>8, <1>14 DEF v, pl

\* What v, the end of a call that moves f, keeps of w.
Moves(v, w, f) ==
  /\ v.disabled = w.disabled /\ v.actorOf = w.actorOf /\ v.online = w.online
  /\ w.forms \subseteq v.forms /\ \A g \in v.forms \ w.forms : g \in MapRefs
  /\ \A g \in Forms : g # f => v.place[g] = w.place[g]
  /\ \A e \in v.grid : \/ e \in w.grid /\ (e[1] = f => f \in w.disabled \/ v.place = w.place)
                       \/ e = <<f, v.place[f]>>
                       \/ e[1] \in MapRefs /\ e[2] = Home[e[1]]
LEMMA MovesPlaced ==
  ASSUME NEW w, NEW v, NEW f, Moves(v, w, f), Placed(w, {}), v.place[f] \in Places
  PROVE  Placed(v, {})
<1>1. \A e \in v.grid : \/ e \in w.grid
                        \/ e = <<f, v.place[f]>>
                        \/ e[1] \in MapRefs /\ e[2] = Home[e[1]]
  BY DEF Moves
<1>2. \A g \in Forms : g # f => v.place[g] = w.place[g]
  BY DEF Moves
<1> QED BY <1>1, <1>2, PlacesAreWide DEF Placed

\* f is on the grid where it is, or off it; off it if it is disabled.
InPlace(w, f) == \A e \in w.grid : e[1] = f => f \notin w.disabled /\ e = <<f, w.place[f]>>

LEMMA MovesTwicePlaced ==
  ASSUME NEW u, NEW w, NEW v, NEW f, Moves(w, u, f), Moves(v, w, f), InPlace(w, f),
         Placed(u, {}), v.place[f] \in Places
  PROVE  Placed(v, {})
<1>1. \A e \in v.grid : e[1] # f => e \in u.grid \/ (e[1] \in MapRefs /\ e[2] = Home[e[1]])
  BY DEF Moves
<1>2. \A g \in Forms : g # f => v.place[g] = u.place[g]
  BY DEF Moves
<1>3. \A e \in v.grid : e[1] = f => e[2] \in Places
  BY PlacesAreWide DEF Moves, InPlace
<1> QED BY <1>1, <1>2, <1>3, PlacesAreWide DEF Placed

LEMMA SetPosSound ==
  ASSUME NEW w, NEW f, NEW x \in Int, Sound(w, {}), f \in w.forms
  PROVE  LET v == SetPos(w, f, x)
         IN /\ Sound(v, {}) /\ Moves(v, w, f)
            /\ v.place[f] = [cell |-> w.place[f].cell, x |-> x]
<1> DEFINE moved == [w EXCEPT !.place[f].x = x]
           v == SetPos(w, f, x)
<1>1. /\ Sound(moved, {f})
      /\ f \in moved.disabled => Sound(moved, {})
      /\ x = w.place[f].x => moved = w
      /\ moved.place = [w.place EXCEPT ![f].x = x]
      /\ moved.place[f] = [cell |-> w.place[f].cell, x |-> x]
      /\ moved.forms = w.forms /\ moved.disabled = w.disabled /\ moved.ever = w.ever
      /\ moved.grid = w.grid /\ moved.subs = w.subs
      /\ moved.actorOf = w.actorOf /\ moved.online = w.online
  BY MovedSound
<1>2. \A g \in Forms : g # f => moved.place[g] = w.place[g]
  BY <1>1 DEF Sound, Firm, Worlds
<1>3. v = IF x = w.place[f].x /\ f \in w.ever THEN moved ELSE ForceSubscriptionsUpdate(moved, f)
  BY DEF SetPos
<1> HIDE DEF moved, v
<1>10. /\ moved.forms = w.forms /\ moved.disabled = w.disabled /\ moved.grid = w.grid
       /\ moved.actorOf = w.actorOf /\ moved.online = w.online
  BY <1>1
<1>4. CASE x = w.place[f].x /\ f \in w.ever
  <2>1. v = w /\ v = moved
    BY <1>1, <1>3, <1>4
  <2>2. Moves(v, w, f)
    BY <2>1 DEF Moves
  <2> QED BY <2>1, <2>2, <1>1 DEF v
<1>5. CASE ~(x = w.place[f].x /\ f \in w.ever)
  <2>1. /\ Sound(v, {})
        /\ f \in moved.disabled => v = moved
        /\ f \notin moved.disabled => Updates(v, moved, f)
    BY <1>1, <1>3, <1>5, UpdateSound
  <2>2. CASE f \in moved.disabled
    <3>1. Moves(moved, w, f)
      BY <1>2, <1>10, <2>2 DEF Moves
    <3> QED BY <1>1, <2>1, <2>2, <3>1 DEF v
  <2>3. CASE f \notin moved.disabled
    <3>1. Updates(v, moved, f)
      BY <2>1, <2>3
    <3>2. v.place = moved.place
      BY <3>1 DEF Updates
    <3>3. Moves(v, w, f)
      BY <1>2, <1>10, <3>1, <3>2 DEF Moves, Updates
    <3> QED BY <1>1, <2>1, <3>2, <3>3 DEF v
  <2> QED BY <2>2, <2>3
<1> QED BY <1>4, <1>5 DEF v

LEMMA CellSound ==
  ASSUME NEW w, NEW f, NEW c \in Cells, Sound(w, {}), f \in w.forms
  PROVE  LET v == SetCellOrWorldObsolete(w, f, c)
         IN /\ Sound(v, {}) /\ Moves(v, w, f) /\ InPlace(v, f)
            /\ v.forms = w.forms
            /\ v.place[f] = [cell |-> c, x |-> w.place[f].x]
<1> DEFINE pl == [w.place EXCEPT ![f].cell = c]
           g == Forget(w, f)
           v == [g EXCEPT !.place = pl, !.ever = g.ever \ {f}]
<1>1. w \in Worlds /\ f \in Forms
  BY DEF Sound, Firm, Worlds
<1>2. /\ Sound(g, {f}) /\ SameBonds(g, w) /\ g.grid = {e \in w.grid : e[1] # f}
  BY SoundWeakens, ForgetSound, ForgetFields DEF Sound
<1>3. /\ g \in Worlds /\ Exist(g) /\ OneEntry(g) /\ Listed(g) /\ Shows(g)
      /\ Invisible(w, {}) /\ Finds(w, {}) /\ Follows(w, {})
  BY <1>2 DEF Sound, Firm
<1>4. SetCellOrWorldObsolete(w, f, c) = v
  <2>1. g.place = w.place
    BY <1>2 DEF SameBonds
  <2> QED BY <2>1, <1>3 DEF SetCellOrWorldObsolete, Worlds
<1>5. pl \in [Forms -> Wide] /\ pl[f] = [cell |-> c, x |-> w.place[f].x]
  BY <1>1, PlacesChange
<1>6. \A h \in Forms : h # f => pl[h] = w.place[h]
  BY <1>1 DEF Worlds
<1> HIDE DEF pl, g
<1>7. /\ v \in Worlds /\ v.place = pl /\ v.ever = g.ever \ {f}
      /\ v.forms = g.forms /\ v.disabled = g.disabled
      /\ v.grid = g.grid /\ v.subs = g.subs /\ v.audience = g.audience
      /\ v.actorOf = g.actorOf /\ v.online = g.online /\ v.view = g.view
  BY <1>3, <1>5 DEF Worlds
<1> HIDE DEF v
<1>8. \A h \in Forms : h # f => v.place[h] = g.place[h]
  BY <1>2, <1>6, <1>7 DEF SameBonds
<1>9. OneEntry(v)
  <2>1. \A m \in MapRefs \ v.forms : m # f /\ m \in Forms
    BY <1>2, <1>7 DEF Forms, SameBonds
  <2>2. \A e \in v.grid : e[1] \in Forms /\ e[1] # f
    BY <1>2, <1>7 DEF Worlds
  <2> QED BY <2>1, <2>2, <1>3, <1>7, <1>8 DEF OneEntry
<1>10. Exist(v) /\ Listed(v) /\ Shows(v)
  BY <1>3, <1>7 DEF Exist, Listed, Shows
<1>11. Invisible(v, {}) /\ Finds(v, {})
  BY <1>2, <1>3, <1>7 DEF Invisible, Finds, SameBonds
<1>12. Follows(v, {})
  <2>1. v.forms \subseteq Forms
    BY <1>7 DEF Worlds
  <2> QED BY <2>1, <1>2, <1>3, <1>7, <1>8 DEF Follows, SameBonds
<1>13. Moves(v, w, f) /\ InPlace(v, f) /\ v.forms = w.forms
  BY <1>2, <1>7, <1>8 DEF Moves, InPlace, SameBonds
<1> QED BY <1>4, <1>5, <1>7, <1>9, <1>10, <1>11, <1>12, <1>13 DEF Sound, Firm, v

LEMMA SetCellSound ==
  ASSUME NEW w, NEW f, NEW c \in Cells, Sound(w, {}), f \in w.forms
  PROVE  LET v == SetCellOrWorld(w, f, c)
         IN /\ Sound(v, {}) /\ Moves(v, w, f) /\ InPlace(v, f)
            /\ v.place[f] = [cell |-> c, x |-> w.place[f].x]
<1> DEFINE s == SetCellOrWorldObsolete(w, f, c)
           v == ForceSubscriptionsUpdate(s, f)
<1>1. SetCellOrWorld(w, f, c) = v
  BY DEF SetCellOrWorld
<1>2. /\ Sound(s, {}) /\ Moves(s, w, f) /\ InPlace(s, f)
      /\ s.forms = w.forms
      /\ s.place[f] = [cell |-> c, x |-> w.place[f].x]
  BY CellSound
<1>3. Sound(s, {f})
  BY <1>2, SoundWeakens
<1> HIDE DEF s
<1>4. /\ Sound(v, {})
      /\ f \in s.disabled => v = s
      /\ f \notin s.disabled => Updates(v, s, f)
  BY <1>2, <1>3, UpdateSound
<1>5. OneEntry(v) /\ OneEntry(s)
  BY <1>2, <1>4 DEF Sound, Firm
<1> HIDE DEF v
<1>6. CASE f \in s.disabled
  BY <1>2, <1>4, <1>6, <1>1 DEF v
<1>7. CASE f \notin s.disabled
  <2>1. Updates(v, s, f)
    BY <1>4, <1>7
  <2>2. Moves(v, w, f) /\ v.place[f] = [cell |-> c, x |-> w.place[f].x]
    <3>1. \A e \in v.grid : \/ e \in w.grid /\ e[1] # f
                            \/ e = <<f, v.place[f]>>
                            \/ e[1] # f /\ e[1] \in MapRefs /\ e[2] = Home[e[1]]
      BY <2>1, <1>2 DEF Updates, Moves
    <3> QED BY <3>1, <2>1, <1>2 DEF Updates, Moves
  <2>3. InPlace(v, f)
    <3>1. v.disabled = s.disabled /\ v.place = s.place
      BY <2>1 DEF Updates
    <3> QED BY <2>1, <3>1, <1>7 DEF Updates, InPlace
  <2> QED BY <2>2, <2>3, <1>1, <1>4 DEF v
<1> QED BY <1>6, <1>7
\* Between two calls all is in order; a call on f that leaves it where it is keeps that.
LEMMA DisableSound ==
  ASSUME NEW w, NEW f, Sound(w, {}), Placed(w, {}), f \in w.forms
  PROVE  LET v == Disable(w, f)
         IN /\ Sound(v, {}) /\ Placed(v, {})
            /\ v.actorOf = w.actorOf
<1> DEFINE off == [w EXCEPT !.disabled = @ \cup {f}]
<1>1. w \in Worlds /\ f \in Forms /\ Exist(w) /\ OneEntry(w) /\ Listed(w) /\ Shows(w)
  BY DEF Sound, Firm, Worlds
<1>2. /\ off \in Worlds /\ off.disabled = w.disabled \cup {f}
      /\ off.forms = w.forms /\ off.place = w.place /\ off.ever = w.ever
      /\ off.grid = w.grid /\ off.subs = w.subs /\ off.audience = w.audience
      /\ off.actorOf = w.actorOf /\ off.online = w.online /\ off.view = w.view
  <2> DEFINE d == w.disabled \cup {f}
  <2>1. d \subseteq Forms /\ off = [w EXCEPT !.disabled = d]
    BY <1>1 DEF Worlds
  <2> HIDE DEF d, off
  <2>2. /\ off \in Worlds /\ off.disabled = d
        /\ off.forms = w.forms /\ off.place = w.place /\ off.ever = w.ever
        /\ off.grid = w.grid /\ off.subs = w.subs /\ off.audience = w.audience
        /\ off.actorOf = w.actorOf /\ off.online = w.online /\ off.view = w.view
    BY <2>1, <1>1 DEF Worlds
  <2> QED BY <2>2 DEF d
<1>3. Disable(w, f) = IF f \in w.disabled THEN w
                      ELSE IF f \in MapRefs THEN off ELSE RemoveFromGridAndUnsubscribeAll(off, f)
  BY DEF Disable
<1> HIDE DEF off
<1>4. Exist(off) /\ OneEntry(off) /\ Listed(off) /\ Shows(off)
  BY <1>1, <1>2 DEF Exist, OneEntry, Listed, Shows
<1>5. Follows(off, {f}) /\ Invisible(off, {f}) /\ Finds(off, {f})
  BY <1>2 DEF Sound, Follows, Invisible, Finds
<1>6. f \in MapRefs => Follows(off, {}) /\ Invisible(off, {}) /\ Finds(off, {})
  BY <1>2 DEF Sound, Follows, Invisible, Finds
<1>7. Placed(off, {}) /\ Placed(off, {f}) /\ off.place[f] \in Places
  BY <1>1, <1>2 DEF Placed
<1>8. CASE f \in w.disabled
  BY <1>3, <1>8
<1>9. CASE f \notin w.disabled /\ f \in MapRefs
  BY <1>2, <1>3, <1>4, <1>6, <1>7, <1>9 DEF Sound, Firm
<1>10. CASE f \notin w.disabled /\ f \notin MapRefs
  <2> DEFINE v == RemoveFromGridAndUnsubscribeAll(off, f)
  <2>1. Sound(off, {f}) /\ f \in off.forms
    BY <1>2, <1>4, <1>5 DEF Sound, Firm
  <2>2. Sound(v, {}) /\ Withdrawn(v, off, f)
    BY <2>1, RemoveSound
  <2> HIDE DEF v
  <2>3. Placed(v, {})
    BY <2>2, <1>7, WithdrawnPlaced
  <2> QED BY <2>2, <2>3, <1>2, <1>3, <1>10 DEF Withdrawn, v
<1> QED BY <1>8, <1>9, <1>10

LEMMA EnableSound ==
  ASSUME NEW w, NEW f, Sound(w, {}), Placed(w, {}), f \in w.forms
  PROVE  LET v == Enable(w, f)
         IN /\ Sound(v, {}) /\ Placed(v, {})
            /\ v.actorOf = w.actorOf
<1> DEFINE on == [w EXCEPT !.disabled = @ \ {f}]
<1>1. w \in Worlds /\ f \in Forms /\ Exist(w) /\ OneEntry(w) /\ Listed(w) /\ Shows(w)
  BY DEF Sound, Firm, Worlds
<1>2. /\ on \in Worlds /\ on.disabled = w.disabled \ {f}
      /\ on.forms = w.forms /\ on.place = w.place /\ on.ever = w.ever
      /\ on.grid = w.grid /\ on.subs = w.subs /\ on.audience = w.audience
      /\ on.actorOf = w.actorOf /\ on.online = w.online /\ on.view = w.view
  <2> DEFINE d == w.disabled \ {f}
  <2>1. d \subseteq Forms /\ on = [w EXCEPT !.disabled = d]
    BY <1>1 DEF Worlds
  <2> HIDE DEF d, on
  <2>2. /\ on \in Worlds /\ on.disabled = d
        /\ on.forms = w.forms /\ on.place = w.place /\ on.ever = w.ever
        /\ on.grid = w.grid /\ on.subs = w.subs /\ on.audience = w.audience
        /\ on.actorOf = w.actorOf /\ on.online = w.online /\ on.view = w.view
    BY <2>1, <1>1 DEF Worlds
  <2> QED BY <2>2 DEF d
<1>3. Enable(w, f) = IF f \notin w.disabled THEN w
                     ELSE IF f \in MapRefs THEN on ELSE ForceSubscriptionsUpdate(on, f)
  BY DEF Enable
<1> HIDE DEF on
<1>4. Exist(on) /\ OneEntry(on) /\ Listed(on) /\ Shows(on)
  BY <1>1, <1>2 DEF Exist, OneEntry, Listed, Shows
<1>5. Follows(on, {}) /\ Invisible(on, {}) /\ Finds(on, {})
  BY <1>2 DEF Sound, Follows, Invisible, Finds
<1>6. Sound(on, {}) /\ Sound(on, {f})
  BY <1>2, <1>4, <1>5, SoundWeakens DEF Sound, Firm
<1>7. Placed(on, {}) /\ Placed(on, {f}) /\ on.place[f] \in Places
  BY <1>1, <1>2 DEF Placed
<1>8. CASE f \notin w.disabled
  BY <1>3, <1>8
<1>9. CASE f \in w.disabled /\ f \in MapRefs
  BY <1>2, <1>3, <1>6, <1>7, <1>9
<1>10. CASE f \in w.disabled /\ f \notin MapRefs
  <2> DEFINE v == ForceSubscriptionsUpdate(on, f)
  <2>1. Sound(v, {}) /\ Updates(v, on, f)
    BY <1>2, <1>6, UpdateSound
  <2> HIDE DEF v
  <2>2. Placed(v, {})
    BY <2>1, <1>7, UpdatePlaced
  <2> QED BY <2>1, <2>2, <1>2, <1>3, <1>10 DEF Updates, v
<1> QED BY <1>8, <1>9, <1>10

LEMMA AddFormSound ==
  ASSUME NEW w, NEW f, NEW p \in Spots, Sound(w, {}), Placed(w, {}),
         f \in Forms \ w.forms, f \notin MapRefs
  PROVE  LET v == AddForm(w, f, p)
         IN /\ Sound(v, {}) /\ Placed(v, {})
            /\ v.forms = w.forms \cup {f} /\ v.disabled = w.disabled
            /\ v.actorOf = w.actorOf
<1> DEFINE n == w.forms \cup {f}
           pl == [w.place EXCEPT ![f] = p]
           v == [w EXCEPT !.forms = n, !.place = pl]
<1>1. w \in Worlds /\ Exist(w) /\ OneEntry(w) /\ Listed(w) /\ Shows(w)
  BY DEF Sound, Firm
<1>2. AddForm(w, f, p) = v
  BY <1>1 DEF AddForm, Worlds
<1>3. p \in Wide /\ p \in Places
  BY PlacesAreWide
<1>4. pl \in [Forms -> Wide] /\ pl[f] = p /\ \A g \in Forms : g # f => pl[g] = w.place[g]
  BY <1>1, <1>3 DEF Worlds
<1>5. n \subseteq Forms
  BY <1>1 DEF Worlds
<1> HIDE DEF n, pl
<1>6. /\ v \in Worlds /\ v.forms = n /\ v.place = pl
      /\ v.disabled = w.disabled /\ v.ever = w.ever
      /\ v.grid = w.grid /\ v.subs = w.subs /\ v.audience = w.audience
      /\ v.actorOf = w.actorOf /\ v.online = w.online /\ v.view = w.view
  BY <1>1, <1>4, <1>5 DEF Worlds
<1> HIDE DEF v
<1>7. Exist(v) /\ Listed(v) /\ Shows(v)
  BY <1>1, <1>6 DEF Exist, Listed, Shows, n
<1>8. OneEntry(v)
  <2>1. \A e \in w.grid : e[1] \in Forms /\ e[1] # f
    BY <1>1 DEF Exist, Worlds
  <2>2. \A m \in MapRefs : m \in Forms
    BY DEF Forms
  <2> QED BY <2>1, <2>2, <1>1, <1>4, <1>6 DEF OneEntry, n
<1>9. Follows(v, {})
  <2>1. f \notin w.ever /\ \A e \in w.grid : e[1] # f
    BY <1>1 DEF Exist
  <2>2. w.forms \subseteq Forms
    BY <1>1 DEF Worlds
  <2> QED BY <2>1, <2>2, <1>4, <1>6 DEF Sound, Follows, n
<1>10. Invisible(v, {}) /\ Finds(v, {})
  BY <1>6 DEF Sound, Invisible, Finds
<1>11. Placed(v, {})
  BY <1>3, <1>4, <1>6 DEF Placed
<1> QED BY <1>2, <1>6, <1>7, <1>8, <1>9, <1>10, <1>11 DEF Sound, Firm, n, v

\* Users change: who has an actor sees what it hears.
SameForms(v, w) ==
  /\ v.forms = w.forms /\ v.place = w.place /\ v.disabled = w.disabled /\ v.ever = w.ever
  /\ v.grid = w.grid /\ v.subs = w.subs /\ v.audience = w.audience

LEMMA UsersSound ==
  ASSUME NEW w, NEW v \in Worlds, NEW X, Sound(w, X), Placed(w, {}), SameForms(v, w),
         \A u \in Users : v.actorOf[u] # NoActor =>
           /\ v.actorOf[u] \in w.forms
           /\ \A e \in Forms : <<e, v.actorOf[u]>> \in w.subs => e \in v.view[u]
  PROVE  Sound(v, X) /\ Placed(v, {})
<1>1. Exist(w) /\ OneEntry(w) /\ Listed(w)
  BY DEF Sound, Firm
<1>2. Exist(v) /\ OneEntry(v) /\ Listed(v)
  BY <1>1 DEF Exist, OneEntry, Listed, SameForms
<1>3. Shows(v)
  BY DEF Shows, SameForms
<1>4. Follows(v, X) /\ Invisible(v, X) /\ Finds(v, X)
  BY DEF Sound, Follows, Invisible, Finds, SameForms
<1>5. Placed(v, {})
  BY DEF Placed, SameForms
<1> QED BY <1>2, <1>3, <1>4, <1>5 DEF Sound, Firm

-----------------------------------------------------------------------------
(* DestroyActor and SetUserActor, the longest calls.                        *)

\* EraseActor: no user has a.
Erased(w, a) == [u \in Users |-> IF w.actorOf[u] = a THEN NoActor ELSE w.actorOf[u]]

LEMMA BeforeDestroySound ==
  ASSUME NEW w, NEW a, Sound(w, {}), Placed(w, {}), a \in w.forms
  PROVE  LET v == BeforeDestroy(w, a)
         IN /\ Sound(v, {a}) /\ Placed(v, {})
            /\ v.actorOf = w.actorOf
            /\ a \in v.forms /\ a \notin v.ever
            /\ \A e \in v.grid : e[1] # a
            /\ \A l : <<a, l>> \notin v.subs /\ <<l, a>> \notin v.subs
<1> DEFINE s == SetPos(w, a, FarAway)
           r == RemoveFromGridAndUnsubscribeAll(s, a)
           v == UnsubscribeFromAll(r, a)
<1>1. BeforeDestroy(w, a) = v
  BY DEF BeforeDestroy
<1>2. a \in Forms /\ w.place[a] \in Wide /\ FarAway \in Int
  BY DEF Sound, Firm, Worlds, FarAway
<1>3. /\ Sound(s, {}) /\ Moves(s, w, a)
      /\ s.place[a] = [cell |-> w.place[a].cell, x |-> FarAway]
  BY <1>2, SetPosSound
<1>4. s.place[a] \in Places
  BY <1>2, <1>3 DEF Wide, Places
<1>5. Placed(s, {}) /\ Placed(s, {a}) /\ a \in s.forms /\ s.actorOf = w.actorOf
  <2>1. Placed(s, {})
    BY <1>3, <1>4, MovesPlaced
  <2> HIDE DEF s
  <2> QED BY <2>1, <1>3 DEF Placed, Moves
<1>6. Sound(s, {a})
  BY <1>3, SoundWeakens
<1> HIDE DEF s
<1>7. Sound(r, {}) /\ Sound(r, {a}) /\ Withdrawn(r, s, a)
  BY <1>5, <1>6, RemoveSound, SoundWeakens
<1> HIDE DEF r
<1>8. Placed(r, {}) /\ a \in r.forms
  BY <1>4, <1>5, <1>7, WithdrawnPlaced DEF Withdrawn
<1>9. /\ Sound(v, {a}) /\ SameGround(v, r)
      /\ v.subs \subseteq r.subs /\ \A e : <<e, a>> \notin v.subs
  BY <1>7, <1>8, DeafSound
<1> HIDE DEF v
<1>10. Placed(v, {})
  BY <1>8, <1>9 DEF Placed, SameGround
<1>11. /\ v.actorOf = w.actorOf /\ a \in v.forms /\ a \notin v.ever
       /\ \A e \in v.grid : e[1] # a
       /\ \A l : <<a, l>> \notin v.subs
  BY <1>5, <1>7, <1>8, <1>9 DEF Withdrawn, SameGround
<1> QED BY <1>1, <1>9, <1>10, <1>11 DEF v

LEMMA DestroySound ==
  ASSUME NEW w, NEW a, Sound(w, {}), Placed(w, {}), a \in w.forms, a \in Actors
  PROVE  LET left == BeforeDestroy(w, a)
             v == EraseActor([left EXCEPT !.forms = @ \ {a}, !.disabled = @ \ {a},
                                          !.place[a] = Nowhere], a)
         IN Sound(v, {}) /\ Placed(v, {}) /\ v.actorOf = Erased(w, a)
<1> DEFINE l == BeforeDestroy(w, a)
           n == l.forms \ {a}
           d == l.disabled \ {a}
           pl == [l.place EXCEPT ![a] = Nowhere]
           b == Erased(w, a)
           v == [l EXCEPT !.forms = n, !.disabled = d, !.place = pl, !.actorOf = b]
<1>1. /\ Sound(l, {a}) /\ Placed(l, {})
      /\ l.actorOf = w.actorOf
      /\ a \in l.forms /\ a \notin l.ever
      /\ \A e \in l.grid : e[1] # a
      /\ \A g : <<a, g>> \notin l.subs /\ <<g, a>> \notin l.subs
  BY BeforeDestroySound
<1> HIDE DEF l
<1>2. l \in Worlds /\ Exist(l) /\ OneEntry(l) /\ Listed(l) /\ Shows(l)
  BY <1>1 DEF Sound, Firm
<1>3. EraseActor([l EXCEPT !.forms = @ \ {a}, !.disabled = @ \ {a}, !.place[a] = Nowhere], a) = v
  <2> DEFINE k == [l EXCEPT !.forms = n, !.disabled = d, !.place = pl]
  <2>1. [l EXCEPT !.forms = @ \ {a}, !.disabled = @ \ {a}, !.place[a] = Nowhere] = k
    BY <1>2 DEF Worlds
  <2>2. k.actorOf = w.actorOf
    BY <1>1, <1>2 DEF Worlds
  <2>3. EraseActor(k, a) = [k EXCEPT !.actorOf = b]
    BY <1>2, <2>2 DEF EraseActor, Erased, Worlds
  <2> HIDE DEF n, d, pl, b
  <2>4. [k EXCEPT !.actorOf = b] = v
    BY <1>2 DEF Worlds
  <2> QED BY <2>1, <2>3, <2>4
<1>4. Nowhere \in Places /\ Nowhere \in Wide
  BY PlacesAreWide
<1>5. /\ a \in Forms /\ a \notin MapRefs /\ NoActor # a
  BY SubscriptionsAssumption DEF Forms
<1>6. pl \in [Forms -> Wide] /\ pl[a] = Nowhere /\ \A g \in Forms : g # a => pl[g] = l.place[g]
  BY <1>2, <1>4, <1>5 DEF Worlds
<1>7. b \in [Users -> Actors \cup {NoActor}]
  BY <1>1, <1>2 DEF Worlds, Erased
<1>8. \A u \in Users : b[u] = NoActor \/ (b[u] = l.actorOf[u] /\ b[u] # a)
  BY <1>1, <1>5 DEF Erased
<1>9. n \subseteq Forms /\ d \subseteq Forms
  BY <1>2 DEF Worlds
<1> HIDE DEF n, d, pl, b
<1>10. /\ v \in Worlds /\ v.forms = n /\ v.place = pl /\ v.disabled = d
       /\ v.ever = l.ever /\ v.grid = l.grid /\ v.subs = l.subs /\ v.audience = l.audience
       /\ v.actorOf = b /\ v.online = l.online /\ v.view = l.view
  BY <1>2, <1>6, <1>7, <1>9 DEF Worlds
<1> HIDE DEF v
<1>11. Exist(v)
  <2>1. \A p \in l.subs : p[1] # a /\ p[2] # a
    <3>1. \A p \in l.subs : p = <<p[1], p[2]>>
      BY <1>2 DEF Worlds
    <3> QED BY <3>1, <1>1
  <2> QED BY <2>1, <1>1, <1>2, <1>8, <1>10 DEF Exist, n, d
<1>12. OneEntry(v)
  <2>1. \A e \in l.grid : e[1] \in Forms /\ e[1] # a
    BY <1>1, <1>2 DEF Worlds
  <2>2. \A m \in MapRefs : m \in Forms /\ m # a
    BY <1>5 DEF Forms
  <2> QED BY <2>1, <2>2, <1>2, <1>6, <1>10 DEF OneEntry, n
<1>13. Listed(v) /\ Shows(v)
  BY <1>2, <1>8, <1>10 DEF Listed, Shows
<1>14. Follows(v, {})
  <2>1. l.forms \subseteq Forms
    BY <1>2 DEF Worlds
  <2> QED BY <2>1, <1>1, <1>6, <1>10 DEF Sound, Follows, n
<1>15. Invisible(v, {}) /\ Finds(v, {})
  BY <1>1, <1>10 DEF Sound, Invisible, Finds, d
<1>16. Placed(v, {})
  BY <1>1, <1>4, <1>6, <1>10 DEF Placed
<1> QED BY <1>3, <1>10, <1>11, <1>12, <1>13, <1>14, <1>15, <1>16 DEF Sound, Firm, v, l, b

\* SetUserActor: the user gets an actor that hears nothing, and is then told all that is
\* around it.
GivenActor(w, u, a) == [Erased(w, a) EXCEPT ![u] = a]

LEMMA SetUserActorSound ==
  ASSUME NEW w, NEW a, NEW u \in Users, Sound(w, {}), Placed(w, {}),
         a \in w.forms, a \in Actors, a \notin w.disabled
  PROVE  LET cleared == RemoveFromGridAndUnsubscribeAll(UnsubscribeFromAll(w, a), a)
             v == ForceSubscriptionsUpdate([EraseActor(cleared, a) EXCEPT !.actorOf[u] = a], a)
         IN /\ Sound(v, {}) /\ Placed(v, {})
            /\ v.actorOf = GivenActor(w, u, a)
            /\ v.place = w.place
            /\ Acquainted(v, a)
<1> DEFINE h == UnsubscribeFromAll(w, a)
           c == RemoveFromGridAndUnsubscribeAll(h, a)
           b == GivenActor(w, u, a)
           g == [c EXCEPT !.actorOf = b]
           v == ForceSubscriptionsUpdate(g, a)
<1>1. Sound(w, {a})
  BY SoundWeakens
<1>2. /\ Sound(h, {a}) /\ SameGround(h, w)
      /\ h.subs \subseteq w.subs /\ \A e : <<e, a>> \notin h.subs
  BY <1>1, DeafSound
<1> HIDE DEF h
<1>3. Sound(c, {}) /\ Withdrawn(c, h, a)
  BY <1>2, RemoveSound DEF SameGround
<1> HIDE DEF c
<1>4. /\ c \in Worlds /\ Exist(c) /\ Shows(c)
      /\ c.actorOf = w.actorOf /\ c.place = w.place /\ c.disabled = w.disabled
      /\ a \in c.forms
      /\ \A l : <<a, l>> \notin c.subs /\ <<l, a>> \notin c.subs
  BY <1>2, <1>3 DEF Sound, Firm, Withdrawn, SameGround
<1>5. Placed(c, {})
  BY <1>2, <1>3 DEF Placed, Withdrawn, SameGround
<1>6. [EraseActor(c, a) EXCEPT !.actorOf[u] = a] = g
  <2>1. EraseActor(c, a) = [c EXCEPT !.actorOf = Erased(w, a)]
    BY <1>4 DEF EraseActor, Erased, Worlds
  <2>2. [[c EXCEPT !.actorOf = Erased(w, a)] EXCEPT !.actorOf[u] = a] = g
    BY <1>4 DEF Worlds, GivenActor
  <2> QED BY <2>1, <2>2
<1>7. b \in [Users -> Actors \cup {NoActor}]
  BY <1>4 DEF Worlds, GivenActor, Erased
<1>8. \A k \in Users : b[k] = a \/ b[k] = NoActor \/ b[k] = c.actorOf[k]
  BY <1>4 DEF GivenActor, Erased
<1> HIDE DEF b
<1>10. \A k \in Users : b[k] # NoActor =>
         b[k] \in c.forms /\ \A e \in Forms : <<e, b[k]>> \in c.subs => e \in c.view[k]
  BY <1>4, <1>8 DEF Exist, Shows
<1>9. /\ g \in Worlds /\ SameForms(g, c)
      /\ g.actorOf = b /\ g.view = c.view
  BY <1>4, <1>7 DEF Worlds, SameForms
<1> HIDE DEF g
<1>11. Sound(g, {}) /\ Placed(g, {})
  BY <1>3, <1>5, <1>9, <1>10, UsersSound
<1>12. Sound(g, {a}) /\ Mutual(g, a)
  BY <1>4, <1>9, <1>11, SoundWeakens DEF Mutual, SameForms
<1>13. Sound(v, {}) /\ Updates(v, g, a) /\ Acquainted(v, a)
  BY <1>4, <1>9, <1>12, UpdateSound DEF SameForms
<1> HIDE DEF v
<1>14. Placed(v, {})
  <2>1. Placed(g, {a}) /\ (a \in Forms => g.place[a] \in Places)
    BY <1>11 DEF Placed
  <2>2. a \in Forms
    BY DEF Forms
  <2> QED BY <2>1, <2>2, <1>13, UpdatePlaced
<1>15. v.actorOf = b /\ v.place = w.place
  BY <1>4, <1>9, <1>13 DEF Updates, SameForms
<1> QED BY <1>6, <1>13, <1>14, <1>15 DEF v, b, c, h
-----------------------------------------------------------------------------
(* The steps.                                                               *)

LEMMA BecomesStrong ==
  ASSUME NEW w, Sound(w, {}), Placed(w, {}), Becomes(w)
  PROVE  Strong' /\ actorOf' = w.actorOf
<1>1. w \in Worlds
  BY DEF Sound, Firm
<1>2. World' = w
  BY <1>1 DEF Becomes, World, Worlds
<1> QED BY <1>2 DEF Strong, Becomes

LEMMA WorldFields ==
  /\ World.forms = forms /\ World.place = place /\ World.disabled = disabled
  /\ World.ever = ever /\ World.grid = grid /\ World.subs = subs
  /\ World.audience = audience /\ World.actorOf = actorOf
  /\ World.online = online /\ World.view = view
  BY DEF World

\* No user gets an actor.
KeepsUsers == \A u \in Users : actorOf'[u] = actorOf[u] \/ actorOf'[u] = NoActor

LEMMA CreateStep ==
  ASSUME Strong, NEW f \in Forms, NEW p \in Spots, CreateActor(f, p)
  PROVE  Strong' /\ KeepsUsers
<1>1. f \notin MapRefs /\ f \in Forms \ World.forms
  BY WorldFields, SubscriptionsAssumption DEF CreateActor
<1>2. /\ Sound(AddForm(World, f, p), {}) /\ Placed(AddForm(World, f, p), {})
      /\ AddForm(World, f, p).actorOf = actorOf
  BY <1>1, WorldFields, AddFormSound DEF Strong
<1> QED BY <1>2, BecomesStrong DEF CreateActor, KeepsUsers

LEMMA PlaceAtMeStep ==
  ASSUME Strong, NEW f \in Forms, NEW p \in Spots, NEW b \in BOOLEAN, PlaceAtMe(f, p, b)
  PROVE  Strong' /\ KeepsUsers
<1> DEFINE added == AddForm(World, f, p)
           placed == ForceSubscriptionsUpdate(added, f)
           off == Disable(placed, f)
<1>1. f \notin MapRefs /\ f \in Forms \ World.forms /\ f \notin World.disabled
  BY WorldFields, SubscriptionsAssumption DEF PlaceAtMe, Strong, Sound, Firm, Exist
<1>2. /\ Sound(added, {}) /\ Placed(added, {})
      /\ added.forms = World.forms \cup {f} /\ added.disabled = World.disabled
      /\ added.actorOf = actorOf
  BY <1>1, WorldFields, AddFormSound DEF Strong
<1>3. Sound(added, {f}) /\ Placed(added, {f}) /\ added.place[f] \in Places
  BY <1>2, SoundWeakens DEF Placed
<1> HIDE DEF added
<1>4. Sound(placed, {}) /\ Updates(placed, added, f)
  BY <1>1, <1>2, <1>3, UpdateSound
<1> HIDE DEF placed
<1>5. Placed(placed, {}) /\ f \in placed.forms /\ placed.actorOf = actorOf
  BY <1>2, <1>3, <1>4, UpdatePlaced DEF Updates
<1>6. Sound(off, {}) /\ Placed(off, {}) /\ off.actorOf = actorOf
  BY <1>4, <1>5, DisableSound
<1> HIDE DEF off
<1>7. Becomes(IF b THEN off ELSE placed)
  BY DEF PlaceAtMe, off, placed, added
<1>8. CASE b
  BY <1>6, <1>7, <1>8, BecomesStrong DEF KeepsUsers
<1>9. CASE ~b
  BY <1>4, <1>5, <1>7, <1>9, BecomesStrong DEF KeepsUsers
<1> QED BY <1>8, <1>9

\* A spot is a place; what a call is told of it are its cell and its square.
LEMMA SpotFacts ==
  ASSUME NEW p \in Spots
  PROVE  /\ p.cell \in Cells /\ p.x \in Int /\ p \in Places
         /\ p = [cell |-> p.cell, x |-> p.x]
<1>1. p = [cell |-> p.cell, x |-> p.x] /\ p.x \in Nat
  BY SubscriptionsAssumption
<1> QED BY <1>1, PlacesAreWide DEF Cells

LEMMA MoveStep ==
  ASSUME Strong, NEW f \in Forms, NEW p \in Spots, Move(f, p.x)
  PROVE  Strong' /\ KeepsUsers
<1> DEFINE v == SetPos(World, f, p.x)
<1>1. p.x \in Int /\ f \in World.forms /\ World.place[f] \in Wide
  BY SpotFacts, WorldFields DEF Move, Strong, Sound, Firm, Worlds
<1>2. /\ Sound(v, {}) /\ Moves(v, World, f)
      /\ v.place[f] = [cell |-> World.place[f].cell, x |-> p.x]
  BY <1>1, SetPosSound DEF Strong
<1>3. [World.place[f] EXCEPT !.x = p.x] = [cell |-> World.place[f].cell, x |-> p.x]
  BY <1>1 DEF Wide
<1>4. v.place[f] \in Places
  BY <1>2, <1>3, WorldFields, PlacesAreWide DEF Move
<1> HIDE DEF v
<1>5. Placed(v, {}) /\ v.actorOf = actorOf
  BY <1>2, <1>4, MovesPlaced, WorldFields DEF Strong, Moves
<1>6. Becomes(v)
  BY DEF Move, v
<1> QED BY <1>2, <1>5, <1>6, BecomesStrong DEF KeepsUsers

LEMMA SetPositionStep ==
  ASSUME Strong, NEW f \in Forms, NEW p \in Spots, SetPosition(f, p.x)
  PROVE  Strong' /\ KeepsUsers
<1> DEFINE moved == [World EXCEPT !.place[f].x = p.x]
           v == ForceSubscriptionsUpdate(moved, f)
<1>1. p.x \in Int /\ f \in World.forms /\ World.place[f] \in Wide
  BY SpotFacts, WorldFields DEF SetPosition, Strong, Sound, Firm, Worlds
<1>2. /\ Sound(moved, {f})
      /\ f \in moved.disabled => Sound(moved, {})
      /\ moved.place = [World.place EXCEPT ![f].x = p.x]
      /\ moved.place[f] = [cell |-> World.place[f].cell, x |-> p.x]
      /\ moved.forms = World.forms /\ moved.grid = World.grid
      /\ moved.actorOf = World.actorOf
  BY <1>1, MovedSound DEF Strong
<1>3. [World.place[f] EXCEPT !.x = p.x] = [cell |-> World.place[f].cell, x |-> p.x]
  BY <1>1 DEF Wide
<1>4. moved.place[f] \in Places
  BY <1>2, <1>3, WorldFields, PlacesAreWide DEF SetPosition
<1>5. Placed(moved, {}) /\ Placed(moved, {f})
  <2>1. World.place \in [Forms -> Wide]
    BY DEF Strong, Sound, Firm, Worlds
  <2>2. \A g \in Forms : g # f => moved.place[g] = World.place[g]
    BY <1>2, <2>1
  <2> HIDE DEF moved
  <2> QED BY <2>2, <1>2, <1>4 DEF Strong, Placed
<1> HIDE DEF moved
<1>6. /\ Sound(v, {})
      /\ f \in moved.disabled => v = moved
      /\ f \notin moved.disabled => Updates(v, moved, f)
  BY <1>1, <1>2, UpdateSound
<1> HIDE DEF v
<1>7. Placed(v, {}) /\ v.actorOf = actorOf
  <2>1. CASE f \in moved.disabled
    BY <2>1, <1>2, <1>5, <1>6, WorldFields
  <2>2. CASE f \notin moved.disabled
    BY <2>2, <1>2, <1>4, <1>5, <1>6, UpdatePlaced, WorldFields DEF Updates
  <2> QED BY <2>1, <2>2
<1>8. Becomes(v)
  BY DEF SetPosition, v, moved
<1> QED BY <1>6, <1>7, <1>8, BecomesStrong DEF KeepsUsers

LEMMA TeleportStep ==
  ASSUME Strong, NEW f \in Forms, NEW p \in Spots, Teleport(f, p)
  PROVE  Strong' /\ KeepsUsers
<1> DEFINE s == SetCellOrWorldObsolete(World, f, p.cell)
           v == SetPos(s, f, p.x)
<1>1. f \in World.forms
  BY WorldFields DEF Teleport
<1>2. /\ Sound(s, {}) /\ Moves(s, World, f) /\ InPlace(s, f) /\ f \in s.forms
      /\ s.place[f] = [cell |-> p.cell, x |-> World.place[f].x]
  BY <1>1, SpotFacts, CellSound DEF Strong
<1> HIDE DEF s
<1>3. /\ Sound(v, {}) /\ Moves(v, s, f)
      /\ v.place[f] = [cell |-> s.place[f].cell, x |-> p.x]
  BY <1>2, SpotFacts, SetPosSound
<1> HIDE DEF v
<1>4. v.place[f] \in Places
  <2>1. s.place[f].cell = p.cell
    BY <1>2
  <2> QED BY <2>1, <1>3, SpotFacts
<1>5. Placed(v, {}) /\ v.actorOf = actorOf
  BY <1>2, <1>3, <1>4, MovesTwicePlaced, WorldFields DEF Strong, Moves
<1>6. Becomes(v)
  BY DEF Teleport, v, s
<1> QED BY <1>3, <1>5, <1>6, BecomesStrong DEF KeepsUsers

LEMMA MoveToStep ==
  ASSUME Strong, NEW f \in Forms, NEW p \in Spots, MoveTo(f, p)
  PROVE  Strong' /\ KeepsUsers
<1> DEFINE s == SetCellOrWorld(World, f, p.cell)
           v == SetPos(s, f, p.x)
<1>1. f \in World.forms
  BY WorldFields DEF MoveTo
<1>2. /\ Sound(s, {}) /\ Moves(s, World, f) /\ InPlace(s, f)
      /\ s.place[f] = [cell |-> p.cell, x |-> World.place[f].x]
  BY <1>1, SpotFacts, SetCellSound DEF Strong
<1> HIDE DEF s
<1>3. /\ Sound(v, {}) /\ Moves(v, s, f)
      /\ v.place[f] = [cell |-> s.place[f].cell, x |-> p.x]
  <2>1. f \in s.forms
    BY <1>1, <1>2 DEF Moves
  <2> QED BY <1>2, <2>1, SpotFacts, SetPosSound
<1> HIDE DEF v
<1>4. v.place[f] \in Places
  <2>1. s.place[f].cell = p.cell
    BY <1>2
  <2> QED BY <2>1, <1>3, SpotFacts
<1>5. Placed(v, {}) /\ v.actorOf = actorOf
  BY <1>2, <1>3, <1>4, MovesTwicePlaced, WorldFields DEF Strong, Moves
<1>6. Becomes(v)
  BY DEF MoveTo, v, s
<1> QED BY <1>3, <1>5, <1>6, BecomesStrong DEF KeepsUsers

LEMMA SetEnabledStep ==
  ASSUME Strong, NEW f \in Forms, NEW b \in BOOLEAN, SetEnabled(f, b)
  PROVE  Strong' /\ KeepsUsers
<1> DEFINE on == Enable(World, f)
           off == Disable(World, f)
<1>1. f \in World.forms
  BY WorldFields DEF SetEnabled
<1>2. /\ Sound(on, {}) /\ Placed(on, {}) /\ on.actorOf = actorOf
      /\ Sound(off, {}) /\ Placed(off, {}) /\ off.actorOf = actorOf
  BY <1>1, EnableSound, DisableSound, WorldFields DEF Strong
<1> HIDE DEF on, off
<1>3. Becomes(IF b THEN on ELSE off)
  BY DEF SetEnabled, on, off
<1> QED BY <1>2, <1>3, BecomesStrong DEF KeepsUsers

LEMMA DeleteStep ==
  ASSUME Strong, NEW f \in Forms, Delete(f)
  PROVE  Strong' /\ KeepsUsers
<1> DEFINE v == RemoveFromGridAndUnsubscribeAll(World, f)
<1>1. f \in World.forms /\ Sound(World, {f})
  BY WorldFields, SoundWeakens DEF Delete, Strong
<1>2. Sound(v, {}) /\ Withdrawn(v, World, f)
  BY <1>1, RemoveSound
<1> HIDE DEF v
<1>3. Placed(v, {}) /\ v.actorOf = actorOf
  BY <1>2, WorldFields DEF Strong, Withdrawn, Placed
<1>4. Becomes(v)
  BY DEF Delete, v
<1> QED BY <1>2, <1>3, <1>4, BecomesStrong DEF KeepsUsers

LEMMA DestroyStep ==
  ASSUME Strong, NEW f \in Forms, DestroyActor(f)
  PROVE  Strong' /\ KeepsUsers
<1> DEFINE left == BeforeDestroy(World, f)
           v == EraseActor([left EXCEPT !.forms = @ \ {f}, !.disabled = @ \ {f},
                                        !.place[f] = Nowhere], f)
<1>1. f \in World.forms /\ f \in Actors
  BY WorldFields DEF DestroyActor
<1>2. Sound(v, {}) /\ Placed(v, {}) /\ v.actorOf = Erased(World, f)
  BY <1>1, DestroySound DEF Strong
<1>3. Becomes(v)
  BY DEF DestroyActor
<1> HIDE DEF v
<1>4. Strong' /\ actorOf' = Erased(World, f)
  BY <1>2, <1>3, BecomesStrong
<1> QED BY <1>4, WorldFields DEF Erased, KeepsUsers
LEMMA ConnectStep ==
  ASSUME Strong, NEW u \in Users, Connect(u)
  PROVE  Strong' /\ KeepsUsers
<1> DEFINE v == [World EXCEPT !.online = @ \cup {u}]
<1>1. World \in Worlds /\ Exist(World) /\ Shows(World)
  BY DEF Strong, Sound, Firm
<1>2. World.online \cup {u} \in SUBSET Users
  BY <1>1 DEF Worlds
<1>3. /\ v \in Worlds /\ SameForms(v, World)
      /\ v.actorOf = World.actorOf /\ v.view = World.view
  <2> DEFINE o == World.online \cup {u}
  <2>1. v = [World EXCEPT !.online = o] /\ o \in SUBSET Users
    BY <1>1, <1>2 DEF Worlds
  <2> HIDE DEF o, v
  <2> QED BY <1>1, <2>1 DEF Worlds, SameForms
<1>4. Becomes(v)
  BY DEF Connect
<1> HIDE DEF v
<1>5. Sound(v, {}) /\ Placed(v, {})
  BY <1>1, <1>3, UsersSound DEF Strong, Exist, Shows
<1> QED BY <1>3, <1>4, <1>5, BecomesStrong, WorldFields DEF KeepsUsers

\* The user has left and its actor, if it had one, is disabled.
LEMMA DisconnectStep ==
  ASSUME Strong, NEW u \in Users, Disconnect(u)
  PROVE  Strong' /\ KeepsUsers
<1> DEFINE w == IF actorOf[u] = NoActor THEN World ELSE Disable(World, actorOf[u])
           v == [w EXCEPT !.actorOf[u] = NoActor, !.view[u] = {}, !.online = @ \ {u}]
<1>1. World \in Worlds /\ Exist(World)
  BY DEF Strong, Sound, Firm
<1>2. Sound(w, {}) /\ Placed(w, {}) /\ w.actorOf = actorOf
  <2>1. CASE actorOf[u] = NoActor
    BY <2>1, WorldFields DEF Strong
  <2>2. CASE actorOf[u] # NoActor
    <3>1. actorOf[u] \in World.forms
      BY <1>1, <2>2, WorldFields DEF Exist
    <3>2. w = Disable(World, actorOf[u])
      BY <2>2
    <3> QED BY <3>1, <3>2, DisableSound, WorldFields DEF Strong
  <2> QED BY <2>1, <2>2
<1>3. Becomes(v)
  BY DEF Disconnect
<1> HIDE DEF w
<1> DEFINE a == [w.actorOf EXCEPT ![u] = NoActor]
           s == [w.view EXCEPT ![u] = {}]
           o == w.online \ {u}
<1>4. w \in Worlds /\ Exist(w) /\ Shows(w)
  BY <1>2 DEF Sound, Firm
<1>5. v = [w EXCEPT !.actorOf = a, !.view = s, !.online = o]
  BY <1>4 DEF Worlds
<1>6. /\ a \in [Users -> Actors \cup {NoActor}] /\ s \in [Users -> SUBSET Forms]
      /\ o \in SUBSET Users /\ a[u] = NoActor
      /\ \A k \in Users : k # u => a[k] = w.actorOf[k] /\ s[k] = w.view[k]
  BY <1>4 DEF Worlds
<1> HIDE DEF a, s, o, v
<1>7. /\ v \in Worlds /\ SameForms(v, w)
      /\ v.actorOf = a /\ v.view = s
  BY <1>4, <1>5, <1>6 DEF Worlds, SameForms
<1>8. \A k \in Users : v.actorOf[k] # NoActor =>
        /\ v.actorOf[k] \in w.forms
        /\ \A e \in Forms : <<e, v.actorOf[k]>> \in w.subs => e \in v.view[k]
  BY <1>4, <1>6, <1>7 DEF Exist, Shows
<1>9. Sound(v, {}) /\ Placed(v, {})
  BY <1>2, <1>7, <1>8, UsersSound
<1> QED BY <1>2, <1>3, <1>6, <1>7, <1>9, BecomesStrong DEF KeepsUsers

LEMMA ClearUserActorStep ==
  ASSUME Strong, NEW u \in Users, ClearUserActor(u)
  PROVE  Strong' /\ KeepsUsers
<1> DEFINE a == [actorOf EXCEPT ![u] = NoActor]
           v == [World EXCEPT !.actorOf[u] = NoActor]
<1>1. World \in Worlds /\ Exist(World) /\ Shows(World)
  BY DEF Strong, Sound, Firm
<1>2. v = [World EXCEPT !.actorOf = a]
  BY <1>1, WorldFields DEF Worlds
<1>3. /\ a \in [Users -> Actors \cup {NoActor}] /\ a[u] = NoActor
      /\ \A k \in Users : k # u => a[k] = actorOf[k]
  BY <1>1, WorldFields DEF Worlds
<1>4. Becomes(v)
  BY DEF ClearUserActor
<1> HIDE DEF a, v
<1>5. /\ v \in Worlds /\ SameForms(v, World)
      /\ v.actorOf = a /\ v.view = World.view
  BY <1>1, <1>2, <1>3 DEF Worlds, SameForms
<1>6. \A k \in Users : v.actorOf[k] # NoActor =>
        /\ v.actorOf[k] \in World.forms
        /\ \A e \in Forms : <<e, v.actorOf[k]>> \in World.subs => e \in v.view[k]
  BY <1>1, <1>3, <1>5, WorldFields DEF Exist, Shows
<1>7. Sound(v, {}) /\ Placed(v, {})
  BY <1>5, <1>6, UsersSound DEF Strong
<1> QED BY <1>3, <1>4, <1>5, <1>7, BecomesStrong DEF KeepsUsers

LEMMA SetUserActorStep ==
  ASSUME Strong, NEW u \in Users, NEW a \in Actors, SetUserActor(u, a)
  PROVE  /\ Strong' /\ Acquainted(World', a) /\ place' = place
         /\ \A k \in Users, b \in Actors : actorOf[k] # b /\ actorOf'[k] = b => b = a
<1> DEFINE cleared == RemoveFromGridAndUnsubscribeAll(UnsubscribeFromAll(World, a), a)
           v == ForceSubscriptionsUpdate([EraseActor(cleared, a) EXCEPT !.actorOf[u] = a], a)
<1>1. a \in World.forms /\ a \notin World.disabled
  BY WorldFields DEF SetUserActor
<1>2. /\ Sound(v, {}) /\ Placed(v, {})
      /\ v.actorOf = GivenActor(World, u, a)
      /\ v.place = World.place
      /\ Acquainted(v, a)
  BY <1>1, SetUserActorSound DEF Strong
<1>3. Becomes(v)
  BY DEF SetUserActor
<1> HIDE DEF v
<1>4. Strong' /\ actorOf' = v.actorOf
  BY <1>2, <1>3, BecomesStrong
<1>5. World' = v /\ place' = place
  <2>1. v \in Worlds
    BY <1>2 DEF Sound, Firm
  <2>2. World' = v
    BY <1>3, <2>1 DEF Becomes, World, Worlds
  <2> QED BY <1>2, <1>3, <2>2, WorldFields DEF Becomes
<1>6. \A k \in Users : actorOf'[k] = a \/ actorOf'[k] = NoActor \/ actorOf'[k] = actorOf[k]
  BY <1>2, <1>4, WorldFields DEF GivenActor, Erased
<1>7. NoActor \notin Actors
  BY SubscriptionsAssumption DEF Forms
<1> QED BY <1>2, <1>4, <1>5, <1>6, <1>7

-----------------------------------------------------------------------------
(* The theorems.                                                            *)

LEMMA InitStrong == Init => Strong
<1> SUFFICES ASSUME Init PROVE Strong
  OBVIOUS
<1> DEFINE w == World
<1>1. /\ w.forms = {} /\ w.disabled = {} /\ w.ever = {} /\ w.grid = {} /\ w.subs = {}
      /\ w.place = [f \in Forms |-> IF f \in MapRefs THEN Home[f] ELSE Nowhere]
      /\ w.audience = [p \in Forms \X Actors |-> 0]
      /\ w.actorOf = [u \in Users |-> NoActor]
      /\ w.online = {}
      /\ w.view = [u \in Users |-> {}]
  BY WorldFields DEF Init
<1>2. \A f \in Forms : w.place[f] \in Places /\ w.place[f] \in Wide
  BY <1>1, PlacesAreWide
<1>3. w.place \in [Forms -> Wide]
  BY <1>1, <1>2
<1>4. /\ w.audience \in [Forms \X Actors -> Nat]
      /\ w.actorOf \in [Users -> Actors \cup {NoActor}]
      /\ w.view \in [Users -> SUBSET Forms]
  BY <1>1
<1>5. w \in Worlds
  BY <1>1, <1>3, <1>4 DEF World, Worlds
<1> HIDE DEF w
<1>6. Exist(w) /\ Listed(w) /\ Shows(w)
  BY <1>1 DEF Exist, Listed, Shows
<1>7. OneEntry(w)
  BY <1>1 DEF OneEntry, Forms
<1>8. Follows(w, {}) /\ Invisible(w, {}) /\ Finds(w, {}) /\ Placed(w, {})
  BY <1>1, <1>2 DEF Follows, Invisible, Finds, Placed
<1> QED BY <1>5, <1>6, <1>7, <1>8 DEF Sound, Firm, Strong, w

LEMMA StrongStep == Strong /\ [Next]_vars => Strong'
<1> SUFFICES ASSUME Strong, [Next]_vars PROVE Strong'
  OBVIOUS
<1>1. ASSUME NEW f \in Forms, NEW p \in Spots,
             \/ CreateActor(f, p)
             \/ \E b \in BOOLEAN : PlaceAtMe(f, p, b)
             \/ Move(f, p.x)
             \/ SetPosition(f, p.x)
             \/ Teleport(f, p)
             \/ MoveTo(f, p)
      PROVE  Strong'
  BY <1>1, CreateStep, PlaceAtMeStep, MoveStep, SetPositionStep, TeleportStep, MoveToStep
<1>2. ASSUME NEW f \in Forms,
             (\E b \in BOOLEAN : SetEnabled(f, b)) \/ Delete(f) \/ DestroyActor(f)
      PROVE  Strong'
  BY <1>2, SetEnabledStep, DeleteStep, DestroyStep
<1>3. ASSUME NEW u \in Users,
             \/ Connect(u) \/ Disconnect(u) \/ ClearUserActor(u)
             \/ \E a \in Actors : SetUserActor(u, a)
      PROVE  Strong'
  BY <1>3, ConnectStep, DisconnectStep, ClearUserActorStep, SetUserActorStep
<1>4. ASSUME UNCHANGED vars PROVE Strong'
  <2>1. World' = World
    BY <1>4 DEF vars, World
  <2> QED BY <2>1 DEF Strong
<1> QED BY <1>1, <1>2, <1>3, <1>4 DEF Next
LEMMA StrongMeans == Strong => Inv /\ NeighborsFindsAll /\ ClientShowsEmitters
<1> SUFFICES ASSUME Strong PROVE Inv /\ NeighborsFindsAll /\ ClientShowsEmitters
  OBVIOUS
<1> DEFINE w == World
<1>1. /\ forms = w.forms /\ place = w.place /\ disabled = w.disabled /\ ever = w.ever
      /\ grid = w.grid /\ subs = w.subs /\ audience = w.audience
      /\ actorOf = w.actorOf /\ online = w.online /\ view = w.view
  BY WorldFields
<1>2. /\ w \in Worlds /\ Exist(w) /\ OneEntry(w) /\ Listed(w) /\ Shows(w)
      /\ Follows(w, {}) /\ Invisible(w, {}) /\ Finds(w, {}) /\ Placed(w, {})
  BY DEF Strong, Sound, Firm
<1>3. \A f, l : <<f, l>> \in subs <=> <<f, l>> \in w.subs
  BY <1>1
<1> HIDE DEF w
<1>4. TypeOK
  <2>1. place \in [Forms -> Places]
    BY <1>1, <1>2 DEF Placed, Worlds
  <2>2. grid \in SUBSET (Forms \X Places)
    <3>1. \A e \in grid : e = <<e[1], e[2]>> /\ e[1] \in Forms /\ e[2] \in Places
      BY <1>1, <1>2 DEF Placed, Worlds
    <3> QED BY <3>1
  <2>3. disabled \in SUBSET forms /\ ever \in SUBSET forms
    BY <1>1, <1>2 DEF Exist
  <2>4. /\ forms \in SUBSET Forms /\ subs \in SUBSET (Forms \X Forms)
        /\ audience \in [Forms \X Actors -> Nat]
        /\ actorOf \in [Users -> Actors \cup {NoActor}]
        /\ online \in SUBSET Users /\ view \in [Users -> SUBSET Forms]
    BY <1>1, <1>2 DEF Worlds
  <2> QED BY <2>1, <2>2, <2>3, <2>4 DEF TypeOK
<1>5. NoDanglingPointers
  <2>1. \A p \in subs : p = <<p[1], p[2]>> /\ p[1] \in forms /\ p[2] \in forms
    BY <1>1, <1>2 DEF Exist, Worlds
  <2> QED BY <2>1, <1>1, <1>2 DEF Exist, NoDanglingPointers
<1>6. GridFollowsPlace
  <2> SUFFICES ASSUME NEW f \in forms \ MapRefs
               PROVE  {e \in grid : e[1] = f} = IF f \in ever THEN {<<f, place[f]>>} ELSE {}
    BY DEF GridFollowsPlace
  <2>1. CASE f \in ever
    <3>1. <<f, place[f]>> \in grid
      BY <1>1, <1>2, <2>1 DEF Follows
    <3>2. \A e \in grid : e[1] = f => e = <<f, place[f]>>
      BY <1>1, <1>2, <3>1 DEF OneEntry
    <3> QED BY <2>1, <3>1, <3>2
  <2>2. CASE f \notin ever
    BY <1>1, <1>2, <2>2 DEF Follows
  <2> QED BY <2>1, <2>2
<1>7. DisabledIsInvisible
  BY <1>1, <1>2 DEF Invisible, DisabledIsInvisible, Listeners, w
<1>8. EachListenerListedOnce
  BY <1>1, <1>2 DEF Listed, EachListenerListedOnce
<1>9. NeighborsFindsAll
  <2> SUFFICES ASSUME NEW d \in grid, NEW e \in grid, Near(d[2], e[2]),
                      NEW p \in WithActor({<<d[1], e[1]>>})
               PROVE  p \in subs \/ <<p[2], p[1]>> \in subs
    BY DEF NeighborsFindsAll
  <2>1. p = <<d[1], e[1]>> /\ (d[1] \in Actors \/ e[1] \in Actors)
    BY DEF WithActor
  <2>2. <<d[1], e[1]>> \in subs \/ <<e[1], d[1]>> \in subs
    BY <1>1, <1>2, <2>1 DEF Finds
  <2> QED BY <2>1, <2>2
<1>10. ClientShowsEmitters
  BY <1>1, <1>2 DEF Shows, ClientShowsEmitters, Emitters, w
<1> QED BY <1>4, <1>5, <1>6, <1>7, <1>8, <1>9, <1>10 DEF Inv

LEMMA StrongHolds == Spec => []Strong
<1> QED BY InitStrong, StrongStep, PTL DEF Spec

\* Forms, grids and listeners stay consistent through moves, disabling and deletion in
\* any order, for any number of forms and places (SetPos, Subscribe, Unsubscribe,
\* RemoveFromGridAndUnsubscribeAll, BeforeDestroy).
THEOREM InvHolds == Spec => []Inv
<1> QED BY StrongHolds, StrongMeans, PTL

\* Of two forms next to each other on the grid one is subscribed to the other, also when
\* they were loaded, moved, disabled and enabled in any order (ForceSubscriptionsUpdate,
\* NeighborsBinding).
THEOREM NeighborsFindsAllHolds == Spec => []NeighborsFindsAll
<1> QED BY StrongHolds, StrongMeans, PTL

\* A client shows all that the actor of its user is subscribed to, whoever had the actor
\* before (Subscribe, Unsubscribe, SetUserActor, EraseActor).
THEOREM ClientShowsEmittersHolds == Spec => []ClientShowsEmitters
<1> QED BY StrongHolds, StrongMeans, PTL

\* The step of NewPlayerSeesNeighbours.
SeesNeighbours ==
  \A u \in Users, a \in Actors :
    actorOf[u] # a /\ actorOf'[u] = a =>
      \A e \in grid' : Near(e[2], place[a]) =>
        /\ e[1] \in view'[u]
        /\ {<<a, e[1]>>, <<e[1], a>>} \subseteq subs'

LEMMA SeesStep == Strong /\ [Next]_vars => SeesNeighbours
<1> SUFFICES ASSUME Strong, [Next]_vars, NEW u \in Users, NEW a \in Actors,
                    actorOf[u] # a, actorOf'[u] = a, NEW e \in grid', Near(e[2], place[a])
             PROVE  e[1] \in view'[u] /\ <<a, e[1]>> \in subs' /\ <<e[1], a>> \in subs'
  BY DEF SeesNeighbours
<1>1. a # NoActor
  BY SubscriptionsAssumption DEF Forms
<1>2. ~KeepsUsers
  BY <1>1 DEF KeepsUsers
<1>3. \E k \in Users, b \in Actors : SetUserActor(k, b)
  <2>1. ASSUME NEW f \in Forms, NEW p \in Spots
        PROVE  /\ ~CreateActor(f, p) /\ ~Move(f, p.x) /\ ~SetPosition(f, p.x)
               /\ ~Teleport(f, p) /\ ~MoveTo(f, p)
               /\ \A b \in BOOLEAN : ~PlaceAtMe(f, p, b)
    BY <1>2, CreateStep, PlaceAtMeStep, MoveStep, SetPositionStep, TeleportStep, MoveToStep
  <2>2. ASSUME NEW f \in Forms
        PROVE  (\A b \in BOOLEAN : ~SetEnabled(f, b)) /\ ~Delete(f) /\ ~DestroyActor(f)
    BY <1>2, SetEnabledStep, DeleteStep, DestroyStep
  <2>3. ASSUME NEW k \in Users
        PROVE  ~Connect(k) /\ ~Disconnect(k) /\ ~ClearUserActor(k)
    BY <1>2, ConnectStep, DisconnectStep, ClearUserActorStep
  <2>4. ~UNCHANGED vars
    BY DEF vars
  <2> QED BY <2>1, <2>2, <2>3, <2>4 DEF Next
<1>4. Acquainted(World', a) /\ Strong' /\ place' = place
  <2>1. PICK k \in Users, b \in Actors : SetUserActor(k, b)
    BY <1>3
  <2>2. /\ Strong' /\ Acquainted(World', b) /\ place' = place
        /\ \A l \in Users, c \in Actors : actorOf[l] # c /\ actorOf'[l] = c => c = b
    BY <2>1, SetUserActorStep
  <2> QED BY <2>2
<1>5. World'.grid = grid' /\ World'.place = place' /\ World'.subs = subs'
      /\ World'.actorOf = actorOf' /\ World'.view = view'
  BY DEF World
<1>6. World' \in Worlds /\ Shows(World')
  BY <1>4 DEF Strong, Sound, Firm
<1>7. <<a, e[1]>> \in subs' /\ <<e[1], a>> \in subs'
  BY <1>4, <1>5 DEF Acquainted
<1>8. e[1] \in Forms
  BY <1>5, <1>6 DEF Worlds
<1>9. e[1] \in view'[u]
  BY <1>1, <1>5, <1>6, <1>7, <1>8 DEF Shows
<1> QED BY <1>7, <1>9

\* A user that gets an actor is shown all that is next to it, and these are subscribed to
\* the actor, although the actor may have been around for others before (SetUserActor).
THEOREM NewPlayerSeesNeighboursHolds == Spec => NewPlayerSeesNeighbours
<1>1. Strong /\ [Next]_vars => [SeesNeighbours]_vars
  BY SeesStep
<1>2. NewPlayerSeesNeighbours <=> [][SeesNeighbours]_vars
  BY DEF NewPlayerSeesNeighbours, SeesNeighbours
<1> QED BY <1>1, <1>2, StrongHolds, PTL DEF Spec
=============================================================================
