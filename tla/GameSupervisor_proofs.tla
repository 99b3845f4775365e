------------------------ MODULE GameSupervisor_proofs ------------------------
(***************************************************************************)
(* Proofs about GameSupervisor for any number of requests, faults, minutes *)
(* and slots: the state that the manager shows is that of its child, a     *)
(* dashboard with nothing left to read knows it, and a slot of the         *)
(* schedule is served once at most.                                        *)
(***************************************************************************)
EXTENDS GameSupervisor, FiniteSetTheorems, TLAPS

\* Every nonempty set of numbers has a smallest element.
LEMMA SmallestOfSet ==
  ASSUME NEW S \in SUBSET Nat, S # {}
  PROVE  \E n \in S : \A k \in S : n <= k
<1> DEFINE R == StrictSubsetOrdering(Nat)
           F == FiniteSubsetsOf(Nat)
           T == {0..n : n \in S}
<1>1. IsWellFoundedOn(R, F)
  BY FS_StrictSubsetOrderingWellFounded
<1>2. T \subseteq F /\ T # {}
  <2>1. \A n \in S : n \in Int /\ 0 \in Int
    OBVIOUS
  <2>2. \A n \in S : IsFiniteSet(0..n)
    BY <2>1, FS_Interval, Zenon
  <2>3. \A n \in S : 0..n \in SUBSET Nat
    OBVIOUS
  <2> QED BY <2>2, <2>3, Zenon DEF FiniteSubsetsOf
<1>3. \E x \in T : \A y \in T : ~(<<y, x>> \in R)
  <2> HIDE DEF R, F, T
  <2> QED BY <1>1, <1>2, WFMin
<1>4. PICK n \in S : \A k \in S : ~(<<0..k, 0..n>> \in R)
  BY <1>3
<1>5. ASSUME NEW k \in S PROVE n <= k
  <2> HIDE DEF R, F, T
  <2>0. k \in Nat /\ n \in Nat
    BY <1>4, <1>5
  <2>1. SUFFICES ASSUME k < n PROVE FALSE
    BY <2>0
  <2>2. 0..k \subseteq 0..n /\ n \in 0..n /\ n \notin 0..k
    BY <2>0, <2>1
  <2>3. 0..k \in SUBSET Nat /\ 0..n \in SUBSET Nat /\ 0..k # 0..n
    BY <2>0, <2>2
  <2> QED BY <1>4, <2>2, <2>3 DEF StrictSubsetOrdering, R
<1> QED BY <1>5

-----------------------------------------------------------------------------

(* The manager is described by functions from states s to states s, so the *)
(* invariant is stated of such an s.                                        *)

Services == [m : Managers, game : Games, dash : Dashboards]

\* StateTellsChild of s; only a dashboard that runs has a port.
Tells(s) ==
  /\ s \in Services
  /\ s.m.child <=> s.m.state \in {"starting", "running", "stopping"}
  /\ s.m.child <=> s.game.proc # "none"
  /\ s.m.startupTimer => s.m.state = "starting"
  /\ s.m.killTimer => s.m.state = "stopping"
  /\ s.m.state = "stopping" /\ s.m.desired = "running" => s.m.operation = "restart"
  /\ s.m.dashboardPort => s.m.dashboard

\* The last state under way, or the one the dashboard has read, is the state of the game.
LastIs(in, i, state) ==
  /\ in[i].op = "state" /\ in[i].state = state
  /\ \A j \in 1..Len(in) : j > i => in[j].op # "state"

Knows(s) ==
  s.m.dashboardPort =>
    \/ s.dash.view = s.m.state /\ \A i \in 1..Len(s.dash.in) : s.dash.in[i].op # "state"
    \/ \E i \in 1..Len(s.dash.in) : LastIs(s.dash.in, i, s.m.state)

Sound(s) == Tells(s) /\ Knows(s)

\* A slot that was served is claimed.
ServedIsClaimed == \A t \in Slots : told.served[t] <= 1 /\ (told.served[t] # 0 => t \in file)

IInv == TypeOK /\ Sound(Service) /\ ServedIsClaimed

LEMMA SoundInv == TypeOK /\ Sound(Service) => Inv /\ ViewCatchesUp
<1> SUFFICES ASSUME TypeOK, Sound(Service) PROVE StateTellsChild /\ ViewCatchesUp
  BY DEF Inv
<1>1. Service.m = m /\ Service.game = game /\ Service.dash = dash
  BY DEF Service
<1>2. StateTellsChild
  BY <1>1 DEF Sound, Tells, StateTellsChild
<1>3. ViewCatchesUp
  <2>1. SUFFICES ASSUME m.dashboardPort, dash.in = <<>> PROVE dash.view = m.state
    BY DEF ViewCatchesUp
  <2>2. Len(dash.in) = 0
    BY <2>1
  <2> QED BY <1>1, <2>1, <2>2 DEF Sound, Knows
<1> QED BY <1>2, <1>3

-----------------------------------------------------------------------------
(* What the parts of a handler make of s.                                   *)

\* send: a message that is no state of the game leaves what the dashboard will know.
LEMMA SendTells ==
  ASSUME NEW s, Tells(s), NEW message \in Said
  PROVE  /\ Tells(Send(s, message))
         /\ Send(s, message).m = s.m /\ Send(s, message).game = s.game
         /\ message.op # "state" /\ Knows(s) => Knows(Send(s, message))
<1> DEFINE r == Send(s, message)
<1>1. s \in Services /\ s.dash.in \in Seq(Said)
  BY DEF Tells, Services, Dashboards
<1>2. CASE ~s.m.dashboard
  BY <1>2 DEF Send
<1>3. CASE s.m.dashboard
  <2>1. r = [s EXCEPT !.dash.in = Append(s.dash.in, message)]
    BY <1>3 DEF Send
  <2> DEFINE d == [s.dash EXCEPT !.in = Append(s.dash.in, message)]
  <2>11. r = [s EXCEPT !.dash = d]
    BY <2>1
  <2>12. d \in Dashboards /\ d.in = Append(s.dash.in, message) /\ d.view = s.dash.view
    <3>1. s.dash \in Dashboards /\ Append(s.dash.in, message) \in Seq(Said)
      BY <1>1 DEF Services
    <3> QED BY <3>1 DEF Dashboards
  <2> HIDE DEF d, r
  <2>13. r \in Services /\ r.m = s.m /\ r.game = s.game /\ r.dash = d
    BY <1>1, <2>11, <2>12 DEF Services
  <2>2. r.m = s.m /\ r.game = s.game /\ r.dash.in = Append(s.dash.in, message) /\ r.dash.view = s.dash.view
    BY <2>12, <2>13
  <2>3. r.dash \in Dashboards /\ r \in Services
    BY <2>12, <2>13
  <2>4. Tells(r)
    BY <2>2, <2>3 DEF Tells
  <2>5. ASSUME message.op # "state", Knows(s), s.m.dashboardPort PROVE Knows(r)
    <3>1. /\ Len(r.dash.in) = Len(s.dash.in) + 1 /\ Len(s.dash.in) \in Nat
          /\ \A i \in 1..Len(s.dash.in) : r.dash.in[i] = s.dash.in[i]
          /\ r.dash.in[Len(s.dash.in) + 1] = message
      BY <1>1, <2>2
    <3>2. \A i \in 1..Len(r.dash.in) : i \in 1..Len(s.dash.in) \/ i = Len(s.dash.in) + 1
      BY <3>1
    <3>3. CASE /\ s.dash.view = s.m.state
               /\ \A i \in 1..Len(s.dash.in) : s.dash.in[i].op # "state"
      BY <2>2, <2>5, <3>1, <3>2, <3>3 DEF Knows
    <3>4. ASSUME NEW i \in 1..Len(s.dash.in), LastIs(s.dash.in, i, s.m.state) PROVE Knows(r)
      <4>1. LastIs(r.dash.in, i, r.m.state)
        BY <2>2, <2>5, <3>1, <3>2, <3>4 DEF LastIs
      <4>2. i \in 1..Len(r.dash.in)
        BY <3>1
      <4> QED BY <4>1, <4>2 DEF Knows
    <3> QED BY <2>5, <3>3, <3>4 DEF Knows
  <2>6. ~s.m.dashboardPort => Knows(r)
    BY <2>2 DEF Knows
  <2> QED BY <2>2, <2>4, <2>5, <2>6 DEF r
<1> QED BY <1>2, <1>3

\* publishGameState: whatever the dashboard took for the state, it will know the new one.
LEMMA PublishSound ==
  ASSUME NEW s, Tells(s)
  PROVE  /\ Sound(PublishGameState(s))
         /\ PublishGameState(s).m = s.m /\ PublishGameState(s).game = s.game
<1> DEFINE message == [op |-> "state", state |-> s.m.state]
           r == PublishGameState(s)
<1>1. s \in Services /\ s.dash.in \in Seq(Said) /\ s.m.state \in States
  BY DEF Tells, Services, Dashboards, Managers
<1>2. message \in Said
  BY <1>1 DEF Said
<1>3. r = Send(s, message)
  BY DEF PublishGameState
<1>4. Tells(r) /\ r.m = s.m /\ r.game = s.game
  BY <1>2, <1>3, SendTells
<1>5. ASSUME s.m.dashboardPort PROVE Knows(r)
  <2>1. s.m.dashboard
    BY <1>5 DEF Tells
  <2>2. r.dash.in = Append(s.dash.in, message)
    BY <1>1, <1>3, <2>1 DEF Send, Services, Dashboards
  <2>3. Len(r.dash.in) = Len(s.dash.in) + 1 /\ Len(s.dash.in) \in Nat
        /\ r.dash.in[Len(s.dash.in) + 1] = message
    BY <1>1, <1>2, <2>2
  <2>4. LastIs(r.dash.in, Len(s.dash.in) + 1, r.m.state)
    BY <1>4, <2>3 DEF LastIs
  <2> QED BY <2>3, <2>4 DEF Knows
<1>6. ~s.m.dashboardPort => Knows(r)
  BY <1>4 DEF Knows
<1> QED BY <1>4, <1>5, <1>6 DEF Sound

LEMMA StartChildSound ==
  ASSUME NEW s, Tells(s), s.m.child \/ s.m.closing => Knows(s)
  PROVE  Sound(StartChild(s))
<1>1. CASE s.m.child \/ s.m.closing
  BY <1>1 DEF StartChild, Sound
<1>2. CASE ~(s.m.child \/ s.m.closing)
  <2> DEFINE n == [s.m EXCEPT !.child = TRUE, !.desired = "running", !.state = "starting",
                              !.startupFailed = FALSE, !.startupTimer = TRUE]
             g == [proc |-> "booting", ready |-> FALSE, shutdown |-> FALSE]
             r == [s EXCEPT !.m = n, !.game = g]
  <2>1. s \in Services /\ s.m \in Managers
    BY DEF Tells, Services
  <2>11. /\ n \in Managers /\ n.child /\ n.state = "starting" /\ n.killTimer = s.m.killTimer
         /\ n.dashboardPort = s.m.dashboardPort /\ n.dashboard = s.m.dashboard
    BY <2>1 DEF Managers, States
  <2>12. g \in Games /\ g.proc = "booting"
    BY DEF Games
  <2>13. StartChild(s) = PublishGameState(r)
    BY <1>2 DEF StartChild
  <2> HIDE DEF n, g
  <2>2. r \in Services
    BY <2>1, <2>11, <2>12 DEF Services
  <2>3. /\ r.m.child /\ r.m.state = "starting" /\ r.m.killTimer = s.m.killTimer
        /\ r.game.proc = "booting" /\ r.m.dashboardPort = s.m.dashboardPort
        /\ r.m.dashboard = s.m.dashboard
    BY <2>1, <2>11, <2>12 DEF Services
  <2>4. ~s.m.killTimer
    BY <1>2 DEF Tells
  <2>5. Tells(r)
    BY <2>2, <2>3, <2>4 DEF Tells
  <2> QED BY <2>5, <2>13, PublishSound
<1> QED BY <1>1, <1>2

LEMMA StopChildSound ==
  ASSUME NEW s, Sound(s), s.m.desired = "running" => s.m.operation = "restart"
  PROVE  Sound(StopChild(s))
<1>1. CASE ~s.m.child \/ s.m.state = "stopping"
  BY <1>1 DEF StopChild
<1>2. CASE ~(~s.m.child \/ s.m.state = "stopping")
  <2> DEFINE n == [s.m EXCEPT !.state = "stopping", !.startupTimer = FALSE, !.killTimer = TRUE]
             g == [s.game EXCEPT !.shutdown = TRUE]
             r == [s EXCEPT !.m = n, !.game = g]
  <2>1. s \in Services /\ s.m \in Managers /\ s.game \in Games
    BY DEF Sound, Tells, Services
  <2>11. /\ n \in Managers /\ n.child = s.m.child /\ n.state = "stopping" /\ ~n.startupTimer
         /\ n.desired = s.m.desired /\ n.operation = s.m.operation
         /\ n.dashboardPort = s.m.dashboardPort /\ n.dashboard = s.m.dashboard
    BY <2>1 DEF Managers, States
  <2>12. g \in Games /\ g.proc = s.game.proc
    BY <2>1 DEF Games
  <2>13. StopChild(s) = PublishGameState(r)
    BY <1>2, <2>1 DEF StopChild, Services
  <2> HIDE DEF n, g
  <2>2. r \in Services
    BY <2>1, <2>11, <2>12 DEF Services
  <2>3. /\ r.m.child = s.m.child /\ r.m.state = "stopping" /\ ~r.m.startupTimer
        /\ r.m.desired = s.m.desired /\ r.m.operation = s.m.operation
        /\ r.game.proc = s.game.proc /\ r.m.dashboardPort = s.m.dashboardPort
        /\ r.m.dashboard = s.m.dashboard
    BY <2>1, <2>11, <2>12 DEF Services
  <2>4. Tells(r)
    BY <1>2, <2>2, <2>3 DEF Sound, Tells
  <2> QED BY <2>4, <2>13, PublishSound
<1> QED BY <1>1, <1>2

\* control: an order to stop takes back what an earlier restart wanted.
LEMMA ControlSound ==
  ASSUME NEW s, Sound(s), NEW action \in Actions
  PROVE  Sound(Control(s, action))
<1> DEFINE asked == [s EXCEPT !.m.operation = action]
           stopped == [asked EXCEPT !.m.desired = "stopped"]
           wanted == [asked EXCEPT !.m.desired = "running"]
<1>1. s \in Services
  BY DEF Sound, Tells
<1>2. asked \in Services /\ stopped \in Services /\ wanted \in Services
  BY <1>1 DEF Services, Managers, Actions
<1> DEFINE Like(r) ==
             /\ r.game = s.game /\ r.dash = s.dash
             /\ r.m.operation = action /\ r.m.child = s.m.child /\ r.m.state = s.m.state
             /\ r.m.startupTimer = s.m.startupTimer /\ r.m.killTimer = s.m.killTimer
             /\ r.m.dashboard = s.m.dashboard /\ r.m.dashboardPort = s.m.dashboardPort
<1>3. Like(asked) /\ Like(stopped) /\ Like(wanted)
  <2>1. Like(asked)
    BY <1>1 DEF Services, Managers
  <2>2. Like(stopped)
    BY <1>1 DEF Services, Managers
  <2>3. Like(wanted)
    BY <1>1 DEF Services, Managers
  <2> QED BY <2>1, <2>2, <2>3
<1>4. stopped.m.desired = "stopped" /\ wanted.m.desired = "running" /\ asked.m.desired = s.m.desired
  BY <1>1 DEF Services, Managers
<1>5. Knows(asked) /\ Knows(stopped) /\ Knows(wanted)
  BY <1>3 DEF Sound, Knows
<1>6. CASE ~Accepts(s, action)
  BY <1>6 DEF Control
<1>7. CASE Accepts(s, action) /\ action = "start"
  <2>1. Tells(asked)
    BY <1>2, <1>3, <1>4, <1>7 DEF Sound, Tells, Accepts
  <2>2. Control(s, action) = StartChild(asked)
    BY <1>7 DEF Control
  <2> QED BY <1>5, <2>1, <2>2, StartChildSound
<1>8. CASE Accepts(s, action) /\ action = "stop"
  <2>1. Tells(stopped)
    BY <1>2, <1>3, <1>4 DEF Sound, Tells
  <2>2. Control(s, action) = StopChild(stopped)
    BY <1>8 DEF Control
  <2>3. Sound(stopped) /\ stopped.m.desired # "running"
    BY <1>4, <1>5, <2>1 DEF Sound
  <2> HIDE DEF stopped
  <2> QED BY <2>2, <2>3, StopChildSound
<1>9. CASE Accepts(s, action) /\ action = "restart"
  <2>1. Tells(wanted)
    BY <1>2, <1>3, <1>4, <1>9 DEF Sound, Tells
  <2>2. Control(s, action) = IF s.m.child THEN StopChild(wanted) ELSE StartChild(wanted)
    BY <1>9 DEF Control
  <2> QED BY <1>3, <1>5, <1>9, <2>1, <2>2, StartChildSound, StopChildSound DEF Sound
<1> QED BY <1>6, <1>7, <1>8, <1>9 DEF Actions

LEMMA FinishCloseSound ==
  ASSUME NEW s, Sound(s)
  PROVE  Sound(FinishClose(s))
<1>1. s \in Services
  BY DEF Sound, Tells
<1>2. CASE ~s.m.closing \/ s.m.child
  BY <1>2 DEF FinishClose
<1>3. CASE ~(~s.m.closing \/ s.m.child) /\ ~s.m.dashboard
  <2> DEFINE r == [s EXCEPT !.m.listening = FALSE]
  <2>1. r \in Services
    BY <1>1 DEF Services, Managers
  <2>2. /\ r.game = s.game /\ r.dash = s.dash /\ r.m.child = s.m.child /\ r.m.state = s.m.state
        /\ r.m.startupTimer = s.m.startupTimer /\ r.m.killTimer = s.m.killTimer
        /\ r.m.desired = s.m.desired /\ r.m.operation = s.m.operation
        /\ r.m.dashboard = s.m.dashboard /\ r.m.dashboardPort = s.m.dashboardPort
    BY <1>1 DEF Services, Managers
  <2>3. FinishClose(s) = r
    BY <1>3 DEF FinishClose
  <2> HIDE DEF r
  <2> QED BY <2>1, <2>2, <2>3 DEF Sound, Tells, Knows
<1>4. CASE ~(~s.m.closing \/ s.m.child) /\ s.m.dashboard /\ s.m.dashboardStopping
  BY <1>4 DEF FinishClose
<1>5. CASE ~(~s.m.closing \/ s.m.child) /\ s.m.dashboard /\ ~s.m.dashboardStopping
  <2> DEFINE r == [s EXCEPT !.m.dashboardStopping = TRUE]
             message == [op |-> "shutdown"]
  <2>1. r \in Services
    BY <1>1 DEF Services, Managers
  <2>2. /\ r.game = s.game /\ r.dash = s.dash /\ r.m.child = s.m.child /\ r.m.state = s.m.state
        /\ r.m.startupTimer = s.m.startupTimer /\ r.m.killTimer = s.m.killTimer
        /\ r.m.desired = s.m.desired /\ r.m.operation = s.m.operation
        /\ r.m.dashboard = s.m.dashboard /\ r.m.dashboardPort = s.m.dashboardPort
    BY <1>1 DEF Services, Managers
  <2>3. FinishClose(s) = Send(r, message)
    BY <1>5 DEF FinishClose
  <2>4. message \in Said /\ message.op # "state"
    BY DEF Said
  <2> HIDE DEF r, message
  <2>5. Tells(r) /\ Knows(r)
    BY <2>1, <2>2 DEF Sound, Tells, Knows
  <2> QED BY <2>3, <2>4, <2>5, SendTells DEF Sound
<1> QED BY <1>2, <1>3, <1>4, <1>5

-----------------------------------------------------------------------------
(* The steps.                                                               *)

LEMMA BecomesSound ==
  ASSUME NEW s, Sound(s), Becomes(s)
  PROVE  /\ Sound(Service')
         /\ m' \in Managers /\ game' \in Games /\ dash' \in Dashboards
<1>1. s \in Services
  BY DEF Sound, Tells
<1>2. Service' = s
  BY <1>1 DEF Becomes, Service, Services
<1> QED BY <1>1, <1>2 DEF Becomes, Services

LEMMA ServiceFacts ==
  ASSUME TypeOK
  PROVE  /\ Service \in Services
         /\ Service.m = m /\ Service.game = game /\ Service.dash = dash
         /\ m \in Managers /\ game \in Games /\ dash \in Dashboards
BY DEF TypeOK, Service, Services

LEMMA StartedSound == Sound(Started)
<1> DEFINE s == [
    m |-> [state |-> "stopped", child |-> FALSE, desired |-> "running", operation |-> "start",
           startupFailed |-> FALSE, closing |-> FALSE, startupTimer |-> FALSE, killTimer |-> FALSE,
           queued |-> <<>>, dashboard |-> TRUE, dashboardPort |-> FALSE,
           dashboardStopping |-> FALSE, listening |-> TRUE],
    game |-> [proc |-> "none", ready |-> FALSE, shutdown |-> FALSE],
    dash |-> [proc |-> "booting", ready |-> FALSE, view |-> "starting", busy |-> None,
              persistence |-> TRUE, in |-> <<>>, out |-> <<>>]]
<1>1. s.m \in Managers
  BY DEF Managers, States, Actions
<1>2. s.game \in Games
  BY DEF Games
<1>3. s.dash \in Dashboards
  BY DEF Dashboards, States
<1>4. s \in Services
  BY <1>1, <1>2, <1>3 DEF Services
<1>5. Tells(s)
  BY <1>4 DEF Tells
<1>6. Started = StartChild(s) /\ ~s.m.child /\ ~s.m.closing
  BY DEF Started
<1> HIDE DEF s
<1> QED BY <1>5, <1>6, StartChildSound

\* A step of the manager only depends on the state s that it makes.
LEMMA ManagerSound ==
  ASSUME TypeOK, Sound(Service), Manager
  PROVE  /\ Sound(Service')
         /\ m' \in Managers /\ game' \in Games /\ dash' \in Dashboards
         /\ Quiet
<1> DEFINE Goal == /\ Sound(Service')
                   /\ m' \in Managers /\ game' \in Games /\ dash' \in Dashboards
<1>1. /\ Service \in Services
      /\ Service.m = m /\ Service.game = game /\ Service.dash = dash
      /\ m \in Managers /\ game \in Games /\ dash \in Dashboards
  BY ServiceFacts
<1>2. Tells(Service) /\ Knows(Service)
  BY DEF Sound
<1> DEFINE Alike(r) ==
      /\ r \in Services /\ r.m.child = m.child /\ r.m.state = m.state
      /\ r.m.dashboard = m.dashboard /\ r.m.dashboardPort = m.dashboardPort
      /\ r.game.proc = game.proc /\ r.dash.in = dash.in /\ r.dash.view = dash.view
<1>3. ASSUME NEW r, Alike(r),
             r.m.startupTimer => m.startupTimer, r.m.killTimer => m.killTimer,
             r.m.desired = "stopped" \/ (r.m.desired = m.desired /\ r.m.operation = m.operation)
      PROVE  Sound(r)
  BY <1>1, <1>2, <1>3 DEF Sound, Tells, Knows
<1>4. CASE QueuedControl
  <2> DEFINE r == [Service EXCEPT !.m.queued = Tail(@)]
  <2>1. Tail(m.queued) \in Seq(Actions) /\ Head(m.queued) \in Actions
    BY <1>1, <1>4 DEF QueuedControl, Managers
  <2>2. /\ Alike(r) /\ r.m.startupTimer = m.startupTimer /\ r.m.killTimer = m.killTimer
        /\ r.m.desired = m.desired /\ r.m.operation = m.operation
    BY <1>1, <2>1 DEF Services, Managers
  <2>3. Becomes(Control(r, Head(m.queued))) /\ Quiet
    BY <1>1, <1>4 DEF QueuedControl
  <2> HIDE DEF r
  <2>4. Sound(r)
    BY <1>3, <2>2
  <2> QED BY <2>1, <2>3, <2>4, ControlSound, BecomesSound
<1>5. CASE SharedControl
  <2> DEFINE asked == Head(dash.out)
             r == [Service EXCEPT !.dash.out = Tail(@)]
             done == IF m.state \in {"starting", "stopping"} THEN r ELSE Control(r, asked.action)
             message == [op |-> "result", slot |-> asked.slot]
  <2>1. Tail(dash.out) \in Seq(Asked) /\ asked \in Asked
    BY <1>1, <1>5 DEF SharedControl, Dashboards
  <2>2. /\ Alike(r) /\ r.m.startupTimer = m.startupTimer /\ r.m.killTimer = m.killTimer
        /\ r.m.desired = m.desired /\ r.m.operation = m.operation
    BY <1>1, <2>1 DEF Services, Dashboards
  <2>3. Becomes(IF asked.slot = None THEN done ELSE Send(done, message)) /\ Quiet
    BY <1>1, <1>5 DEF SharedControl
  <2>4. asked.action \in Actions /\ (asked.slot # None => message \in Said)
    BY <2>1 DEF Asked, Said
  <2>5. message.op # "state"
    OBVIOUS
  <2> HIDE DEF r, message, asked
  <2>6. Sound(r)
    BY <1>3, <2>2
  <2>7. Sound(done)
    BY <2>4, <2>6, ControlSound
  <2> HIDE DEF done
  <2>8. asked.slot # None => Sound(Send(done, message))
    BY <2>4, <2>5, <2>7, SendTells DEF Sound
  <2> QED BY <2>3, <2>7, <2>8, BecomesSound
<1>6. CASE GameReady
  <2> DEFINE r == [Service EXCEPT !.game.ready = FALSE]
             u == [r EXCEPT !.m.state = "running", !.m.startupTimer = FALSE]
  <2>1. /\ Alike(r) /\ r.m = m
    BY <1>1 DEF Services, Games
  <2>2. Becomes(IF m.state # "starting" THEN r ELSE PublishGameState(u)) /\ Quiet
    BY <1>6 DEF GameReady
  <2> HIDE DEF r
  <2>3. /\ u \in Services /\ u.m.child = m.child /\ u.m.state = "running" /\ ~u.m.startupTimer
        /\ u.m.killTimer = m.killTimer /\ u.game.proc = game.proc
        /\ u.m.dashboard = m.dashboard /\ u.m.dashboardPort = m.dashboardPort
    <3> DEFINE n == [m EXCEPT !.state = "running", !.startupTimer = FALSE]
    <3>1. /\ n \in Managers /\ n.child = m.child /\ n.state = "running" /\ ~n.startupTimer
          /\ n.killTimer = m.killTimer
          /\ n.dashboard = m.dashboard /\ n.dashboardPort = m.dashboardPort
      BY <1>1 DEF Managers, States
    <3>2. r \in Services /\ r.m = m /\ r.game.proc = game.proc
      BY <2>1
    <3>3. u = [r EXCEPT !.m = n]
      BY <3>2 DEF Services
    <3> HIDE DEF n, u
    <3> QED BY <3>1, <3>2, <3>3 DEF Services
  <2> HIDE DEF u
  <2>4. Sound(r)
    BY <1>3, <2>1
  <2>5. m.state = "starting" => Tells(u)
    BY <1>1, <1>2, <2>3 DEF Tells
  <2> QED BY <2>2, <2>4, <2>5, PublishSound, BecomesSound
<1>7. CASE StartupTimeout
  <2> DEFINE r == [Service EXCEPT !.m.startupTimer = FALSE, !.m.startupFailed = TRUE, !.m.desired = "stopped"]
  <2>1. /\ Alike(r) /\ ~r.m.startupTimer /\ r.m.killTimer = m.killTimer /\ r.m.desired = "stopped"
    BY <1>1 DEF Services, Managers
  <2>2. Becomes(StopChild(r)) /\ Quiet
    BY <1>7 DEF StartupTimeout
  <2> HIDE DEF r
  <2>3. Sound(r)
    BY <1>3, <2>1
  <2> QED BY <2>1, <2>2, <2>3, StopChildSound, BecomesSound
<1>8. CASE KillTimeout
  <2> DEFINE r == [Service EXCEPT !.m.killTimer = FALSE,
                                  !.game.proc = IF @ = "failed" THEN "failed" ELSE "dead"]
  <2>1. /\ r \in Services /\ r.game.proc \in {"dead", "failed"} /\ ~r.m.killTimer
        /\ r.m.child = m.child /\ r.m.state = m.state /\ r.m.startupTimer = m.startupTimer
        /\ r.m.desired = m.desired /\ r.m.operation = m.operation
        /\ r.m.dashboard = m.dashboard /\ r.m.dashboardPort = m.dashboardPort /\ r.dash = dash
    BY <1>1 DEF Services, Managers, Games
  <2>2. Becomes(r) /\ Quiet /\ m.killTimer
    BY <1>8 DEF KillTimeout
  <2> HIDE DEF r
  <2>3. Sound(r)
    BY <1>1, <1>2, <2>1, <2>2 DEF Sound, Tells, Knows
  <2> QED BY <2>2, <2>3, BecomesSound
<1>9. CASE GameExit
  <2> DEFINE planned == m.state = "stopping" /\ ~m.startupFailed
             end == IF planned THEN "stopped" ELSE "crashed"
             n == [m EXCEPT !.child = FALSE, !.startupTimer = FALSE, !.killTimer = FALSE, !.state = end]
             g == [proc |-> "none", ready |-> FALSE, shutdown |-> FALSE]
             r == [Service EXCEPT !.m = n, !.game = g]
             u == PublishGameState(r)
  <2>10. end \in {"stopped", "crashed"} /\ end \in States
    BY DEF States
  <2>11. /\ n \in Managers /\ ~n.child /\ ~n.startupTimer /\ ~n.killTimer
         /\ n.state \in {"stopped", "crashed"}
         /\ n.dashboard = m.dashboard /\ n.dashboardPort = m.dashboardPort
    <3> HIDE DEF end
    <3> QED BY <1>1, <2>10 DEF Managers
  <2>12. g \in Games /\ g.proc = "none"
    BY DEF Games
  <2>2. /\ Becomes(IF m.closing THEN FinishClose(u)
                   ELSE IF m.desired = "running" /\ planned THEN StartChild(u) ELSE u)
        /\ Quiet
    BY <1>9 DEF GameExit
  <2> HIDE DEF n, g
  <2>1. /\ r \in Services /\ ~r.m.child /\ ~r.m.startupTimer /\ ~r.m.killTimer
        /\ r.m.state \in {"stopped", "crashed"} /\ r.game.proc = "none"
        /\ r.m.dashboard = m.dashboard /\ r.m.dashboardPort = m.dashboardPort
    BY <1>1, <2>11, <2>12 DEF Services
  <2> HIDE DEF r
  <2>3. Tells(r)
    BY <1>2, <1>1, <2>1 DEF Tells
  <2>4. Sound(u)
    BY <2>3, PublishSound
  <2> HIDE DEF u
  <2> QED BY <2>2, <2>4, FinishCloseSound, StartChildSound, BecomesSound DEF Sound
<1>10. CASE DashboardReady
  <2> DEFINE r == [Service EXCEPT !.dash.ready = FALSE, !.m.dashboardPort = TRUE]
  <2>1. /\ r \in Services /\ r.game = game
        /\ r.m.child = m.child /\ r.m.state = m.state /\ r.m.startupTimer = m.startupTimer
        /\ r.m.killTimer = m.killTimer
        /\ r.m.desired = m.desired /\ r.m.operation = m.operation /\ r.m.dashboard = m.dashboard
    BY <1>1 DEF Services, Managers, Dashboards
  <2>2. Becomes(PublishGameState(r)) /\ Quiet /\ m.dashboard
    BY <1>10 DEF DashboardReady
  <2> HIDE DEF r
  <2>3. Tells(r)
    BY <1>1, <1>2, <2>1, <2>2 DEF Tells
  <2> QED BY <2>2, <2>3, PublishSound, BecomesSound
<1>11. CASE DashboardKill
  <2> DEFINE r == [Service EXCEPT !.dash.proc = "dead"]
  <2>1. Alike(r) /\ r.m = m
    BY <1>1 DEF Services, Dashboards
  <2>2. Becomes(r) /\ Quiet
    BY <1>1, <1>11 DEF DashboardKill, Becomes, Quiet, Services
  <2> HIDE DEF r
  <2>3. Sound(r)
    BY <1>3, <2>1
  <2> QED BY <2>2, <2>3, BecomesSound
<1>12. CASE DashboardExit
  <2> DEFINE n == [m EXCEPT !.dashboard = FALSE, !.dashboardPort = FALSE]
             d == [dash EXCEPT !.proc = "none", !.ready = FALSE, !.busy = None, !.in = <<>>, !.out = <<>>]
             r == [Service EXCEPT !.m = n, !.dash = d]
  <2>1. /\ n \in Managers
        /\ n.child = m.child /\ n.state = m.state /\ n.startupTimer = m.startupTimer
        /\ n.killTimer = m.killTimer
        /\ n.desired = m.desired /\ n.operation = m.operation /\ ~n.dashboardPort
    BY <1>1 DEF Managers
  <2>2. d \in Dashboards
    <3>1. <<>> \in Seq(Said) /\ <<>> \in Seq(Asked) /\ None \in Slots \cup {None}
      OBVIOUS
    <3> QED BY <1>1, <3>1 DEF Dashboards
  <2>3. Becomes(FinishClose(r)) /\ Quiet
    BY <1>12 DEF DashboardExit
  <2> HIDE DEF n, d
  <2>4. r \in Services /\ r.m = n /\ r.game = game
    BY <1>1, <2>1, <2>2 DEF Services
  <2> HIDE DEF r
  <2>5. Sound(r)
    BY <1>1, <1>2, <2>1, <2>4 DEF Sound, Tells, Knows
  <2> QED BY <2>3, <2>5, FinishCloseSound, BecomesSound
<1> QED BY <1>4, <1>5, <1>6, <1>7, <1>8, <1>9, <1>10, <1>11, <1>12 DEF Manager

\* The other processes leave the manager alone, and the state it told last.
LEMMA ProcessSound ==
  ASSUME TypeOK, Sound(Service), m' \in Managers, game' \in Games, dash' \in Dashboards,
         m'.child = m.child, m'.state = m.state, m'.startupTimer = m.startupTimer,
         m'.killTimer = m.killTimer, m'.desired \in {m.desired, "stopped"},
         m'.operation = m.operation,
         m'.dashboard = m.dashboard, m'.dashboardPort = m.dashboardPort,
         game'.proc = "none" <=> game.proc = "none",
         dash'.in = dash.in, dash'.view = dash.view
  PROVE  Sound(Service')
<1> DEFINE r == [m |-> m', game |-> game', dash |-> dash']
<1>1. Service' = r
  BY DEF Service
<1>2. r \in Services /\ r.m = m' /\ r.game = game' /\ r.dash = dash'
  BY DEF Services
<1> HIDE DEF r
<1>3. Tells(r) /\ Knows(r)
  BY <1>2, ServiceFacts DEF Sound, Tells, Knows
<1> QED BY <1>1, <1>3 DEF Sound

\* onManagedMessage: reading a message moves all others one place.
LEMMA DashboardReceivesSound ==
  ASSUME TypeOK, Sound(Service), DashboardReceives
  PROVE  Sound(Service') /\ dash' \in Dashboards
<1> DEFINE message == Head(dash.in)
           r == [m |-> m', game |-> game', dash |-> dash']
<1>1. m' = m /\ game' = game /\ dash.in # <<>>
  BY DEF DashboardReceives
<1>2. dash \in Dashboards /\ m \in Managers /\ game \in Games /\ dash.in \in Seq(Said)
  BY DEF TypeOK, Dashboards
<1>3. /\ message \in Said /\ Tail(dash.in) \in Seq(Said)
      /\ message.op \in {"state", "result", "shutdown"} /\ (message.op = "state" => message.state \in States)
  BY <1>1, <1>2 DEF Said
<1>4. /\ dash' \in Dashboards /\ dash'.in = Tail(dash.in)
      /\ dash'.view = IF message.op = "state" THEN message.state ELSE dash.view
  <2> DEFINE read == [dash EXCEPT !.in = Tail(@)]
  <2>1. read \in Dashboards /\ read.in = Tail(dash.in) /\ read.view = dash.view
    BY <1>2, <1>3 DEF Dashboards
  <2>2. dash' = CASE message.op = "state" -> [read EXCEPT !.view = message.state]
                  [] message.op = "result" ->
                       IF message.slot = dash.busy THEN [read EXCEPT !.busy = None] ELSE read
                  [] message.op = "shutdown" -> [read EXCEPT !.proc = "leaving"]
    BY DEF DashboardReceives
  <2> HIDE DEF read, message
  <2>3. CASE message.op = "state"
    <3>1. dash' = [read EXCEPT !.view = message.state]
      BY <2>2, <2>3
    <3> QED BY <1>3, <2>1, <2>3, <3>1 DEF Dashboards
  <2>4. CASE message.op = "result"
    <3>1. dash' = [read EXCEPT !.busy = None] \/ dash' = read
      BY <2>2, <2>4
    <3> QED BY <2>1, <2>4, <3>1 DEF Dashboards
  <2>5. CASE message.op = "shutdown"
    <3>1. dash' = [read EXCEPT !.proc = "leaving"]
      BY <2>2, <2>5
    <3> QED BY <2>1, <2>5, <3>1 DEF Dashboards
  <2> QED BY <1>3, <2>3, <2>4, <2>5
<1>5. /\ Len(dash.in) \in Nat \ {0} /\ Len(dash'.in) = Len(dash.in) - 1
      /\ dash.in[1] = message
      /\ \A i \in 1..Len(dash'.in) : dash'.in[i] = dash.in[i + 1]
  BY <1>1, <1>2, <1>4
<1>6. r \in Services /\ r.m = m /\ r.game = game /\ r.dash = dash'
  BY <1>1, <1>2, <1>4 DEF Services
<1>7. Tells(r)
  <2> HIDE DEF r
  <2> QED BY <1>6, ServiceFacts DEF Sound, Tells
<1>8. ASSUME m.dashboardPort PROVE Knows(r)
  <2> HIDE DEF r, message
  <2>1. CASE dash.view = m.state /\ \A i \in 1..Len(dash.in) : dash.in[i].op # "state"
    <3>1. message.op # "state"
      BY <1>5, <2>1
    <3>2. \A i \in 1..Len(dash'.in) : dash'.in[i].op # "state"
      BY <1>5, <2>1
    <3> QED BY <1>4, <1>6, <2>1, <3>1, <3>2 DEF Knows
  <2>2. ASSUME NEW i \in 1..Len(dash.in), LastIs(dash.in, i, m.state), i = 1 PROVE Knows(r)
    <3>1. message.op = "state" /\ message.state = m.state
      BY <1>5, <2>2 DEF LastIs
    <3>2. \A j \in 1..Len(dash'.in) : dash'.in[j].op # "state"
      BY <1>5, <2>2 DEF LastIs
    <3> QED BY <1>4, <1>6, <3>1, <3>2 DEF Knows
  <2>3. ASSUME NEW i \in 1..Len(dash.in), LastIs(dash.in, i, m.state), i # 1 PROVE Knows(r)
    <3>1. i - 1 \in 1..Len(dash'.in) /\ dash'.in[i - 1] = dash.in[i]
      BY <1>5, <2>3
    <3>2. \A j \in 1..Len(dash'.in) : j > i - 1 => dash'.in[j].op # "state"
      BY <1>5, <2>3 DEF LastIs
    <3>3. LastIs(dash'.in, i - 1, m.state)
      BY <2>3, <3>1, <3>2 DEF LastIs
    <3> QED BY <1>6, <3>1, <3>3 DEF Knows
  <2>4. \/ dash.view = m.state /\ \A i \in 1..Len(dash.in) : dash.in[i].op # "state"
        \/ \E i \in 1..Len(dash.in) : LastIs(dash.in, i, m.state)
    BY <1>8, ServiceFacts DEF Sound, Knows
  <2> QED BY <2>1, <2>2, <2>3, <2>4
<1>9. ~m.dashboardPort => Knows(r)
  BY <1>6 DEF Knows
<1>10. Service' = r
  BY DEF Service
<1> QED BY <1>4, <1>7, <1>8, <1>9, <1>10 DEF Sound

\* The slot that SkipNext takes is one of those to come.
LEMMA MinOfUpcoming ==
  ASSUME Upcoming # {}
  PROVE  Min(Upcoming) \in Upcoming
<1>1. Upcoming \in SUBSET Nat
  <2>1. \A t \in Slots : t \in Nat
    BY SlotAssumption
  <2>2. \A t \in Upcoming : t \in Slots
    BY DEF Upcoming
  <2> QED BY <2>1, <2>2
<1>2. \E t \in Upcoming : \A u \in Upcoming : t =< u
  BY <1>1, SmallestOfSet
<1> QED BY <1>2 DEF Min

LEMMA InitIInv == Init => IInv
<1> SUFFICES ASSUME Init PROVE IInv
  OBVIOUS
<1>1. Service = Started
  <2>1. Started \in Services
    BY StartedSound DEF Sound, Tells
  <2> QED BY <2>1 DEF Init, Service, Services
<1>2. Sound(Service)
  BY <1>1, StartedSound
<1>3. m \in Managers /\ game \in Games /\ dash \in Dashboards
  BY StartedSound DEF Init, Sound, Tells, Services
<1>4. told = [requests |-> 0, faults |-> 0, served |-> [t \in Slots |-> 0]] /\ file = {} /\ now = 0
  BY DEF Init
<1>5. TypeOK
  BY <1>3, <1>4, SlotAssumption DEF TypeOK
<1>6. ServedIsClaimed
  BY <1>4 DEF ServedIsClaimed
<1> QED BY <1>2, <1>5, <1>6 DEF IInv

\* What the two counters of the model leave of told.
LEMMA CountersServe ==
  ASSUME TypeOK, Request \/ Fault
  PROVE  /\ told' \in [requests : 0..MaxRequests, faults : 0..MaxFaults, served : [Slots -> Nat]]
         /\ told'.served = told.served
BY SlotAssumption DEF TypeOK, Request, Fault

LEMMA ServeCounts ==
  ASSUME TypeOK, NEW t \in Slots, Serve(t)
  PROVE  /\ told' \in [requests : 0..MaxRequests, faults : 0..MaxFaults, served : [Slots -> Nat]]
         /\ told'.served[t] = told.served[t] + 1
         /\ \A u \in Slots : u # t => told'.served[u] = told.served[u]
BY DEF TypeOK, Serve

\* The schedule claims a slot in the step that serves it.
LEMMA ClaimServes ==
  ASSUME TypeOK, ServedIsClaimed, NEW t \in Upcoming, file' = file \cup {t},
         Serve(t) \/ UNCHANGED told
  PROVE  /\ told' \in [requests : 0..MaxRequests, faults : 0..MaxFaults, served : [Slots -> Nat]]
         /\ file' \subseteq Slots /\ ServedIsClaimed'
<1>1. t \in Slots /\ t \notin file
  BY DEF Upcoming
<1>2. told.served[t] = 0 /\ \A u \in Slots : told.served[u] \in Nat
  BY <1>1 DEF ServedIsClaimed, TypeOK
<1>3. file' \subseteq Slots
  BY <1>1 DEF TypeOK
<1>4. CASE Serve(t)
  BY <1>1, <1>2, <1>3, <1>4, ServeCounts DEF ServedIsClaimed
<1>5. CASE UNCHANGED told
  BY <1>1, <1>3, <1>5 DEF ServedIsClaimed, TypeOK
<1> QED BY <1>4, <1>5

\* Steps that leave what the schedule stored.
LEMMA StoredStays ==
  ASSUME TypeOK, ServedIsClaimed, UNCHANGED file, UNCHANGED told \/ Request \/ Fault
  PROVE  /\ told' \in [requests : 0..MaxRequests, faults : 0..MaxFaults, served : [Slots -> Nat]]
         /\ file' \subseteq Slots /\ ServedIsClaimed'
<1>1. told'.served = told.served
  BY CountersServe
<1>2. ServedIsClaimed'
  BY <1>1 DEF ServedIsClaimed
<1> QED BY <1>2, CountersServe DEF TypeOK

LEMMA NextIInv == IInv /\ [Next]_vars => IInv'
<1> SUFFICES ASSUME IInv, [Next]_vars PROVE IInv'
  OBVIOUS
<1>1. TypeOK /\ Sound(Service) /\ ServedIsClaimed
  BY DEF IInv
<1>2. /\ m \in Managers /\ game \in Games /\ dash \in Dashboards /\ now \in 0..MaxTime
  BY <1>1 DEF TypeOK
<1> DEFINE Told == told' \in [requests : 0..MaxRequests, faults : 0..MaxFaults, served : [Slots -> Nat]]
           Stored == Told /\ file' \subseteq Slots /\ ServedIsClaimed'
           Serving == Sound(Service') /\ m' \in Managers /\ game' \in Games /\ dash' \in Dashboards
<1>3. ASSUME Serving, Stored, now' \in 0..MaxTime PROVE IInv'
  BY <1>3 DEF IInv, TypeOK
<1>4. ASSUME Serving, UNCHANGED <<file, now>>, UNCHANGED told \/ Request \/ Fault PROVE IInv'
  BY <1>1, <1>2, <1>3, <1>4, StoredStays
<1>5. CASE UNCHANGED vars
  <2>1. Service' = Service
    BY <1>5 DEF vars, Service
  <2> QED BY <1>1, <1>2, <1>4, <1>5, <2>1 DEF vars
<1>6. CASE Manager
  BY <1>1, <1>4, <1>6, ManagerSound DEF Quiet
<1>7. CASE DashboardReceives
  BY <1>1, <1>2, <1>4, <1>7, DashboardReceivesSound DEF DashboardReceives
<1>8. ASSUME UNCHANGED <<m, dash>>, game' \in Games, game'.proc # "none", game.proc # "none"
      PROVE  Serving
  BY <1>1, <1>2, <1>8, ProcessSound
<1>9. CASE GameBoots \/ GameStops \/ GameLeaves
  <2>1. game' \in Games /\ game'.proc # "none" /\ game.proc # "none"
    BY <1>2, <1>9 DEF GameBoots, GameStops, GameLeaves, Games
  <2> QED BY <1>4, <1>8, <1>9, <2>1 DEF GameBoots, GameStops, GameLeaves
<1>10. CASE GameHangs \/ GameCrashes
  <2>1. game' \in Games /\ game'.proc # "none" /\ game.proc # "none"
    BY <1>2, <1>10 DEF GameHangs, GameCrashes, Games
  <2> QED BY <1>4, <1>8, <1>10, <2>1 DEF GameHangs, GameCrashes
<1>11. ASSUME UNCHANGED <<m, game>>, dash' \in Dashboards, dash'.in = dash.in, dash'.view = dash.view
       PROVE  Serving
  BY <1>1, <1>2, <1>11, ProcessSound
<1>12. CASE DashboardBoots \/ DashboardLeaves \/ ControlTimeout
  <2>1. dash' \in Dashboards /\ dash'.in = dash.in /\ dash'.view = dash.view
    BY <1>2, <1>12 DEF DashboardBoots, DashboardLeaves, ControlTimeout, Dashboards
  <2> QED BY <1>4, <1>11, <1>12, <2>1 DEF DashboardBoots, DashboardLeaves, ControlTimeout
<1>13. CASE DashboardSpawnFails \/ DashboardCrashes \/ ScheduleTickFails
  <2>1. dash' \in Dashboards /\ dash'.in = dash.in /\ dash'.view = dash.view
    BY <1>2, <1>13 DEF DashboardSpawnFails, DashboardCrashes, ScheduleTickFails, Dashboards
  <2> QED BY <1>4, <1>11, <1>13, <2>1 DEF DashboardSpawnFails, DashboardCrashes, ScheduleTickFails
<1>14. CASE ScheduleTick
  <2>1. now \in Upcoming /\ now \in Slots
    BY <1>14 DEF ScheduleTick, Upcoming
  <2>2. dash' \in Dashboards /\ dash'.in = dash.in /\ dash'.view = dash.view
    <3> DEFINE message == [action |-> "restart", slot |-> now]
    <3>1. message \in Asked
      BY <2>1 DEF Asked, Actions
    <3> HIDE DEF message
    <3>2. Append(dash.out, message) \in Seq(Asked)
      BY <1>2, <3>1 DEF Dashboards
    <3>3. dash' = [dash EXCEPT !.out = Append(dash.out, message), !.busy = now] \/ dash' = dash
      BY <1>14 DEF ScheduleTick, message
    <3> QED BY <1>2, <2>1, <3>2, <3>3 DEF Dashboards
  <2>3. Stored
    BY <1>1, <1>14, <2>1, ClaimServes DEF ScheduleTick
  <2> QED BY <1>2, <1>3, <1>11, <1>14, <2>2, <2>3 DEF ScheduleTick
<1>15. CASE SkipNext
  <2>1. Min(Upcoming) \in Upcoming
    BY <1>15, MinOfUpcoming DEF SkipNext
  <2>2. Stored
    BY <1>1, <1>15, <2>1, ClaimServes DEF SkipNext
  <2> QED BY <1>2, <1>3, <1>11, <1>15, <2>2 DEF SkipNext
<1>16. CASE TimePasses
  <2>1. now' \in 0..MaxTime
    BY <1>2, <1>16, SlotAssumption DEF TimePasses
  <2>2. Stored
    BY <1>1, <1>16, StoredStays DEF TimePasses
  <2> QED BY <1>2, <1>3, <1>11, <1>16, <2>1, <2>2 DEF TimePasses
<1>17. ASSUME NEW action \in Actions, HttpControl(action) PROVE IInv'
  <2>1. Append(m.queued, action) \in Seq(Actions)
    BY <1>2 DEF Managers
  <2>2. /\ m' \in Managers /\ m'.child = m.child /\ m'.state = m.state
        /\ m'.startupTimer = m.startupTimer /\ m'.killTimer = m.killTimer
        /\ m'.desired = m.desired /\ m'.operation = m.operation
        /\ m'.dashboard = m.dashboard /\ m'.dashboardPort = m.dashboardPort
    BY <1>2, <1>17, <2>1 DEF HttpControl, Managers
  <2>3. Serving
    BY <1>1, <1>2, <1>17, <2>2, ProcessSound DEF HttpControl
  <2> QED BY <1>4, <1>17, <2>3 DEF HttpControl
<1>18. ASSUME NEW action \in Actions, AdminControl(action) PROVE IInv'
  <2> DEFINE message == [action |-> action, slot |-> None]
  <2>1. message \in Asked
    BY DEF Asked
  <2> HIDE DEF message
  <2>2. Append(dash.out, message) \in Seq(Asked)
    BY <1>2, <2>1 DEF Dashboards
  <2>3. dash' = [dash EXCEPT !.out = Append(dash.out, message)]
    BY <1>18 DEF AdminControl, message
  <2>4. dash' \in Dashboards /\ dash'.in = dash.in /\ dash'.view = dash.view
    BY <1>2, <2>2, <2>3 DEF Dashboards
  <2> QED BY <1>4, <1>11, <1>18, <2>4 DEF AdminControl
<1>19. CASE Close
  <2> DEFINE r == [Service EXCEPT
       !.m.closing = TRUE, !.m.desired = "stopped", !.m.operation = "shutdown"]
  <2>1. /\ r \in Services /\ r.game = game /\ r.dash = dash
        /\ r.m.child = m.child /\ r.m.state = m.state
        /\ r.m.startupTimer = m.startupTimer /\ r.m.killTimer = m.killTimer
        /\ r.m.desired = "stopped"
        /\ r.m.dashboard = m.dashboard /\ r.m.dashboardPort = m.dashboardPort
    BY <1>1, ServiceFacts DEF Services, Managers
  <2>2. Becomes(FinishClose(StopChild(r))) /\ Quiet
    BY <1>19 DEF Close
  <2> HIDE DEF r
  <2>3. Sound(r)
    BY <1>1, <2>1, ServiceFacts DEF Sound, Tells, Knows
  <2>4. Sound(StopChild(r))
    BY <2>1, <2>3, StopChildSound
  <2> QED BY <1>4, <2>2, <2>4, FinishCloseSound, BecomesSound DEF Quiet
<1>20. CASE ServiceStarts
  BY <1>4, <1>20, StartedSound, BecomesSound DEF ServiceStarts
<1>21. CASE GameSpawnFails
  <2>1. /\ m' \in Managers /\ m'.child = m.child /\ m'.state = m.state
        /\ m'.startupTimer = m.startupTimer /\ m'.killTimer = m.killTimer
        /\ m'.desired = "stopped" /\ m'.operation = m.operation
        /\ m'.dashboard = m.dashboard /\ m'.dashboardPort = m.dashboardPort
    BY <1>2, <1>21 DEF GameSpawnFails, Managers
  <2>2. game' \in Games /\ game'.proc # "none" /\ game.proc # "none"
    BY <1>2, <1>21 DEF GameSpawnFails, Games
  <2>3. Serving
    BY <1>1, <1>2, <1>21, <2>1, <2>2, ProcessSound DEF GameSpawnFails
  <2> QED BY <1>4, <1>21, <2>3 DEF GameSpawnFails
<1> QED BY <1>5, <1>6, <1>7, <1>9, <1>10, <1>12, <1>13, <1>14, <1>15, <1>16, <1>17, <1>18, <1>19,
           <1>20, <1>21 DEF Next, Processes

LEMMA IInvHolds == Spec => []IInv
<1>1. IInv /\ [Next]_vars => IInv'
  BY NextIInv
<1> QED BY <1>1, InitIInv, PTL DEF Spec

\* The state the manager shows is that of its child, no late timer can stop a game that
\* runs, and only an order to restart is followed by a start.
THEOREM InvHolds == Spec => []Inv
<1>1. IInv => Inv
  BY SoundInv DEF IInv
<1> QED BY <1>1, IInvHolds, PTL

\* A dashboard with nothing left to read knows the state of the game.
THEOREM ViewCatchesUpHolds == Spec => []ViewCatchesUp
<1>1. IInv => ViewCatchesUp
  BY SoundInv DEF IInv
<1> QED BY <1>1, IInvHolds, PTL

\* A slot of the schedule is served once at most, through crashes and restarts.
THEOREM ServedOnceHolds == Spec => []ServedOnce
<1>1. IInv => ServedOnce
  BY DEF IInv, ServedIsClaimed, ServedOnce
<1> QED BY <1>1, IInvHolds, PTL
=============================================================================
