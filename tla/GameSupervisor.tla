---------------------------- MODULE GameSupervisor ----------------------------
(***************************************************************************)
(* The packaged server: a manager (server-supervisor.cjs) that runs the    *)
(* game and the dashboard as two child processes, and the dashboard's      *)
(* restart schedule (restartSchedule.ts), which asks the manager over IPC  *)
(* (managedRuntime.ts) to restart the game.                                *)
(*                                                                         *)
(* Each process sees the others only through messages, exits and timers.   *)
(* The game may hang, crash or be slow to start; the whole service may be  *)
(* killed, and is then started again with what the schedule stored.        *)
(***************************************************************************)
EXTENDS Integers, Sequences, FiniteSets, FiniteSetsExt

CONSTANTS
  None,
  Slots,     \* minutes at which the schedule restarts the game
  MaxTime,
  MaxRequests,  \* of admins
  MaxFaults     \* crashes, hangs, failed writes, restarts of the service

ASSUME SlotAssumption ==
  /\ MaxTime \in Nat /\ MaxRequests \in Nat /\ MaxFaults \in Nat
  /\ Slots \subseteq 0..MaxTime
  /\ None \notin Slots

VARIABLES
  m,     \* the manager
  game,  \* the process of the game
  dash,  \* the process of the dashboard, and its two channels with the manager
  file,  \* restart-schedule-state.json: the slots that are claimed
  now,   \* the minute
  told   \* requests and faults so far, how often a slot was served

vars == <<m, game, dash, file, now, told>>

Actions == {"start", "stop", "restart"}
States == {"stopped", "starting", "running", "stopping", "crashed"}

Asked == [action : Actions, slot : Slots \cup {None}]
Said == [op : {"state"}, state : States] \cup [op : {"result"}, slot : Slots] \cup [op : {"shutdown"}]

Managers == [
  state : States, child : BOOLEAN, desired : {"running", "stopped"},
  operation : Actions \cup {"shutdown"}, startupFailed : BOOLEAN, closing : BOOLEAN,
  startupTimer : BOOLEAN, killTimer : BOOLEAN,
  queued : Seq(Actions),      \* HTTP requests that were answered and wait 50 ms
  dashboard : BOOLEAN, dashboardPort : BOOLEAN,
  dashboardStopping : BOOLEAN, listening : BOOLEAN]

\* A child that "failed" was never spawned: it is known of, and will not exit.
Games == [proc : {"none", "booting", "up", "hung", "leaving", "dead", "failed"},
          ready : BOOLEAN, shutdown : BOOLEAN]

Dashboards == [
  proc : {"none", "booting", "up", "leaving", "dead", "failed"}, ready : BOOLEAN,
  view : States,             \* managedRuntime.gameState
  busy : Slots \cup {None},  \* RestartScheduler.busy: waits for the result
  persistence : BOOLEAN, in : Seq(Said), out : Seq(Asked)]

TypeOK ==
  /\ m \in Managers /\ game \in Games /\ dash \in Dashboards
  /\ file \subseteq Slots
  /\ now \in 0..MaxTime
  /\ told \in [requests : 0..MaxRequests, faults : 0..MaxFaults, served : [Slots -> Nat]]

-----------------------------------------------------------------------------
(* The manager.  A state s has m, game and dash.                            *)

Service == [m |-> m, game |-> game, dash |-> dash]

Becomes(s) == m' = s.m /\ game' = s.game /\ dash' = s.dash

Send(s, message) == IF s.m.dashboard THEN [s EXCEPT !.dash.in = Append(@, message)] ELSE s

\* Mutant: the dashboard is told only where the game is up or down.
SparingPublishGameState(s) ==
  IF s.m.state = "stopping" THEN s ELSE Send(s, [op |-> "state", state |-> s.m.state])

PublishGameState(s) == Send(s, [op |-> "state", state |-> s.m.state])

StartChild(s) ==
  IF s.m.child \/ s.m.closing THEN s
  ELSE PublishGameState([s EXCEPT
         !.m = [@ EXCEPT !.child = TRUE, !.desired = "running", !.state = "starting",
                         !.startupFailed = FALSE, !.startupTimer = TRUE],
         !.game = [proc |-> "booting", ready |-> FALSE, shutdown |-> FALSE]])

\* Mutant: the game is trusted to leave.
TrustingStopChild(s) ==
  IF ~s.m.child \/ s.m.state = "stopping" THEN s
  ELSE PublishGameState([s EXCEPT
         !.m.state = "stopping", !.m.startupTimer = FALSE, !.game.shutdown = TRUE])

StopChild(s) ==
  IF ~s.m.child \/ s.m.state = "stopping" THEN s
  ELSE PublishGameState([s EXCEPT
         !.m = [@ EXCEPT !.state = "stopping", !.startupTimer = FALSE, !.killTimer = TRUE],
         !.game.shutdown = TRUE])

Accepts(s, action) ==
  /\ ~s.m.closing
  /\ action = "start" => ~s.m.child
  /\ action = "stop" => s.m.child

\* Mutant: an order to stop leaves what an earlier restart wanted.
ForgetfulControl(s, action) ==
  LET asked == [s EXCEPT !.m.operation = action] IN
  IF ~Accepts(s, action) THEN s
  ELSE CASE action = "start" -> StartChild(asked)
         [] action = "stop" -> StopChild(asked)
         [] action = "restart" ->
              IF s.m.child THEN StopChild([asked EXCEPT !.m.desired = "running"])
              ELSE StartChild([asked EXCEPT !.m.desired = "running"])

\* control
Control(s, action) ==
  LET asked == [s EXCEPT !.m.operation = action] IN
  IF ~Accepts(s, action) THEN s
  ELSE CASE action = "start" -> StartChild(asked)
         [] action = "stop" -> StopChild([asked EXCEPT !.m.desired = "stopped"])
         [] action = "restart" ->
              IF s.m.child THEN StopChild([asked EXCEPT !.m.desired = "running"])
              ELSE StartChild([asked EXCEPT !.m.desired = "running"])

\* The game goes first, then the dashboard, then the HTTP server.
FinishClose(s) ==
  IF ~s.m.closing \/ s.m.child THEN s
  ELSE IF ~s.m.dashboard THEN [s EXCEPT !.m.listening = FALSE]
  ELSE IF s.m.dashboardStopping THEN s
  ELSE Send([s EXCEPT !.m.dashboardStopping = TRUE], [op |-> "shutdown"])

Started ==
  StartChild([
    m |-> [state |-> "stopped", child |-> FALSE, desired |-> "running", operation |-> "start",
           startupFailed |-> FALSE, closing |-> FALSE, startupTimer |-> FALSE, killTimer |-> FALSE,
           queued |-> <<>>, dashboard |-> TRUE, dashboardPort |-> FALSE,
           dashboardStopping |-> FALSE, listening |-> TRUE],
    game |-> [proc |-> "none", ready |-> FALSE, shutdown |-> FALSE],
    dash |-> [proc |-> "booting", ready |-> FALSE, view |-> "starting", busy |-> None,
              persistence |-> TRUE, in |-> <<>>, out |-> <<>>]])

Init ==
  /\ m = Started.m /\ game = Started.game /\ dash = Started.dash
  /\ file = {} /\ now = 0
  /\ told = [requests |-> 0, faults |-> 0, served |-> [t \in Slots |-> 0]]

Request == told.requests < MaxRequests /\ told' = [told EXCEPT !.requests = @ + 1]

Fault == told.faults < MaxFaults /\ told' = [told EXCEPT !.faults = @ + 1]

Quiet == UNCHANGED <<file, now, told>>

\* A request to the manager is checked, answered, and carried out 50 ms later.
HttpControl(action) ==
  /\ m.listening /\ m.state \notin {"starting", "stopping"} /\ Request
  /\ m' = [m EXCEPT !.queued = Append(@, action)]
  /\ UNCHANGED <<game, dash, file, now>>

QueuedControl ==
  /\ m.queued # <<>>
  /\ Becomes(Control([Service EXCEPT !.m.queued = Tail(@)], Head(m.queued)))
  /\ Quiet

\* skymp:control, from the dashboard; the schedule waits for the result.
SharedControl ==
  /\ m.dashboard /\ dash.out # <<>>
  /\ LET asked == Head(dash.out)
         s == [Service EXCEPT !.dash.out = Tail(@)]
         done == IF m.state \in {"starting", "stopping"} THEN s ELSE Control(s, asked.action)
     IN Becomes(IF asked.slot = None THEN done ELSE Send(done, [op |-> "result", slot |-> asked.slot]))
  /\ Quiet

GameReady ==
  /\ game.ready
  /\ LET s == [Service EXCEPT !.game.ready = FALSE]
     IN Becomes(IF m.state # "starting" THEN s
                ELSE PublishGameState([s EXCEPT !.m.state = "running", !.m.startupTimer = FALSE]))
  /\ Quiet

StartupTimeout ==
  /\ m.startupTimer
  /\ Becomes(StopChild([Service EXCEPT !.m.startupTimer = FALSE, !.m.startupFailed = TRUE, !.m.desired = "stopped"]))
  /\ Quiet

KillTimeout ==
  /\ m.killTimer
  /\ Becomes([Service EXCEPT !.m.killTimer = FALSE,
                             !.game.proc = IF @ = "failed" THEN "failed" ELSE "dead"])
  /\ Quiet

\* The process cannot be created: an error is reported, an exit never will be.
GameSpawnFails ==
  /\ game.proc = "booting" /\ Fault
  /\ game' = [game EXCEPT !.proc = "failed"]
  /\ m' = [m EXCEPT !.desired = "stopped"]
  /\ UNCHANGED <<dash, file, now>>

DashboardSpawnFails ==
  /\ dash.proc = "booting" /\ Fault
  /\ dash' = [dash EXCEPT !.proc = "failed"]
  /\ UNCHANGED <<m, game, file, now>>

GameExit ==
  /\ game.proc = "dead" /\ m.child
  /\ LET planned == m.state = "stopping" /\ ~m.startupFailed
         s == PublishGameState([Service EXCEPT
                !.m = [m EXCEPT !.child = FALSE, !.startupTimer = FALSE, !.killTimer = FALSE,
                                !.state = IF planned THEN "stopped" ELSE "crashed"],
                !.game = [proc |-> "none", ready |-> FALSE, shutdown |-> FALSE]])
     IN Becomes(IF m.closing THEN FinishClose(s)
                ELSE IF m.desired = "running" /\ planned THEN StartChild(s) ELSE s)
  /\ Quiet

DashboardReady ==
  /\ dash.ready /\ m.dashboard
  /\ Becomes(PublishGameState([Service EXCEPT !.dash.ready = FALSE, !.m.dashboardPort = TRUE]))
  /\ Quiet

\* It did not start in time, or it does not leave in time.
DashboardKill ==
  /\ dash.proc \notin {"none", "dead", "failed"} /\ (~m.dashboardPort \/ m.dashboardStopping)
  /\ dash' = [dash EXCEPT !.proc = "dead"]
  /\ UNCHANGED <<m, game, file, now, told>>

DashboardExit ==
  /\ dash.proc = "dead"
  /\ Becomes(FinishClose([Service EXCEPT
       !.m = [m EXCEPT !.dashboard = FALSE, !.dashboardPort = FALSE],
       !.dash = [dash EXCEPT !.proc = "none", !.ready = FALSE, !.busy = None, !.in = <<>>, !.out = <<>>]]))
  /\ Quiet

\* SIGINT or SIGTERM
Close ==
  /\ ~m.closing /\ m.listening
  /\ Becomes(FinishClose(StopChild([Service EXCEPT
       !.m.closing = TRUE, !.m.desired = "stopped", !.m.operation = "shutdown"])))
  /\ Quiet

-----------------------------------------------------------------------------
(* The game.                                                                *)

GameBoots ==
  /\ game.proc = "booting"
  /\ game' = [game EXCEPT !.proc = "up", !.ready = TRUE]
  /\ UNCHANGED <<m, dash, file, now, told>>

GameHangs ==
  /\ game.proc \in {"booting", "up", "leaving"} /\ Fault
  /\ game' = [game EXCEPT !.proc = "hung"]
  /\ UNCHANGED <<m, dash, file, now>>

GameCrashes ==
  /\ game.proc \in {"booting", "up", "leaving"} /\ Fault
  /\ game' = [game EXCEPT !.proc = "dead"]
  /\ UNCHANGED <<m, dash, file, now>>

\* stop: what listens to SIGTERM has 1500 ms.
GameStops ==
  /\ game.shutdown /\ game.proc \in {"booting", "up"}
  /\ game' = [game EXCEPT !.proc = "leaving", !.shutdown = FALSE]
  /\ UNCHANGED <<m, dash, file, now, told>>

GameLeaves ==
  /\ game.proc = "leaving"
  /\ game' = [game EXCEPT !.proc = "dead"]
  /\ UNCHANGED <<m, dash, file, now, told>>

-----------------------------------------------------------------------------
(* The dashboard and its schedule.                                          *)

DashboardBoots ==
  /\ dash.proc = "booting"
  /\ dash' = [dash EXCEPT !.proc = "up", !.ready = TRUE]
  /\ UNCHANGED <<m, game, file, now, told>>

DashboardCrashes ==
  /\ dash.proc \in {"booting", "up"} /\ Fault
  /\ dash' = [dash EXCEPT !.proc = "dead"]
  /\ UNCHANGED <<m, game, file, now>>

\* onManagedMessage: the state of the game, a result, the order to leave.
DashboardReceives ==
  /\ dash.proc = "up" /\ dash.in # <<>>
  /\ LET message == Head(dash.in)
         read == [dash EXCEPT !.in = Tail(@)]
     IN dash' = CASE message.op = "state" -> [read EXCEPT !.view = message.state]
                  [] message.op = "result" ->
                       IF message.slot = dash.busy THEN [read EXCEPT !.busy = None] ELSE read
                  [] message.op = "shutdown" -> [read EXCEPT !.proc = "leaving"]
  /\ UNCHANGED <<m, game, file, now, told>>

DashboardLeaves ==
  /\ dash.proc = "leaving"
  /\ dash' = [dash EXCEPT !.proc = "dead"]
  /\ UNCHANGED <<m, game, file, now, told>>

\* requestManagedControl from the page of the server.
AdminControl(action) ==
  /\ dash.proc = "up" /\ Request
  /\ dash' = [dash EXCEPT !.out = Append(@, [action |-> action, slot |-> None])]
  /\ UNCHANGED <<m, game, file, now>>

Upcoming == {t \in Slots \ file : t >= now}

Serve(t) == told' = [told EXCEPT !.served[t] = @ + 1]

\* Mutant: the slot is claimed after the restart was acknowledged.
LateScheduleTick ==
  /\ dash.proc = "up" /\ dash.busy = None /\ dash.persistence /\ now \in Upcoming
  /\ IF dash.view = "running"
     THEN /\ dash' = [dash EXCEPT !.out = Append(@, [action |-> "restart", slot |-> now]), !.busy = now]
          /\ Serve(now) /\ UNCHANGED file
     ELSE UNCHANGED <<dash, told>> /\ file' = file \cup {now}
  /\ UNCHANGED <<m, game, now>>

\* tick in the minute of a slot: it is claimed, then the game is restarted if it runs.
ScheduleTick ==
  /\ dash.proc = "up" /\ dash.busy = None /\ dash.persistence /\ now \in Upcoming
  /\ file' = file \cup {now}
  /\ IF dash.view = "running"
     THEN /\ dash' = [dash EXCEPT !.out = Append(@, [action |-> "restart", slot |-> now]), !.busy = now]
          /\ Serve(now)
     ELSE UNCHANGED <<dash, told>>
  /\ UNCHANGED <<m, game, now>>

\* The claim cannot be stored: the schedule does nothing any more.
ScheduleTickFails ==
  /\ dash.proc = "up" /\ dash.busy = None /\ dash.persistence /\ now \in Upcoming /\ Fault
  /\ dash' = [dash EXCEPT !.persistence = FALSE]
  /\ UNCHANGED <<m, game, file, now>>

\* The manager did not acknowledge within five seconds.
ControlTimeout ==
  /\ dash.proc = "up" /\ dash.busy # None
  /\ dash' = [dash EXCEPT !.busy = None]
  /\ UNCHANGED <<m, game, file, now, told>>

\* skip: the slot an admin saw as the next one.
SkipNext ==
  /\ dash.proc = "up" /\ dash.busy = None /\ dash.persistence /\ Upcoming # {}
  /\ file' = file \cup {Min(Upcoming)}
  /\ Serve(Min(Upcoming))
  /\ UNCHANGED <<m, game, dash, now>>

TimePasses ==
  /\ now < MaxTime
  /\ now' = now + 1
  /\ UNCHANGED <<m, game, dash, file, told>>

\* The whole service is killed, or has ended, and is started again.
ServiceStarts ==
  /\ Fault
  /\ Becomes(Started)
  /\ UNCHANGED <<file, now>>

Manager ==
  \/ QueuedControl \/ SharedControl \/ GameReady \/ StartupTimeout \/ KillTimeout \/ GameExit
  \/ DashboardReady \/ DashboardKill \/ DashboardExit

Processes ==
  \/ GameBoots \/ GameStops \/ GameLeaves
  \/ DashboardBoots \/ DashboardReceives \/ DashboardLeaves \/ ControlTimeout

Next ==
  \/ Manager \/ Processes
  \/ ScheduleTick \/ ScheduleTickFails \/ SkipNext \/ TimePasses
  \/ \E action \in Actions : HttpControl(action) \/ AdminControl(action)
  \/ GameSpawnFails \/ DashboardSpawnFails
  \/ GameHangs \/ GameCrashes \/ DashboardCrashes \/ Close \/ ServiceStarts

Spec == Init /\ [][Next]_vars

\* The manager's event loop: its timers run out, messages and exits reach it.  Nothing is
\* asked of the two processes.
Fairness == WF_vars(Manager)

FairSpec == Spec /\ Fairness

-----------------------------------------------------------------------------
(* Properties.                                                              *)

\* server-supervisor.cjs: whatever order requests, timers, messages and exits come in, the
\* state tells whether there is a game, a late timeout can stop no game that runs, and only
\* the exit of a game that was told to restart is followed by a start.
StateTellsChild ==
  /\ m.child <=> m.state \in {"starting", "running", "stopping"}
  /\ m.child <=> game.proc # "none"
  /\ m.startupTimer => m.state = "starting"
  /\ m.killTimer => m.state = "stopping"
  /\ m.state = "stopping" /\ m.desired = "running" => m.operation = "restart"

Inv == TypeOK /\ StateTellsChild

\* managedRuntime.ts: what the dashboard and its schedule take for the state of the game is
\* late by what is under way, never wrong for good.
ViewCatchesUp ==
  (dash.proc = "up" /\ m.dashboardPort /\ dash.in = <<>>) => dash.view = m.state

\* restartSchedule.ts:125: a slot is served once at most, by a restart that was requested
\* or by an admin who skipped it, through crashes of the dashboard and of the service.
ServedOnce == \A t \in Slots : told.served[t] <= 1

InTransition == m.state \in {"starting", "stopping"}

\* server-supervisor.cjs: a game that starts or stops comes to an end of it, although it
\* may hang at any time, and a service that is told to close closes, unless a process of
\* theirs could not be created.
TransitionsEnd ==
  /\ InTransition ~> ~InTransition \/ game.proc = "failed"
  /\ m.closing ~> ~m.listening \/ ~m.closing \/ "failed" \in {game.proc, dash.proc}

\* Does not hold.  docs_vps_ports_and_process_control.md: the operator starts a game again
\* that is down.  One that could not be spawned (server-supervisor.cjs:153) leaves the
\* manager in the transition for ever, where it refuses orders.
FailedSpawnsEnd == game.proc = "failed" ~> ~InTransition

\* Does not hold.  restartSchedule.ts:113: the schedule shall "never start a stopped game".
ScheduleSparesStopped ==
  [][(dash.out # <<>> /\ Head(dash.out).slot # None /\ dash'.out = Tail(dash.out))
        => m.child \/ ~m'.child]_vars
=============================================================================
