---------------------------- MODULE ClientSession ----------------------------
(***************************************************************************)
(* The session of a game client: how it logs in, notices that it lost the  *)
(* server, connects again and ends (authService.ts, skympClient.ts,        *)
(* settingsService.ts, networkingService.ts, sessionEndClient.ts).         *)
(*                                                                         *)
(* One JavaScript thread runs the handlers of ticks, packets, menus and    *)
(* buttons; a record holds what they share.  Time is counted in units, by  *)
(* countdowns that stop at 0: None is a timer that is not set.             *)
(***************************************************************************)
EXTENDS Integers, FiniteSets, Optional

CONSTANTS
  Window,     \* reconnectWindowMs
  Delay,      \* reconnectDelayMs
  LoginTime,  \* reconnectLoginMs and maxLoggingDelay
  Beat,       \* between two pings
  PingTime,   \* how long a pong counts, and the watchdog waits
  ReachMenu,  \* reachMainMenuMs
  MaxPeerCalls \* questions to the master server at a time

Ends == {"ban", "other"}  \* the other kinds are treated alike
Notices == [kind : Ends, wasPlaying : BOOLEAN, acknowledged : BOOLEAN, expired : BOOLEAN]

ASSUME SessionAssumption ==
  /\ {Window, Delay, LoginTime, Beat, PingTime, ReachMenu} \subseteq Nat \ {0}
  /\ MaxPeerCalls \in Nat
  /\ None \notin Nat \cup {"dialog", "failed"} \cup Notices

VARIABLES
  c,      \* what the scripts and their storage hold
  link,   \* the native client: none, connecting, connected
  alive   \* the server still answers its pings

vars == <<c, link, alive>>

Countdown(n) == 0..n \cup {None}
Longest == IF Window > LoginTime THEN Window ELSE LoginTime

\* What the scripts and their storage hold.
Scripts == [
  \* sessionEndClient.ts
  notice : Notices \cup {None},
  menuLeft : Countdown(ReachMenu), playing : BOOLEAN, mainMenu : BOOLEAN, loading : BOOLEAN,
  until : Countdown(Longest), retry : Countdown(Delay),
  active : BOOLEAN, deadline : Countdown(PingTime), beat : Countdown(Beat),
  fresh : BOOLEAN, pings : SUBSET (0..PingTime),
  \* networkingService.ts: destroy is the tick callback of the current revision
  stopped : BOOLEAN, destroy : BOOLEAN,
  \* skympClient.ts, settingsService.ts
  stored : {None, "remote", "steam"}, establish : BOOLEAN, peerCalls : 0..MaxPeerCalls, cached : BOOLEAN,
  \* authService.ts
  authData : BOOLEAN, listening : BOOLEAN, gameplay : BOOLEAN, closeNext : BOOLEAN,
  login : Countdown(LoginTime), widget : {None, "dialog", "failed"}]

TypeOK ==
  /\ c \in Scripts
  /\ link \in {"none", "connecting", "connected"}
  /\ alive \in BOOLEAN

Reconnecting(s) == s.until # None

-----------------------------------------------------------------------------
(* Calls: what they make of the state of the scripts.                       *)

StopTransport(s) == [s EXCEPT !.stopped = TRUE, !.destroy = TRUE]
StopReconnect(s) == [s EXCEPT !.until = None, !.retry = None]
Close(s) == StopTransport(StopReconnect(s))

Deaf(s) == [s EXCEPT !.active = FALSE, !.deadline = 0, !.pings = {}]

End(s, kind) ==
  IF s.notice # None THEN s
  ELSE [Close(Deaf(s)) EXCEPT
         !.notice = [kind |-> kind, wasPlaying |-> s.playing \/ ~s.mainMenu,
                     acknowledged |-> FALSE, expired |-> FALSE],
         !.menuLeft = ReachMenu]

\* Mutant: every failed attempt starts the window again.
RestartingLost(s, kind) ==
  IF s.notice # None THEN s
  ELSE IF ~s.playing \/ s.mainMenu THEN End(s, kind)
  ELSE [Deaf(s) EXCEPT !.until = Window, !.retry = Delay]

Lost(s, kind) ==
  IF s.notice # None THEN s
  ELSE IF Reconnecting(s) THEN [s EXCEPT !.retry = Delay]
  ELSE IF ~s.playing \/ s.mainMenu THEN End(s, kind)
  ELSE [Deaf(s) EXCEPT !.until = Window, !.retry = Delay]

\* Mutant: a connection that begins while another is being restored keeps what is stored.
KeepingBeginConnection(s) ==
  IF Reconnecting(s) \/ s.notice # None THEN s
  ELSE [Deaf(s) EXCEPT !.menuLeft = None, !.playing = @ /\ ~s.mainMenu, !.beat = 0]

BeginConnection(s) ==
  IF Reconnecting(s) THEN s
  ELSE [Deaf(s) EXCEPT !.notice = None, !.menuLeft = None, !.playing = @ /\ ~s.mainMenu, !.beat = 0]

\* createClientSafe, with plugins that are ready for the server.
Opened(s) == [BeginConnection(s) EXCEPT !.stopped = FALSE, !.destroy = FALSE]

\* The plugins may not be ready; then nothing happens but a line in the log.
CreateClientSafe(s) ==
  \/ c' = Opened(s) /\ link' = "connecting" /\ alive' = TRUE
  \/ c' = s /\ UNCHANGED <<link, alive>>

OnlyScripts == UNCHANGED <<link, alive>>

-----------------------------------------------------------------------------
(* Starting: from stored credentials, or from the login form.               *)

AuthDialog(s) == [s EXCEPT !.widget = "dialog", !.listening = TRUE]

\* The constructors, over what the storage kept.  SkympClient looks at the notice before
\* NetworkingService deletes one that is done with, and starts nothing then.
Started(s) ==
  LET done == s.notice # None /\ s.notice.acknowledged
                /\ (s.notice.kind # "ban" \/ s.notice.expired)
      notice == IF done THEN None ELSE s.notice
      idle == [s EXCEPT !.notice = notice, !.playing = @ \/ (notice # None /\ notice.wasPlaying),
                 !.loading = FALSE, !.retry = IF Reconnecting(s) THEN Delay ELSE None,
                 !.active = FALSE, !.deadline = 0, !.beat = 0, !.fresh = FALSE, !.pings = {},
                 !.stopped = notice # None, !.destroy = notice # None,
                 !.establish = FALSE, !.peerCalls = 0, !.cached = FALSE,
                 !.authData = FALSE, !.listening = FALSE, !.gameplay = FALSE,
                 !.closeNext = FALSE, !.login = None]
  IN IF s.notice # None THEN idle
     ELSE IF s.stored # None THEN [idle EXCEPT !.establish = TRUE]
     ELSE AuthDialog(idle)

Init ==
  /\ \E stored \in {None, "steam"} : c = Started(
       [notice |-> None, menuLeft |-> None, playing |-> FALSE, mainMenu |-> TRUE, loading |-> FALSE,
        until |-> None, retry |-> None, active |-> FALSE, deadline |-> 0,
        beat |-> 0, fresh |-> FALSE, pings |-> {}, stopped |-> FALSE, destroy |-> FALSE,
        stored |-> stored, establish |-> FALSE, peerCalls |-> 0, cached |-> FALSE,
        authData |-> FALSE, listening |-> FALSE, gameplay |-> FALSE, closeNext |-> FALSE,
        login |-> None, widget |-> None])
  /\ link = "none" /\ alive = TRUE

\* The scripts are loaded again; the storage and the native client stay.
ReloadScripts ==
  /\ c' = Started(c)
  /\ OnlyScripts

\* openDiscordOauth: checkLoginState polls until the account is linked and a play
\* session made.  The last answer is taken whatever the form is doing by then.
LoginStateAnswered ==
  /\ c.listening \/ c.login # None
  /\ c' = [c EXCEPT !.authData = TRUE, !.widget = "dialog"]
  /\ OnlyScripts

AuthAttempt ==
  /\ c.listening /\ c.authData
  /\ c' = IF c.notice # None THEN c ELSE [c EXCEPT !.stored = "remote", !.establish = TRUE]
  /\ OnlyScripts

\* establishConnectionConditional, one tick later; the master server is asked for the
\* address unless the answer is cached.
EstablishConnection ==
  LET s == [c EXCEPT !.establish = FALSE] IN
  /\ c.establish /\ c.peerCalls < MaxPeerCalls
  /\ IF s.notice # None \/ (~s.stopped /\ link = "connected")
     THEN c' = s /\ UNCHANGED <<link, alive>>
     ELSE IF s.cached THEN CreateClientSafe(s)
     ELSE c' = [s EXCEPT !.peerCalls = @ + 1] /\ UNCHANGED <<link, alive>>

\* getTargetPeer: an answer, an error or the timeout, each at most once per request.
TargetPeerResolved ==
  /\ c.peerCalls > 0
  /\ CreateClientSafe([c EXCEPT !.peerCalls = @ - 1, !.cached = TRUE])

-----------------------------------------------------------------------------
(* Packets of the native client.  The handlers of sessionEndClient run      *)
(* before those of authService.                                             *)

SendLogin(s) == [s EXCEPT !.listening = FALSE, !.login = LoginTime]

\* A connection takes longer than a tick, so what awaits the next tick is done before.
ConnectionAccepted ==
  /\ ~c.stopped /\ link = "connecting" /\ ~c.closeNext
  /\ link' = "connected"
  /\ c' = SendLogin(IF ~Reconnecting(c) THEN c
                    ELSE [c EXCEPT !.until = IF @ > LoginTime THEN @ ELSE LoginTime, !.retry = None])
  /\ UNCHANGED alive

ConnectionFailed ==
  /\ ~c.stopped /\ link = "connecting"
  /\ link' = "none"
  /\ c' = Lost(c, "other")
  /\ UNCHANGED alive

ConnectionDenied(password) ==
  LET s == IF Reconnecting(c) THEN End(c, "other")
           ELSE IF password THEN c ELSE Lost(c, "other") IN
  /\ ~c.stopped /\ link = "connecting"
  /\ link' = "none"
  /\ c' = IF password THEN [s EXCEPT !.closeNext = TRUE, !.widget = "failed", !.listening = TRUE] ELSE s
  /\ UNCHANGED alive

ConnectionDisconnect ==
  /\ ~c.stopped /\ link = "connected"
  /\ link' = "none"
  /\ c' = Lost(c, "other")
  /\ UNCHANGED alive

\* The server died or hangs; the native client has not noticed.
ServerHangs ==
  /\ link = "connected" /\ alive
  /\ alive' = FALSE
  /\ UNCHANGED <<c, link>>

Received == ~c.stopped /\ link = "connected" /\ alive

CreateActorMessage(isMe) ==
  LET s == IF isMe /\ c.notice = None THEN [StopReconnect(c) EXCEPT !.playing = TRUE] ELSE c IN
  /\ Received
  /\ c' = IF isMe THEN [s EXCEPT !.login = None, !.widget = IF @ = "dialog" THEN None ELSE @]
          ELSE [s EXCEPT !.login = None]
  /\ OnlyScripts

SessionEndPacket(kind) ==
  /\ Received
  /\ c' = End(c, kind)
  /\ OnlyScripts

SessionPong ==
  /\ Received
  /\ \E p \in c.pings :
       c' = [c EXCEPT !.pings = @ \ {p}, !.active = TRUE, !.deadline = PingTime]
  /\ OnlyScripts

\* loginFailedBanned ends the session, the other failures only close the connection.
LoginFailed(banned) ==
  LET s == Close(IF banned THEN End(c, "ban") ELSE c) IN
  /\ Received
  /\ c' = [s EXCEPT !.listening = TRUE, !.login = None, !.widget = "failed"]
  /\ OnlyScripts

\* While the approval is pending the client asks again every two seconds.
PlayerAuthResult(state) ==
  LET s == IF state = "blocked" THEN End(c, "ban") ELSE c IN
  /\ Received
  /\ c' = [s EXCEPT !.login = None, !.widget = "dialog"]
  /\ OnlyScripts

PlayerAccountRequired ==
  /\ Received
  /\ c' = IF c.stored = "remote" THEN c ELSE AuthDialog(Close([c EXCEPT !.login = None]))
  /\ OnlyScripts

-----------------------------------------------------------------------------
(* Ticks.                                                                   *)

DestroyClient ==
  /\ c.destroy
  /\ c' = [c EXCEPT !.destroy = FALSE]
  /\ link' = IF c.stopped THEN "none" ELSE link
  /\ UNCHANGED alive

ReconnectDue == c.notice = None /\ Reconnecting(c) /\ (c.until = 0 \/ c.retry = 0)

\* Mutant: at the end of the window the transport is closed without a notice.
QuietTickReconnect ==
  /\ ReconnectDue
  /\ IF c.until = 0 THEN c' = Close(c) /\ UNCHANGED <<link, alive>>
     ELSE CreateClientSafe([c EXCEPT !.retry = None])

TickReconnect ==
  /\ ReconnectDue
  /\ IF c.until = 0 THEN c' = End(c, "other") /\ UNCHANGED <<link, alive>>
     ELSE CreateClientSafe([c EXCEPT !.retry = None])

Watching == c.notice = None /\ ~Reconnecting(c) /\ c.playing /\ link = "connected"

\* The heartbeat has something to do.
HeartbeatDue ==
  Watching /\ IF c.loading THEN ~c.fresh ELSE c.fresh \/ c.beat = 0 \/ (c.active /\ c.deadline = 0)

\* Mutant: a ping already moves the deadline.
HopefulHeartbeat ==
  LET s == IF c.fresh THEN [c EXCEPT !.fresh = FALSE, !.deadline = IF c.active THEN PingTime ELSE 0, !.pings = {}, !.beat = 0]
           ELSE c IN
  /\ HeartbeatDue
  /\ c' = IF c.loading THEN [c EXCEPT !.fresh = TRUE]
          ELSE IF s.active /\ s.deadline = 0 THEN Lost(s, "other")
          ELSE IF s.beat = 0 THEN [s EXCEPT !.beat = Beat, !.deadline = IF s.active THEN PingTime ELSE 0, !.pings = @ \cup {PingTime}]
          ELSE s
  /\ OnlyScripts

Heartbeat ==
  LET s == IF c.fresh THEN [c EXCEPT !.fresh = FALSE, !.deadline = IF c.active THEN PingTime ELSE 0, !.pings = {}, !.beat = 0]
           ELSE c IN
  /\ HeartbeatDue
  /\ c' = IF c.loading THEN [c EXCEPT !.fresh = TRUE]
          ELSE IF s.active /\ s.deadline = 0 THEN Lost(s, "other")
          ELSE IF s.beat = 0 THEN [s EXCEPT !.beat = Beat, !.pings = @ \cup {PingTime}] ELSE s
  /\ OnlyScripts

LoginDue == c.login = 0

\* authService.onTick: the login took too long.
LoginTimeout ==
  LET s == [c EXCEPT !.login = None] IN
  /\ LoginDue
  /\ IF c.gameplay
     THEN IF s.stopped THEN c' = s /\ UNCHANGED <<link, alive>> ELSE CreateClientSafe(s)
     ELSE c' = [Close(s) EXCEPT !.widget = "failed", !.authData = FALSE] /\ UNCHANGED <<link, alive>>

CloseAfterDenial ==
  /\ c.closeNext
  /\ c' = [Close(c) EXCEPT !.closeNext = FALSE]
  /\ OnlyScripts

\* Time passes while the ticks keep up with it.
Passed(t) == IF t = None \/ t = 0 THEN t ELSE t - 1

Later(s) ==
  [s EXCEPT !.until = Passed(@), !.retry = Passed(@), !.deadline = Passed(@), !.beat = Passed(@),
            !.login = Passed(@), !.menuLeft = Passed(@), !.pings = {p - 1 : p \in @ \ {0}}]

PassTime ==
  /\ ~ReconnectDue /\ ~HeartbeatDue /\ ~LoginDue
  /\ c' = Later(c)
  /\ OnlyScripts

-----------------------------------------------------------------------------
(* The game: menus, updates, loading screens; and the player's buttons.     *)

MenuMain(open) ==
  /\ c.mainMenu # open
  /\ c' = [c EXCEPT !.mainMenu = open]
  /\ OnlyScripts

\* A loading screen.
Loading(open) ==
  /\ c.loading # open
  /\ c' = [c EXCEPT !.loading = open]
  /\ OnlyScripts

\* Time passes although ticks are due; the next one sees the gap.
Stall ==
  /\ c' = [Later(c) EXCEPT !.fresh = @ \/ Watching]
  /\ OnlyScripts

\* Updates only run in the world; the first one is actual gameplay.
Update ==
  /\ ~c.mainMenu
  /\ c' = [c EXCEPT !.gameplay = TRUE]
  /\ OnlyScripts

CanAct == c.notice # None /\ ~c.notice.acknowledged
            /\ (c.mainMenu \/ ~c.notice.wasPlaying \/ c.menuLeft = 0)
Blocked == c.notice.kind = "ban" /\ ~c.notice.expired

PressRetry ==
  /\ CanAct /\ ~Blocked
  /\ CreateClientSafe(BeginConnection(c))

PressDismiss ==
  /\ CanAct
  /\ c' = IF Blocked THEN [c EXCEPT !.notice.acknowledged = TRUE] ELSE [c EXCEPT !.notice = None, !.menuLeft = None]
  /\ OnlyScripts

BanExpires ==
  /\ c.notice # None /\ c.notice.kind = "ban" /\ ~c.notice.expired
  /\ c' = [c EXCEPT !.notice.expired = TRUE]
  /\ OnlyScripts

-----------------------------------------------------------------------------
Packets ==
  \/ ConnectionAccepted \/ ConnectionFailed \/ ConnectionDisconnect \/ ServerHangs
  \/ \E b \in BOOLEAN : ConnectionDenied(b) \/ CreateActorMessage(b) \/ LoginFailed(b)
  \/ SessionEndPacket("other") \/ SessionEndPacket("ban") \/ SessionPong
  \/ \E s \in {"pending", "blocked"} : PlayerAuthResult(s)
  \/ PlayerAccountRequired

Next ==
  \/ LoginStateAnswered \/ AuthAttempt \/ ReloadScripts
  \/ EstablishConnection \/ TargetPeerResolved
  \/ Packets
  \/ DestroyClient \/ TickReconnect \/ Heartbeat \/ LoginTimeout \/ CloseAfterDenial \/ PassTime
  \/ \E open \in BOOLEAN : MenuMain(open) \/ Loading(open)
  \/ Stall \/ Update \/ PressRetry \/ PressDismiss \/ BanExpires

Spec == Init /\ [][Next]_vars

\* The clock goes on and the handlers of ticks run; what the server, the player and
\* the master server do is up to them.
Fairness ==
  /\ WF_vars(PassTime) /\ WF_vars(TickReconnect) /\ WF_vars(Heartbeat) /\ WF_vars(LoginTimeout)
  /\ WF_vars(Loading(FALSE))

FairSpec == Spec /\ Fairness

-----------------------------------------------------------------------------
(* Properties.                                                              *)

Online(s, l) == ~s.stopped /\ l # "none"
Told(s) == s.notice # None \/ Reconnecting(s) \/ s.widget # None

\* An ended session keeps its transport stopped and waits for no reconnect, whatever
\* packets, peer answers and reloads come after the notice was stored.
EndedIsStopped == c.notice # None => c.stopped /\ ~Reconnecting(c)

Inv == TypeOK /\ EndedIsStopped

\* docs_session_end.md: before, the game went on locally without a word.  A player whose
\* transport goes down in the world, whichever handler closes it, and one whose attempts
\* to reconnect are given up, is told by the notice, the reconnect banner or a form.
NeverSilentlyOffline ==
  [][/\ c.playing /\ ~c.mainMenu /\ Online(c, link) /\ ~Online(c', link') => Told(c')
     /\ Reconnecting(c) /\ ~Reconnecting(c') => Told(c') \/ Online(c', link')]_vars

\* sessionEndClient.ts:59-61, 109: attempts to reconnect end, by a spawn, a notice or a
\* form, however often retries fail, connections break, scripts are loaded again and logins
\* go unanswered, unless the server accepts connections for ever: each one moves the end of
\* the window, so a server that accepts and drops them keeps the client trying.
ReconnectEnds == <>[]Reconnecting(c) => []<><<ConnectionAccepted>>_vars

\* A server that answered its pings and then hangs is noticed by the watchdog while the
\* player plays, unless loading screens and stalls, after each of which the watchdog waits
\* anew, come for ever (a reload disarms it).
Overlooked == Watching /\ c.active /\ ~alive
HungServerIsNoticed == <>[]Overlooked => []<><<Loading(TRUE) \/ Stall>>_vars

\* Does not hold, docs_session_end.md: up to 30 seconds of automatic attempts.
WindowIsFinal == Reconnecting(c) ~> ~Reconnecting(c)

\* Does not hold, docs_session_end.md: an active ban stays stored until it expires.
BanStaysStored ==
  [][c.notice # None /\ c.notice.kind = "ban" /\ ~c.notice.expired => c'.notice # None]_vars
=============================================================================
