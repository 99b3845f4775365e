---------------------------- MODULE Clients_proofs ----------------------------
(***************************************************************************)
(* Proofs about the programs at the other end of the server, for any       *)
(* lengths of their timers and any number of connections, messages,        *)
(* players and requests: the session of a game client that has ended keeps *)
(* its transport stopped, and a player who is taken offline is told; the   *)
(* player's own actor is moved by nothing before it has its place; the     *)
(* players page shows an inventory under the name it was asked for, and    *)
(* the dashboard nobody of a game that is gone.                            *)
(*                                                                         *)
(* The three modules share no state: each part is about its own.           *)
(***************************************************************************)
EXTENDS ClientSession, PlayerSpawn, AdminPanel, ClientView, FiniteSetTheorems, SequenceTheorems, TLAPS

-----------------------------------------------------------------------------
(* The session of a game client.                                            *)

(* The scripts are described by functions from states s to states s, so the *)
(* invariant is stated of such an s.                                        *)

\* EndedIsStopped of s.
Sound(s) ==
  /\ s \in Scripts
  /\ s.notice # None => s.stopped /\ ~Reconnecting(s)

\* A denied connection is closed one tick later, and until then its form is shown.
DeniedIsShown(s, l) == s.closeNext => l # "connected" /\ s.widget # None

\* NeverSilentlyOffline of a step.
Silently(s, l, t, m) ==
  \/ s.playing /\ ~s.mainMenu /\ Online(s, l) /\ ~Online(t, m) /\ ~Told(t)
  \/ Reconnecting(s) /\ ~Reconnecting(t) /\ ~Told(t) /\ ~Online(t, m)

Strong ==
  /\ TypeOK
  /\ Sound(c)
  /\ DeniedIsShown(c, link)

\* None is no time, no form and no notice.
LEMMA NoneFacts ==
  /\ None \notin Nat /\ None # "dialog" /\ None # "failed" /\ None \notin Notices
  /\ Window \in Nat \ {0} /\ Delay \in Nat \ {0} /\ LoginTime \in Nat \ {0}
  /\ Beat \in Nat \ {0} /\ PingTime \in Nat \ {0} /\ ReachMenu \in Nat \ {0}
  /\ MaxPeerCalls \in Nat
  /\ Longest \in Nat /\ Window <= Longest /\ LoginTime <= Longest
BY SessionAssumption DEF Longest

\* Values that the timers are set to.
LEMMA Timers ==
  /\ None \in Countdown(Longest) /\ Window \in Countdown(Longest) /\ LoginTime \in Countdown(Longest)
  /\ None \in Countdown(Delay) /\ Delay \in Countdown(Delay)
  /\ None \in Countdown(ReachMenu) /\ ReachMenu \in Countdown(ReachMenu)
  /\ 0 \in Countdown(PingTime) /\ PingTime \in Countdown(PingTime)
  /\ 0 \in Countdown(Beat) /\ Beat \in Countdown(Beat)
  /\ None \in Countdown(LoginTime) /\ LoginTime \in Countdown(LoginTime)
  /\ \A n \in Nat : \A t \in Countdown(n) : Passed(t) \in Countdown(n) /\ (Passed(t) = None <=> t = None)
BY NoneFacts DEF Countdown, Passed

-----------------------------------------------------------------------------
(* Calls.                                                                   *)

\* close stops the transport and the attempts to reconnect.
LEMMA CloseSound ==
  ASSUME NEW s, Sound(s)
  PROVE  /\ Sound(Close(s)) /\ Close(s).stopped /\ ~Reconnecting(Close(s))
         /\ Close(s).notice = s.notice /\ Close(s).widget = s.widget /\ Close(s).closeNext = s.closeNext
         /\ Sound(StopReconnect(s)) /\ ~Reconnecting(StopReconnect(s))
         /\ StopReconnect(s).notice = s.notice /\ StopReconnect(s).stopped = s.stopped
         /\ StopReconnect(s).closeNext = s.closeNext /\ StopReconnect(s).widget = s.widget
BY Timers, NoneFacts DEF Sound, Scripts, Close, StopTransport, StopReconnect, Reconnecting

LEMMA DeafSound ==
  ASSUME NEW s, Sound(s)
  PROVE  /\ Sound(Deaf(s)) /\ Deaf(s).notice = s.notice /\ Deaf(s).until = s.until
         /\ Deaf(s).stopped = s.stopped /\ Deaf(s).closeNext = s.closeNext /\ Deaf(s).widget = s.widget
BY Timers, NoneFacts DEF Sound, Scripts, Deaf, Reconnecting

\* The end of a session shows a notice.
LEMMA EndSound ==
  ASSUME NEW s, Sound(s), NEW kind \in Ends
  PROVE  /\ Sound(End(s, kind)) /\ End(s, kind).notice # None /\ End(s, kind).stopped
         /\ End(s, kind).closeNext = s.closeNext /\ End(s, kind).widget = s.widget
<1>1. CASE s.notice # None
  BY <1>1 DEF End, Sound
<1>2. CASE s.notice = None
  <2> DEFINE r == Close(Deaf(s))
             p == s.playing \/ ~s.mainMenu
             n == [kind |-> kind, wasPlaying |-> p, acknowledged |-> FALSE, expired |-> FALSE]
             e == [r EXCEPT !.notice = n, !.menuLeft = ReachMenu]
  <2>1. /\ Sound(r) /\ r.stopped /\ ~Reconnecting(r)
        /\ r.closeNext = s.closeNext /\ r.widget = s.widget
    BY CloseSound, DeafSound
  <2>2. n \in Notices /\ n # None
    <3>1. p \in BOOLEAN /\ FALSE \in BOOLEAN
      OBVIOUS
    <3> HIDE DEF p
    <3>2. n \in Notices
      BY <3>1, Zenon DEF Notices
    <3> HIDE DEF n
    <3> QED BY <3>2, NoneFacts
  <2>3. End(s, kind) = e
    BY <1>2 DEF End
  <2> HIDE DEF r, p, n
  <2>4. e \in Scripts
    BY <2>1, <2>2, Timers DEF Sound, Scripts
  <2>5. e.notice = n /\ e.stopped = r.stopped /\ e.until = r.until
        /\ e.closeNext = r.closeNext /\ e.widget = r.widget
    BY <2>1 DEF Sound, Scripts
  <2> HIDE DEF e
  <2>6. Sound(e) /\ e.notice # None /\ e.stopped /\ e.closeNext = s.closeNext /\ e.widget = s.widget
    BY <2>1, <2>2, <2>4, <2>5 DEF Sound, Reconnecting
  <2> QED BY <2>3, <2>6
<1> QED BY <1>1, <1>2

\* A lost connection is restored or ends the session; either is shown.
LEMMA LostSound ==
  ASSUME NEW s, Sound(s), s.notice = None, NEW kind \in Ends
  PROVE  /\ Sound(Lost(s, kind))
         /\ Lost(s, kind).notice # None \/ Reconnecting(Lost(s, kind))
         /\ Lost(s, kind).closeNext = s.closeNext /\ Lost(s, kind).widget = s.widget
<1>1. CASE Reconnecting(s)
  BY <1>1, Timers DEF Sound, Scripts, Reconnecting, Lost
<1>2. CASE ~Reconnecting(s) /\ (~s.playing \/ s.mainMenu)
  BY <1>2, EndSound DEF Lost
<1>3. CASE ~Reconnecting(s) /\ s.playing /\ ~s.mainMenu
  <2> DEFINE d == Deaf(s)
             e == [d EXCEPT !.until = Window, !.retry = Delay]
  <2>1. Lost(s, kind) = e
    BY <1>3 DEF Lost
  <2>2. Sound(d) /\ d.notice = None /\ d.closeNext = s.closeNext /\ d.widget = s.widget
    BY DeafSound
  <2> HIDE DEF d
  <2>3. e \in Scripts
    BY <2>2, Timers DEF Sound, Scripts
  <2>4. e.notice = None /\ e.until = Window /\ e.closeNext = d.closeNext /\ e.widget = d.widget
    BY <2>2 DEF Sound, Scripts
  <2> HIDE DEF e
  <2> QED BY <2>1, <2>2, <2>3, <2>4, NoneFacts DEF Sound, Reconnecting
<1> QED BY <1>1, <1>2, <1>3 DEF Sound, Scripts

\* A connection begins without a notice.
LEMMA BeginConnectionSound ==
  ASSUME NEW s, Sound(s)
  PROVE  /\ Sound(BeginConnection(s)) /\ BeginConnection(s).notice = None
         /\ BeginConnection(s).until = s.until
         /\ BeginConnection(s).stopped = s.stopped
         /\ BeginConnection(s).closeNext = s.closeNext /\ BeginConnection(s).widget = s.widget
<1>1. CASE Reconnecting(s)
  BY <1>1 DEF BeginConnection, Sound
<1>2. CASE ~Reconnecting(s)
  <2> DEFINE d == Deaf(s)
             p == d.playing /\ ~s.mainMenu
             e == [d EXCEPT !.notice = None, !.menuLeft = None, !.playing = p, !.beat = 0]
  <2>1. BeginConnection(s) = e
    BY <1>2 DEF BeginConnection
  <2>2. /\ Sound(d) /\ d.until = s.until /\ d.stopped = s.stopped
        /\ d.closeNext = s.closeNext /\ d.widget = s.widget
    BY DeafSound
  <2>3. p \in BOOLEAN
    OBVIOUS
  <2> HIDE DEF d, p
  <2>4. e \in Scripts
    BY <2>2, <2>3, Timers DEF Sound, Scripts
  <2>5. /\ e.notice = None /\ e.until = d.until /\ e.stopped = d.stopped
        /\ e.closeNext = d.closeNext /\ e.widget = d.widget
    BY <2>2 DEF Sound, Scripts
  <2> HIDE DEF e
  <2> QED BY <2>1, <2>2, <2>4, <2>5 DEF Sound
<1> QED BY <1>1, <1>2

LEMMA OpenedSound ==
  ASSUME NEW s, Sound(s)
  PROVE  /\ Sound(Opened(s)) /\ ~Opened(s).stopped
         /\ Opened(s).closeNext = s.closeNext /\ Opened(s).widget = s.widget
<1> DEFINE r == BeginConnection(s)
<1>1. Sound(r) /\ r.notice = None /\ r.closeNext = s.closeNext /\ r.widget = s.widget
  BY BeginConnectionSound
<1> DEFINE e == [r EXCEPT !.stopped = FALSE, !.destroy = FALSE]
<1>2. Opened(s) = e
  BY DEF Opened
<1> HIDE DEF r
<1>3. e \in Scripts
  <2>1. r \in Scripts /\ FALSE \in BOOLEAN
    BY <1>1 DEF Sound
  <2> QED BY <2>1 DEF Scripts
<1>4. e.notice = r.notice /\ ~e.stopped /\ e.closeNext = r.closeNext /\ e.widget = r.widget
  BY <1>1 DEF Sound, Scripts
<1> HIDE DEF e
<1> QED BY <1>1, <1>2, <1>3, <1>4 DEF Sound

LEMMA AuthDialogSound ==
  ASSUME NEW s, Sound(s)
  PROVE  /\ Sound(AuthDialog(s)) /\ AuthDialog(s).widget = "dialog"
         /\ AuthDialog(s).closeNext = s.closeNext /\ AuthDialog(s).until = s.until
BY DEF Sound, Scripts, AuthDialog, Reconnecting
-----------------------------------------------------------------------------
(* Steps.                                                                   *)

\* What every step is shown to do.
Good == Strong' /\ ~Silently(c, link, c', link')

\* What only changes forms, flags and times changes nothing for the session.
LEMMA SameSession ==
  ASSUME Strong, NEW t \in Scripts,
         t.notice = None <=> c.notice = None, t.stopped = c.stopped,
         Reconnecting(t) <=> Reconnecting(c), t.closeNext = c.closeNext,
         t.widget = c.widget \/ t.widget # None
  PROVE  /\ Sound(t) /\ DeniedIsShown(t, link)
         /\ ~Silently(c, link, t, link)
BY DEF Strong, Sound, DeniedIsShown, Silently, Online

\* The notice of an ended session, or a form, tells a player of what follows.
LEMMA ToldSession ==
  ASSUME NEW t, NEW m, Told(t)
  PROVE  ~Silently(c, link, t, m)
BY DEF Silently

LEMMA CreateClientSafeStep ==
  ASSUME Strong, NEW s, Sound(s), DeniedIsShown(s, link), ~Silently(c, link, s, link),
         CreateClientSafe(s)
  PROVE  Good
<1>1. CASE c' = Opened(s) /\ link' = "connecting" /\ alive' = TRUE
  <2>1. /\ Sound(c') /\ ~c'.stopped /\ link' = "connecting"
        /\ c'.closeNext = s.closeNext /\ c'.widget = s.widget
    BY <1>1, OpenedSound
  <2>2. DeniedIsShown(c', link') /\ ~Silently(c, link, c', link')
    BY <2>1 DEF DeniedIsShown, Silently, Online
  <2>3. TypeOK'
    BY <1>1, <2>1 DEF TypeOK, Strong, Sound
  <2> QED BY <2>1, <2>2, <2>3 DEF Good, Strong
<1>2. CASE c' = s /\ UNCHANGED <<link, alive>>
  BY <1>2 DEF Good, Strong, TypeOK, Sound
<1> QED BY <1>1, <1>2 DEF CreateClientSafe

\* A step of the scripts alone.
LEMMA ScriptsStep ==
  ASSUME Strong, Sound(c'), DeniedIsShown(c', link), ~Silently(c, link, c', link), OnlyScripts
  PROVE  Good
BY DEF Good, Strong, TypeOK, Sound, OnlyScripts

\* ScriptsStep for steps like those of SameSession.
LEMMA SameSessionStep ==
  ASSUME Strong, c' \in Scripts, OnlyScripts,
         c'.notice = None <=> c.notice = None, c'.stopped = c.stopped,
         Reconnecting(c') <=> Reconnecting(c), c'.closeNext = c.closeNext,
         c'.widget = c.widget \/ c'.widget # None
  PROVE  Good
<1>1. Sound(c') /\ DeniedIsShown(c', link) /\ ~Silently(c, link, c', link)
  BY SameSession
<1> QED BY <1>1, ScriptsStep

\* Started keeps the rule for what ended: the transport is stopped under a notice.
LEMMA StartedSound ==
  ASSUME NEW s, Sound(s)
  PROVE  /\ Sound(Started(s)) /\ Started(s).until = s.until /\ ~Started(s).closeNext
         /\ Started(s).notice # None => Started(s).stopped
         /\ Started(s).notice = None => ~Started(s).stopped
         /\ Started(s).notice \in {s.notice, None}
<1> DEFINE done == s.notice # None /\ s.notice.acknowledged
                     /\ (s.notice.kind # "ban" \/ s.notice.expired)
           notice == IF done THEN None ELSE s.notice
           ended == notice # None
           playing == s.playing \/ (notice # None /\ notice.wasPlaying)
           retry == IF Reconnecting(s) THEN Delay ELSE None
           begun == [s EXCEPT !.notice = notice, !.playing = playing, !.loading = FALSE]
           first == [begun EXCEPT !.retry = retry, !.active = FALSE, !.deadline = 0]
           silent == [first EXCEPT !.beat = 0, !.fresh = FALSE, !.pings = {}]
           second == [silent EXCEPT !.stopped = ended, !.destroy = ended]
           third == [second EXCEPT !.establish = FALSE, !.peerCalls = 0, !.cached = FALSE]
           fourth == [third EXCEPT !.authData = FALSE, !.listening = FALSE, !.gameplay = FALSE]
           idle == [fourth EXCEPT !.closeNext = FALSE, !.login = None]
           e == [idle EXCEPT !.establish = TRUE]
<1>1. Started(s) = IF s.notice # None THEN idle ELSE IF s.stored # None THEN e ELSE AuthDialog(idle)
  BY DEF Started
<1>2. notice \in Notices \cup {None} /\ notice \in {s.notice, None} /\ s \in Scripts
  BY DEF Sound, Scripts
<1>3. /\ playing \in BOOLEAN /\ ended \in BOOLEAN /\ FALSE \in BOOLEAN
      /\ ended <=> notice # None
  OBVIOUS
<1>4. retry \in Countdown(Delay) /\ 0 \in 0..MaxPeerCalls
  BY Timers, NoneFacts
<1> HIDE DEF done, notice, playing, ended, retry
<1>5. first \in Scripts /\ first.notice = notice /\ first.until = s.until
  <2>1. begun \in Scripts /\ begun.notice = notice /\ begun.until = s.until
    BY <1>2, <1>3 DEF Scripts
  <2> HIDE DEF begun
  <2> QED BY <1>3, <1>4, <2>1, Timers DEF Scripts
<1> HIDE DEF first
<1>6. /\ second \in Scripts /\ second.notice = notice /\ second.until = s.until
      /\ second.stopped = ended
  <2>1. silent \in Scripts /\ silent.notice = notice /\ silent.until = s.until
    BY <1>3, <1>5, Timers DEF Scripts
  <2> HIDE DEF silent
  <2> QED BY <1>3, <2>1 DEF Scripts
<1> HIDE DEF second
<1>7. /\ idle \in Scripts /\ idle.notice = notice /\ idle.until = s.until
      /\ idle.stopped = ended /\ ~idle.closeNext
  <2>1. third \in Scripts /\ third.notice = notice /\ third.until = s.until /\ third.stopped = ended
    BY <1>4, <1>6 DEF Scripts
  <2> HIDE DEF third
  <2>2. fourth \in Scripts /\ fourth.notice = notice /\ fourth.until = s.until
        /\ fourth.stopped = ended
    BY <2>1 DEF Scripts
  <2> HIDE DEF fourth
  <2> QED BY <2>2, Timers DEF Scripts
<1> HIDE DEF idle
<1>8. Sound(idle)
  BY <1>2, <1>3, <1>7 DEF Sound, Reconnecting
<1>9. e \in Scripts /\ e.notice = idle.notice /\ e.until = idle.until /\ e.stopped = idle.stopped
      /\ ~e.closeNext
  BY <1>7 DEF Scripts
<1> HIDE DEF e
<1>10. CASE s.notice # None
  BY <1>1, <1>2, <1>3, <1>7, <1>8, <1>10
<1>11. CASE s.notice = None /\ s.stored # None
  BY <1>1, <1>2, <1>3, <1>7, <1>8, <1>9, <1>11 DEF Sound
<1>12. CASE s.notice = None /\ s.stored = None
  <2>1. Started(s) = AuthDialog(idle)
    BY <1>1, <1>12
  <2>2. AuthDialog(idle).notice = idle.notice /\ AuthDialog(idle).stopped = idle.stopped
    BY <1>7 DEF AuthDialog, Scripts
  <2> DEFINE d == AuthDialog(idle)
  <2>3. Sound(d) /\ d.closeNext = idle.closeNext /\ d.until = idle.until
    BY <1>8, AuthDialogSound
  <2>4. Started(s) = d /\ d.notice = idle.notice /\ d.stopped = idle.stopped
    BY <2>1, <2>2
  <2>5. notice = None
    BY <1>2, <1>12
  <2> HIDE DEF d
  <2> QED BY <1>3, <1>7, <2>3, <2>4, <2>5
<1> QED BY <1>10, <1>11, <1>12

-----------------------------------------------------------------------------
(* Logging in.                                                              *)

LEMMA ReloadScriptsStep ==
  ASSUME Strong, ReloadScripts
  PROVE  Good
<1>1. /\ Sound(c') /\ c'.until = c.until /\ ~c'.closeNext
      /\ c'.notice # None => c'.stopped
      /\ c'.notice = None => ~c'.stopped
  BY StartedSound DEF Strong, ReloadScripts
<1>2. DeniedIsShown(c', link')
  BY <1>1 DEF DeniedIsShown
<1>3. ~Silently(c, link, c', link')
  BY <1>1 DEF Silently, Online, Told, Reconnecting, ReloadScripts, OnlyScripts
<1>4. TypeOK'
  BY <1>1, NoneFacts DEF TypeOK, Strong, Sound, ReloadScripts, OnlyScripts
<1> QED BY <1>1, <1>2, <1>3, <1>4 DEF Good, Strong

LEMMA LoginStateAnsweredStep ==
  ASSUME Strong, LoginStateAnswered
  PROVE  Good
BY SameSessionStep, NoneFacts DEF LoginStateAnswered, Strong, TypeOK, Scripts, Reconnecting

LEMMA AuthAttemptStep ==
  ASSUME Strong, AuthAttempt
  PROVE  Good
BY SameSessionStep DEF AuthAttempt, Strong, TypeOK, Scripts, Reconnecting

LEMMA EstablishConnectionStep ==
  ASSUME Strong, EstablishConnection
  PROVE  Good
<1> DEFINE s == [c EXCEPT !.establish = FALSE]
           r == [s EXCEPT !.peerCalls = @ + 1]
<1>0. c.peerCalls \in Nat /\ c.peerCalls < MaxPeerCalls /\ MaxPeerCalls \in Nat /\ FALSE \in BOOLEAN
  BY NoneFacts DEF Strong, TypeOK, Scripts, EstablishConnection
<1>1. /\ s \in Scripts /\ s.notice = c.notice /\ s.stopped = c.stopped /\ s.until = c.until
      /\ s.closeNext = c.closeNext /\ s.widget = c.widget /\ s.peerCalls = c.peerCalls
  BY <1>0 DEF Strong, TypeOK, Scripts
<1>2. CASE s.notice # None \/ (~s.stopped /\ link = "connected")
  <2>1. c' = s /\ OnlyScripts
    BY <1>2 DEF EstablishConnection, OnlyScripts
  <2> HIDE DEF s
  <2> QED BY <1>1, <2>1, SameSessionStep DEF Reconnecting
<1>3. CASE ~(s.notice # None \/ (~s.stopped /\ link = "connected")) /\ s.cached
  <2>1. CreateClientSafe(s)
    BY <1>3 DEF EstablishConnection
  <2> HIDE DEF s
  <2>2. Sound(s) /\ DeniedIsShown(s, link) /\ ~Silently(c, link, s, link)
    BY <1>1, SameSession DEF Reconnecting
  <2> QED BY <2>1, <2>2, CreateClientSafeStep
<1>4. CASE ~(s.notice # None \/ (~s.stopped /\ link = "connected")) /\ ~s.cached
  <2>1. c' = r /\ OnlyScripts
    BY <1>4 DEF EstablishConnection, OnlyScripts
  <2> HIDE DEF s
  <2>2. /\ r \in Scripts /\ r.notice = c.notice /\ r.stopped = c.stopped /\ r.until = c.until
        /\ r.closeNext = c.closeNext /\ r.widget = c.widget
    BY <1>0, <1>1 DEF Scripts
  <2> HIDE DEF r
  <2> QED BY <2>1, <2>2, SameSessionStep DEF Reconnecting
<1> QED BY <1>2, <1>3, <1>4

LEMMA TargetPeerResolvedStep ==
  ASSUME Strong, TargetPeerResolved
  PROVE  Good
<1> DEFINE s == [c EXCEPT !.peerCalls = @ - 1, !.cached = TRUE]
<1>1. CreateClientSafe(s)
  BY DEF TargetPeerResolved
<1>2. c.peerCalls - 1 \in 0..MaxPeerCalls /\ TRUE \in BOOLEAN
  BY NoneFacts DEF Strong, TypeOK, Scripts, TargetPeerResolved
<1>3. /\ s \in Scripts /\ s.notice = c.notice /\ s.stopped = c.stopped /\ s.until = c.until
      /\ s.closeNext = c.closeNext /\ s.widget = c.widget
  BY <1>2 DEF Strong, TypeOK, Scripts
<1> HIDE DEF s
<1>4. Sound(s) /\ DeniedIsShown(s, link) /\ ~Silently(c, link, s, link)
  BY <1>3, SameSession DEF Reconnecting
<1> QED BY <1>1, <1>4, CreateClientSafeStep

-----------------------------------------------------------------------------
(* Packets.                                                                 *)

\* An ended session has no transport that packets come from.
LEMMA NoNotice ==
  ASSUME Strong, ~c.stopped
  PROVE  c.notice = None
BY DEF Strong, Sound

LEMMA ConnectionAcceptedStep ==
  ASSUME Strong, ConnectionAccepted
  PROVE  Good
<1> DEFINE until == IF c.until > LoginTime THEN c.until ELSE LoginTime
           r == [c EXCEPT !.until = until, !.retry = None]
           s == IF ~Reconnecting(c) THEN c ELSE r
           t == [s EXCEPT !.listening = FALSE, !.login = LoginTime]
<1>1. c' = t /\ ~c.stopped /\ ~c.closeNext /\ link' = "connected" /\ alive' = alive
  BY DEF ConnectionAccepted, SendLogin
<1>2. until \in Countdown(Longest)
  BY Timers DEF Strong, TypeOK, Scripts
<1>3. c.notice = None
  BY <1>1, NoNotice
<1> HIDE DEF until
<1>4. /\ r \in Scripts /\ r.notice = c.notice /\ r.stopped = c.stopped
      /\ r.closeNext = c.closeNext /\ r.widget = c.widget
  BY <1>2, Timers DEF Strong, TypeOK, Scripts
<1> HIDE DEF r
<1>5. /\ s \in Scripts /\ s.notice = c.notice /\ s.stopped = c.stopped
      /\ s.closeNext = c.closeNext /\ s.widget = c.widget
  BY <1>4 DEF Strong, TypeOK
<1> HIDE DEF s
<1>6. /\ t \in Scripts /\ t.notice = s.notice /\ t.stopped = s.stopped
      /\ t.closeNext = s.closeNext /\ t.widget = s.widget
  <2>1. FALSE \in BOOLEAN
    OBVIOUS
  <2> QED BY <1>5, <2>1, Timers DEF Scripts
<1> HIDE DEF t
<1>7. Sound(c') /\ DeniedIsShown(c', link') /\ ~Silently(c, link, c', link')
  BY <1>1, <1>3, <1>5, <1>6 DEF Sound, DeniedIsShown, Silently, Online
<1> QED BY <1>1, <1>7 DEF Good, Strong, TypeOK, Sound

\* The handlers of a connection that failed or went down.
LEMMA LostStep ==
  ASSUME Strong, ~c.stopped, link' = "none", c' = Lost(c, "other"), UNCHANGED alive
  PROVE  Good
<1>1. /\ Sound(c')
      /\ c'.notice # None \/ Reconnecting(c')
      /\ c'.closeNext = c.closeNext /\ c'.widget = c.widget
  BY LostSound, NoNotice DEF Strong, Ends
<1>2. ~Silently(c, link, c', link')
  BY <1>1, ToldSession DEF Told
<1>3. DeniedIsShown(c', link')
  BY <1>1 DEF DeniedIsShown, Strong
<1>4. TypeOK'
  BY <1>1 DEF TypeOK, Sound, Strong
<1> QED BY <1>1, <1>2, <1>3, <1>4 DEF Good, Strong

LEMMA ConnectionDeniedStep ==
  ASSUME Strong, NEW password \in BOOLEAN, ConnectionDenied(password)
  PROVE  Good
<1> DEFINE s == IF Reconnecting(c) THEN End(c, "other")
                ELSE IF password THEN c ELSE Lost(c, "other")
           t == [s EXCEPT !.closeNext = TRUE, !.widget = "failed", !.listening = TRUE]
<1>1. /\ Sound(s) /\ s.closeNext = c.closeNext /\ s.widget = c.widget
      /\ password \/ s.notice # None \/ Reconnecting(s)
  BY EndSound, LostSound, NoNotice DEF Strong, ConnectionDenied, Ends
<1>2. c' = IF password THEN t ELSE s
  BY DEF ConnectionDenied
<1> HIDE DEF s
<1>3. /\ t \in Scripts /\ t.notice = s.notice /\ t.stopped = s.stopped /\ t.until = s.until
      /\ t.widget = "failed"
  BY <1>1 DEF Sound, Scripts
<1> HIDE DEF t
<1>4. Sound(c') /\ Told(c') /\ (c'.closeNext => c'.widget # None)
  BY <1>1, <1>2, <1>3, NoneFacts DEF Sound, Reconnecting, Told, Strong, DeniedIsShown
<1> QED BY <1>4, ToldSession DEF Good, Strong, TypeOK, Sound, DeniedIsShown, ConnectionDenied

LEMMA CreateActorMessageStep ==
  ASSUME Strong, NEW isMe \in BOOLEAN, CreateActorMessage(isMe)
  PROVE  Good
<1> DEFINE s == IF isMe /\ c.notice = None THEN [StopReconnect(c) EXCEPT !.playing = TRUE] ELSE c
           w == IF s.widget = "dialog" THEN None ELSE s.widget
           t == [s EXCEPT !.login = None, !.widget = w]
           r == [s EXCEPT !.login = None]
<1>1. Received /\ OnlyScripts /\ c' = IF isMe THEN t ELSE r
  BY DEF CreateActorMessage
<1>2. ~c.stopped /\ link = "connected" /\ ~c.closeNext /\ c.notice = None
  BY <1>1, NoNotice DEF Received, Strong, DeniedIsShown
<1>3. s \in Scripts /\ s.notice = None /\ ~s.stopped /\ ~s.closeNext
  <2> DEFINE q == StopReconnect(c)
             p == [q EXCEPT !.playing = TRUE]
  <2>1. q \in Scripts /\ q.notice = None /\ ~q.stopped /\ ~q.closeNext /\ TRUE \in BOOLEAN
    BY <1>2, CloseSound DEF Strong, Sound
  <2> HIDE DEF q
  <2>2. p \in Scripts /\ p.notice = None /\ ~p.stopped /\ ~p.closeNext
    BY <2>1 DEF Scripts
  <2>3. s = IF isMe THEN p ELSE c
    BY <1>2 DEF q
  <2> HIDE DEF p, s
  <2> QED BY <1>2, <2>2, <2>3 DEF Strong, TypeOK
<1> HIDE DEF s
<1>4. w \in {None, "dialog", "failed"}
  BY <1>3 DEF Scripts
<1> HIDE DEF w
<1>5. t \in Scripts /\ t.notice = None /\ ~t.stopped /\ ~t.closeNext
  BY <1>3, <1>4, Timers DEF Scripts
<1>6. r \in Scripts /\ r.notice = None /\ ~r.stopped /\ ~r.closeNext
  BY <1>3, Timers DEF Scripts
<1> HIDE DEF t, r
<1>7. Sound(c') /\ DeniedIsShown(c', link) /\ ~Silently(c, link, c', link)
  BY <1>1, <1>2, <1>5, <1>6 DEF Sound, DeniedIsShown, Silently, Online
<1> QED BY <1>1, <1>7, ScriptsStep
\* A step that shows a form may take the player offline.
LEMMA FormStep ==
  ASSUME Strong, OnlyScripts, Sound(c'), c'.closeNext => c.closeNext, c'.widget # None
  PROVE  Good
<1>1. DeniedIsShown(c', link) /\ Told(c')
  BY DEF DeniedIsShown, Strong, Told
<1> QED BY <1>1, ScriptsStep, ToldSession

LEMMA SessionEndPacketStep ==
  ASSUME Strong, NEW kind \in Ends, SessionEndPacket(kind)
  PROVE  Good
<1>1. /\ Sound(c') /\ c'.notice # None /\ c'.closeNext = c.closeNext /\ c'.widget = c.widget
      /\ OnlyScripts
  BY EndSound DEF Strong, SessionEndPacket
<1>2. DeniedIsShown(c', link) /\ ~Silently(c, link, c', link)
  BY <1>1, ToldSession DEF DeniedIsShown, Strong, Told
<1> QED BY <1>1, <1>2, ScriptsStep

LEMMA SessionPongStep ==
  ASSUME Strong, SessionPong
  PROVE  Good
<1>1. PICK p \in c.pings : c' = [c EXCEPT !.pings = @ \ {p}, !.active = TRUE, !.deadline = PingTime]
  BY DEF SessionPong
<1>2. TRUE \in BOOLEAN /\ OnlyScripts
  BY DEF SessionPong
<1> QED BY <1>1, <1>2, SameSessionStep, Timers DEF Strong, TypeOK, Scripts, Reconnecting

LEMMA LoginFailedStep ==
  ASSUME Strong, NEW banned \in BOOLEAN, LoginFailed(banned)
  PROVE  Good
<1> DEFINE e == IF banned THEN End(c, "ban") ELSE c
           s == Close(e)
           t == [s EXCEPT !.listening = TRUE, !.login = None, !.widget = "failed"]
<1>1. Sound(e) /\ e.closeNext = c.closeNext
  BY EndSound DEF Strong, Ends
<1>2. c' = t /\ OnlyScripts
  BY DEF LoginFailed
<1> HIDE DEF e
<1>3. Sound(s) /\ s.closeNext = c.closeNext
  BY <1>1, CloseSound
<1> HIDE DEF s
<1>4. /\ t \in Scripts /\ t.notice = s.notice /\ t.stopped = s.stopped /\ t.until = s.until
      /\ t.closeNext = s.closeNext /\ t.widget = "failed"
  <2>1. TRUE \in BOOLEAN
    OBVIOUS
  <2> QED BY <1>3, <2>1, Timers DEF Sound, Scripts
<1> HIDE DEF t
<1>5. Sound(c') /\ c'.closeNext = c.closeNext /\ c'.widget # None
  BY <1>2, <1>3, <1>4, NoneFacts DEF Sound, Reconnecting
<1> QED BY <1>2, <1>5, FormStep

LEMMA PlayerAuthResultStep ==
  ASSUME Strong, NEW state, PlayerAuthResult(state)
  PROVE  Good
<1> DEFINE s == IF state = "blocked" THEN End(c, "ban") ELSE c
           t == [s EXCEPT !.login = None, !.widget = "dialog"]
<1>1. Sound(s) /\ s.closeNext = c.closeNext
  BY EndSound DEF Strong, Ends
<1>2. c' = t /\ OnlyScripts
  BY DEF PlayerAuthResult
<1> HIDE DEF s
<1>3. /\ t \in Scripts /\ t.notice = s.notice /\ t.stopped = s.stopped /\ t.until = s.until
      /\ t.closeNext = s.closeNext /\ t.widget = "dialog"
  BY <1>1, Timers DEF Sound, Scripts
<1> HIDE DEF t
<1>4. Sound(c') /\ c'.closeNext = c.closeNext /\ c'.widget # None
  BY <1>1, <1>2, <1>3, NoneFacts DEF Sound, Reconnecting
<1> QED BY <1>2, <1>4, FormStep

LEMMA PlayerAccountRequiredStep ==
  ASSUME Strong, PlayerAccountRequired
  PROVE  Good
<1>1. CASE c.stored = "remote"
  BY <1>1, SameSessionStep DEF PlayerAccountRequired, Strong, TypeOK
<1>2. CASE c.stored # "remote"
  <2> DEFINE s == [c EXCEPT !.login = None]
             r == Close(s)
  <2>1. c' = AuthDialog(r) /\ OnlyScripts
    BY <1>2 DEF PlayerAccountRequired
  <2>2. Sound(s) /\ s.closeNext = c.closeNext
    <3>1. /\ s \in Scripts /\ s.notice = c.notice /\ s.stopped = c.stopped /\ s.until = c.until
          /\ s.closeNext = c.closeNext
      BY Timers DEF Strong, TypeOK, Scripts
    <3> HIDE DEF s
    <3> QED BY <3>1 DEF Strong, Sound, Reconnecting
  <2> HIDE DEF s
  <2>3. Sound(r) /\ r.closeNext = c.closeNext
    BY <2>2, CloseSound
  <2> HIDE DEF r
  <2>4. Sound(c') /\ c'.closeNext = c.closeNext /\ c'.widget # None
    BY <2>1, <2>3, AuthDialogSound, NoneFacts
  <2> QED BY <2>1, <2>4, FormStep
<1> QED BY <1>1, <1>2

LEMMA PacketsStep ==
  ASSUME Strong, Packets
  PROVE  Good
<1>1. CASE ServerHangs
  <2>1. c' = c /\ link' = link /\ alive' \in BOOLEAN
    BY <1>1 DEF ServerHangs
  <2>2. ~Silently(c, link, c', link')
    BY <2>1 DEF Silently
  <2> QED BY <2>1, <2>2 DEF Good, Strong, TypeOK, Sound, DeniedIsShown
<1>2. CASE ConnectionFailed \/ ConnectionDisconnect
  BY <1>2, LostStep DEF ConnectionFailed, ConnectionDisconnect
<1>3. CASE \E b \in BOOLEAN : ConnectionDenied(b) \/ CreateActorMessage(b) \/ LoginFailed(b)
  BY <1>3, ConnectionDeniedStep, CreateActorMessageStep, LoginFailedStep
<1>4. CASE SessionEndPacket("other") \/ SessionEndPacket("ban")
  BY <1>4, SessionEndPacketStep DEF Ends
<1>5. CASE \E s \in {"pending", "blocked"} : PlayerAuthResult(s)
  BY <1>5, PlayerAuthResultStep
<1> QED BY <1>1, <1>2, <1>3, <1>4, <1>5, ConnectionAcceptedStep, SessionPongStep,
             PlayerAccountRequiredStep DEF Packets
-----------------------------------------------------------------------------
(* Ticks.                                                                   *)

LEMMA DestroyClientStep ==
  ASSUME Strong, DestroyClient
  PROVE  Good
<1>1. /\ c' = [c EXCEPT !.destroy = FALSE]
      /\ link' = IF c.stopped THEN "none" ELSE link
      /\ alive' = alive /\ FALSE \in BOOLEAN
  BY DEF DestroyClient
<1>2. /\ c' \in Scripts /\ c'.notice = c.notice /\ c'.stopped = c.stopped /\ c'.until = c.until
      /\ c'.closeNext = c.closeNext /\ c'.widget = c.widget
  BY <1>1 DEF Strong, TypeOK, Scripts
<1>3. Sound(c') /\ DeniedIsShown(c', link')
  BY <1>1, <1>2 DEF Strong, Sound, DeniedIsShown, Reconnecting
<1>4. ~Silently(c, link, c', link')
  BY <1>1, <1>2 DEF Silently, Online, Reconnecting
<1> QED BY <1>1, <1>2, <1>3, <1>4 DEF Good, Strong, TypeOK

LEMMA TickReconnectStep ==
  ASSUME Strong, TickReconnect
  PROVE  Good
<1>1. CASE c.until = 0
  <2>1. Sound(c') /\ c'.notice # None /\ c'.closeNext = c.closeNext /\ c'.widget = c.widget
    BY <1>1, EndSound DEF TickReconnect, Strong, Ends
  <2>2. DeniedIsShown(c', link) /\ ~Silently(c, link, c', link) /\ OnlyScripts
    BY <1>1, <2>1, ToldSession DEF TickReconnect, DeniedIsShown, Strong, Told, OnlyScripts
  <2> QED BY <2>1, <2>2, ScriptsStep
<1>2. CASE c.until # 0
  <2> DEFINE s == [c EXCEPT !.retry = None]
  <2>1. CreateClientSafe(s)
    BY <1>2 DEF TickReconnect
  <2>2. /\ s \in Scripts /\ s.notice = c.notice /\ s.stopped = c.stopped /\ s.until = c.until
        /\ s.closeNext = c.closeNext /\ s.widget = c.widget
    BY Timers DEF Strong, TypeOK, Scripts
  <2> HIDE DEF s
  <2>3. Sound(s) /\ DeniedIsShown(s, link) /\ ~Silently(c, link, s, link)
    BY <2>2, SameSession DEF Reconnecting
  <2> QED BY <2>1, <2>3, CreateClientSafeStep
<1> QED BY <1>1, <1>2

LEMMA HeartbeatStep ==
  ASSUME Strong, Heartbeat
  PROVE  Good
<1> DEFINE deadline == IF c.active THEN PingTime ELSE 0
           rested == [c EXCEPT !.fresh = FALSE, !.deadline = deadline, !.pings = {}, !.beat = 0]
           s == IF c.fresh THEN rested ELSE c
           late == [c EXCEPT !.fresh = TRUE]
           ping == [s EXCEPT !.beat = Beat, !.pings = @ \cup {PingTime}]
<1>1. c.notice = None /\ OnlyScripts
  BY DEF Heartbeat, HeartbeatDue, Watching
<1>2. c' = IF c.loading THEN late
           ELSE IF s.active /\ s.deadline = 0 THEN Lost(s, "other")
           ELSE IF s.beat = 0 THEN ping ELSE s
  BY DEF Heartbeat
<1>3. FALSE \in BOOLEAN /\ TRUE \in BOOLEAN /\ PingTime \in 0..PingTime
  BY NoneFacts
<1>4. /\ late \in Scripts /\ late.notice = c.notice /\ late.stopped = c.stopped /\ late.until = c.until
      /\ late.closeNext = c.closeNext /\ late.widget = c.widget
  BY <1>3 DEF Strong, TypeOK, Scripts
<1> HIDE DEF late
<1>5. deadline \in Countdown(PingTime)
  BY Timers
<1> HIDE DEF deadline
<1>6. /\ rested \in Scripts /\ rested.notice = c.notice /\ rested.stopped = c.stopped
      /\ rested.until = c.until /\ rested.closeNext = c.closeNext /\ rested.widget = c.widget
  BY <1>3, <1>5, Timers DEF Strong, TypeOK, Scripts
<1> HIDE DEF rested
<1>7. /\ s \in Scripts /\ s.notice = c.notice /\ s.stopped = c.stopped /\ s.until = c.until
      /\ s.closeNext = c.closeNext /\ s.widget = c.widget
  BY <1>6 DEF Strong, TypeOK
<1> HIDE DEF s
<1>8. /\ ping \in Scripts /\ ping.notice = s.notice /\ ping.stopped = s.stopped /\ ping.until = s.until
      /\ ping.closeNext = s.closeNext /\ ping.widget = s.widget
  BY <1>3, <1>7, Timers DEF Scripts
<1> HIDE DEF ping
<1>9. CASE c' = Lost(s, "other")
  <2>1. Sound(s) /\ "other" \in Ends
    BY <1>1, <1>7 DEF Sound, Ends
  <2>2. /\ Sound(c') /\ c'.closeNext = c.closeNext /\ c'.widget = c.widget
        /\ c'.notice # None \/ Reconnecting(c')
    BY <1>1, <1>7, <1>9, <2>1, LostSound
  <2>3. DeniedIsShown(c', link) /\ Told(c')
    BY <2>2 DEF Strong, DeniedIsShown, Told
  <2> QED BY <1>1, <2>2, <2>3, ScriptsStep, ToldSession
<1>10. CASE c' \in {late, ping, s}
  BY <1>1, <1>4, <1>7, <1>8, <1>10, SameSessionStep DEF Reconnecting
<1> QED BY <1>2, <1>9, <1>10

LEMMA LoginTimeoutStep ==
  ASSUME Strong, LoginTimeout
  PROVE  Good
<1> DEFINE s == [c EXCEPT !.login = None]
           r == Close(s)
           t == [r EXCEPT !.widget = "failed", !.authData = FALSE]
<1>1. /\ s \in Scripts /\ s.notice = c.notice /\ s.stopped = c.stopped /\ s.until = c.until
      /\ s.closeNext = c.closeNext /\ s.widget = c.widget
  BY Timers DEF Strong, TypeOK, Scripts
<1>2. /\ c.gameplay /\ s.stopped => c' = s /\ OnlyScripts
      /\ c.gameplay /\ ~s.stopped => CreateClientSafe(s)
      /\ ~c.gameplay => c' = t /\ OnlyScripts
  BY DEF LoginTimeout, OnlyScripts
<1> HIDE DEF s
<1>3. Sound(s) /\ DeniedIsShown(s, link) /\ ~Silently(c, link, s, link)
  BY <1>1, SameSession DEF Reconnecting
<1>4. Sound(r) /\ r.closeNext = s.closeNext
  BY <1>3, CloseSound
<1> HIDE DEF r
<1>5. /\ t \in Scripts /\ t.notice = r.notice /\ t.stopped = r.stopped /\ t.until = r.until
      /\ t.closeNext = r.closeNext /\ t.widget = "failed"
  <2>1. FALSE \in BOOLEAN
    OBVIOUS
  <2> QED BY <1>4, <2>1 DEF Sound, Scripts
<1> HIDE DEF t
<1>6. Sound(t) /\ t.closeNext = c.closeNext /\ t.widget # None
  BY <1>1, <1>4, <1>5, NoneFacts DEF Sound, Reconnecting
<1>7. CASE c.gameplay /\ s.stopped
  BY <1>2, <1>3, <1>7, ScriptsStep
<1>8. CASE c.gameplay /\ ~s.stopped
  BY <1>2, <1>3, <1>8, CreateClientSafeStep
<1>9. CASE ~c.gameplay
  BY <1>2, <1>6, <1>9, FormStep
<1> QED BY <1>7, <1>8, <1>9

LEMMA CloseAfterDenialStep ==
  ASSUME Strong, CloseAfterDenial
  PROVE  Good
<1> DEFINE r == Close(c)
           t == [r EXCEPT !.closeNext = FALSE]
<1>1. c' = t /\ OnlyScripts /\ c.closeNext /\ c.widget # None
  BY DEF CloseAfterDenial, Strong, DeniedIsShown
<1>2. Sound(r) /\ r.widget = c.widget /\ FALSE \in BOOLEAN
  BY CloseSound DEF Strong
<1> HIDE DEF r
<1>3. /\ t \in Scripts /\ t.notice = r.notice /\ t.stopped = r.stopped /\ t.until = r.until
      /\ t.widget = r.widget
  BY <1>2 DEF Sound, Scripts
<1> HIDE DEF t
<1>4. Sound(c')
  BY <1>1, <1>2, <1>3 DEF Sound, Reconnecting
<1> QED BY <1>1, <1>2, <1>3, <1>4, FormStep

\* Countdowns go on, and none is set or cleared by it.
LEMMA PassedPings ==
  ASSUME NEW pings \in SUBSET (0..PingTime)
  PROVE  {p - 1 : p \in pings \ {0}} \in SUBSET (0..PingTime)
BY NoneFacts

LEMMA LaterSame ==
  ASSUME Strong
  PROVE  /\ Later(c) \in Scripts /\ Later(c).notice = c.notice /\ Later(c).stopped = c.stopped
         /\ Later(c).until = None <=> c.until = None
         /\ Later(c).closeNext = c.closeNext /\ Later(c).widget = c.widget
<1> DEFINE pings == {p - 1 : p \in c.pings \ {0}}
           t == [c EXCEPT !.until = Passed(@), !.retry = Passed(@), !.deadline = Passed(@), !.beat = Passed(@),
                          !.login = Passed(@), !.menuLeft = Passed(@), !.pings = pings]
<1>1. Later(c) = t
  BY DEF Later
<1>2. pings \in SUBSET (0..PingTime)
  BY PassedPings DEF Strong, TypeOK, Scripts
<1>3. /\ Passed(c.until) \in Countdown(Longest) /\ (Passed(c.until) = None <=> c.until = None)
      /\ Passed(c.retry) \in Countdown(Delay) /\ Passed(c.deadline) \in Countdown(PingTime)
      /\ Passed(c.beat) \in Countdown(Beat) /\ Passed(c.login) \in Countdown(LoginTime)
      /\ Passed(c.menuLeft) \in Countdown(ReachMenu)
  BY Timers, NoneFacts DEF Strong, TypeOK, Scripts
<1> HIDE DEF pings
<1>4. /\ t \in Scripts /\ t.notice = c.notice /\ t.stopped = c.stopped
      /\ t.until = Passed(c.until) /\ t.closeNext = c.closeNext /\ t.widget = c.widget
  BY <1>2, <1>3 DEF Strong, TypeOK, Scripts
<1> HIDE DEF t
<1> QED BY <1>1, <1>3, <1>4

LEMMA PassTimeStep ==
  ASSUME Strong, PassTime
  PROVE  Good
BY LaterSame, SameSessionStep DEF PassTime, Reconnecting

-----------------------------------------------------------------------------
(* The game and the player.                                                 *)

LEMMA MenuMainStep ==
  ASSUME Strong, NEW open \in BOOLEAN, MenuMain(open)
  PROVE  Good
BY SameSessionStep DEF MenuMain, Strong, TypeOK, Scripts, Reconnecting

LEMMA LoadingStep ==
  ASSUME Strong, NEW open \in BOOLEAN, Loading(open)
  PROVE  Good
BY SameSessionStep DEF Loading, Strong, TypeOK, Scripts, Reconnecting

LEMMA StallStep ==
  ASSUME Strong, Stall
  PROVE  Good
<1> DEFINE s == Later(c)
           fresh == s.fresh \/ Watching
           t == [s EXCEPT !.fresh = fresh]
<1>1. c' = t /\ OnlyScripts
  BY DEF Stall
<1>2. fresh \in BOOLEAN
  OBVIOUS
<1>3. /\ s \in Scripts /\ s.notice = c.notice /\ s.stopped = c.stopped
      /\ s.until = None <=> c.until = None
      /\ s.closeNext = c.closeNext /\ s.widget = c.widget
  BY LaterSame
<1> HIDE DEF s, fresh
<1>4. /\ t \in Scripts /\ t.notice = s.notice /\ t.stopped = s.stopped /\ t.until = s.until
      /\ t.closeNext = s.closeNext /\ t.widget = s.widget
  BY <1>2, <1>3 DEF Scripts
<1> HIDE DEF t
<1> QED BY <1>1, <1>3, <1>4, SameSessionStep DEF Reconnecting

LEMMA UpdateStep ==
  ASSUME Strong, Update
  PROVE  Good
<1>1. TRUE \in BOOLEAN
  OBVIOUS
<1> QED BY <1>1, SameSessionStep DEF Update, Strong, TypeOK, Scripts, Reconnecting

LEMMA PressRetryStep ==
  ASSUME Strong, PressRetry
  PROVE  Good
<1> DEFINE s == BeginConnection(c)
<1>1. CreateClientSafe(s) /\ c.notice # None
  BY DEF PressRetry, CanAct
<1>2. /\ Sound(s) /\ s.until = c.until /\ s.stopped = c.stopped
      /\ s.closeNext = c.closeNext /\ s.widget = c.widget
  BY BeginConnectionSound DEF Strong
<1>3. c.stopped /\ ~Reconnecting(c)
  BY <1>1 DEF Strong, Sound
<1> HIDE DEF s
<1>4. DeniedIsShown(s, link) /\ ~Silently(c, link, s, link)
  BY <1>2, <1>3 DEF Strong, DeniedIsShown, Silently, Online
<1> QED BY <1>1, <1>2, <1>4, CreateClientSafeStep

\* The notice may go while the transport is stopped: the session ended before.
LEMMA NoticeStep ==
  ASSUME Strong, OnlyScripts, c' \in Scripts, c.notice # None,
         c'.stopped = c.stopped, c'.until = c.until,
         c'.closeNext = c.closeNext, c'.widget = c.widget
  PROVE  Good
<1>1. c.stopped /\ ~Reconnecting(c)
  BY DEF Strong, Sound
<1>2. Sound(c') /\ DeniedIsShown(c', link) /\ ~Silently(c, link, c', link)
  BY <1>1 DEF Strong, Sound, DeniedIsShown, Silently, Online, Reconnecting
<1> QED BY <1>2, ScriptsStep

LEMMA PressDismissStep ==
  ASSUME Strong, PressDismiss
  PROVE  Good
<1> DEFINE n == [c.notice EXCEPT !.acknowledged = TRUE]
           kept == [c EXCEPT !.notice = n]
           gone == [c EXCEPT !.notice = None, !.menuLeft = None]
<1>1. c.notice # None /\ OnlyScripts /\ c' = IF Blocked THEN kept ELSE gone
  BY DEF PressDismiss, CanAct
<1>2. n \in Notices
  <2>1. c.notice \in Notices /\ TRUE \in BOOLEAN
    BY <1>1 DEF Strong, TypeOK, Scripts
  <2> QED BY <2>1 DEF Notices
<1> HIDE DEF n
<1>3. /\ kept \in Scripts /\ kept.stopped = c.stopped /\ kept.until = c.until
      /\ kept.closeNext = c.closeNext /\ kept.widget = c.widget
  BY <1>2 DEF Strong, TypeOK, Scripts
<1>4. /\ gone \in Scripts /\ gone.stopped = c.stopped /\ gone.until = c.until
      /\ gone.closeNext = c.closeNext /\ gone.widget = c.widget
  BY Timers DEF Strong, TypeOK, Scripts
<1> HIDE DEF kept, gone
<1> QED BY <1>1, <1>3, <1>4, NoticeStep

LEMMA BanExpiresStep ==
  ASSUME Strong, BanExpires
  PROVE  Good
<1> DEFINE n == [c.notice EXCEPT !.expired = TRUE]
<1>1. c.notice # None /\ OnlyScripts /\ c' = [c EXCEPT !.notice = n]
  BY DEF BanExpires
<1>2. n \in Notices
  <2>1. c.notice \in Notices /\ TRUE \in BOOLEAN
    BY <1>1 DEF Strong, TypeOK, Scripts
  <2> QED BY <2>1 DEF Notices
<1> HIDE DEF n
<1>3. /\ c' \in Scripts /\ c'.stopped = c.stopped /\ c'.until = c.until
      /\ c'.closeNext = c.closeNext /\ c'.widget = c.widget
  BY <1>1, <1>2 DEF Strong, TypeOK, Scripts
<1> QED BY <1>1, <1>3, NoticeStep

-----------------------------------------------------------------------------
(* The specification.                                                       *)

LEMMA InitStrong ==
  ASSUME Init
  PROVE  Strong
<1>1. PICK stored \in {None, "steam"} : c = Started(
       [notice |-> None, menuLeft |-> None, playing |-> FALSE, mainMenu |-> TRUE, loading |-> FALSE,
        until |-> None, retry |-> None, active |-> FALSE, deadline |-> 0,
        beat |-> 0, fresh |-> FALSE, pings |-> {}, stopped |-> FALSE, destroy |-> FALSE,
        stored |-> stored, establish |-> FALSE, peerCalls |-> 0, cached |-> FALSE,
        authData |-> FALSE, listening |-> FALSE, gameplay |-> FALSE, closeNext |-> FALSE,
        login |-> None, widget |-> None])
  BY DEF Init
<1> DEFINE s == [notice |-> None, menuLeft |-> None, playing |-> FALSE, mainMenu |-> TRUE, loading |-> FALSE,
        until |-> None, retry |-> None, active |-> FALSE, deadline |-> 0,
        beat |-> 0, fresh |-> FALSE, pings |-> {}, stopped |-> FALSE, destroy |-> FALSE,
        stored |-> stored, establish |-> FALSE, peerCalls |-> 0, cached |-> FALSE,
        authData |-> FALSE, listening |-> FALSE, gameplay |-> FALSE, closeNext |-> FALSE,
        login |-> None, widget |-> None]
<1>2. c = Started(s)
  BY <1>1
<1>3. s \in Scripts
  <2>1. TRUE \in BOOLEAN /\ FALSE \in BOOLEAN /\ 0 \in 0..MaxPeerCalls
    BY NoneFacts
  <2> QED BY <2>1, Timers DEF Scripts
<1>4. s.notice = None
  OBVIOUS
<1> HIDE DEF s
<1>5. Sound(c) /\ ~c.closeNext
  BY <1>2, <1>3, <1>4, StartedSound DEF Sound
<1>6. link \in {"none", "connecting", "connected"} /\ alive \in BOOLEAN
  BY DEF Init
<1> QED BY <1>5, <1>6 DEF Strong, TypeOK, Sound, DeniedIsShown

LEMMA NextGood ==
  ASSUME Strong, [Next]_vars
  PROVE  Good
<1>1. CASE UNCHANGED vars
  BY <1>1 DEF vars, Good, Strong, TypeOK, Sound, DeniedIsShown, Silently
<1>2. CASE \E open \in BOOLEAN : MenuMain(open) \/ Loading(open)
  BY <1>2, MenuMainStep, LoadingStep
<1>3. CASE LoginStateAnswered \/ AuthAttempt \/ ReloadScripts \/ EstablishConnection \/ TargetPeerResolved
  BY <1>3, LoginStateAnsweredStep, AuthAttemptStep, ReloadScriptsStep, EstablishConnectionStep,
     TargetPeerResolvedStep
<1>4. CASE \/ DestroyClient \/ TickReconnect \/ Heartbeat \/ LoginTimeout \/ CloseAfterDenial
           \/ PassTime
  BY <1>4, DestroyClientStep, TickReconnectStep, HeartbeatStep, LoginTimeoutStep, CloseAfterDenialStep,
     PassTimeStep
<1>5. CASE Stall \/ Update \/ PressRetry \/ PressDismiss \/ BanExpires
  BY <1>5, StallStep, UpdateStep, PressRetryStep, PressDismissStep, BanExpiresStep
<1> QED BY <1>1, <1>2, <1>3, <1>4, <1>5, PacketsStep DEF Next

LEMMA StrongHolds == Spec => []Strong
<1>1. Init => Strong
  BY InitStrong
<1>2. Strong /\ [Next]_vars => Strong'
  BY NextGood DEF Good
<1> QED BY <1>1, <1>2, PTL DEF Spec

\* An ended session keeps its transport stopped and waits for no reconnect, whatever packets,
\* answers, clicks and reloads follow (sessionEndClient.ts, networkingService.ts), and every
\* variable keeps its type.
THEOREM InvHolds == Spec => []Inv
<1>1. Strong => Inv
  BY DEF Strong, Inv, Sound, EndedIsStopped
<1> QED BY <1>1, StrongHolds, PTL

\* Whichever handler takes a player in the world offline or gives up reconnecting, a notice,
\* the reconnect banner or a form tells of it (sessionEndClient.ts, authService.ts).
THEOREM NeverSilentlyOfflineHolds == Spec => NeverSilentlyOffline
<1>1. /\ Strong /\ [Next]_vars
      => [/\ c.playing /\ ~c.mainMenu /\ Online(c, link) /\ ~Online(c', link') => Told(c')
          /\ Reconnecting(c) /\ ~Reconnecting(c') => Told(c') \/ Online(c', link')]_vars
  BY NextGood DEF Good, Silently
<1> QED BY <1>1, StrongHolds, PTL DEF Spec, NeverSilentlyOffline

-----------------------------------------------------------------------------
(* The player's own actor.                                                  *)

\* Every nonempty set of numbers has a smallest element.
LEMMA SmallestOfSet ==
  ASSUME NEW S \in SUBSET Nat, S # {}
  PROVE  \E n \in S : \A k \in S : n <= k
<1> DEFINE R == StrictSubsetOrdering(Nat)
           F == FiniteSubsetsOf(Nat)
           T == {0..n : n \in S}
<1>1. IsWellFoundedOn(R, F)
  BY FS_StrictSubsetOrderingWellFounded
<1>2. T \subseteq F /\ T # {}
  <2>1. \A n \in S : n \in Int /\ 0 \in Int
    OBVIOUS
  <2>2. \A n \in S : IsFiniteSet(0..n)
    BY <2>1, FS_Interval, Zenon
  <2>3. \A n \in S : 0..n \in SUBSET Nat
    OBVIOUS
  <2> QED BY <2>2, <2>3, Zenon DEF FiniteSubsetsOf
<1>3. \E x \in T : \A y \in T : ~(<<y, x>> \in R)
  <2> HIDE DEF R, F, T
  <2> QED BY <1>1, <1>2, WFMin
<1>4. PICK n \in S : \A k \in S : ~(<<0..k, 0..n>> \in R)
  BY <1>3
<1>5. ASSUME NEW k \in S PROVE n <= k
  <2> HIDE DEF R, F, T
  <2>0. k \in Nat /\ n \in Nat
    BY <1>4, <1>5
  <2>1. SUFFICES ASSUME k < n PROVE FALSE
    BY <2>0
  <2>2. 0..k \subseteq 0..n /\ n \in 0..n /\ n \notin 0..k
    BY <2>0, <2>1
  <2>3. 0..k \in SUBSET Nat /\ 0..n \in SUBSET Nat /\ 0..k # 0..n
    BY <2>0, <2>2
  <2> QED BY <1>4, <2>2, <2>3 DEF StrictSubsetOrdering, R
<1> QED BY <1>5

-----------------------------------------------------------------------------
(* The spawn of the player.                                                 *)

SpawnScripts == [
  revision : 0..MaxRevision, spawning : BOOLEAN, current : Revisions \cup {None},
  target : [Revisions -> Places \cup {None}], running : SUBSET Revisions,
  ticks : [Revisions -> 0..2], loop : [Revisions -> {"none", "check", "wait", "arrived"}],
  queue : Seq(Callbacks), me : BOOLEAN, sets : Nat, known : [Revisions -> Nat],
  inv : [Revisions -> Inventories \cup {None}], timers : [Revisions -> 0..2],
  pcInv : Inventories \cup {None}]

Engines == [world : {"menu", "loading", "playing"}, at : Places \cup {Template}, move : Places \cup {None}]

\* Callbacks that may start the loop of revision r, from the n-th of q on.
Starts(cb, r) == cb.op \in {"spawn", "loaded"} /\ cb.rev = r
Loads(cb, r) == cb.op = "loaded" /\ cb.rev = r
Waits(q, n, r) == \E k \in (n + 1)..Len(q) : Starts(q[k], r)
LoadWaits(q, n, r) == \E k \in (n + 1)..Len(q) : Loads(q[k], r)
OneLoad(q, n, r) == \A k, l \in (n + 1)..Len(q) : Loads(q[k], r) /\ Loads(q[l], r) => k = l

\* What is known of revision r, when the callbacks of q from the n-th on have not run.
Restores(s, q, n, r) ==
  LET busy == r \in s.running \/ s.ticks[r] > 0 \/ Waits(q, n, r) IN
  /\ s.timers[r] > 0 \/ s.ticks[r] > 0 \/ Waits(q, n, r) => s.inv[r] # None
  /\ s.timers[r] > 0 => r <= s.revision
  /\ busy => r <= s.revision /\ (r = s.revision => s.current = r)
  /\ s.loop[r] # "none" => r \in s.running /\ (r = s.revision => s.spawning)
  /\ LoadWaits(q, n, r) => r \in s.running /\ s.loop[r] = "none" /\ (r = s.revision => s.spawning)
  /\ OneLoad(q, n, r)

\* A spawning that ended did so in a revision whose loop ran.
SpawnEnded(s) == ~s.spawning => s.revision \in s.running

SpawnStrong ==
  /\ SpawnTypeOK
  /\ SpawnEnded(sc)
  /\ \A r \in Revisions : Restores(sc, sc.queue, 0, r)
  /\ told.inv <= sc.revision + told.events

\* MovementWaitsForPlace of a step.
PlaceWaited == SendsMovement' /\ ~SendsMovement => g.at = sc.target[sc.revision] /\ sc.current = sc.revision

LEMMA SpawnConstants ==
  /\ MaxRevision \in Nat /\ MaxDisturbances \in Nat
  /\ None \notin Nat /\ None \notin Places /\ None # Template /\ Template \notin Places
  /\ Revisions \subseteq Nat /\ Inventories \subseteq Nat /\ None \notin Revisions /\ None \notin Inventories
BY PlaceAssumption DEF Revisions, Inventories

LEMMA CallbackTypes ==
  /\ \A place \in Places : [op |-> "teleport", place |-> place] \in Callbacks
  /\ \A r \in Revisions : [op |-> "spawn", rev |-> r] \in Callbacks /\ [op |-> "loaded", rev |-> r] \in Callbacks
  /\ \A i \in Inventories : [op |-> "inventory", inv |-> i] \in Callbacks
  /\ [op |-> "quit"] \in Callbacks
  /\ \A cb \in Callbacks :
       /\ cb.op \in {"teleport", "spawn", "loaded", "inventory", "quit"}
       /\ cb.op = "teleport" => cb.place \in Places
       /\ cb.op \in {"spawn", "loaded"} => cb.rev \in Revisions
       /\ cb.op = "inventory" => cb.inv \in Inventories
BY DEF Callbacks

\* A callback that is added waits, and those before it still do.
LEMMA AppendWaits ==
  ASSUME NEW q \in Seq(Callbacks), NEW cb \in Callbacks, NEW r \in Revisions
  PROVE  /\ Append(q, cb) \in Seq(Callbacks)
         /\ Waits(Append(q, cb), 0, r) <=> Waits(q, 0, r) \/ Starts(cb, r)
         /\ LoadWaits(Append(q, cb), 0, r) <=> LoadWaits(q, 0, r) \/ Loads(cb, r)
         /\ OneLoad(q, 0, r) /\ ~(LoadWaits(q, 0, r) /\ Loads(cb, r)) => OneLoad(Append(q, cb), 0, r)
<1> DEFINE p == Append(q, cb)
<1>1. /\ p \in Seq(Callbacks) /\ Len(p) = Len(q) + 1 /\ p[Len(q) + 1] = cb /\ Len(q) \in Nat
      /\ \A k \in 1..Len(q) : p[k] = q[k]
  OBVIOUS
<1> HIDE DEF p
<1>2. \A k : k \in (0 + 1)..Len(p) <=> k \in (0 + 1)..Len(q) \/ k = Len(q) + 1
  BY <1>1
<1>3. \A k \in (0 + 1)..Len(q) : p[k] = q[k] /\ k # Len(q) + 1
  BY <1>1
<1>4. Waits(p, 0, r) <=> Waits(q, 0, r) \/ Starts(cb, r)
  BY <1>1, <1>2, <1>3 DEF Waits
<1>5. LoadWaits(p, 0, r) <=> LoadWaits(q, 0, r) \/ Loads(cb, r)
  BY <1>1, <1>2, <1>3 DEF LoadWaits
<1>6. OneLoad(q, 0, r) /\ ~(LoadWaits(q, 0, r) /\ Loads(cb, r)) => OneLoad(p, 0, r)
  BY <1>1, <1>2, <1>3 DEF OneLoad, LoadWaits
<1> QED BY <1>1, <1>4, <1>5, <1>6 DEF p

\* One callback runs, the others still wait.
LEMMA NextWaits ==
  ASSUME NEW q \in Seq(Callbacks), NEW n \in 0..(Len(q) - 1), NEW r \in Revisions
  PROVE  /\ Waits(q, n, r) <=> Waits(q, n + 1, r) \/ Starts(q[n + 1], r)
         /\ LoadWaits(q, n, r) <=> LoadWaits(q, n + 1, r) \/ Loads(q[n + 1], r)
         /\ OneLoad(q, n, r) => OneLoad(q, n + 1, r) /\ ~(LoadWaits(q, n + 1, r) /\ Loads(q[n + 1], r))
<1>1. \A k : k \in (n + 1)..Len(q) <=> k \in (n + 1 + 1)..Len(q) \/ k = n + 1
  OBVIOUS
<1>2. \A k \in (n + 1 + 1)..Len(q) : k # n + 1
  OBVIOUS
<1>3. Waits(q, n, r) <=> Waits(q, n + 1, r) \/ Starts(q[n + 1], r)
  BY <1>1 DEF Waits
<1>4. LoadWaits(q, n, r) <=> LoadWaits(q, n + 1, r) \/ Loads(q[n + 1], r)
  BY <1>1 DEF LoadWaits
<1>5. OneLoad(q, n, r) => OneLoad(q, n + 1, r) /\ ~(LoadWaits(q, n + 1, r) /\ Loads(q[n + 1], r))
  BY <1>1, <1>2 DEF OneLoad, LoadWaits
<1> QED BY <1>3, <1>4, <1>5

\* Nothing waits in a queue of inventories.
OnlyInventories(q) == \A k \in 1..Len(q) : q[k].op = "inventory"

LEMMA InventoriesWait ==
  ASSUME NEW q \in Seq(Callbacks), OnlyInventories(q), NEW r
  PROVE  ~Waits(q, 0, r) /\ ~LoadWaits(q, 0, r) /\ OneLoad(q, 0, r)
BY DEF OnlyInventories, Waits, LoadWaits, OneLoad, Starts, Loads
\* What holds while the callbacks of q run, n of them so far, for a client that was in state old.
Underway(sg, q, n, old) ==
  /\ sg \in [s : SpawnScripts, g : Engines]
  /\ OnlyInventories(sg.s.queue)
  /\ SpawnEnded(sg.s)
  /\ sg.s.spawning = old.spawning /\ sg.s.me = old.me /\ sg.s.revision = old.revision
  /\ \A r \in Revisions : Restores(sg.s, q, n, r)

\* An inventory is left for the next update.
LEMMA SetInventoryQueues ==
  ASSUME NEW s \in SpawnScripts, NEW i \in Inventories
  PROVE  LET t == SetInventory(s, i) IN
         /\ t \in SpawnScripts
         /\ t.queue = Append(s.queue, [op |-> "inventory", inv |-> i])
         /\ t = [s EXCEPT !.sets = t.sets, !.queue = t.queue]
         /\ OnlyInventories(s.queue) => OnlyInventories(t.queue)
         /\ \A r \in Revisions :
              /\ Waits(t.queue, 0, r) <=> Waits(s.queue, 0, r)
              /\ LoadWaits(t.queue, 0, r) <=> LoadWaits(s.queue, 0, r)
              /\ OneLoad(s.queue, 0, r) => OneLoad(t.queue, 0, r)
<1> DEFINE cb == [op |-> "inventory", inv |-> i]
           q == Append(s.queue, cb)
           t == SetInventory(s, i)
<1>1. s.queue \in Seq(Callbacks) /\ cb \in Callbacks /\ cb.op = "inventory" /\ s.sets \in Nat
  BY CallbackTypes DEF SpawnScripts
<1>2. q \in Seq(Callbacks) /\ \A r \in Revisions :
         /\ Waits(q, 0, r) <=> Waits(s.queue, 0, r)
         /\ LoadWaits(q, 0, r) <=> LoadWaits(s.queue, 0, r)
         /\ OneLoad(s.queue, 0, r) => OneLoad(q, 0, r)
  <2> HIDE DEF cb
  <2>1. ASSUME NEW r \in Revisions PROVE ~Starts(cb, r) /\ ~Loads(cb, r)
    BY <1>1 DEF Starts, Loads
  <2> QED BY <1>1, <2>1, AppendWaits
<1>3. OnlyInventories(s.queue) => OnlyInventories(q)
  <2> HIDE DEF cb
  <2>1. Len(q) = Len(s.queue) + 1 /\ \A k \in 1..Len(q) : q[k] = IF k = Len(q) THEN cb ELSE s.queue[k]
    BY <1>1
  <2> HIDE DEF q
  <2> QED BY <1>1, <2>1 DEF OnlyInventories
<1>4. t = [s EXCEPT !.sets = s.sets + 1, !.queue = q]
  BY DEF SetInventory
<1> HIDE DEF q, cb, t
<1>5. t \in SpawnScripts /\ t.queue = q /\ t.sets = s.sets + 1
  <2> DEFINE n == s.sets + 1
  <2>1. n \in Nat
    BY <1>1
  <2>2. t = [s EXCEPT !.sets = n, !.queue = q]
    BY <1>4
  <2> HIDE DEF n
  <2> QED BY <1>2, <2>1, <2>2 DEF SpawnScripts, n
<1> QED BY <1>2, <1>3, <1>4, <1>5 DEF q, cb, t

\* One callback runs.
LEMMA CallbackRuns ==
  ASSUME NEW sg, NEW q \in Seq(Callbacks), NEW n \in 0..(Len(q) - 1), NEW old, Underway(sg, q, n, old)
  PROVE  Underway(RunCallback(sg, q[n + 1]), q, n + 1, old)
<1> DEFINE cb == q[n + 1]
           s == sg.s
           t == RunCallback(sg, cb)
<1>1. cb \in Callbacks
  OBVIOUS
<1>2. \A r \in Revisions :
         /\ Waits(q, n, r) <=> Waits(q, n + 1, r) \/ Starts(cb, r)
         /\ LoadWaits(q, n, r) <=> LoadWaits(q, n + 1, r) \/ Loads(cb, r)
         /\ OneLoad(q, n, r) => OneLoad(q, n + 1, r) /\ ~(LoadWaits(q, n + 1, r) /\ Loads(cb, r))
  BY NextWaits
<1>3. /\ s \in SpawnScripts /\ sg.g \in Engines /\ sg = [s |-> s, g |-> sg.g]
      /\ OnlyInventories(s.queue) /\ SpawnEnded(s)
      /\ s.spawning = old.spawning /\ s.me = old.me /\ s.revision = old.revision
  BY DEF Underway
<1>4. \A r \in Revisions : Restores(s, q, n, r)
  BY DEF Underway
<1>5. \A r \in Revisions : Restores(s, q, n + 1, r)
  <2> HIDE DEF cb, s
  <2> QED BY <1>2, <1>4 DEF Restores
<1> HIDE DEF cb, s
<1>6. CASE cb.op = "teleport"
  <2> DEFINE u == IF s.me /\ s.spawning /\ s.current # None THEN [s EXCEPT !.target[s.current] = cb.place] ELSE s
             h == [sg.g EXCEPT !.move = cb.place]
  <2>1. t = [s |-> u, g |-> h]
    BY <1>6 DEF RunCallback, s
  <2>2. cb.place \in Places
    BY <1>1, <1>6, CallbackTypes
  <2>3. h \in Engines
    BY <1>3, <2>2 DEF Engines
  <2>4. u \in SpawnScripts /\ u = [s EXCEPT !.target = u.target]
    BY <1>3, <2>2 DEF SpawnScripts
  <2> HIDE DEF u, h
  <2>7. /\ u.inv = s.inv /\ u.revision = s.revision /\ u.running = s.running /\ u.loop = s.loop
        /\ u.current = s.current /\ u.ticks = s.ticks /\ u.spawning = s.spawning /\ u.timers = s.timers
    BY <1>3, <2>4 DEF SpawnScripts
  <2>5. \A r \in Revisions : Restores(u, q, n + 1, r)
    BY <1>5, <2>7 DEF Restores
  <2>6. OnlyInventories(u.queue) /\ SpawnEnded(u) /\ u.spawning = s.spawning /\ u.me = s.me /\ u.revision = s.revision
    BY <1>3, <2>4 DEF SpawnEnded, SpawnScripts
  <2> HIDE DEF t
  <2> QED BY <1>3, <2>1, <2>3, <2>4, <2>5, <2>6 DEF Underway, t, cb
<1>7. CASE cb.op = "spawn"
  <2> DEFINE v == cb.rev
             u == [StartLoop(s, v) EXCEPT !.running = @ \cup {v}, !.timers[v] = 2]
  <2>1. CASE s.revision # v \/ v \in s.running
    <3>1. t = sg
      BY <1>7, <2>1 DEF RunCallback, s
    <3> QED BY <1>3, <1>5, <3>1 DEF Underway, s, t, cb
  <2>2. CASE s.revision = v /\ v \notin s.running
    <3>1. t = [s |-> u, g |-> sg.g]
      <4>1. t = [sg EXCEPT !.s = u]
        BY <1>7, <2>2 DEF RunCallback, s
      <4> HIDE DEF u, t
      <4> QED BY <1>3, <4>1
    <3>2. v \in Revisions
      BY <1>1, <1>7, CallbackTypes
    <3> DEFINE w == StartLoop(s, v)
    <3>3. /\ u \in SpawnScripts
          /\ u = [s EXCEPT !.loop = u.loop, !.running = u.running, !.timers = u.timers]
          /\ u.running = s.running \cup {v}
          /\ \A r \in Revisions : /\ u.loop[r] = IF r = v THEN "check" ELSE s.loop[r]
                                  /\ u.timers[r] = IF r = v THEN 2 ELSE s.timers[r]
      <4>1. /\ w \in SpawnScripts /\ w = [s EXCEPT !.loop = w.loop]
            /\ w.running = s.running /\ w.timers = s.timers
            /\ \A r \in Revisions : w.loop[r] = IF r = v THEN "check" ELSE s.loop[r]
        BY <1>3, <3>2 DEF SpawnScripts, StartLoop
      <4>2. u = [w EXCEPT !.running = s.running \cup {v}, !.timers = [s.timers EXCEPT ![v] = 2]]
        BY <4>1
      <4>3. s.running \cup {v} \in SUBSET Revisions /\ [s.timers EXCEPT ![v] = 2] \in [Revisions -> 0..2]
        BY <1>3, <3>2 DEF SpawnScripts
      <4>4. \A r \in Revisions : [s.timers EXCEPT ![v] = 2][r] = IF r = v THEN 2 ELSE s.timers[r]
        BY <1>3, <3>2 DEF SpawnScripts
      <4> DEFINE ru == s.running \cup {v}
                 ti == [s.timers EXCEPT ![v] = 2]
      <4> HIDE DEF w, u, ru, ti
      <4>5. /\ u \in SpawnScripts /\ u.running = ru /\ u.timers = ti /\ u.loop = w.loop
        BY <4>1, <4>2, <4>3 DEF SpawnScripts, ru, ti
      <4>6. u = [s EXCEPT !.loop = u.loop, !.running = u.running, !.timers = u.timers]
        BY <1>3, <4>1, <4>2, <4>3, <4>5 DEF SpawnScripts, ru, ti
      <4> QED BY <4>1, <4>4, <4>5, <4>6 DEF ru, ti
    <3>4. Starts(cb, v) /\ \A r : ~Loads(cb, r)
      BY <1>7 DEF Starts, Loads
    <3> HIDE DEF u, v
    <3>5. ~LoadWaits(q, n + 1, v) /\ s.spawning
      BY <1>3, <1>5, <2>2, <3>2 DEF Restores, SpawnEnded
    <3>6. s.inv[v] # None /\ s.current = v
      BY <1>2, <1>4, <2>2, <3>2, <3>4 DEF Restores
    <3>7. /\ u.revision = s.revision /\ u.spawning = s.spawning /\ u.me = s.me /\ u.queue = s.queue
          /\ u.current = s.current /\ u.ticks = s.ticks /\ u.inv = s.inv
      BY <1>3, <3>3 DEF SpawnScripts
    <3>8. ASSUME NEW r \in Revisions PROVE Restores(u, q, n + 1, r)
      <4>1. CASE r = v
        BY <1>2, <1>5, <2>2, <3>2, <3>3, <3>5, <3>6, <3>7, <4>1, SpawnConstants DEF Restores
      <4>2. CASE r # v
        BY <1>5, <3>3, <3>7, <4>2 DEF Restores
      <4> QED BY <4>1, <4>2
    <3>9. OnlyInventories(u.queue) /\ SpawnEnded(u)
      BY <1>3, <3>5, <3>7 DEF SpawnEnded
    <3> HIDE DEF t
    <3> QED BY <1>3, <3>1, <3>3, <3>7, <3>8, <3>9 DEF Underway, t, cb
  <2> QED BY <2>1, <2>2
<1>8. CASE cb.op = "loaded"
  <2> DEFINE v == cb.rev
             w == StartLoop(s, v)
             x == ApplyPcInv(w, v)
             u == [x EXCEPT !.timers[v] = 1]
  <2>1. CASE s.revision # v
    <3>1. t = sg
      BY <1>8, <2>1 DEF RunCallback, s
    <3> QED BY <1>3, <1>5, <3>1 DEF Underway, s, t, cb
  <2>2. CASE s.revision = v
    <3>1. t = [s |-> u, g |-> sg.g]
      <4>1. t = [sg EXCEPT !.s = u]
        BY <1>8, <2>2 DEF RunCallback, s
      <4> HIDE DEF u, t
      <4> QED BY <1>3, <4>1
    <3>2. v \in Revisions
      BY <1>1, <1>8, CallbackTypes
    <3>3. Starts(cb, v) /\ Loads(cb, v)
      BY <1>8 DEF Starts, Loads
    <3>4. /\ s.inv[v] # None /\ s.current = v /\ v \in s.running /\ s.spawning /\ ~LoadWaits(q, n + 1, v)
      <4> HIDE DEF v
      <4> QED BY <1>2, <1>4, <2>2, <3>2, <3>3 DEF Restores
    <3>5. /\ w \in SpawnScripts /\ w = [s EXCEPT !.loop = w.loop]
          /\ \A r \in Revisions : w.loop[r] = IF r = v THEN "check" ELSE s.loop[r]
      BY <1>3, <3>2 DEF SpawnScripts, StartLoop
    <3> HIDE DEF w, v
    <3>6. /\ w.inv = s.inv /\ w.revision = s.revision /\ w.queue = s.queue /\ w.running = s.running
          /\ w.current = s.current /\ w.ticks = s.ticks /\ w.spawning = s.spawning /\ w.me = s.me
          /\ w.timers = s.timers
      BY <1>3, <3>5 DEF SpawnScripts
    <3>7. /\ x \in SpawnScripts /\ x = [w EXCEPT !.sets = x.sets, !.queue = x.queue]
          /\ OnlyInventories(x.queue)
      <4>1. CASE w.sets = w.known[v]
        <5>1. s.inv[v] \in Inventories
          BY <1>3, <3>2, <3>4 DEF SpawnScripts
        <5>2. x = SetInventory(w, s.inv[v])
          BY <3>6, <4>1 DEF ApplyPcInv
        <5> HIDE DEF x
        <5> QED BY <1>3, <3>5, <3>6, <5>1, <5>2, SetInventoryQueues
      <4>2. CASE w.sets # w.known[v]
        BY <1>3, <3>5, <3>6, <4>2 DEF ApplyPcInv, SpawnScripts
      <4> QED BY <4>1, <4>2
    <3> HIDE DEF x
    <3>12. /\ u \in SpawnScripts /\ u = [x EXCEPT !.timers = u.timers]
           /\ \A r \in Revisions : u.timers[r] = IF r = v THEN 1 ELSE x.timers[r]
      <4>1. [x.timers EXCEPT ![v] = 1] \in [Revisions -> 0..2]
        BY <3>2, <3>7 DEF SpawnScripts
      <4>2. \A r \in Revisions : [x.timers EXCEPT ![v] = 1][r] = IF r = v THEN 1 ELSE x.timers[r]
        BY <3>2, <3>7 DEF SpawnScripts
      <4> DEFINE ti == [x.timers EXCEPT ![v] = 1]
      <4>3. u = [x EXCEPT !.timers = ti]
        OBVIOUS
      <4> HIDE DEF ti, u
      <4>4. u \in SpawnScripts /\ u.timers = ti
        BY <3>7, <4>1, <4>3 DEF SpawnScripts, ti
      <4> QED BY <4>2, <4>3, <4>4 DEF ti
    <3> HIDE DEF u
    <3>8. /\ u \in SpawnScripts
          /\ \A r \in Revisions : u.timers[r] = IF r = v THEN 1 ELSE x.timers[r]
          /\ u.inv = x.inv /\ u.revision = x.revision /\ u.queue = x.queue /\ u.running = x.running
          /\ u.current = x.current /\ u.ticks = x.ticks /\ u.spawning = x.spawning /\ u.me = x.me
          /\ u.loop = x.loop
      BY <3>7, <3>12 DEF SpawnScripts
    <3>9. /\ x.inv = s.inv /\ x.revision = s.revision /\ x.running = s.running
          /\ x.current = s.current /\ x.ticks = s.ticks /\ x.spawning = s.spawning /\ x.me = s.me
          /\ x.timers = s.timers /\ x.loop = w.loop
      BY <3>5, <3>6, <3>7 DEF SpawnScripts
    <3>10. ASSUME NEW r \in Revisions PROVE Restores(u, q, n + 1, r)
      <4>1. CASE r = v
        BY <1>2, <1>5, <2>2, <3>2, <3>4, <3>5, <3>8, <3>9, <4>1, SpawnConstants DEF Restores
      <4>2. CASE r # v
        BY <1>5, <3>5, <3>8, <3>9, <4>2 DEF Restores
      <4> QED BY <4>1, <4>2
    <3>11. OnlyInventories(u.queue) /\ SpawnEnded(u)
      BY <3>4, <3>7, <3>8, <3>9 DEF SpawnEnded
    <3> HIDE DEF t
    <3> QED BY <1>3, <3>1, <3>8, <3>9, <3>10, <3>11 DEF Underway, t, cb
  <2> QED BY <2>1, <2>2
<1>9. CASE cb.op = "inventory"
  <2> DEFINE u == [s EXCEPT !.pcInv = cb.inv]
  <2>1. t = [s |-> u, g |-> sg.g]
    <3>1. t = [sg EXCEPT !.s = u]
      BY <1>9 DEF RunCallback, s
    <3> HIDE DEF u, t
    <3> QED BY <1>3, <3>1
  <2>2. cb.inv \in Inventories
    BY <1>1, <1>9, CallbackTypes
  <2>3. u \in SpawnScripts /\ u = [s EXCEPT !.pcInv = u.pcInv]
    BY <1>3, <2>2 DEF SpawnScripts
  <2> HIDE DEF u
  <2>6. /\ u.inv = s.inv /\ u.revision = s.revision /\ u.running = s.running /\ u.loop = s.loop
        /\ u.current = s.current /\ u.ticks = s.ticks /\ u.spawning = s.spawning /\ u.timers = s.timers
    BY <1>3, <2>3 DEF SpawnScripts
  <2>4. \A r \in Revisions : Restores(u, q, n + 1, r)
    BY <1>5, <2>6 DEF Restores
  <2>5. OnlyInventories(u.queue) /\ SpawnEnded(u) /\ u.spawning = s.spawning /\ u.me = s.me /\ u.revision = s.revision
    BY <1>3, <2>3 DEF SpawnEnded, SpawnScripts
  <2> HIDE DEF t
  <2> QED BY <1>3, <2>1, <2>3, <2>4, <2>5 DEF Underway, t, cb
<1>10. CASE cb.op = "quit"
  <2> DEFINE h == [sg.g EXCEPT !.world = "menu"]
  <2>1. t = [s |-> s, g |-> h]
    <3>1. t = [sg EXCEPT !.g.world = "menu"]
      BY <1>10 DEF RunCallback, s
    <3> HIDE DEF t
    <3> QED BY <1>3, <3>1
  <2>2. h \in Engines
    BY <1>3 DEF Engines
  <2> HIDE DEF t, h
  <2> QED BY <1>3, <1>5, <2>1, <2>2 DEF Underway, t, cb
<1> QED BY <1>1, <1>6, <1>7, <1>8, <1>9, <1>10, CallbackTypes
\* The callbacks of a queue have states between them, each after the one before.
LEMMA StatesBetween ==
  ASSUME NEW sg, NEW q \in Seq(Callbacks)
  PROVE  \E f : /\ f[0] = sg /\ f[Len(q)] = RunCallbacksInWorld(sg, q)
                /\ \A n \in 1..Len(q) : f[n] = RunCallback(f[n - 1], q[n])
<1> DEFINE Begins(f, n) == f = [i \in 0..n |-> IF i = 0 THEN sg ELSE RunCallback(f[i - 1], q[i])]
           Missing == {n \in 0..Len(q) : ~(\E f : Begins(f, n))}
<1>1. Len(q) \in Nat
  OBVIOUS
<1>2. Missing = {}
  <2>1. SUFFICES ASSUME Missing # {} PROVE FALSE
    OBVIOUS
  <2>2. Missing \in SUBSET Nat
    BY <1>1
  <2>3. PICK n \in Missing : \A k \in Missing : n <= k
    <3> HIDE DEF Missing
    <3> QED BY <2>1, <2>2, SmallestOfSet
  <2>4. n \in 0..Len(q) /\ ~(\E f : Begins(f, n))
    OBVIOUS
  <2>5. CASE n = 0
    <3> DEFINE f == [i \in 0..0 |-> sg]
    <3>1. f = [i \in 0..0 |-> IF i = 0 THEN sg ELSE RunCallback(f[i - 1], q[i])]
      OBVIOUS
    <3> HIDE DEF f
    <3>2. Begins(f, 0)
      BY <3>1
    <3> HIDE DEF Begins
    <3> QED BY <2>4, <2>5, <3>2
  <2>6. CASE n # 0
    <3>1. n - 1 \in 0..Len(q) /\ n - 1 \notin Missing
      <4>1. n - 1 \in 0..Len(q) /\ ~(n <= n - 1)
        BY <1>1, <2>4, <2>6
      <4> HIDE DEF Missing
      <4> QED BY <2>3, <4>1
    <3>2. PICK f : Begins(f, n - 1)
      BY <3>1
    <3> DEFINE h == [i \in 0..n |-> IF i = n THEN RunCallback(f[n - 1], q[n]) ELSE f[i]]
    <3>3. \A i \in 0..(n - 1) : f[i] = IF i = 0 THEN sg ELSE RunCallback(f[i - 1], q[i])
      BY <3>2
    <3>4. \A i \in 0..n : i # n => i \in 0..(n - 1)
      BY <1>1, <2>4
    <3>5. n \in Nat \ {0} /\ \A i \in 0..n : i # 0 => i - 1 \in 0..n /\ i - 1 # n
      BY <1>1, <2>4, <2>6
    <3>6. \A i \in 0..n : h[i] = IF i = n THEN RunCallback(f[n - 1], q[n]) ELSE f[i]
      OBVIOUS
    <3> HIDE DEF h
    <3>7. ASSUME NEW i \in 0..n
          PROVE  h[i] = IF i = 0 THEN sg ELSE RunCallback(h[i - 1], q[i])
      <4>1. CASE i = 0
        BY <3>3, <3>4, <3>5, <3>6, <4>1
      <4>2. CASE i # 0
        <5>1. h[i - 1] = f[i - 1]
          BY <3>5, <3>6, <4>2
        <5>2. CASE i = n
          BY <3>5, <3>6, <5>1, <5>2
        <5>3. CASE i # n
          BY <3>3, <3>4, <3>6, <4>2, <5>1, <5>3
        <5> QED BY <5>2, <5>3
      <4> QED BY <4>1, <4>2
    <3>8. h = [i \in 0..n |-> h[i]]
      BY DEF h
    <3>9. h = [i \in 0..n |-> IF i = 0 THEN sg ELSE RunCallback(h[i - 1], q[i])]
      BY <3>7, <3>8, Zenon
    <3>10. Begins(h, n)
      BY <3>9
    <3> HIDE DEF Begins
    <3> QED BY <2>4, <3>10
  <2> QED BY <2>5, <2>6
<1>3. \E f : Begins(f, Len(q))
  <2>1. Len(q) \in 0..Len(q)
    BY <1>1
  <2> QED BY <1>2, <2>1
<1> DEFINE after == CHOOSE f : Begins(f, Len(q))
<1>4. Begins(after, Len(q))
  BY <1>3, Zenon
<1>5. RunCallbacksInWorld(sg, q) = after[Len(q)]
  BY Zenon DEF RunCallbacksInWorld
<1> HIDE DEF after
<1>6. \A n \in 0..Len(q) : after[n] = IF n = 0 THEN sg ELSE RunCallback(after[n - 1], q[n])
  BY <1>4
<1>7. /\ after[0] = sg
      /\ \A n \in 1..Len(q) : after[n] = RunCallback(after[n - 1], q[n])
  BY <1>1, <1>6
<1> QED BY <1>5, <1>7

\* All callbacks of a queue run.
LEMMA CallbacksRun ==
  ASSUME NEW sg, NEW q \in Seq(Callbacks), NEW old, Underway(sg, q, 0, old)
  PROVE  Underway(RunCallbacksInWorld(sg, q), q, Len(q), old)
<1>1. PICK f : /\ f[0] = sg /\ f[Len(q)] = RunCallbacksInWorld(sg, q)
               /\ \A n \in 1..Len(q) : f[n] = RunCallback(f[n - 1], q[n])
  BY StatesBetween
<1> DEFINE Wrong == {n \in 0..Len(q) : ~Underway(f[n], q, n, old)}
<1>2. Len(q) \in Nat /\ Wrong \in SUBSET Nat
  OBVIOUS
<1>3. Wrong = {}
  <2>1. SUFFICES ASSUME Wrong # {} PROVE FALSE
    OBVIOUS
  <2>2. PICK n \in Wrong : \A k \in Wrong : n <= k
    <3> HIDE DEF Wrong
    <3> QED BY <1>2, <2>1, SmallestOfSet
  <2>3. n \in 0..Len(q) /\ ~Underway(f[n], q, n, old)
    OBVIOUS
  <2>4. n # 0
    BY <1>1, <2>3
  <2>5. n \in 1..Len(q) /\ n - 1 \in 0..(Len(q) - 1) /\ (n - 1) + 1 = n /\ n - 1 \in 0..Len(q)
    BY <1>2, <2>3, <2>4
  <2>6. n - 1 \notin Wrong
    BY <2>2, <2>5
  <2>7. Underway(f[n - 1], q, n - 1, old)
    BY <2>5, <2>6
  <2>8. Underway(RunCallback(f[n - 1], q[(n - 1) + 1]), q, (n - 1) + 1, old)
    BY <2>5, <2>7, CallbackRuns
  <2> QED BY <1>1, <2>3, <2>5, <2>8
<1>4. Len(q) \in 0..Len(q)
  BY <1>2
<1> QED BY <1>1, <1>3, <1>4

-----------------------------------------------------------------------------
(* Steps of the client.                                                     *)

\* What a step must show of the new state.
SpawnGood == SpawnStrong' /\ PlaceWaited

\* The state before a step.
LEMMA SpawnFacts ==
  ASSUME SpawnStrong
  PROVE  /\ sc \in SpawnScripts /\ g \in Engines /\ connected \in BOOLEAN
         /\ told \in [events : 0..MaxDisturbances, inv : {0} \cup Inventories, quit : BOOLEAN]
         /\ SpawnEnded(sc) /\ told.inv <= sc.revision + told.events
         /\ sc.queue \in Seq(Callbacks)
         /\ \A r \in Revisions : Restores(sc, sc.queue, 0, r)
         /\ ~sc.spawning => sc.revision \in Revisions /\ sc.current = sc.revision
                            /\ sc.loop[sc.revision] = "none"
<1>1. /\ sc \in SpawnScripts /\ g \in Engines /\ connected \in BOOLEAN
      /\ told \in [events : 0..MaxDisturbances, inv : {0} \cup Inventories, quit : BOOLEAN]
      /\ SpawnEnded(sc) /\ told.inv <= sc.revision + told.events
      /\ \A r \in Revisions : Restores(sc, sc.queue, 0, r)
  BY DEF SpawnStrong, SpawnTypeOK, SpawnScripts, Engines
<1>2. sc.queue \in Seq(Callbacks) /\ sc.running \subseteq Revisions
  BY <1>1 DEF SpawnScripts
<1>3. ~sc.spawning => sc.revision \in Revisions /\ sc.current = sc.revision
                      /\ sc.loop[sc.revision] = "none"
  BY <1>1, <1>2 DEF SpawnEnded, Restores
<1> QED BY <1>1, <1>2, <1>3

\* The state after a step.
LEMMA SpawnFold ==
  ASSUME sc' \in SpawnScripts, g' \in Engines, connected' \in BOOLEAN,
         told' \in [events : 0..MaxDisturbances, inv : {0} \cup Inventories, quit : BOOLEAN],
         SpawnEnded(sc'), told'.inv <= sc'.revision + told'.events,
         \A r \in Revisions : Restores(sc', sc'.queue, 0, r)
  PROVE  SpawnStrong'
BY DEF SpawnStrong, SpawnTypeOK, SpawnScripts, Engines

\* A step that leaves the scripts alone.
LEMMA EngineStep ==
  ASSUME SpawnStrong, sc' = sc, connected' = connected, g' \in Engines,
         \/ UNCHANGED told
         \/ told' = [told EXCEPT !.events = @ + 1] /\ told.events < MaxDisturbances
         \/ told' = [told EXCEPT !.quit = TRUE]
  PROVE  SpawnGood
<1>1. /\ told' \in [events : 0..MaxDisturbances, inv : {0} \cup Inventories, quit : BOOLEAN]
      /\ told'.inv = told.inv /\ told'.events >= told.events
  <2>1. told \in [events : 0..MaxDisturbances, inv : {0} \cup Inventories, quit : BOOLEAN]
    BY SpawnFacts
  <2>2. told.events \in 0..MaxDisturbances /\ told.events >= told.events
    BY <2>1
  <2>3. CASE told' = [told EXCEPT !.events = @ + 1] /\ told.events < MaxDisturbances
    <3> DEFINE n == told.events + 1
    <3>1. n \in 0..MaxDisturbances /\ n >= told.events
      BY <2>2, <2>3, SpawnConstants
    <3>2. told' = [told EXCEPT !.events = n]
      BY <2>3
    <3> HIDE DEF n
    <3> QED BY <2>1, <3>1, <3>2
  <2>4. CASE told' = told
    BY <2>1, <2>2, <2>4
  <2>5. CASE told' = [told EXCEPT !.quit = TRUE]
    BY <2>1, <2>2, <2>5
  <2> QED BY <2>3, <2>4, <2>5
<1>2. told'.inv <= sc'.revision + told'.events
  BY <1>1, SpawnFacts, SpawnConstants DEF SpawnScripts
<1> QED BY <1>1, <1>2, SpawnFacts, SpawnFold DEF SpawnGood, PlaceWaited, SendsMovement

LEMMA EngineSteps ==
  ASSUME SpawnStrong, Loaded \/ Moved \/ Unsettled \/ QuitToMainMenu \/ LoadingScreen
  PROVE  SpawnGood
<1>1. g \in Engines
  BY SpawnFacts
<1>2. CASE Loaded
  BY <1>1, <1>2, EngineStep DEF Loaded, Engines
<1>3. CASE Moved
  BY <1>1, <1>3, EngineStep DEF Moved, Engines
<1>4. CASE Unsettled
  BY <1>1, <1>4, EngineStep DEF Unsettled, Engines
<1>5. CASE QuitToMainMenu
  BY <1>1, <1>5, EngineStep DEF QuitToMainMenu, Engines
<1>6. CASE LoadingScreen
  BY <1>1, <1>6, EngineStep DEF LoadingScreen, Engines
<1> QED BY <1>2, <1>3, <1>4, <1>5, <1>6

\* A step that leaves what is known of the revisions alone.
LEMMA QuietStep ==
  ASSUME SpawnStrong, sc' \in SpawnScripts, g' \in Engines, connected' \in BOOLEAN,
         told' \in [events : 0..MaxDisturbances, inv : {0} \cup Inventories, quit : BOOLEAN],
         told'.inv <= sc'.revision + told'.events,
         sc'.revision = sc.revision, sc'.spawning = sc.spawning, sc'.current = sc.current,
         sc'.running = sc.running, sc'.ticks = sc.ticks, sc'.loop = sc.loop, sc'.inv = sc.inv,
         \A r \in Revisions : sc'.timers[r] > 0 => sc.timers[r] > 0,
         \A r \in Revisions :
           /\ Waits(sc'.queue, 0, r) <=> Waits(sc.queue, 0, r)
           /\ LoadWaits(sc'.queue, 0, r) <=> LoadWaits(sc.queue, 0, r)
           /\ OneLoad(sc.queue, 0, r) => OneLoad(sc'.queue, 0, r),
         SendsMovement' => SendsMovement
  PROVE  SpawnGood
<1>1. \A r \in Revisions : Restores(sc', sc'.queue, 0, r)
  BY SpawnFacts DEF Restores
<1>2. SpawnEnded(sc')
  BY SpawnFacts DEF SpawnEnded
<1> QED BY <1>1, <1>2, SpawnFold DEF SpawnGood, PlaceWaited
\* A callback that starts no loop is left for the next update.
LEMMA QuietAppend ==
  ASSUME NEW q \in Seq(Callbacks), NEW cb \in Callbacks, cb.op \notin {"spawn", "loaded"}
  PROVE  /\ Append(q, cb) \in Seq(Callbacks)
         /\ \A r \in Revisions :
              /\ Waits(Append(q, cb), 0, r) <=> Waits(q, 0, r)
              /\ LoadWaits(Append(q, cb), 0, r) <=> LoadWaits(q, 0, r)
              /\ OneLoad(q, 0, r) => OneLoad(Append(q, cb), 0, r)
<1>1. ASSUME NEW r \in Revisions PROVE ~Starts(cb, r) /\ ~Loads(cb, r)
  BY DEF Starts, Loads
<1>2. Append(q, cb) \in Seq(Callbacks)
  OBVIOUS
<1> QED BY <1>1, <1>2, AppendWaits

\* One of its events is counted.
LEMMA EventCounted ==
  ASSUME SpawnStrong, told.events < MaxDisturbances
  PROVE  /\ told.inv + 1 \in Inventories /\ told.events + 1 \in 0..MaxDisturbances
         /\ sc.revision \in Nat /\ told.events \in Nat /\ told.inv \in Nat
BY SpawnFacts, SpawnConstants DEF SpawnScripts, Inventories

LEMMA DestroyActorMessageStep ==
  ASSUME SpawnStrong, DestroyActorMessage
  PROVE  SpawnGood
<1> DEFINE cb == [op |-> "quit"]
           q == Append(sc.queue, cb)
<1>1. cb \in Callbacks /\ cb.op \notin {"spawn", "loaded"} /\ sc.queue \in Seq(Callbacks)
  BY CallbackTypes, SpawnFacts
<1>2. sc' = [sc EXCEPT !.me = FALSE, !.queue = q] /\ UNCHANGED <<g, connected, told>>
  BY DEF DestroyActorMessage
<1>3. q \in Seq(Callbacks)
  BY <1>1
<1> HIDE DEF q, cb
<1>4. /\ sc' \in SpawnScripts /\ sc'.queue = q /\ sc'.me = FALSE
      /\ sc'.revision = sc.revision /\ sc'.spawning = sc.spawning /\ sc'.current = sc.current
      /\ sc'.running = sc.running /\ sc'.ticks = sc.ticks /\ sc'.loop = sc.loop /\ sc'.inv = sc.inv
      /\ sc'.timers = sc.timers
  BY <1>2, <1>3, SpawnFacts DEF SpawnScripts
<1>5. \A r \in Revisions :
        /\ Waits(sc'.queue, 0, r) <=> Waits(sc.queue, 0, r)
        /\ LoadWaits(sc'.queue, 0, r) <=> LoadWaits(sc.queue, 0, r)
        /\ OneLoad(sc.queue, 0, r) => OneLoad(sc'.queue, 0, r)
  BY <1>1, <1>4, QuietAppend DEF q
<1> QED BY <1>2, <1>4, <1>5, SpawnFacts, QuietStep DEF SendsMovement

LEMMA TeleportMessageStep ==
  ASSUME SpawnStrong, NEW place \in Places, TeleportMessage(place)
  PROVE  SpawnGood
<1> DEFINE cb == [op |-> "teleport", place |-> place]
           q == Append(sc.queue, cb)
           n == told.events + 1
<1>1. cb \in Callbacks /\ cb.op \notin {"spawn", "loaded"} /\ sc.queue \in Seq(Callbacks)
  BY CallbackTypes, SpawnFacts
<1>2. /\ sc' = [sc EXCEPT !.queue = q] /\ UNCHANGED <<g, connected>>
      /\ told' = [told EXCEPT !.events = n] /\ told.events < MaxDisturbances
  BY DEF TeleportMessage
<1>3. q \in Seq(Callbacks)
  BY <1>1
<1>4. n \in 0..MaxDisturbances /\ n > told.events
  BY <1>2, EventCounted
<1> HIDE DEF q, cb, n
<1>5. /\ sc' \in SpawnScripts /\ sc'.queue = q /\ sc'.me = sc.me
      /\ sc'.revision = sc.revision /\ sc'.spawning = sc.spawning /\ sc'.current = sc.current
      /\ sc'.running = sc.running /\ sc'.ticks = sc.ticks /\ sc'.loop = sc.loop /\ sc'.inv = sc.inv
      /\ sc'.timers = sc.timers
  BY <1>2, <1>3, SpawnFacts DEF SpawnScripts
<1>6. /\ told' \in [events : 0..MaxDisturbances, inv : {0} \cup Inventories, quit : BOOLEAN]
      /\ told'.inv = told.inv /\ told'.events = n
  BY <1>2, <1>4, SpawnFacts
<1>7. told'.inv <= sc'.revision + told'.events
  BY <1>2, <1>4, <1>5, <1>6, EventCounted, SpawnFacts
<1>8. \A r \in Revisions :
        /\ Waits(sc'.queue, 0, r) <=> Waits(sc.queue, 0, r)
        /\ LoadWaits(sc'.queue, 0, r) <=> LoadWaits(sc.queue, 0, r)
        /\ OneLoad(sc.queue, 0, r) => OneLoad(sc'.queue, 0, r)
  BY <1>1, <1>5, QuietAppend DEF q
<1> QED BY <1>2, <1>5, <1>6, <1>7, <1>8, SpawnFacts, QuietStep DEF SendsMovement

LEMMA SetInventoryMessageStep ==
  ASSUME SpawnStrong, SetInventoryMessage
  PROVE  SpawnGood
<1> DEFINE n == told.events + 1
           i == told.inv + 1
<1>1. /\ sc' = SetInventory(sc, i) /\ UNCHANGED <<g, connected>>
      /\ told' = [told EXCEPT !.events = n, !.inv = i] /\ told.events < MaxDisturbances
  BY DEF SetInventoryMessage
<1>2. n \in 0..MaxDisturbances /\ n = told.events + 1 /\ i \in Inventories /\ i = told.inv + 1
  BY <1>1, EventCounted
<1> HIDE DEF n, i
<1>3. /\ sc' \in SpawnScripts
      /\ sc' = [sc EXCEPT !.sets = sc'.sets, !.queue = sc'.queue]
      /\ \A r \in Revisions :
           /\ Waits(sc'.queue, 0, r) <=> Waits(sc.queue, 0, r)
           /\ LoadWaits(sc'.queue, 0, r) <=> LoadWaits(sc.queue, 0, r)
           /\ OneLoad(sc.queue, 0, r) => OneLoad(sc'.queue, 0, r)
  BY <1>1, <1>2, SpawnFacts, SetInventoryQueues
<1>4. /\ sc'.revision = sc.revision /\ sc'.spawning = sc.spawning /\ sc'.current = sc.current
      /\ sc'.running = sc.running /\ sc'.ticks = sc.ticks /\ sc'.loop = sc.loop /\ sc'.inv = sc.inv
      /\ sc'.timers = sc.timers /\ sc'.me = sc.me
  BY <1>3, SpawnFacts DEF SpawnScripts
<1>5. /\ told' \in [events : 0..MaxDisturbances, inv : {0} \cup Inventories, quit : BOOLEAN]
      /\ told'.inv = i /\ told'.events = n
  BY <1>1, <1>2, SpawnFacts
<1>6. told'.inv <= sc'.revision + told'.events
  BY <1>1, <1>2, <1>4, <1>5, EventCounted, SpawnFacts
<1> QED BY <1>1, <1>3, <1>4, <1>5, <1>6, SpawnFacts, QuietStep DEF SendsMovement

LEMMA InventoryTimerStep ==
  ASSUME SpawnStrong, NEW v \in Revisions, InventoryTimer(v)
  PROVE  SpawnGood
<1> DEFINE n == sc.timers[v] - 1
           ti == [sc.timers EXCEPT ![v] = n]
           s == [sc EXCEPT !.timers = ti]
<1>1. sc.timers[v] > 0 /\ sc' = ApplyPcInv(s, v) /\ UNCHANGED <<g, connected, told>>
  BY DEF InventoryTimer
<1>2. sc \in SpawnScripts /\ sc.timers \in [Revisions -> 0..2] /\ sc.inv[v] \in Inventories
  BY <1>1, SpawnFacts DEF SpawnScripts, Restores
<1>3. ti \in [Revisions -> 0..2] /\ \A r \in Revisions : ti[r] > 0 => sc.timers[r] > 0
  BY <1>1, <1>2
<1> HIDE DEF ti
<1>4. /\ s \in SpawnScripts /\ s.timers = ti /\ s.me = sc.me
      /\ s.revision = sc.revision /\ s.spawning = sc.spawning /\ s.current = sc.current
      /\ s.running = sc.running /\ s.ticks = sc.ticks /\ s.loop = sc.loop /\ s.inv = sc.inv
      /\ s.queue = sc.queue
  BY <1>2, <1>3 DEF SpawnScripts
<1> HIDE DEF s
<1>5. /\ sc' \in SpawnScripts
      /\ sc' = [s EXCEPT !.sets = sc'.sets, !.queue = sc'.queue]
      /\ \A r \in Revisions :
           /\ Waits(sc'.queue, 0, r) <=> Waits(s.queue, 0, r)
           /\ LoadWaits(sc'.queue, 0, r) <=> LoadWaits(s.queue, 0, r)
           /\ OneLoad(s.queue, 0, r) => OneLoad(sc'.queue, 0, r)
  <2>1. CASE s.sets = s.known[v]
    BY <1>1, <1>2, <1>4, <2>1, SetInventoryQueues DEF ApplyPcInv
  <2>2. CASE s.sets # s.known[v]
    <3>1. sc' = s
      BY <1>1, <2>2 DEF ApplyPcInv
    <3>2. s = [s EXCEPT !.sets = s.sets, !.queue = s.queue]
      BY <1>4 DEF SpawnScripts
    <3> QED BY <1>4, <3>1, <3>2
  <2> QED BY <2>1, <2>2
<1>6. /\ sc'.revision = sc.revision /\ sc'.spawning = sc.spawning /\ sc'.current = sc.current
      /\ sc'.running = sc.running /\ sc'.ticks = sc.ticks /\ sc'.loop = sc.loop /\ sc'.inv = sc.inv
      /\ sc'.timers = ti /\ sc'.me = sc.me
  BY <1>4, <1>5 DEF SpawnScripts
<1>7. told'.inv <= sc'.revision + told'.events
  BY <1>1, <1>6, SpawnFacts
<1> QED BY <1>1, <1>3, <1>4, <1>5, <1>6, <1>7, SpawnFacts, QuietStep DEF SendsMovement
\* A connection comes or goes: nothing is known of the new revision yet.
LEMMA InvalidatedStep ==
  ASSUME SpawnStrong, sc.revision < MaxRevision, g' = g, told' = told, connected' \in BOOLEAN,
         sc' = Invalidated(sc) \/ sc' = [Invalidated(sc) EXCEPT !.pcInv = None]
  PROVE  SpawnGood
<1> DEFINE n == sc.revision + 1
<1>1. sc \in SpawnScripts /\ n \in 0..MaxRevision /\ n \in Revisions /\ sc.revision \in Nat /\ n = sc.revision + 1
  BY SpawnFacts, SpawnConstants DEF SpawnScripts, Revisions
<1>2. Invalidated(sc) = [sc EXCEPT !.revision = n, !.spawning = TRUE, !.current = None, !.me = FALSE]
  BY DEF Invalidated
<1> HIDE DEF n
<1>3. /\ sc' \in SpawnScripts /\ sc'.revision = n /\ sc'.spawning /\ ~sc'.me
      /\ sc'.running = sc.running /\ sc'.ticks = sc.ticks /\ sc'.loop = sc.loop /\ sc'.inv = sc.inv
      /\ sc'.timers = sc.timers /\ sc'.queue = sc.queue
  <2> DEFINE s == Invalidated(sc)
  <2>1. /\ s \in SpawnScripts /\ s.revision = n /\ s.spawning /\ ~s.me
        /\ s.running = sc.running /\ s.ticks = sc.ticks /\ s.loop = sc.loop /\ s.inv = sc.inv
        /\ s.timers = sc.timers /\ s.queue = sc.queue
    BY <1>1, <1>2 DEF SpawnScripts
  <2> HIDE DEF s
  <2>2. CASE sc' = s
    BY <2>1, <2>2
  <2>3. CASE sc' = [s EXCEPT !.pcInv = None]
    BY <2>1, <2>3 DEF SpawnScripts
  <2> QED BY <2>2, <2>3 DEF s
<1>4. ASSUME NEW r \in Revisions PROVE Restores(sc', sc'.queue, 0, r)
  <2>1. Restores(sc, sc.queue, 0, r) /\ r \in Nat
    BY SpawnFacts, SpawnConstants
  <2> QED BY <1>1, <1>3, <2>1 DEF Restores
<1>5. told'.inv <= sc'.revision + told'.events
  BY <1>1, <1>3, SpawnFacts, SpawnConstants
<1> QED BY <1>3, <1>4, <1>5, SpawnFacts, SpawnFold DEF SpawnGood, SpawnEnded, PlaceWaited, SendsMovement

\* A spawn begins with a new revision.
LEMMA CreatePlayerMessageStep ==
  ASSUME SpawnStrong, NEW place \in Places, CreatePlayerMessage(place)
  PROVE  SpawnGood
<1> DEFINE v == sc.revision + 1
           i == told.inv + 1
           cb == [op |-> "spawn", rev |-> v]
           q == Append(sc.queue, cb)
           ta == [sc.target EXCEPT ![v] = place]
           ti == [sc.ticks EXCEPT ![v] = 2]
           kn == [sc.known EXCEPT ![v] = sc.sets]
           inv == [sc.inv EXCEPT ![v] = i]
<1>1. /\ connected /\ ~sc.me /\ v \in Revisions /\ UNCHANGED <<g, connected>>
      /\ told' = [told EXCEPT !.inv = i, !.quit = FALSE]
      /\ sc' = [sc EXCEPT !.me = TRUE, !.revision = v, !.spawning = TRUE, !.current = v,
                          !.target = ta, !.ticks = ti, !.known = kn, !.inv = inv, !.queue = q]
  BY DEF CreatePlayerMessage
<1>2. sc \in SpawnScripts /\ sc.revision \in Nat /\ v = sc.revision + 1 /\ v \in 0..MaxRevision
  BY <1>1, SpawnFacts, SpawnConstants DEF SpawnScripts, Revisions
<1>3. i \in Inventories /\ i = told.inv + 1 /\ told.inv \in Nat /\ told.events \in Nat /\ i <= v + told.events
  <2>1. told.inv \in {0} \cup Inventories /\ told.events \in 0..MaxDisturbances
        /\ told.inv <= sc.revision + told.events
    BY SpawnFacts
  <2> QED BY <1>2, <2>1, SpawnConstants DEF Inventories
<1>4. cb \in Callbacks /\ cb.op = "spawn" /\ cb.rev = v /\ sc.queue \in Seq(Callbacks)
  BY <1>1, CallbackTypes, SpawnFacts
<1>5. q \in Seq(Callbacks)
  BY <1>4
<1>6. /\ ta \in [Revisions -> Places \cup {None}] /\ ti \in [Revisions -> 0..2] /\ kn \in [Revisions -> Nat]
      /\ inv \in [Revisions -> Inventories \cup {None}]
      /\ \A r \in Revisions : /\ ti[r] = IF r = v THEN 2 ELSE sc.ticks[r]
                              /\ inv[r] = IF r = v THEN i ELSE sc.inv[r]
  BY <1>1, <1>2, <1>3 DEF SpawnScripts
<1> HIDE DEF v, i, cb, q, ta, ti, kn, inv
<1>7. /\ sc' \in SpawnScripts /\ sc'.revision = v /\ sc'.spawning /\ sc'.current = v
      /\ sc'.running = sc.running /\ sc'.ticks = ti /\ sc'.loop = sc.loop /\ sc'.inv = inv
      /\ sc'.timers = sc.timers /\ sc'.queue = q
  <2> DEFINE m == [sc EXCEPT !.me = TRUE, !.revision = v, !.spawning = TRUE, !.current = v]
  <2>1. /\ m \in SpawnScripts /\ m.revision = v /\ m.spawning /\ m.current = v
        /\ m.running = sc.running /\ m.loop = sc.loop /\ m.timers = sc.timers
    BY <1>1, <1>2 DEF SpawnScripts
  <2>2. sc' = [m EXCEPT !.target = ta, !.ticks = ti, !.known = kn, !.inv = inv, !.queue = q]
    BY <1>1
  <2> HIDE DEF m
  <2> QED BY <1>5, <1>6, <2>1, <2>2 DEF SpawnScripts
<1>8. \A r \in Revisions :
        /\ Waits(q, 0, r) <=> Waits(sc.queue, 0, r) \/ r = v
        /\ LoadWaits(q, 0, r) <=> LoadWaits(sc.queue, 0, r)
        /\ OneLoad(sc.queue, 0, r) => OneLoad(q, 0, r)
  <2>1. \A r \in Revisions : (Starts(cb, r) <=> r = v) /\ ~Loads(cb, r)
    BY <1>4 DEF Starts, Loads
  <2> QED BY <1>4, <2>1, AppendWaits DEF q
<1>9. ASSUME NEW r \in Revisions PROVE Restores(sc', sc'.queue, 0, r)
  <2>1. Restores(sc, sc.queue, 0, r) /\ r \in Nat
    BY SpawnFacts, SpawnConstants
  <2>2. CASE r = v
    BY <1>2, <1>3, <1>6, <1>7, <1>8, <2>1, <2>2, SpawnConstants DEF Restores
  <2>3. CASE r # v
    BY <1>2, <1>6, <1>7, <1>8, <2>1, <2>3 DEF Restores
  <2> QED BY <2>2, <2>3
<1>10. /\ told' \in [events : 0..MaxDisturbances, inv : {0} \cup Inventories, quit : BOOLEAN]
       /\ told'.inv = i /\ told'.events = told.events
  BY <1>1, <1>3, SpawnFacts
<1>11. told'.inv <= sc'.revision + told'.events
  BY <1>3, <1>7, <1>10
<1> QED BY <1>1, <1>7, <1>9, <1>10, <1>11, SpawnFacts, SpawnFold
        DEF SpawnGood, SpawnEnded, PlaceWaited, SendsMovement

\* An update runs what waits for it.
LEMMA UpdateInWorldStep ==
  ASSUME SpawnStrong, UpdateInWorld
  PROVE  SpawnGood
<1> DEFINE s == [sc EXCEPT !.queue = <<>>]
           sg == [s |-> s, g |-> g]
           q == sc.queue
           done == RunCallbacksInWorld(sg, q)
<1>1. /\ sc' = done.s /\ g' = done.g /\ connected' = connected
      /\ told' = [told EXCEPT !.quit = @ \/ done.g.world = "menu"]
  BY DEF UpdateInWorld
<1>2. q \in Seq(Callbacks) /\ sc \in SpawnScripts
  BY SpawnFacts
<1>3. <<>> \in Seq(Callbacks) /\ OnlyInventories(<<>>)
  BY DEF OnlyInventories
<1>4. /\ s \in SpawnScripts /\ s.queue = <<>> /\ s.me = sc.me
      /\ s.revision = sc.revision /\ s.spawning = sc.spawning /\ s.current = sc.current
      /\ s.running = sc.running /\ s.ticks = sc.ticks /\ s.loop = sc.loop /\ s.inv = sc.inv
      /\ s.timers = sc.timers
  BY <1>2, <1>3 DEF SpawnScripts
<1> HIDE DEF s, q
<1>5. \A r \in Revisions : Restores(s, q, 0, r)
  BY <1>4, SpawnFacts DEF Restores, q
<1>6. sg \in [s : SpawnScripts, g : Engines] /\ sg.s = s
  BY <1>4, SpawnFacts
<1> HIDE DEF sg
<1>7. Underway(sg, q, 0, sc)
  BY <1>3, <1>4, <1>5, <1>6, SpawnFacts DEF Underway, SpawnEnded
<1>8. Underway(done, q, Len(q), sc)
  BY <1>2, <1>7, CallbacksRun
<1> HIDE DEF done
<1>9. /\ sc' \in SpawnScripts /\ g' \in Engines /\ OnlyInventories(sc'.queue) /\ SpawnEnded(sc')
      /\ sc'.spawning = sc.spawning /\ sc'.me = sc.me /\ sc'.revision = sc.revision
      /\ \A r \in Revisions : Restores(sc', q, Len(q), r)
  BY <1>1, <1>8 DEF Underway
<1>10. sc'.queue \in Seq(Callbacks)
  BY <1>9 DEF SpawnScripts
<1>11. ASSUME NEW r \in Revisions PROVE Restores(sc', sc'.queue, 0, r)
  <2>1. ~Waits(sc'.queue, 0, r) /\ ~LoadWaits(sc'.queue, 0, r) /\ OneLoad(sc'.queue, 0, r)
    BY <1>9, <1>10, InventoriesWait
  <2>2. Restores(sc', q, Len(q), r)
    BY <1>9
  <2> QED BY <2>1, <2>2 DEF Restores
<1>12. /\ told' \in [events : 0..MaxDisturbances, inv : {0} \cup Inventories, quit : BOOLEAN]
       /\ told'.inv = told.inv /\ told'.events = told.events
  <2>1. told \in [events : 0..MaxDisturbances, inv : {0} \cup Inventories, quit : BOOLEAN]
    BY SpawnFacts
  <2>2. (told.quit \/ done.g.world = "menu") \in BOOLEAN
    OBVIOUS
  <2> DEFINE b == told.quit \/ done.g.world = "menu"
  <2>3. told' = [told EXCEPT !.quit = b]
    BY <1>1
  <2> HIDE DEF b
  <2> QED BY <2>1, <2>2, <2>3 DEF b
<1>13. told'.inv <= sc'.revision + told'.events
  BY <1>9, <1>12, SpawnFacts
<1> QED BY <1>1, <1>9, <1>11, <1>12, <1>13, SpawnFacts, SpawnFold DEF SpawnGood, PlaceWaited, SendsMovement

\* A tick loads the save for a spawn that no update began.
LEMMA TickStep ==
  ASSUME SpawnStrong, Tick
  PROVE  SpawnGood
<1> DEFINE v == sc.revision
           due == {r \in Revisions : sc.ticks[r] = 1 /\ r = sc.revision /\ r \notin sc.running}
           ti == [r \in Revisions |-> IF sc.ticks[r] > 0 THEN sc.ticks[r] - 1 ELSE 0]
           ru == sc.running \cup due
           q == IF due = {} THEN sc.queue ELSE Append(sc.queue, [op |-> "loaded", rev |-> v])
<1>1. /\ sc' = [sc EXCEPT !.ticks = ti, !.running = ru, !.queue = q]
      /\ g' = IF due = {} THEN g ELSE [g EXCEPT !.world = "loading", !.at = Template, !.move = None]
      /\ UNCHANGED <<connected, told>>
  BY DEF Tick
<1>2. sc \in SpawnScripts /\ sc.ticks \in [Revisions -> 0..2] /\ sc.queue \in Seq(Callbacks) /\ g \in Engines
  BY SpawnFacts DEF SpawnScripts
<1>3. ti \in [Revisions -> 0..2] /\ \A r \in Revisions : ti[r] > 0 => sc.ticks[r] > 0
  BY <1>2
<1>4. ru \in SUBSET Revisions /\ \A r \in Revisions : r \in ru <=> r \in sc.running \/ r \in due
  BY <1>2 DEF SpawnScripts
<1>5. \A r \in due : /\ r = v /\ sc.ticks[r] > 0 /\ r \notin sc.running /\ r \in Revisions
                     /\ sc.current = r /\ sc.spawning /\ sc.loop[r] = "none" /\ sc.inv[r] # None
                     /\ ~LoadWaits(sc.queue, 0, r)
  <2> SUFFICES ASSUME NEW r \in due
               PROVE  /\ r = v /\ sc.ticks[r] > 0 /\ r \notin sc.running /\ r \in Revisions
                      /\ sc.current = r /\ sc.spawning /\ sc.loop[r] = "none" /\ sc.inv[r] # None
                      /\ ~LoadWaits(sc.queue, 0, r)
    OBVIOUS
  <2>1. r = v /\ sc.ticks[r] > 0 /\ r \notin sc.running /\ r \in Revisions
    BY <1>2
  <2> QED BY <2>1, SpawnFacts DEF Restores, SpawnEnded
<1>6. /\ q \in Seq(Callbacks)
      /\ \A r \in Revisions : /\ Waits(q, 0, r) <=> Waits(sc.queue, 0, r) \/ r \in due
                              /\ LoadWaits(q, 0, r) <=> LoadWaits(sc.queue, 0, r) \/ r \in due
                              /\ OneLoad(sc.queue, 0, r) => OneLoad(q, 0, r)
  <2> HIDE DEF due, ti, ru
  <2>1. CASE due = {}
    BY <1>2, <2>1
  <2>2. CASE due # {}
    <3> DEFINE cb == [op |-> "loaded", rev |-> v]
    <3>1. v \in due /\ v \in Revisions
      BY <1>5, <2>2
    <3>2. cb \in Callbacks /\ cb.op = "loaded" /\ cb.rev = v
      BY <3>1, CallbackTypes
    <3>3. \A r \in Revisions : (Starts(cb, r) <=> r \in due) /\ (Loads(cb, r) <=> r \in due)
      BY <1>5, <3>1, <3>2 DEF Starts, Loads
    <3>4. q = Append(sc.queue, cb)
      BY <2>2
    <3> HIDE DEF q, cb, v
    <3> QED BY <1>2, <1>5, <3>2, <3>3, <3>4, AppendWaits
  <2> QED BY <2>1, <2>2
<1>7. g' \in Engines
  BY <1>1, <1>2, SpawnConstants DEF Engines
<1> HIDE DEF due, ti, ru, q
<1>8. /\ sc' \in SpawnScripts /\ sc'.ticks = ti /\ sc'.running = ru /\ sc'.queue = q /\ sc'.me = sc.me
      /\ sc'.revision = sc.revision /\ sc'.spawning = sc.spawning /\ sc'.current = sc.current
      /\ sc'.loop = sc.loop /\ sc'.inv = sc.inv /\ sc'.timers = sc.timers
  BY <1>1, <1>2, <1>3, <1>4, <1>6 DEF SpawnScripts
<1>9. ASSUME NEW r \in Revisions PROVE Restores(sc', sc'.queue, 0, r)
  <2>1. Restores(sc, sc.queue, 0, r) /\ r \in Nat
    BY SpawnFacts, SpawnConstants
  <2>2. CASE r \in due
    BY <1>3, <1>4, <1>5, <1>6, <1>8, <2>1, <2>2 DEF Restores
  <2>3. CASE r \notin due
    BY <1>3, <1>4, <1>6, <1>8, <2>1, <2>3 DEF Restores
  <2> QED BY <2>2, <2>3
<1>10. SpawnEnded(sc')
  BY <1>4, <1>8, SpawnFacts DEF SpawnEnded
<1>11. told'.inv <= sc'.revision + told'.events
  BY <1>1, <1>8, SpawnFacts
<1> QED BY <1>1, <1>7, <1>8, <1>9, <1>10, <1>11, SpawnFacts, SpawnFold DEF SpawnGood, PlaceWaited, SendsMovement
\* A round of the loop that restores revision v, which does not end the spawning.
LEMMA LoopGoesOn ==
  ASSUME SpawnStrong, NEW v \in Revisions, sc.loop[v] # "none",
         NEW to \in {"none", "check", "wait", "arrived"}, sc' = [sc EXCEPT !.loop[v] = to],
         g' \in Engines, UNCHANGED <<connected, told>>
  PROVE  SpawnGood
<1>1. sc \in SpawnScripts /\ Restores(sc, sc.queue, 0, v)
  BY SpawnFacts
<1> DEFINE lo == [sc.loop EXCEPT ![v] = to]
<1>2. lo \in [Revisions -> {"none", "check", "wait", "arrived"}]
      /\ \A r \in Revisions : lo[r] = IF r = v THEN to ELSE sc.loop[r]
  BY <1>1 DEF SpawnScripts
<1>3. sc' = [sc EXCEPT !.loop = lo]
  OBVIOUS
<1> HIDE DEF lo
<1>4. /\ sc' \in SpawnScripts /\ sc'.ticks = sc.ticks /\ sc'.running = sc.running /\ sc'.queue = sc.queue
      /\ sc'.revision = sc.revision /\ sc'.spawning = sc.spawning /\ sc'.current = sc.current
      /\ sc'.loop = lo /\ sc'.inv = sc.inv /\ sc'.timers = sc.timers /\ sc'.me = sc.me
  BY <1>1, <1>2, <1>3 DEF SpawnScripts
<1>5. ASSUME NEW r \in Revisions PROVE Restores(sc', sc'.queue, 0, r)
  <2>1. Restores(sc, sc.queue, 0, r)
    BY SpawnFacts
  <2>2. CASE r = v
    BY <1>2, <1>4, <2>1, <2>2 DEF Restores
  <2>3. CASE r # v
    BY <1>2, <1>4, <2>1, <2>3 DEF Restores
  <2> QED BY <2>2, <2>3
<1>6. SpawnEnded(sc')
  BY <1>4, SpawnFacts DEF SpawnEnded
<1>7. told'.inv <= sc'.revision + told'.events
  BY <1>4, SpawnFacts
<1> QED BY <1>4, <1>5, <1>6, <1>7, SpawnFacts, SpawnFold DEF SpawnGood, PlaceWaited, SendsMovement

LEMMA LoopCheckStep ==
  ASSUME SpawnStrong, NEW v \in Revisions, LoopCheck(v)
  PROVE  SpawnGood
<1>1. sc.loop[v] # "none" /\ UNCHANGED <<connected, told>> /\ g \in Engines /\ sc \in SpawnScripts
  BY SpawnFacts DEF LoopCheck
<1>2. CASE sc.revision # v \/ g.at = sc.target[v]
  BY <1>1, <1>2, LoopGoesOn DEF LoopCheck
<1>3. CASE ~(sc.revision # v \/ g.at = sc.target[v])
  <2>1. sc' = [sc EXCEPT !.loop[v] = "wait"] /\ g' = [g EXCEPT !.move = sc.target[v]]
    BY <1>3 DEF LoopCheck
  <2>2. sc.target[v] \in Places \cup {None}
    BY <1>1 DEF SpawnScripts
  <2>3. g' \in Engines
    BY <1>1, <2>1, <2>2 DEF Engines
  <2> QED BY <1>1, <2>1, <2>3, LoopGoesOn
<1> QED BY <1>2, <1>3

LEMMA LoopWaitStep ==
  ASSUME SpawnStrong, NEW v \in Revisions, LoopWait(v)
  PROVE  SpawnGood
BY SpawnFacts, LoopGoesOn DEF LoopWait

\* The spawning ends where the player is seen at the target of the current revision.
LEMMA ArrivedStep ==
  ASSUME SpawnStrong, NEW v \in Revisions, Arrived(v)
  PROVE  SpawnGood
<1>1. sc.loop[v] # "none" /\ UNCHANGED <<g, connected, told>>
  BY DEF Arrived
<1>2. g \in Engines /\ sc \in SpawnScripts /\ Restores(sc, sc.queue, 0, v)
  BY SpawnFacts
<1>3. CASE sc.revision # v \/ g.at # sc.target[v]
  BY <1>1, <1>2, <1>3, LoopGoesOn DEF Arrived, StartLoop
<1>4. CASE sc.revision = v /\ g.at = sc.target[v]
  <2> DEFINE lo == [sc.loop EXCEPT ![v] = "none"]
  <2>1. sc' = [sc EXCEPT !.loop = lo, !.spawning = FALSE]
    BY <1>4 DEF Arrived
  <2>2. lo \in [Revisions -> {"none", "check", "wait", "arrived"}]
        /\ \A r \in Revisions : lo[r] = IF r = v THEN "none" ELSE sc.loop[r]
    BY <1>2 DEF SpawnScripts
  <2> HIDE DEF lo
  <2>3. /\ sc' \in SpawnScripts /\ sc'.ticks = sc.ticks /\ sc'.running = sc.running /\ sc'.queue = sc.queue
        /\ sc'.revision = sc.revision /\ sc'.spawning = FALSE /\ sc'.current = sc.current
        /\ sc'.loop = lo /\ sc'.inv = sc.inv /\ sc'.timers = sc.timers
    BY <1>2, <2>1, <2>2 DEF SpawnScripts
  <2>4. v \in sc.running /\ sc.current = v /\ ~LoadWaits(sc.queue, 0, v)
    BY <1>1, <1>2, <1>4 DEF Restores
  <2>5. ASSUME NEW r \in Revisions PROVE Restores(sc', sc'.queue, 0, r)
    <3>1. Restores(sc, sc.queue, 0, r)
      BY SpawnFacts
    <3>2. CASE r = v
      BY <2>2, <2>3, <2>4, <3>1, <3>2 DEF Restores
    <3>3. CASE r # v
      BY <1>4, <2>2, <2>3, <3>1, <3>3 DEF Restores
    <3> QED BY <3>2, <3>3
  <2>6. SpawnEnded(sc')
    BY <1>4, <2>3, <2>4 DEF SpawnEnded
  <2>7. told'.inv <= sc'.revision + told'.events
    BY <1>1, <2>3, SpawnFacts
  <2>8. PlaceWaited
    BY <1>4, <2>4 DEF PlaceWaited
  <2> QED BY <1>1, <1>2, <2>3, <2>5, <2>6, <2>7, <2>8, SpawnFacts, SpawnFold DEF SpawnGood
<1> QED BY <1>3, <1>4

LEMMA SpawnInitStrong == SpawnInit => SpawnStrong
<1> SUFFICES ASSUME SpawnInit PROVE SpawnStrong
  OBVIOUS
<1>1. /\ 0 \in 0..MaxRevision /\ 0 \in 0..2 /\ 0 \in Nat /\ 0 \in 0..MaxDisturbances
      /\ <<>> \in Seq(Callbacks) /\ OnlyInventories(<<>>)
  BY SpawnConstants DEF OnlyInventories
<1>2. /\ sc.queue = <<>> /\ sc.spawning /\ sc.running = {} /\ sc.revision = 0
      /\ \A r \in Revisions : sc.ticks[r] = 0 /\ sc.timers[r] = 0 /\ sc.loop[r] = "none"
  BY DEF SpawnInit
<1>3. SpawnTypeOK
  BY <1>1 DEF SpawnInit, SpawnTypeOK
<1>4. \A r \in Revisions : Restores(sc, sc.queue, 0, r)
  <2>1. \A r : ~Waits(<<>>, 0, r) /\ ~LoadWaits(<<>>, 0, r) /\ OneLoad(<<>>, 0, r)
    BY <1>1, InventoriesWait
  <2> QED BY <1>2, <2>1 DEF Restores
<1>5. SpawnEnded(sc) /\ told.inv <= sc.revision + told.events
  BY <1>2 DEF SpawnEnded, SpawnInit
<1> QED BY <1>3, <1>4, <1>5 DEF SpawnStrong

LEMMA SpawnNextGood ==
  ASSUME SpawnStrong, [SpawnNext]_spawnVars
  PROVE  SpawnGood
<1>1. CASE UNCHANGED spawnVars
  <2>1. SpawnStrong'
    BY <1>1, SpawnFacts, SpawnFold DEF spawnVars
  <2> QED BY <1>1, <2>1 DEF spawnVars, SpawnGood, PlaceWaited, SendsMovement
<1>2. CASE SpawnConnected
  BY <1>2, InvalidatedStep DEF SpawnConnected
<1>3. CASE SpawnConnectionLost
  BY <1>3, InvalidatedStep DEF SpawnConnectionLost
<1>4. CASE DestroyActorMessage \/ SetInventoryMessage
  BY <1>4, DestroyActorMessageStep, SetInventoryMessageStep
<1>5. CASE \E place \in Places : CreatePlayerMessage(place) \/ TeleportMessage(place)
  BY <1>5, CreatePlayerMessageStep, TeleportMessageStep
<1>6. CASE UpdateInWorld \/ Tick
  BY <1>6, UpdateInWorldStep, TickStep
<1>7. CASE \E r \in Revisions : LoopCheck(r) \/ LoopWait(r) \/ Arrived(r) \/ InventoryTimer(r)
  BY <1>7, LoopCheckStep, LoopWaitStep, ArrivedStep, InventoryTimerStep
<1>8. CASE Loaded \/ Moved \/ Unsettled \/ QuitToMainMenu \/ LoadingScreen
  BY <1>8, EngineSteps
<1> QED BY <1>1, <1>2, <1>3, <1>4, <1>5, <1>6, <1>7, <1>8 DEF SpawnNext, SpawnMessages

LEMMA SpawnStrongHolds == SpawnSpec => []SpawnStrong
<1>1. SpawnInit => SpawnStrong
  BY SpawnInitStrong
<1>2. SpawnStrong /\ [SpawnNext]_spawnVars => SpawnStrong'
  BY SpawnNextGood DEF SpawnGood
<1> QED BY <1>1, <1>2, PTL DEF SpawnSpec

\* Once the player may move, no restoring loop of its spawn goes on, and the spawn is that of
\* the current revision, in whatever order updates, ticks, loads and lost connections come
\* (playerSpawnLocation.ts, remoteServer.ts); every variable keeps its type.
THEOREM SpawnInvHolds == SpawnSpec => []SpawnInv
<1>1. SpawnStrong => SpawnInv
  BY SpawnFacts DEF SpawnStrong, SpawnInv, NothingPullsBack
<1> QED BY <1>1, SpawnStrongHolds, PTL

\* Movement goes upstream only from the place the server gave, and for the spawn the client
\* is in (sendInputsService.ts, playerSpawnLocation.ts).
THEOREM MovementWaitsHolds == SpawnSpec => MovementWaitsForPlace
<1>1. SpawnStrong /\ [SpawnNext]_spawnVars
      => [SendsMovement' /\ ~SendsMovement => g.at = sc.target[sc.revision] /\ sc.current = sc.revision]_spawnVars
  BY SpawnNextGood DEF SpawnGood, PlaceWaited
<1> QED BY <1>1, SpawnStrongHolds, PTL DEF SpawnSpec, MovementWaitsForPlace

-----------------------------------------------------------------------------
(* The players page.                                                        *)

Games == [state : States \ {"starting"}, gen : Generations, slots : Slots, stats : Slots]
PanelMessages == [op : {"state"}, state : States, gen : Generations]
          \cup [op : {"players"}, list : Lists, gen : Generations]
Dashboards == [state : States, gen : Generations, stats : Slots, players : Lists, from : Generations \cup {None}]
Wires == [state : [Sockets -> {"none", "connecting", "open", "closed"}], sent : [Sockets -> Seq(Lists)]]
Calls == [lists : [Fetches -> Answers], inventories : [Clicks -> [user : UserIds, profile : Profiles] \cup {None}]]
Pages == [visible : BOOLEAN, list : Lists, request : 0..MaxClicks, target : Profiles \cup {None},
          shown : Profiles \cup {None}, ref : Sockets \cup {None}, timer : BOOLEAN, closedByUser : BOOLEAN]

\* A message x of the game is told while the game of generation gen plays.
Playing(x, gen) == x.gen = gen /\ (x.op = "players" \/ x.state \in {"running", "stopping"})

\* Players are told of by a game that plays, and a game that runs was starting just before.
Follows(x, y) ==
  /\ y.op = "players" => Playing(x, y.gen)
  /\ y.op = "state" /\ y.state = "running" => x.op = "state" /\ x.state = "starting"

\* What dashboard d knows is as the message before the first of i.
Behind(d, i, k) == IF k = 1 THEN StateOf(d.state, d.gen) ELSE i[k - 1]
InOrder(d, i) == \A k \in 1..Len(i) : Follows(Behind(d, i, k), i[k])
LastTold(gm, d, i) == gm.state \in {"running", "stopping"} => Playing(Behind(d, i, Len(i) + 1), gm.gen)
Fresh(d) == d.from \in {None, d.gen} /\ (d.state = "starting" => d.from = None)

\* Every game but the first began after an incident that ended the one before.
GamesCost(gm, n) == gm.gen + (IF gm.state = "running" THEN 0 ELSE 1) <= n

GameSide ==
  /\ game \in Games /\ file \in Slots /\ ipc \in Seq(PanelMessages) /\ dash \in Dashboards
  /\ incidents \in 0..MaxIncidents
  /\ GamesCost(game, incidents)
  /\ InOrder(dash, ipc) /\ LastTold(game, dash, ipc) /\ Fresh(dash)

\* The hook of page p has its socket open, waits for its timer, or is closed.
Hook(p, w) ==
  /\ p.closedByUser = ~p.visible
  /\ ~p.visible => p.ref = None /\ ~p.timer
  /\ p.timer => p.ref = None
  /\ \A s \in Sockets : w.state[s] \in {"connecting", "open"} <=> s = p.ref

\* Sockets are used one after the other, each but the first after an incident.
Used(w, n) == \A s \in Sockets : w.state[s] = "none" <=> s > n
Allowed(p, n) == IF p.ref # None THEN n + 1 ELSE n

HookSide ==
  /\ wire \in Wires /\ page \in Pages /\ incidents \in 0..MaxIncidents
  /\ Hook(page, wire)
  /\ \E n \in Nat : n <= Allowed(page, incidents) /\ Used(wire, n)

\* The request that still counts asks for the profile the dialog is for.
Asks(cs, p) == p.request \in Clicks /\ cs.inventories[p.request] # None
               => cs.inventories[p.request].profile = p.target

DialogSide ==
  /\ calls \in Calls /\ page \in Pages
  /\ Asks(calls, page) /\ InventoryMatchesDialog

PanelStrong == GameSide /\ HookSide /\ DialogSide

LEMMA PanelConstants ==
  /\ MaxIncidents \in Nat /\ MaxClicks \in Nat /\ MaxFetches \in Nat /\ MaxQueue \in Nat
  /\ None \notin Nat /\ None \notin Profiles
  /\ None \notin Sockets /\ None \notin Generations /\ Sockets \subseteq Nat \ {0} /\ Generations \subseteq Nat
  /\ Clicks \subseteq Nat
BY PanelAssumption DEF Sockets, Generations, Clicks

LEMMA NobodyPlays == Nobody \in Slots /\ Nobody \in Lists
BY DEF Nobody, Slots, Lists

LEMMA ListTypes ==
  ASSUME NEW slots \in Slots, NEW stats \in Slots
  PROVE  ListOf(slots, stats) \in Lists /\ Snapshot(slots, stats) \in Slots
<1>1. Snapshot(slots, stats) \in Slots
  BY DEF Snapshot, Slots
<1>2. ASSUME NEW u \in UserIds
      PROVE  (IF slots[u] # None THEN [online |-> TRUE, profile |-> slots[u]]
              ELSE IF stats[u] # None THEN [online |-> FALSE, profile |-> stats[u]] ELSE None)
             \in [online : BOOLEAN, profile : Profiles] \cup {None}
  BY DEF Slots
<1>3. ListOf(slots, stats) \in Lists
  BY <1>2, Zenon DEF ListOf, Lists
<1> QED BY <1>1, <1>3

\* The state before a step.
LEMMA SidesTyped ==
  ASSUME PanelStrong
  PROVE  /\ game \in Games /\ file \in Slots /\ ipc \in Seq(PanelMessages) /\ dash \in Dashboards
         /\ wire \in Wires /\ calls \in Calls /\ page \in Pages /\ incidents \in 0..MaxIncidents
         /\ incidents \in Nat
BY PanelConstants DEF PanelStrong, GameSide, HookSide, DialogSide

LEMMA IncidentCounted ==
  ASSUME PanelStrong, Incident
  PROVE  incidents' \in 0..MaxIncidents /\ incidents' = incidents + 1
BY SidesTyped, PanelConstants DEF Incident

\* Parts that a step leaves alone.
LEMMA GameSideKept ==
  ASSUME PanelStrong, UNCHANGED <<game, file, ipc, dash>>, incidents' \in {incidents, incidents + 1},
         incidents' \in 0..MaxIncidents
  PROVE  GameSide'
<1>1. GamesCost(game, incidents) /\ game.gen \in Nat
  BY SidesTyped, PanelConstants DEF PanelStrong, GameSide, Games
<1>2. GamesCost(game, incidents')
  BY <1>1, SidesTyped DEF GamesCost
<1> QED BY <1>2 DEF PanelStrong, GameSide

LEMMA HookSideKept ==
  ASSUME PanelStrong, wire' \in Wires, wire'.state = wire.state, page' \in Pages,
         page'.visible = page.visible, page'.ref = page.ref, page'.timer = page.timer,
         page'.closedByUser = page.closedByUser,
         incidents' \in {incidents, incidents + 1}, incidents' \in 0..MaxIncidents
  PROVE  HookSide'
<1>1. Hook(page', wire')
  BY DEF PanelStrong, HookSide, Hook
<1>2. PICK n \in Nat : n <= Allowed(page, incidents) /\ Used(wire, n)
  BY DEF PanelStrong, HookSide
<1>3. incidents \in Nat /\ incidents' \in Nat /\ incidents <= incidents'
  BY SidesTyped, PanelConstants
<1>4. n <= Allowed(page', incidents')
  <2>1. CASE page.ref = None
    BY <1>2, <1>3, <2>1 DEF Allowed
  <2>2. CASE page.ref # None
    <3>1. Allowed(page, incidents) = incidents + 1 /\ Allowed(page', incidents') = incidents' + 1
      BY <2>2 DEF Allowed
    <3>2. n <= incidents + 1
      BY <1>2, <3>1
    <3>3. n <= incidents' + 1
      <4>1. \A i, j \in Nat : n <= i + 1 /\ i <= j => n <= j + 1
        OBVIOUS
      <4> QED BY <1>3, <3>2, <4>1
    <3> QED BY <3>1, <3>3
  <2> QED BY <2>1, <2>2
<1>5. Used(wire', n)
  BY <1>2 DEF Used
<1> QED BY <1>1, <1>4, <1>5 DEF HookSide

LEMMA DialogSideKept ==
  ASSUME PanelStrong, calls' \in Calls, calls'.inventories = calls.inventories, page' \in Pages,
         page'.request = page.request, page'.target = page.target, page'.shown = page.shown
  PROVE  DialogSide'
BY DEF PanelStrong, DialogSide, Asks, InventoryMatchesDialog

LEMMA PushTypes ==
  ASSUME PanelStrong, NEW list \in Lists, Push(list)
  PROVE  wire' \in Wires /\ wire'.state = wire.state
<1> DEFINE sent == [s \in Sockets |-> IF wire.state[s] = "open" THEN Append(wire.sent[s], list) ELSE wire.sent[s]]
<1>1. wire \in Wires /\ wire' = [wire EXCEPT !.sent = sent]
  BY SidesTyped DEF Push
<1>2. sent \in [Sockets -> Seq(Lists)]
  BY <1>1 DEF Wires
<1> HIDE DEF sent
<1> QED BY <1>1, <1>2 DEF Wires

-----------------------------------------------------------------------------
(* Steps of the game.                                                       *)

\* A state that the game tells of when it stopped playing.
LEMMA TellsOfEnd ==
  ASSUME PanelStrong, NEW st \in {"stopping", "down"}, ipc' = Append(ipc, StateOf(st, game.gen)), dash' = dash,
         st = "stopping" => game'.gen = game.gen,
         st = "down" => game'.state = "down"
  PROVE  ipc' \in Seq(PanelMessages) /\ InOrder(dash', ipc') /\ LastTold(game', dash', ipc')
<1> DEFINE x == StateOf(st, game.gen)
<1>1. game.gen \in Generations /\ ipc \in Seq(PanelMessages)
  BY SidesTyped DEF Games
<1>2. x \in PanelMessages /\ x.op = "state" /\ x.state = st /\ x.gen = game.gen
  BY <1>1 DEF PanelMessages, StateOf, States
<1> HIDE DEF x
<1>3. /\ ipc' \in Seq(PanelMessages) /\ Len(ipc') = Len(ipc) + 1 /\ Len(ipc) \in Nat /\ ipc'[Len(ipc) + 1] = x
      /\ \A k \in 1..Len(ipc) : ipc'[k] = ipc[k]
  BY <1>1, <1>2 DEF x
<1>4. InOrder(dash', ipc')
  <2> SUFFICES ASSUME NEW k \in 1..Len(ipc') PROVE Follows(Behind(dash', ipc', k), ipc'[k])
    BY DEF InOrder
  <2>1. CASE k = Len(ipc) + 1
    BY <1>2, <1>3, <2>1 DEF Follows
  <2>2. CASE k # Len(ipc) + 1
    <3>1. k \in 1..Len(ipc) /\ (k # 1 => k - 1 \in 1..Len(ipc))
      BY <1>3, <2>2
    <3>2. Behind(dash', ipc', k) = Behind(dash, ipc, k)
      BY <1>3, <3>1 DEF Behind
    <3> QED BY <1>3, <3>1, <3>2 DEF PanelStrong, GameSide, InOrder
  <2> QED BY <2>1, <2>2
<1>5. Behind(dash', ipc', Len(ipc') + 1) = x
  BY <1>3 DEF Behind
<1>6. LastTold(game', dash', ipc')
  BY <1>2, <1>5 DEF LastTold, Playing
<1> QED BY <1>3, <1>4, <1>6

\* What the page has is left alone by the game.
LEMMA PageKept ==
  ASSUME PanelStrong, UNCHANGED <<wire, calls, page>>, incidents' \in {incidents, incidents + 1},
         incidents' \in 0..MaxIncidents
  PROVE  HookSide' /\ DialogSide'
BY SidesTyped, HookSideKept, DialogSideKept

LEMMA JoinStep ==
  ASSUME PanelStrong, NEW u \in UserIds, NEW p \in Profiles, Join(u, p)
  PROVE  PanelStrong'
<1> DEFINE sl == [game.slots EXCEPT ![u] = p]
<1>1. incidents' \in 0..MaxIncidents /\ incidents' = incidents + 1
  BY IncidentCounted DEF Join
<1>2. /\ game.state = "running" /\ game' = [game EXCEPT !.slots = sl]
      /\ UNCHANGED <<file, ipc, dash, wire, calls, page>>
  BY DEF Join
<1>3. sl \in Slots
  BY SidesTyped DEF Games, Slots
<1> HIDE DEF sl
<1>4. game' \in Games /\ game'.state = game.state /\ game'.gen = game.gen
  BY <1>2, <1>3, SidesTyped DEF Games
<1>5. game.gen \in Nat /\ GamesCost(game', incidents')
  BY <1>1, <1>2, <1>4, SidesTyped, PanelConstants DEF GamesCost, PanelStrong, GameSide, Games
<1>6. LastTold(game', dash', ipc')
  BY <1>2, <1>4 DEF LastTold, PanelStrong, GameSide
<1>7. GameSide'
  BY <1>1, <1>2, <1>4, <1>5, <1>6 DEF PanelStrong, GameSide
<1> QED BY <1>1, <1>2, <1>7, PageKept DEF PanelStrong

LEMMA LeaveStep ==
  ASSUME PanelStrong, NEW u \in UserIds, Leave(u)
  PROVE  PanelStrong'
<1> DEFINE sl == [game.slots EXCEPT ![u] = None]
<1>1. incidents' \in 0..MaxIncidents /\ incidents' = incidents + 1
  BY IncidentCounted DEF Leave
<1>2. /\ game' = [game EXCEPT !.slots = sl]
      /\ UNCHANGED <<file, ipc, dash, wire, calls, page>>
  BY DEF Leave
<1>3. sl \in Slots
  BY SidesTyped DEF Games, Slots
<1> HIDE DEF sl
<1>4. game' \in Games /\ game'.state = game.state /\ game'.gen = game.gen
  BY <1>2, <1>3, SidesTyped DEF Games
<1>5. game.gen \in Nat /\ GamesCost(game', incidents')
  BY <1>1, <1>2, <1>4, SidesTyped, PanelConstants DEF GamesCost, PanelStrong, GameSide, Games
<1>6. LastTold(game', dash', ipc')
  BY <1>2, <1>4 DEF LastTold, PanelStrong, GameSide
<1>7. GameSide'
  BY <1>1, <1>2, <1>4, <1>5, <1>6 DEF PanelStrong, GameSide
<1> QED BY <1>1, <1>2, <1>7, PageKept DEF PanelStrong

\* A list of players goes out behind what the game told before.
LEMMA BroadcastStep ==
  ASSUME PanelStrong, Broadcast
  PROVE  PanelStrong'
<1> DEFINE stats == Snapshot(game.slots, game.stats)
           list == ListOf(game.slots, stats)
           x == [op |-> "players", list |-> list, gen |-> game.gen]
<1>1. /\ game.state \in {"running", "stopping"} /\ game' = [game EXCEPT !.stats = stats]
      /\ file' \in {file, stats} /\ ipc' = Append(ipc, x)
      /\ UNCHANGED <<dash, wire, calls, page, incidents>>
  BY DEF Broadcast, Alive
<1>2. stats \in Slots /\ list \in Lists /\ game.gen \in Generations
  BY ListTypes, SidesTyped DEF Games
<1> HIDE DEF stats, list
<1>3. x \in PanelMessages /\ x.op = "players" /\ x.gen = game.gen
  BY <1>2 DEF PanelMessages
<1> HIDE DEF x
<1>4. game' \in Games /\ game'.state = game.state /\ game'.gen = game.gen
  BY <1>1, <1>2, SidesTyped DEF Games
<1>5. /\ ipc' \in Seq(PanelMessages) /\ Len(ipc') = Len(ipc) + 1 /\ Len(ipc) \in Nat /\ ipc'[Len(ipc) + 1] = x
      /\ \A k \in 1..Len(ipc) : ipc'[k] = ipc[k]
  BY <1>1, <1>3, SidesTyped
<1>6. InOrder(dash', ipc')
  <2> SUFFICES ASSUME NEW k \in 1..Len(ipc') PROVE Follows(Behind(dash', ipc', k), ipc'[k])
    BY DEF InOrder
  <2>1. k # 1 => k - 1 \in 1..Len(ipc)
    BY <1>5
  <2>2. Behind(dash', ipc', k) = Behind(dash, ipc, k)
    BY <1>1, <1>5, <2>1 DEF Behind
  <2>3. CASE k = Len(ipc) + 1
    <3>1. Playing(Behind(dash, ipc, k), x.gen)
      BY <1>1, <1>3, <2>3 DEF PanelStrong, GameSide, LastTold
    <3> QED BY <1>3, <1>5, <2>2, <2>3, <3>1 DEF Follows
  <2>4. CASE k # Len(ipc) + 1
    <3>1. k \in 1..Len(ipc)
      BY <1>5, <2>4
    <3> QED BY <1>5, <2>2, <3>1 DEF PanelStrong, GameSide, InOrder
  <2> QED BY <2>3, <2>4
<1>7. Behind(dash', ipc', Len(ipc') + 1) = x
  BY <1>5 DEF Behind
<1>8. LastTold(game', dash', ipc')
  BY <1>3, <1>4, <1>7 DEF LastTold, Playing
<1>9. GamesCost(game', incidents') /\ file' \in Slots
  BY <1>1, <1>2, <1>4, SidesTyped DEF GamesCost, PanelStrong, GameSide
<1>10. GameSide'
  BY <1>1, <1>4, <1>5, <1>6, <1>8, <1>9 DEF PanelStrong, GameSide
<1> QED BY <1>1, <1>10, SidesTyped, PageKept DEF PanelStrong

LEMMA StopGameStep ==
  ASSUME PanelStrong, StopGame
  PROVE  PanelStrong'
<1>1. incidents' \in 0..MaxIncidents /\ incidents' = incidents + 1
  BY IncidentCounted DEF StopGame
<1>2. /\ game.state = "running" /\ game' = [game EXCEPT !.state = "stopping"] /\ file' = game.stats
      /\ ipc' = Append(ipc, StateOf("stopping", game.gen)) /\ UNCHANGED <<dash, wire, calls, page>>
  BY DEF StopGame, Tell
<1>3. game' \in Games /\ game'.state = "stopping" /\ game'.gen = game.gen /\ file' \in Slots
  BY <1>2, SidesTyped DEF Games, States
<1>4. ipc' \in Seq(PanelMessages) /\ InOrder(dash', ipc') /\ LastTold(game', dash', ipc')
  BY <1>2, <1>3, TellsOfEnd
<1>5. game.gen \in Nat /\ GamesCost(game', incidents')
  BY <1>1, <1>2, <1>3, SidesTyped, PanelConstants DEF GamesCost, PanelStrong, GameSide, Games
<1>6. GameSide'
  BY <1>1, <1>2, <1>3, <1>4, <1>5 DEF PanelStrong, GameSide
<1> QED BY <1>1, <1>2, <1>6, PageKept DEF PanelStrong

\* The game is gone.
LEMMA DownStep ==
  ASSUME PanelStrong, game' = Down, Tell("down"), UNCHANGED <<file, dash, wire, calls, page>>,
         \/ game.state = "stopping" /\ incidents' = incidents
         \/ incidents' = incidents + 1 /\ incidents' \in 0..MaxIncidents
  PROVE  PanelStrong'
<1>1. game' = [game EXCEPT !.state = "down", !.slots = Nobody, !.stats = Nobody]
      /\ ipc' = Append(ipc, StateOf("down", game.gen))
  BY DEF Down, Tell
<1>2. game' \in Games /\ game'.state = "down" /\ game'.gen = game.gen
  BY <1>1, SidesTyped, NobodyPlays DEF Games, States
<1>3. ipc' \in Seq(PanelMessages) /\ InOrder(dash', ipc') /\ LastTold(game', dash', ipc')
  BY <1>1, <1>2, TellsOfEnd
<1>4. incidents' \in 0..MaxIncidents /\ incidents' \in {incidents, incidents + 1}
  BY SidesTyped
<1>5. GamesCost(game', incidents')
  <2>1. game.gen \in Nat /\ incidents \in Nat
    BY SidesTyped, PanelConstants DEF Games
  <2>2. GamesCost(game, incidents)
    BY DEF PanelStrong, GameSide
  <2>3. CASE game.state = "stopping"
    BY <1>2, <1>4, <2>1, <2>2, <2>3 DEF GamesCost
  <2>4. CASE incidents' = incidents + 1
    BY <1>2, <2>1, <2>2, <2>4 DEF GamesCost
  <2> QED BY <2>3, <2>4
<1>6. GameSide'
  BY <1>2, <1>3, <1>4, <1>5 DEF PanelStrong, GameSide
<1> QED BY <1>4, <1>6, PageKept DEF PanelStrong

LEMMA GameStartsStep ==
  ASSUME PanelStrong, GameStarts
  PROVE  PanelStrong'
<1> DEFINE n == game.gen + 1
           x == StateOf("starting", n)
           y == StateOf("running", n)
<1>1. /\ game.state = "down"
      /\ game' = [state |-> "running", gen |-> n, slots |-> Nobody, stats |-> file]
      /\ UNCHANGED <<file, dash, wire, calls, page, incidents>>
  BY DEF GameStarts
<1>2. ipc' = ipc \o <<x, y>>
  BY <1>1 DEF GameStarts
<1>3. game.gen \in Nat /\ n <= incidents /\ n = game.gen + 1
  BY <1>1, SidesTyped, PanelConstants DEF GamesCost, PanelStrong, GameSide, Games
<1>4. n \in Generations
  BY <1>3, SidesTyped, PanelConstants DEF Generations
<1> HIDE DEF n
<1>5. game' \in Games /\ game'.state = "running" /\ game'.gen = n
  BY <1>1, <1>4, NobodyPlays, SidesTyped DEF Games, States
<1>6. /\ x \in PanelMessages /\ x.op = "state" /\ x.state = "starting" /\ x.gen = n
      /\ y \in PanelMessages /\ y.op = "state" /\ y.state = "running" /\ y.gen = n
  BY <1>4 DEF PanelMessages, StateOf, States
<1> HIDE DEF x, y
<1>7. /\ ipc' \in Seq(PanelMessages) /\ Len(ipc') = Len(ipc) + 2 /\ Len(ipc) \in Nat
      /\ ipc'[Len(ipc) + 1] = x /\ ipc'[Len(ipc) + 2] = y
      /\ \A k \in 1..Len(ipc) : ipc'[k] = ipc[k]
  BY <1>2, <1>6, SidesTyped
<1>8. InOrder(dash', ipc')
  <2> SUFFICES ASSUME NEW k \in 1..Len(ipc') PROVE Follows(Behind(dash', ipc', k), ipc'[k])
    BY DEF InOrder
  <2>1. CASE k = Len(ipc) + 1
    BY <1>6, <1>7, <2>1 DEF Follows
  <2>2. CASE k = Len(ipc) + 2
    <3>1. Behind(dash', ipc', k) = x
      BY <1>7, <2>2 DEF Behind
    <3> QED BY <1>6, <1>7, <2>2, <3>1 DEF Follows
  <2>3. CASE k \in 1..Len(ipc)
    <3>1. k # 1 => k - 1 \in 1..Len(ipc)
      BY <1>7, <2>3
    <3>2. Behind(dash', ipc', k) = Behind(dash, ipc, k)
      BY <1>1, <1>7, <3>1 DEF Behind
    <3> QED BY <1>7, <2>3, <3>2 DEF PanelStrong, GameSide, InOrder
  <2> QED BY <1>7, <2>1, <2>2, <2>3
<1>9. Behind(dash', ipc', Len(ipc') + 1) = y
  BY <1>7 DEF Behind
<1>10. LastTold(game', dash', ipc')
  BY <1>5, <1>6, <1>9 DEF LastTold, Playing
<1>11. GamesCost(game', incidents')
  BY <1>1, <1>3, <1>5 DEF GamesCost
<1>12. GameSide'
  BY <1>1, <1>5, <1>7, <1>8, <1>10, <1>11 DEF PanelStrong, GameSide
<1> QED BY <1>1, <1>12, SidesTyped, PageKept DEF PanelStrong

LEMMA GameStepGood ==
  ASSUME PanelStrong, GameStep
  PROVE  PanelStrong'
<1>1. CASE \E u \in UserIds : Leave(u) \/ \E p \in Profiles : Join(u, p)
  BY <1>1, LeaveStep, JoinStep
<1>2. CASE Broadcast \/ StopGame \/ GameStarts
  BY <1>2, BroadcastStep, StopGameStep, GameStartsStep
<1>3. CASE GameExits
  BY <1>3, DownStep DEF GameExits
<1>4. CASE GameCrashes
  BY <1>4, DownStep, IncidentCounted DEF GameCrashes
<1> QED BY <1>1, <1>2, <1>3, <1>4 DEF GameStep

-----------------------------------------------------------------------------
(* Steps of the dashboard.                                                  *)

\* One message less: what the dashboard knows now is as the message was.
LEMMA TakenInOrder ==
  ASSUME PanelStrong, ipc # <<>>, ipc' = Tail(ipc), UNCHANGED game,
         \A y : Follows(Head(ipc), y) => Follows(StateOf(dash'.state, dash'.gen), y),
         \A gen \in Generations : Playing(Head(ipc), gen) => Playing(StateOf(dash'.state, dash'.gen), gen)
  PROVE  ipc' \in Seq(PanelMessages) /\ InOrder(dash', ipc') /\ LastTold(game', dash', ipc')
<1> DEFINE now == StateOf(dash'.state, dash'.gen)
<1>1. ipc \in Seq(PanelMessages) /\ Len(ipc) \in Nat /\ Len(ipc) > 0 /\ Head(ipc) = ipc[1]
  BY SidesTyped
<1>2. /\ ipc' \in Seq(PanelMessages) /\ Len(ipc') = Len(ipc) - 1
      /\ \A k \in 1..Len(ipc') : ipc'[k] = ipc[k + 1]
  BY <1>1
<1>3. Behind(dash', ipc', 1) = now
  BY DEF Behind
<1>4. ASSUME NEW k \in Nat \ {0}, k # 1, k <= Len(ipc') + 1
      PROVE  Behind(dash', ipc', k) = Behind(dash, ipc, k + 1)
  <2>1. k - 1 \in 1..Len(ipc') /\ k + 1 # 1 /\ (k - 1) + 1 = k /\ (k + 1) - 1 = k
    BY <1>1, <1>2, <1>4
  <2>2. ipc'[k - 1] = ipc[k]
    BY <1>2, <2>1
  <2> QED BY <1>4, <2>1, <2>2 DEF Behind
<1> HIDE DEF now
<1>5. InOrder(dash', ipc')
  <2> SUFFICES ASSUME NEW k \in 1..Len(ipc') PROVE Follows(Behind(dash', ipc', k), ipc'[k])
    BY DEF InOrder
  <2>1. k + 1 \in 1..Len(ipc) /\ k \in Nat \ {0} /\ k <= Len(ipc') + 1 /\ ipc'[k] = ipc[k + 1]
    BY <1>1, <1>2
  <2>2. Follows(Behind(dash, ipc, k + 1), ipc[k + 1])
    BY <2>1 DEF PanelStrong, GameSide, InOrder
  <2>3. CASE k = 1
    <3>1. Behind(dash, ipc, k + 1) = Head(ipc)
      BY <1>1, <2>3 DEF Behind
    <3>2. Follows(now, ipc[k + 1])
      BY <2>2, <3>1, Zenon DEF now
    <3> QED BY <1>3, <2>1, <2>3, <3>2
  <2>4. CASE k # 1
    BY <1>4, <2>1, <2>2, <2>4
  <2> QED BY <2>3, <2>4
<1>6. LastTold(game', dash', ipc')
  <2> SUFFICES ASSUME game.state \in {"running", "stopping"}
               PROVE  Playing(Behind(dash', ipc', Len(ipc') + 1), game.gen)
    BY DEF LastTold
  <2>1. Playing(Behind(dash, ipc, Len(ipc) + 1), game.gen) /\ game.gen \in Generations
    BY SidesTyped DEF PanelStrong, GameSide, LastTold, Games
  <2>2. Len(ipc') + 1 = Len(ipc) /\ Len(ipc') + 1 \in Nat \ {0} /\ Len(ipc') + 1 <= Len(ipc') + 1
    BY <1>1, <1>2
  <2>3. CASE Len(ipc) = 1
    <3>1. Behind(dash, ipc, Len(ipc) + 1) = Head(ipc)
      BY <1>1, <2>3 DEF Behind
    <3>2. Playing(now, game.gen)
      BY <2>1, <3>1, Zenon DEF now
    <3> QED BY <1>3, <2>2, <2>3, <3>2
  <2>4. CASE Len(ipc) # 1
    BY <1>4, <2>1, <2>2, <2>4
  <2> QED BY <2>3, <2>4
<1> QED BY <1>2, <1>5, <1>6

\* The dashboard is told of a state.
LEMMA StateTaken ==
  ASSUME PanelStrong, ipc # <<>>, Head(ipc).op = "state", dash' = TakeState(Head(ipc))
  PROVE  /\ dash' \in Dashboards /\ dash'.state = Head(ipc).state /\ dash'.gen = Head(ipc).gen
         /\ Fresh(dash')
<1> DEFINE m == Head(ipc)
           stats == IF m.state = "down" THEN file ELSE dash.stats
           d == [dash EXCEPT !.state = m.state, !.gen = m.gen, !.stats = stats]
<1>1. m \in PanelMessages /\ m = ipc[1] /\ Len(ipc) \in Nat /\ Len(ipc) > 0
  BY SidesTyped
<1>2. m.state \in States /\ m.gen \in Generations
  BY <1>1 DEF PanelMessages
<1>3. Follows(StateOf(dash.state, dash.gen), m)
  <2>1. 1 \in 1..Len(ipc) /\ Behind(dash, ipc, 1) = StateOf(dash.state, dash.gen)
    BY <1>1 DEF Behind
  <2> QED BY <1>1, <2>1 DEF PanelStrong, GameSide, InOrder
<1>4. m.state = "running" => dash.state = "starting"
  BY <1>3 DEF Follows, StateOf
<1>5. dash' = IF m.state = "running" THEN d ELSE [d EXCEPT !.players = Nobody, !.from = None]
  BY DEF TakeState
<1>6. stats \in Slots
  BY SidesTyped DEF Dashboards
<1> HIDE DEF m, stats
<1>7. /\ d \in Dashboards /\ d.state = m.state /\ d.gen = m.gen /\ d.from = dash.from
  BY <1>2, <1>6, SidesTyped DEF Dashboards
<1> HIDE DEF d
<1>8. CASE m.state = "running"
  <2>1. d.from = None
    BY <1>4, <1>7, <1>8 DEF PanelStrong, GameSide, Fresh
  <2> QED BY <1>5, <1>7, <1>8, <2>1 DEF Fresh, m
<1>9. CASE m.state # "running"
  <2>1. /\ dash' \in Dashboards /\ dash'.state = d.state /\ dash'.gen = d.gen /\ dash'.from = None
    BY <1>5, <1>7, <1>9, NobodyPlays DEF Dashboards
  <2> QED BY <1>7, <2>1 DEF Fresh, m
<1> QED BY <1>8, <1>9

\* And of players, which only come from a game that plays.
LEMMA PlayersTaken ==
  ASSUME PanelStrong, ipc # <<>>, Head(ipc).op # "state",
         dash' = [dash EXCEPT !.players = Head(ipc).list, !.from = Head(ipc).gen]
  PROVE  /\ dash' \in Dashboards /\ dash'.state = dash.state /\ dash'.gen = dash.gen
         /\ dash.state \in {"running", "stopping"} /\ dash.gen = Head(ipc).gen
         /\ Head(ipc).op = "players" /\ Fresh(dash')
<1> DEFINE m == Head(ipc)
<1>1. m \in PanelMessages /\ m = ipc[1] /\ Len(ipc) \in Nat /\ Len(ipc) > 0
  BY SidesTyped
<1>2. m.op = "players" /\ m.list \in Lists /\ m.gen \in Generations
  BY <1>1 DEF PanelMessages
<1>3. Follows(StateOf(dash.state, dash.gen), m)
  <2>1. 1 \in 1..Len(ipc) /\ Behind(dash, ipc, 1) = StateOf(dash.state, dash.gen)
    BY <1>1 DEF Behind
  <2> QED BY <1>1, <2>1 DEF PanelStrong, GameSide, InOrder
<1>4. dash.state \in {"running", "stopping"} /\ dash.gen = m.gen
  BY <1>2, <1>3 DEF Follows, StateOf, Playing
<1> HIDE DEF m
<1>5. /\ dash' \in Dashboards /\ dash'.state = dash.state /\ dash'.gen = dash.gen /\ dash'.from = m.gen
  BY <1>2, SidesTyped DEF Dashboards, m
<1>6. Fresh(dash')
  BY <1>4, <1>5 DEF Fresh
<1> QED BY <1>2, <1>4, <1>5, <1>6 DEF m

LEMMA DashboardReceivesStep ==
  ASSUME PanelStrong, DashboardReceives
  PROVE  PanelStrong'
<1> DEFINE m == Head(ipc)
<1>1. ipc # <<>> /\ ipc' = Tail(ipc) /\ UNCHANGED <<game, file, calls, page, incidents>>
  BY DEF DashboardReceives
<1>2. m \in PanelMessages
  BY <1>1, SidesTyped
<1>3. CASE m.op = "state"
  <2>1. dash' = TakeState(m) /\ Push(dash'.players)
    BY <1>3 DEF DashboardReceives
  <2>2. dash' \in Dashboards /\ dash'.state = m.state /\ dash'.gen = m.gen /\ Fresh(dash')
    BY <1>1, <1>3, <2>1, StateTaken
  <2>3. ASSUME NEW gen PROVE Playing(m, gen) => Playing(StateOf(dash'.state, dash'.gen), gen)
    BY <1>3, <2>2 DEF Playing, StateOf
  <2>4. ASSUME NEW y PROVE Follows(m, y) => Follows(StateOf(dash'.state, dash'.gen), y)
    BY <1>3, <2>2 DEF Follows, Playing, StateOf
  <2>5. ipc' \in Seq(PanelMessages) /\ InOrder(dash', ipc') /\ LastTold(game', dash', ipc')
    BY <1>1, <2>3, <2>4, TakenInOrder
  <2>6. dash'.players \in Lists
    BY <2>2 DEF Dashboards
  <2>7. wire' \in Wires /\ wire'.state = wire.state
    BY <2>1, <2>6, PushTypes
  <2>8. GameSide'
    BY <1>1, <2>2, <2>5 DEF PanelStrong, GameSide
  <2>9. HookSide' /\ DialogSide'
    BY <1>1, <2>7, SidesTyped, HookSideKept, DialogSideKept
  <2> QED BY <2>8, <2>9 DEF PanelStrong
<1>4. CASE m.op # "state"
  <2>1. dash' = [dash EXCEPT !.players = m.list, !.from = m.gen] /\ UNCHANGED wire
    BY <1>4 DEF DashboardReceives
  <2>2. /\ dash' \in Dashboards /\ dash'.state = dash.state /\ dash'.gen = dash.gen
        /\ dash.state \in {"running", "stopping"} /\ dash.gen = m.gen
        /\ m.op = "players" /\ Fresh(dash')
    BY <1>1, <1>4, <2>1, PlayersTaken
  <2>3. ASSUME NEW gen PROVE Playing(m, gen) => Playing(StateOf(dash'.state, dash'.gen), gen)
    BY <2>2 DEF Playing, StateOf
  <2>4. ASSUME NEW y PROVE Follows(m, y) => Follows(StateOf(dash'.state, dash'.gen), y)
    BY <2>2 DEF Follows, Playing, StateOf
  <2>5. ipc' \in Seq(PanelMessages) /\ InOrder(dash', ipc') /\ LastTold(game', dash', ipc')
    BY <1>1, <2>3, <2>4, TakenInOrder
  <2>6. GameSide'
    BY <1>1, <2>2, <2>5 DEF PanelStrong, GameSide
  <2>7. HookSide' /\ DialogSide'
    BY <1>1, <2>1, SidesTyped, PageKept
  <2> QED BY <2>6, <2>7 DEF PanelStrong
<1> QED BY <1>3, <1>4

LEMMA DashboardBroadcastsStep ==
  ASSUME PanelStrong, DashboardBroadcasts
  PROVE  PanelStrong'
<1> DEFINE list == IF dash.state = "running" THEN dash.players ELSE ListOf(Nobody, dash.stats)
<1>1. Push(list) /\ UNCHANGED <<game, file, ipc, dash, calls, page, incidents>>
  BY DEF DashboardBroadcasts
<1>2. list \in Lists
  BY SidesTyped, NobodyPlays, ListTypes DEF Dashboards
<1>3. wire' \in Wires /\ wire'.state = wire.state
  BY <1>1, <1>2, PushTypes
<1> QED BY <1>1, <1>3, SidesTyped, GameSideKept, HookSideKept, DialogSideKept DEF PanelStrong

\* A call whose answer is kept in its record.
LEMMA ListsTyped ==
  ASSUME PanelStrong, NEW i \in Fetches, NEW a \in Answers,
         calls' = [calls EXCEPT !.lists[i] = a]
  PROVE  calls' \in Calls /\ calls'.inventories = calls.inventories
BY SidesTyped DEF Calls

LEMMA ServeListStep ==
  ASSUME PanelStrong, NEW i \in Fetches, ServeList(i)
  PROVE  PanelStrong'
<1> DEFINE stats == Snapshot(game.slots, game.stats)
           served == dash.state = "running" /\ Alive
           list == IF dash.state = "running" THEN ListOf(game.slots, stats) ELSE ListOf(Nobody, dash.stats)
           a == IF dash.state = "running" /\ ~Alive THEN [calls.lists[i] EXCEPT !.state = "failed"]
                ELSE [calls.lists[i] EXCEPT !.state = "answered", !.list = list]
<1>1. /\ stats \in Slots /\ list \in Lists /\ game \in Games /\ file \in Slots
      /\ calls.lists[i] \in Answers
  BY SidesTyped, NobodyPlays, ListTypes DEF Games, Dashboards, Calls
<1>2. a \in Answers
  BY <1>1 DEF Answers
<1>3. calls' = [calls EXCEPT !.lists[i] = a]
  BY SidesTyped DEF ServeList, Calls
<1>4. UNCHANGED <<ipc, dash, wire, page, incidents>>
  BY DEF ServeList
<1> HIDE DEF a, list
<1>5. calls' \in Calls /\ calls'.inventories = calls.inventories
  BY <1>2, <1>3, ListsTyped
<1>6. DialogSide'
  BY <1>4, <1>5, SidesTyped, DialogSideKept
<1>7. HookSide'
  BY <1>4, SidesTyped, HookSideKept
<1>8. (game' = [game EXCEPT !.stats = stats] /\ file' \in {file, stats}) \/ UNCHANGED <<game, file>>
  BY DEF ServeList
<1> HIDE DEF stats
<1>9. game' \in Games /\ game'.state = game.state /\ game'.gen = game.gen /\ file' \in Slots
  BY <1>1, <1>8 DEF Games
<1>10. GamesCost(game', incidents') /\ LastTold(game', dash', ipc')
  BY <1>4, <1>9 DEF GamesCost, LastTold, PanelStrong, GameSide
<1>11. GameSide'
  BY <1>4, <1>9, <1>10 DEF PanelStrong, GameSide
<1> QED BY <1>6, <1>7, <1>11 DEF PanelStrong

LEMMA DashboardStepGood ==
  ASSUME PanelStrong, DashboardStep
  PROVE  PanelStrong'
BY DashboardReceivesStep, DashboardBroadcastsStep, ServeListStep DEF DashboardStep

-----------------------------------------------------------------------------
(* Steps of the page's socket.                                              *)

\* There is a socket for every incident, and one more: a hook without one finds the next.
LEMMA NextSocket ==
  ASSUME PanelStrong, page.ref = None
  PROVE  LET s == CHOOSE t \in Sockets : wire.state[t] = "none" /\ \A r \in Sockets : r < t => wire.state[r] # "none"
         IN \E n \in Nat : /\ n <= incidents /\ s = n + 1 /\ s \in Sockets /\ Used(wire, n)
<1> DEFINE P(t) == wire.state[t] = "none" /\ \A r \in Sockets : r < t => wire.state[r] # "none"
           s == CHOOSE t \in Sockets : P(t)
<1>1. PICK n \in Nat : n <= Allowed(page, incidents) /\ Used(wire, n)
  BY DEF PanelStrong, HookSide
<1>2. n <= incidents /\ incidents \in Nat /\ incidents <= MaxIncidents
  BY <1>1, SidesTyped, PanelConstants DEF Allowed
<1>3. n + 1 \in Sockets
  BY <1>2, PanelConstants DEF Sockets
<1>4. P(n + 1)
  <2>1. wire.state[n + 1] = "none"
    BY <1>1, <1>3 DEF Used
  <2>2. ASSUME NEW r \in Sockets, r < n + 1 PROVE wire.state[r] # "none"
    <3>1. r \in Nat /\ ~(r > n)
      BY <2>2, PanelConstants
    <3> QED BY <1>1, <3>1 DEF Used
  <2> QED BY <2>1, <2>2
<1>5. s \in Sockets /\ P(s)
  BY <1>3, <1>4
<1>6. s = n + 1
  <2>1. s > n
    BY <1>1, <1>5 DEF Used
  <2>2. ~(n + 1 < s)
    BY <1>3, <1>4, <1>5
  <2> HIDE DEF s
  <2> QED BY <1>5, <2>1, <2>2, PanelConstants
<1> QED BY <1>1, <1>2, <1>5, <1>6

\* A page p that waits for a socket, and is shown, gets a new one.
LEMMA ConnectGood ==
  ASSUME PanelStrong, page.ref = None, NEW p, p \in Pages, p.visible, ~p.closedByUser, ~p.timer, p.ref = None,
         Connect(p), incidents' = incidents
  PROVE  /\ HookSide'
         /\ page'.request = p.request /\ page'.target = p.target /\ page'.shown = p.shown
<1> DEFINE s == CHOOSE t \in Sockets : wire.state[t] = "none" /\ \A r \in Sockets : r < t => wire.state[r] # "none"
           st == [wire.state EXCEPT ![s] = "connecting"]
<1>1. PICK n \in Nat : n <= incidents /\ s = n + 1 /\ s \in Sockets /\ Used(wire, n)
  BY NextSocket
<1>2. page' = [p EXCEPT !.ref = s] /\ wire' = [wire EXCEPT !.state = st]
  BY DEF Connect
<1> HIDE DEF s
<1>3. st \in [Sockets -> {"none", "connecting", "open", "closed"}] /\ wire \in Wires
  BY <1>1, SidesTyped DEF Wires
<1>4. st[s] = "connecting" /\ \A t \in Sockets : t # s => st[t] = wire.state[t]
  BY <1>1, SidesTyped DEF Wires
<1> HIDE DEF st
<1>5. wire' \in Wires /\ wire'.state = st
  BY <1>2, <1>3 DEF Wires
<1>6. /\ page' \in Pages /\ page'.ref = s /\ page'.visible /\ ~page'.closedByUser /\ ~page'.timer
      /\ page'.request = p.request /\ page'.target = p.target /\ page'.shown = p.shown
  BY <1>1, <1>2 DEF Pages
<1>7. s # None
  BY <1>1, PanelConstants
<1>8. Hook(page', wire')
  <2>1. ASSUME NEW t \in Sockets PROVE wire'.state[t] \in {"connecting", "open"} <=> t = page'.ref
    <3>1. CASE t = s
      BY <1>4, <1>5, <1>6, <3>1
    <3>2. CASE t # s
      <4>1. wire.state[t] \notin {"connecting", "open"}
        BY PanelConstants DEF PanelStrong, HookSide, Hook
      <4> QED BY <1>4, <1>5, <1>6, <3>2, <4>1
    <3> QED BY <3>1, <3>2
  <2> QED BY <1>6, <2>1, SidesTyped DEF Hook, Pages
<1>9. Used(wire', n + 1)
  <2> SUFFICES ASSUME NEW t \in Sockets PROVE wire'.state[t] = "none" <=> t > n + 1
    BY DEF Used
  <2>1. t \in Nat /\ (wire.state[t] = "none" <=> t > n)
    BY <1>1, PanelConstants DEF Used
  <2>2. CASE t = s
    BY <1>1, <1>4, <1>5, <2>1, <2>2
  <2>3. CASE t # s
    <3>1. t > n <=> t > n + 1
      BY <1>1, <2>1, <2>3
    <3> QED BY <1>4, <1>5, <2>1, <2>3, <3>1
  <2> QED BY <2>2, <2>3
<1>10. n + 1 \in Nat /\ n + 1 <= Allowed(page', incidents')
  <2>1. Allowed(page', incidents') = incidents + 1
    BY <1>6, <1>7 DEF Allowed
  <2>2. n + 1 \in Nat /\ n + 1 <= incidents + 1
    BY <1>1, SidesTyped
  <2> QED BY <2>1, <2>2
<1>11. incidents' \in 0..MaxIncidents
  BY SidesTyped
<1> QED BY <1>5, <1>6, <1>8, <1>9, <1>10, <1>11 DEF HookSide

LEMMA ShowStep ==
  ASSUME PanelStrong, Show
  PROVE  PanelStrong'
<1> DEFINE p == [page EXCEPT !.visible = TRUE, !.closedByUser = FALSE]
<1>1. ~page.visible /\ Connect(p) /\ UNCHANGED <<game, file, ipc, dash, incidents>>
  BY DEF Show
<1>2. page \in Pages /\ page.ref = None /\ page.timer = FALSE
  BY <1>1, SidesTyped DEF PanelStrong, HookSide, Hook, Pages
<1>3. /\ p \in Pages /\ p.visible /\ ~p.closedByUser /\ ~p.timer /\ p.ref = None
      /\ p.request = page.request /\ p.target = page.target /\ p.shown = page.shown
  BY <1>2 DEF Pages
<1> HIDE DEF p
<1>4. HookSide' /\ page'.request = page.request /\ page'.target = page.target /\ page'.shown = page.shown
  BY <1>1, <1>2, <1>3, ConnectGood
<1>5. calls' \in Calls /\ calls'.inventories = calls.inventories
  <2>1. CASE UNCHANGED calls
    BY <2>1, SidesTyped
  <2>2. ASSUME NEW i \in Fetches, calls' = Fetched(calls, i)
        PROVE  calls' \in Calls /\ calls'.inventories = calls.inventories
    <3> DEFINE a == [calls.lists[i] EXCEPT !.state = "asked"]
    <3>1. a \in Answers
      BY SidesTyped DEF Calls, Answers
    <3>2. calls' = [calls EXCEPT !.lists[i] = a]
      BY <2>2, SidesTyped DEF Fetched, Calls
    <3> HIDE DEF a
    <3> QED BY <3>1, <3>2, ListsTyped
  <2> QED BY <2>1, <2>2 DEF Show
<1>6. DialogSide'
  BY <1>4, <1>5, DialogSideKept DEF HookSide
<1>7. GameSide'
  BY <1>1, SidesTyped, GameSideKept
<1> QED BY <1>4, <1>6, <1>7 DEF PanelStrong

LEMMA ReconnectTimerStep ==
  ASSUME PanelStrong, ReconnectTimer
  PROVE  PanelStrong'
<1> DEFINE p == [page EXCEPT !.timer = FALSE]
<1>1. page.timer /\ Connect(p) /\ UNCHANGED <<game, file, ipc, dash, calls, incidents>>
  BY DEF ReconnectTimer
<1>2. page \in Pages /\ page.ref = None /\ page.visible /\ ~page.closedByUser
  BY <1>1, SidesTyped DEF PanelStrong, HookSide, Hook, Pages
<1>3. /\ p \in Pages /\ p.visible /\ ~p.closedByUser /\ ~p.timer /\ p.ref = None
      /\ p.request = page.request /\ p.target = page.target /\ p.shown = page.shown
  BY <1>2 DEF Pages
<1> HIDE DEF p
<1>4. HookSide' /\ page'.request = page.request /\ page'.target = page.target /\ page'.shown = page.shown
  BY <1>1, <1>2, <1>3, ConnectGood
<1>5. DialogSide'
  BY <1>1, <1>4, SidesTyped, DialogSideKept DEF HookSide
<1>6. GameSide'
  BY <1>1, SidesTyped, GameSideKept
<1> QED BY <1>4, <1>5, <1>6 DEF PanelStrong
\* The socket of page's hook is closed, which takes an incident: the next is one later.
LEMMA ClosedGood ==
  ASSUME PanelStrong, page.ref # None,
         wire' = [wire EXCEPT !.state[page.ref] = "closed", !.sent[page.ref] = <<>>],
         page' \in Pages, page'.ref = None, page'.closedByUser = ~page'.visible, ~page'.visible => ~page'.timer,
         incidents' = incidents + 1, incidents' \in 0..MaxIncidents
  PROVE  HookSide'
<1> DEFINE s == page.ref
           st == [wire.state EXCEPT ![s] = "closed"]
           sent == [wire.sent EXCEPT ![s] = <<>>]
<1>1. s \in Sockets /\ wire \in Wires
  BY SidesTyped DEF Pages
<1>2. st \in [Sockets -> {"none", "connecting", "open", "closed"}] /\ sent \in [Sockets -> Seq(Lists)]
  BY <1>1 DEF Wires
<1>3. st[s] = "closed" /\ \A t \in Sockets : t # s => st[t] = wire.state[t]
  BY <1>1 DEF Wires
<1>4. wire' = [wire EXCEPT !.state = st, !.sent = sent]
  BY <1>1 DEF Wires
<1>5. PICK n \in Nat : n <= Allowed(page, incidents) /\ Used(wire, n)
  BY DEF PanelStrong, HookSide
<1>6. \A t \in Sockets : wire.state[t] \in {"connecting", "open"} <=> t = s
  BY DEF PanelStrong, HookSide, Hook
<1> HIDE DEF s, st, sent
<1>7. wire' \in Wires /\ wire'.state = st
  BY <1>1, <1>2, <1>4 DEF Wires
<1>8. \A t \in Sockets : wire'.state[t] \notin {"connecting", "open"}
  BY <1>3, <1>6, <1>7
<1>9. Hook(page', wire')
  BY <1>8, PanelConstants DEF Hook
<1>10. wire.state[s] # "none"
  BY <1>1, <1>6
<1>11. Used(wire', n)
  BY <1>3, <1>5, <1>7, <1>10 DEF Used
<1>12. n <= Allowed(page', incidents')
  BY <1>5 DEF Allowed
<1> QED BY <1>5, <1>7, <1>9, <1>11, <1>12 DEF HookSide

LEMMA HideStep ==
  ASSUME PanelStrong, Hide
  PROVE  PanelStrong'
<1>1. incidents' \in 0..MaxIncidents /\ incidents' = incidents + 1 /\ incidents \in Nat
  BY IncidentCounted, SidesTyped DEF Hide
<1>2. /\ page.visible
      /\ page' = [page EXCEPT !.closedByUser = TRUE, !.ref = None, !.timer = FALSE, !.visible = FALSE, !.list = Nobody]
      /\ wire' = IF page.ref = None THEN wire ELSE [wire EXCEPT !.state[page.ref] = "closed", !.sent[page.ref] = <<>>]
      /\ UNCHANGED <<game, file, ipc, dash, calls>>
  BY SidesTyped DEF Hide, Disconnected, Pages
<1>3. /\ page' \in Pages /\ page'.ref = None /\ page'.closedByUser = TRUE /\ page'.visible = FALSE
      /\ page'.timer = FALSE
      /\ page'.request = page.request /\ page'.target = page.target /\ page'.shown = page.shown
  BY <1>2, SidesTyped, NobodyPlays DEF Pages
<1>4. HookSide'
  <2>1. CASE page.ref # None
    BY <1>1, <1>2, <1>3, <2>1, ClosedGood
  <2>2. CASE page.ref = None
    <3>1. wire' = wire
      BY <1>2, <2>2
    <3>2. PICK n \in Nat : n <= Allowed(page, incidents) /\ Used(wire, n)
      BY DEF PanelStrong, HookSide
    <3>3. n <= incidents
      BY <2>2, <3>2 DEF Allowed
    <3>4. Allowed(page', incidents') = incidents + 1
      BY <1>1, <1>3 DEF Allowed
    <3>5. n <= Allowed(page', incidents')
      BY <1>1, <3>2, <3>3, <3>4
    <3>6. Hook(page', wire')
      BY <1>3, <2>2, <3>1 DEF Hook, PanelStrong, HookSide
    <3> QED BY <1>1, <1>3, <3>1, <3>2, <3>5, <3>6, SidesTyped DEF HookSide
  <2> QED BY <2>1, <2>2
<1>5. GameSide' /\ DialogSide'
  BY <1>1, <1>2, <1>3, SidesTyped, GameSideKept, DialogSideKept
<1> QED BY <1>4, <1>5 DEF PanelStrong

LEMMA SocketClosesStep ==
  ASSUME PanelStrong, NEW s \in Sockets, SocketCloses(s)
  PROVE  PanelStrong'
<1>1. incidents' \in 0..MaxIncidents /\ incidents' = incidents + 1
  BY IncidentCounted DEF SocketCloses
<1>2. /\ wire.state[s] \in {"connecting", "open"}
      /\ wire' = [wire EXCEPT !.state[s] = "closed", !.sent[s] = <<>>]
      /\ page' = IF page.ref # s THEN page ELSE [page EXCEPT !.ref = None, !.timer = ~page.closedByUser]
      /\ UNCHANGED <<game, file, ipc, dash, calls>>
  BY DEF SocketCloses
<1>3. s = page.ref /\ s # None
  BY <1>2, PanelConstants DEF PanelStrong, HookSide, Hook
<1>4. page \in Pages /\ page.visible = TRUE /\ page.closedByUser = FALSE
  BY <1>3, SidesTyped DEF PanelStrong, HookSide, Hook, Pages
<1>5. page' = [page EXCEPT !.ref = None, !.timer = TRUE]
  BY <1>2, <1>3, <1>4
<1>6. /\ page' \in Pages /\ page'.ref = None /\ page'.visible = TRUE /\ page'.closedByUser = FALSE
      /\ page'.request = page.request /\ page'.target = page.target /\ page'.shown = page.shown
  BY <1>4, <1>5 DEF Pages
<1>7. wire' = [wire EXCEPT !.state[page.ref] = "closed", !.sent[page.ref] = <<>>]
  BY <1>2, <1>3
<1>8. HookSide'
  BY <1>1, <1>3, <1>6, <1>7, ClosedGood
<1>9. GameSide' /\ DialogSide'
  BY <1>1, <1>2, <1>6, SidesTyped, GameSideKept, DialogSideKept
<1> QED BY <1>8, <1>9 DEF PanelStrong

LEMMA SocketOpensStep ==
  ASSUME PanelStrong, NEW s \in Sockets, SocketOpens(s)
  PROVE  PanelStrong'
<1> DEFINE st == [wire.state EXCEPT ![s] = "open"]
<1>1. /\ wire.state[s] = "connecting" /\ wire' = [wire EXCEPT !.state = st]
      /\ UNCHANGED <<game, file, ipc, dash, calls, page, incidents>>
  BY SidesTyped DEF SocketOpens, Wires
<1>2. st \in [Sockets -> {"none", "connecting", "open", "closed"}] /\ wire \in Wires
  BY SidesTyped DEF Wires
<1>3. /\ \A t \in Sockets : st[t] \in {"connecting", "open"} <=> wire.state[t] \in {"connecting", "open"}
      /\ \A t \in Sockets : st[t] = "none" <=> wire.state[t] = "none"
  BY <1>1, <1>2 DEF Wires
<1> HIDE DEF st
<1>4. wire' \in Wires /\ wire'.state = st
  BY <1>1, <1>2 DEF Wires
<1>5. Hook(page', wire')
  BY <1>1, <1>3, <1>4 DEF Hook, PanelStrong, HookSide
<1>6. PICK n \in Nat : n <= Allowed(page, incidents) /\ Used(wire, n)
  BY DEF PanelStrong, HookSide
<1>7. Used(wire', n) /\ n <= Allowed(page', incidents')
  BY <1>1, <1>3, <1>4, <1>6 DEF Used
<1>8. HookSide'
  BY <1>1, <1>4, <1>5, <1>7, SidesTyped DEF HookSide
<1>9. GameSide' /\ DialogSide'
  BY <1>1, SidesTyped, GameSideKept, DialogSideKept
<1> QED BY <1>8, <1>9 DEF PanelStrong

LEMMA SocketMessageStep ==
  ASSUME PanelStrong, NEW s \in Sockets, SocketMessage(s)
  PROVE  PanelStrong'
<1> DEFINE sent == [wire.sent EXCEPT ![s] = Tail(@)]
           list == Head(wire.sent[s])
<1>1. /\ wire.sent[s] # <<>> /\ wire' = [wire EXCEPT !.sent = sent]
      /\ page' = IF page.ref = s THEN [page EXCEPT !.list = list] ELSE page
      /\ UNCHANGED <<game, file, ipc, dash, calls, incidents>>
  BY SidesTyped DEF SocketMessage, Wires
<1>2. wire.sent[s] \in Seq(Lists) /\ wire \in Wires
  BY SidesTyped DEF Wires
<1>3. Tail(wire.sent[s]) \in Seq(Lists) /\ list \in Lists
  BY <1>1, <1>2
<1>4. sent \in [Sockets -> Seq(Lists)]
  BY <1>2, <1>3 DEF Wires
<1> HIDE DEF sent, list
<1>5. wire' \in Wires /\ wire'.state = wire.state
  BY <1>1, <1>2, <1>4 DEF Wires
<1>6. /\ page' \in Pages /\ page'.visible = page.visible /\ page'.ref = page.ref /\ page'.timer = page.timer
      /\ page'.closedByUser = page.closedByUser
      /\ page'.request = page.request /\ page'.target = page.target /\ page'.shown = page.shown
  BY <1>1, <1>3, SidesTyped DEF Pages
<1> QED BY <1>1, <1>5, <1>6, SidesTyped, GameSideKept, HookSideKept, DialogSideKept DEF PanelStrong

-----------------------------------------------------------------------------
(* Steps of the page's requests.                                            *)

LEMMA PollStep ==
  ASSUME PanelStrong, NEW i \in Fetches, Poll(i)
  PROVE  PanelStrong'
<1> DEFINE a == [calls.lists[i] EXCEPT !.state = "asked"]
<1>1. a \in Answers
  BY SidesTyped DEF Calls, Answers
<1>2. calls' = [calls EXCEPT !.lists[i] = a] /\ UNCHANGED <<game, file, ipc, dash, wire, page, incidents>>
  BY SidesTyped DEF Poll, Fetched, Calls
<1> HIDE DEF a
<1>3. calls' \in Calls /\ calls'.inventories = calls.inventories
  BY <1>1, <1>2, ListsTyped
<1> QED BY <1>2, <1>3, SidesTyped, GameSideKept, HookSideKept, DialogSideKept DEF PanelStrong

LEMMA ListAnsweredStep ==
  ASSUME PanelStrong, NEW i \in Fetches, ListAnswered(i)
  PROVE  PanelStrong'
<1> DEFINE list == calls.lists[i].list
<1>1. /\ calls' = [calls EXCEPT !.lists[i] = Unasked]
      /\ page' = IF calls.lists[i].state = "failed" THEN page ELSE [page EXCEPT !.list = list]
      /\ UNCHANGED <<game, file, ipc, dash, wire, incidents>>
  BY DEF ListAnswered
<1>2. Unasked \in Answers
  BY NobodyPlays DEF Unasked, Answers
<1>3. list \in Lists
  BY SidesTyped DEF Calls, Answers
<1> HIDE DEF list
<1>4. calls' \in Calls /\ calls'.inventories = calls.inventories
  BY <1>1, <1>2, ListsTyped
<1>5. /\ page' \in Pages /\ page'.visible = page.visible /\ page'.ref = page.ref /\ page'.timer = page.timer
      /\ page'.closedByUser = page.closedByUser
      /\ page'.request = page.request /\ page'.target = page.target /\ page'.shown = page.shown
  BY <1>1, <1>3, SidesTyped DEF Pages
<1> QED BY <1>1, <1>4, <1>5, SidesTyped, GameSideKept, HookSideKept, DialogSideKept DEF PanelStrong

\* The request that counts is the new one, and asks for who is named in the dialog.
LEMMA ShowPlayerInventoryStep ==
  ASSUME PanelStrong, NEW u \in UserIds, ShowPlayerInventory(u)
  PROVE  PanelStrong'
<1> DEFINE n == page.request + 1
           who == page.list[u].profile
           call == [user |-> u, profile |-> who]
           asked == [calls.inventories EXCEPT ![n] = call]
<1>1. /\ n \in Clicks /\ page.list[u] # None
      /\ page' = [page EXCEPT !.request = n, !.target = who, !.shown = None]
      /\ calls' = [calls EXCEPT !.inventories = asked]
      /\ UNCHANGED <<game, file, ipc, dash, wire, incidents>>
  BY SidesTyped DEF ShowPlayerInventory, Calls
<1>2. page \in Pages /\ calls \in Calls /\ who \in Profiles
  BY <1>1, SidesTyped DEF Pages, Lists
<1>3. call \in [user : UserIds, profile : Profiles] /\ call.profile = who
  BY <1>2
<1> HIDE DEF call
<1>4. /\ asked \in [Clicks -> [user : UserIds, profile : Profiles] \cup {None}]
      /\ asked[n] = call
  BY <1>1, <1>2, <1>3 DEF Calls
<1>5. n \in 0..MaxClicks
  BY <1>1, PanelConstants DEF Clicks
<1> HIDE DEF n, who, asked
<1>6. calls' \in Calls /\ calls'.inventories = asked
  BY <1>1, <1>2, <1>4 DEF Calls
<1>7. /\ page' \in Pages /\ page'.visible = page.visible /\ page'.ref = page.ref /\ page'.timer = page.timer
      /\ page'.closedByUser = page.closedByUser
      /\ page'.request = n /\ page'.target = who /\ page'.shown = None
  BY <1>1, <1>2, <1>5 DEF Pages
<1>8. DialogSide'
  BY <1>3, <1>4, <1>6, <1>7 DEF DialogSide, Asks, InventoryMatchesDialog
<1>9. GameSide' /\ HookSide'
  BY <1>1, <1>7, SidesTyped, GameSideKept, HookSideKept
<1> QED BY <1>8, <1>9 DEF PanelStrong

\* Whatever is answered is of the profile that was asked for.
LEMMA InventoryAnsweredStep ==
  ASSUME PanelStrong, NEW n \in Clicks, InventoryAnswered(n)
  PROVE  PanelStrong'
<1> DEFINE call == calls.inventories[n]
           answer == ServeInventory(call)
           left == [calls.inventories EXCEPT ![n] = None]
<1>1. /\ call # None /\ calls' = [calls EXCEPT !.inventories = left]
      /\ page' = IF n = page.request THEN [page EXCEPT !.shown = answer] ELSE page
      /\ dash' = IF dash.state = "running" THEN dash ELSE [dash EXCEPT !.stats = file]
      /\ UNCHANGED <<game, file, ipc, wire, incidents>>
  BY SidesTyped DEF InventoryAnswered, Calls
<1>2. page \in Pages /\ calls \in Calls /\ dash \in Dashboards /\ file \in Slots
  BY SidesTyped
<1>3. call \in [user : UserIds, profile : Profiles]
  BY <1>1, <1>2 DEF Calls
<1>4. answer \in {None, call.profile}
  BY DEF ServeInventory, InventoryOf
<1>5. /\ left \in [Clicks -> [user : UserIds, profile : Profiles] \cup {None}]
      /\ left[n] = None /\ \A m \in Clicks : m # n => left[m] = calls.inventories[m]
  BY <1>2 DEF Calls
<1>6. call.profile \in Profiles
  BY <1>3
<1>7. n = page.request => call.profile = page.target
  BY <1>1 DEF PanelStrong, DialogSide, Asks
<1> HIDE DEF call, answer, left
<1>8. calls' \in Calls /\ calls'.inventories = left
  BY <1>1, <1>2, <1>5 DEF Calls
<1>9. /\ page' \in Pages /\ page'.visible = page.visible /\ page'.ref = page.ref /\ page'.timer = page.timer
      /\ page'.closedByUser = page.closedByUser /\ page'.request = page.request /\ page'.target = page.target
      /\ page'.shown = IF n = page.request THEN answer ELSE page.shown
  BY <1>1, <1>2, <1>4, <1>6 DEF Pages
<1>10. InventoryMatchesDialog'
  BY <1>4, <1>7, <1>9 DEF PanelStrong, DialogSide, InventoryMatchesDialog
<1>11. Asks(calls', page')
  <2>1. CASE page.request = n
    BY <1>5, <1>8, <1>9, <2>1 DEF Asks
  <2>2. CASE page.request # n
    BY <1>5, <1>8, <1>9, <2>2 DEF Asks, PanelStrong, DialogSide
  <2> QED BY <2>1, <2>2
<1>12. DialogSide'
  BY <1>8, <1>9, <1>10, <1>11 DEF DialogSide
<1>13. HookSide'
  BY <1>1, <1>9, SidesTyped, HookSideKept
<1>14. /\ dash' \in Dashboards /\ dash'.state = dash.state /\ dash'.gen = dash.gen /\ dash'.from = dash.from
  BY <1>1, <1>2 DEF Dashboards
<1>15. \A k \in Nat : Behind(dash', ipc', k) = Behind(dash, ipc, k)
  BY <1>1, <1>14 DEF Behind
<1>16. ipc \in Seq(PanelMessages) /\ Len(ipc) \in Nat
  BY SidesTyped
<1>17. InOrder(dash', ipc') /\ LastTold(game', dash', ipc') /\ Fresh(dash')
  BY <1>1, <1>14, <1>15, <1>16 DEF InOrder, LastTold, Fresh, PanelStrong, GameSide
<1>18. GameSide'
  BY <1>1, <1>14, <1>17, SidesTyped DEF PanelStrong, GameSide
<1> QED BY <1>12, <1>13, <1>18 DEF PanelStrong

LEMMA PageStepGood ==
  ASSUME PanelStrong, PageStep
  PROVE  PanelStrong'
BY ShowStep, HideStep, ReconnectTimerStep, SocketOpensStep, SocketClosesStep, SocketMessageStep, PollStep,
   ListAnsweredStep, ShowPlayerInventoryStep, InventoryAnsweredStep DEF PageStep

-----------------------------------------------------------------------------

LEMMA PanelStartsGood ==
  ASSUME PanelInit
  PROVE  PanelStrong
<1>1. PICK slots \in Slots : game = [state |-> "running", gen |-> 0, slots |-> slots, stats |-> slots]
  BY DEF PanelInit
<1>2. /\ file = Nobody /\ ipc = <<>> /\ incidents = 0
      /\ dash = [state |-> "running", gen |-> 0, stats |-> Nobody, players |-> Nobody, from |-> None]
      /\ page = [visible |-> TRUE, list |-> Nobody, request |-> 0, target |-> None, shown |-> None,
                 ref |-> 1, timer |-> FALSE, closedByUser |-> FALSE]
  BY DEF PanelInit
<1>3. 0 \in Generations /\ 1 \in Sockets /\ 0 \in 0..MaxClicks /\ 0 \in 0..MaxIncidents
  BY PanelConstants DEF Generations, Sockets
<1>4. /\ game \in Games /\ file \in Slots /\ dash \in Dashboards /\ page \in Pages /\ incidents \in 0..MaxIncidents
      /\ ipc \in Seq(PanelMessages) /\ Len(ipc) = 0
  BY <1>1, <1>2, <1>3, NobodyPlays DEF Games, Dashboards, Pages, States
<1>5. GamesCost(game, incidents) /\ Fresh(dash)
  BY <1>1, <1>2 DEF GamesCost, Fresh
<1>6. InOrder(dash, ipc)
  BY <1>4 DEF InOrder
<1>7. LastTold(game, dash, ipc)
  BY <1>1, <1>2, <1>4 DEF LastTold, Behind, Playing, StateOf
<1>8. GameSide
  BY <1>4, <1>5, <1>6, <1>7 DEF GameSide
<1>9. wire \in Wires /\ \A s \in Sockets : wire.state[s] = IF s = 1 THEN "connecting" ELSE "none"
  <2> DEFINE st == [s \in Sockets |-> IF s = 1 THEN "connecting" ELSE "none"]
             sent == [s \in Sockets |-> <<>>]
  <2>1. wire = [state |-> st, sent |-> sent]
    BY DEF PanelInit
  <2>2. st \in [Sockets -> {"none", "connecting", "open", "closed"}] /\ sent \in [Sockets -> Seq(Lists)]
    OBVIOUS
  <2>3. \A s \in Sockets : st[s] = IF s = 1 THEN "connecting" ELSE "none"
    OBVIOUS
  <2> HIDE DEF st, sent
  <2> QED BY <2>1, <2>2, <2>3 DEF Wires
<1>10. Hook(page, wire)
  BY <1>2, <1>9, PanelConstants DEF Hook
<1>11. Used(wire, 1) /\ 1 <= Allowed(page, incidents)
  BY <1>2, <1>9, PanelConstants DEF Used, Allowed
<1>12. HookSide
  BY <1>4, <1>9, <1>10, <1>11 DEF HookSide
<1>13. calls \in Calls
  <2> DEFINE lists == [i \in Fetches |-> IF i = 1 THEN [Unasked EXCEPT !.state = "asked"] ELSE Unasked]
             none == [n \in Clicks |-> None]
  <2>1. calls = [lists |-> lists, inventories |-> none]
    BY DEF PanelInit
  <2>2. Unasked \in Answers /\ [Unasked EXCEPT !.state = "asked"] \in Answers
    BY NobodyPlays DEF Unasked, Answers
  <2>3. lists \in [Fetches -> Answers] /\ none \in [Clicks -> [user : UserIds, profile : Profiles] \cup {None}]
    BY <2>2
  <2> HIDE DEF lists, none
  <2> QED BY <2>1, <2>3 DEF Calls
<1>14. DialogSide
  BY <1>2, <1>4, <1>13, PanelConstants DEF DialogSide, Asks, InventoryMatchesDialog, Clicks
<1> QED BY <1>8, <1>12, <1>14 DEF PanelStrong

LEMMA PanelStepGood ==
  ASSUME PanelStrong, [PanelNext]_panelVars
  PROVE  PanelStrong'
<1>1. CASE PanelNext
  BY <1>1, GameStepGood, DashboardStepGood, PageStepGood DEF PanelNext
<1>2. CASE UNCHANGED panelVars
  BY <1>2 DEF panelVars, PanelStrong, GameSide, HookSide, DialogSide, InventoryMatchesDialog
<1> QED BY <1>1, <1>2

LEMMA PanelStrongHolds == PanelSpec => []PanelStrong
BY PanelStartsGood, PanelStepGood, PTL DEF PanelSpec

\* index.tsx, useAdminWebSocket.ts, ui.ts: an inventory is shown under the name of the
\* player it was asked for, the page has one socket at most, and the dashboard takes nobody
\* to play in a running game who played in an earlier one, for any number of slots, players,
\* clicks and requests.
THEOREM PanelInvHolds == PanelSpec => []PanelInv
<1>1. ASSUME PanelStrong PROVE PanelInv
  <2>1. PanelTypeOK
    BY <1>1, SidesTyped DEF PanelTypeOK, Games, PanelMessages, Dashboards, Wires, Calls, Pages
  <2>2. InventoryMatchesDialog
    BY <1>1 DEF PanelStrong, DialogSide
  <2>3. OneSocket
    BY <1>1, PanelConstants DEF PanelStrong, HookSide, Hook, OneSocket
  <2>4. FreshPlayers
    BY <1>1 DEF PanelStrong, GameSide, Fresh, FreshPlayers
  <2> QED BY <2>1, <2>2, <2>3, <2>4 DEF PanelInv
<1> QED BY <1>1, PanelStrongHolds, PTL

-----------------------------------------------------------------------------
(* The views of the others.                                                 *)

ViewWorlds == [
  forms : [Ids -> Forms \cup {None}], me : Ids \cup {None},
  idByValue : [Indexes -> Ids \cup {None}], valueById : [Ids -> Indexes \cup {None}],
  minimumUnusedId : 0..MaxIds]

\* Within an update a view may spawn more than the bound; such an update is no step.
LooseViews == [remote : Actors \cup Doors, local : (Nat \ {0}) \cup Doors \cup {None},
               ready : BOOLEAN, cell : Cells \cup {None}]
ViewStates == [
  of : [Ids -> LooseViews \cup {None}],
  refs : [Refs -> {"none", "spawning", "shown"}], base : [Refs -> {0, 1}],
  owner : [Refs -> Ids \cup {None}], protection : [Refs -> Int], spawned : Nat]
GameStates == [world : ViewWorlds, view : ViewStates, queue : Seq(Callback)]
Jobs == Callback \cup [op : {"destroyForm", "updateForm", "skip"}, id : Ids]

\* Forms are where their indexes lead, and the id that is given away next has no value.
IdsSound(w) ==
  /\ \A i \in Ids : w.forms[i] # None =>
       w.idByValue[w.forms[i].idx] = i /\ w.valueById[i] = w.forms[i].idx
  /\ \A x \in Indexes : w.idByValue[x] # None => w.valueById[w.idByValue[x]] = x
  /\ w.minimumUnusedId < MaxIds => w.valueById[w.minimumUnusedId] = None

\* A view has an id that was not given back, and the form of that id, if there is one.
ViewsNamed(s) ==
  \A i \in Ids : s.view.of[i] # None =>
    /\ s.world.valueById[i] # None
    /\ s.world.forms[i] # None => s.view.of[i].remote = s.world.forms[i].refr

\* Reference r is held by the view of i, deleted by x, will be deleted by q behind its first n.
HoldsRef(o, i, r) == o[i] # None /\ o[i].local = r
Deletes(x, r) == x.op = "delete" /\ x.ref = r
Held(o, r) == \E i \in Ids : HoldsRef(o, i, r)
Leaves(q, n, r) == \E k \in (n + 1)..Len(q) : Deletes(q[k], r)

HeldOnce(o, r) == \A i, j \in Ids : HoldsRef(o, i, r) /\ HoldsRef(o, j, r) => i = j
LeavesOnce(q, n, r) == \A k, m \in (n + 1)..Len(q) : Deletes(q[k], r) /\ Deletes(q[m], r) => k = m

\* In one place, of a view, the queue q, and the jobs behind the first n.
InOnePlace(o, q, jobs, n, r) ==
  /\ HeldOnce(o, r) /\ LeavesOnce(q, 0, r) /\ LeavesOnce(jobs, n, r)
  /\ ~(Held(o, r) /\ Leaves(q, 0, r)) /\ ~(Held(o, r) /\ Leaves(jobs, n, r))
  /\ ~(Leaves(q, 0, r) /\ Leaves(jobs, n, r))
InUse(o, q, jobs, n, r) == Held(o, r) \/ Leaves(q, 0, r) \/ Leaves(jobs, n, r)

Accounted(vw, q, jobs, n) ==
  /\ \A r \in Nat : InUse(vw.of, q, jobs, n, r) => r <= vw.spawned
  /\ \A r \in 1..vw.spawned :
       /\ InOnePlace(vw.of, q, jobs, n, r)
       /\ vw.protection[r] = IF InUse(vw.of, q, jobs, n, r) THEN 1 ELSE 0
       /\ vw.refs[r] # "none" => vw.protection[r] = 1
  /\ \A r \in Refs : vw.owner[r] # None => vw.of[vw.owner[r]] # None

\* A state s in the middle of an update, with n of the jobs done.
Whole(s, jobs, n) ==
  /\ s \in GameStates /\ IdsSound(s.world) /\ ViewsNamed(s)
  /\ s.view.spawned <= MaxRefs => Accounted(s.view, s.queue, jobs, n)

ViewStrong ==
  /\ Whole(Game, <<>>, 0) /\ view.spawned <= MaxRefs
  /\ player \in [cell : Cells, known : Cells] /\ changes \in 0..MaxChanges

LEMMA ViewConstants ==
  /\ MaxIds \in Nat /\ MaxRefs \in Nat /\ MaxChanges \in Nat /\ Indexes \subseteq Nat
  /\ Ids \subseteq Nat /\ Refs \subseteq Nat \ {0}
  /\ None \notin Ids /\ None \notin Indexes /\ None \notin Nat /\ None \notin Forms /\ None \notin Views
  /\ None \notin Doors /\ Doors \cap Nat = {}
<1>1. /\ MaxIds \in Nat /\ MaxRefs \in Nat /\ MaxChanges \in Nat /\ Indexes \subseteq Nat
      /\ None \notin Nat /\ None \notin Doors /\ Doors \cap Nat = {}
  BY ViewAssumption
<1>2. None \notin Forms /\ None \notin Views
  BY ViewAssumption
<1>3. Ids \subseteq Nat /\ Refs \subseteq Nat \ {0}
  BY <1>1 DEF Ids, Refs
<1> QED BY <1>1, <1>2, <1>3

-----------------------------------------------------------------------------
(* Which references wait to be deleted.                                     *)

LEMMA AppendLeaves ==
  ASSUME NEW q \in Seq(Callback), NEW x \in Callback, NEW r
  PROVE  /\ Append(q, x) \in Seq(Callback)
         /\ Leaves(Append(q, x), 0, r) <=> Leaves(q, 0, r) \/ Deletes(x, r)
         /\ LeavesOnce(q, 0, r) /\ ~(Leaves(q, 0, r) /\ Deletes(x, r)) => LeavesOnce(Append(q, x), 0, r)
<1> DEFINE p == Append(q, x)
<1>1. /\ p \in Seq(Callback) /\ Len(q) \in Nat /\ Len(p) = Len(q) + 1 /\ p[Len(q) + 1] = x
      /\ \A k \in 1..Len(q) : p[k] = q[k]
  OBVIOUS
<1> HIDE DEF p
<1>2. \A k \in 1..Len(p) : k = Len(q) + 1 \/ k \in 1..Len(q)
  BY <1>1
<1>3. 0 + 1 = 1 /\ Len(q) + 1 \in 1..Len(p) /\ \A k \in 1..Len(q) : k \in 1..Len(p) /\ k # Len(q) + 1
  BY <1>1
<1>4. Leaves(p, 0, r) <=> Leaves(q, 0, r) \/ Deletes(x, r)
  BY <1>1, <1>2, <1>3 DEF Leaves
<1>5. ASSUME LeavesOnce(q, 0, r), ~(Leaves(q, 0, r) /\ Deletes(x, r))
      PROVE  LeavesOnce(p, 0, r)
  <2> SUFFICES ASSUME NEW k \in 1..Len(p), NEW m \in 1..Len(p), Deletes(p[k], r), Deletes(p[m], r)
               PROVE  k = m
    BY <1>3 DEF LeavesOnce
  <2>1. CASE k \in 1..Len(q) /\ m \in 1..Len(q)
    BY <1>1, <1>3, <1>5, <2>1 DEF LeavesOnce
  <2>2. CASE k = Len(q) + 1 /\ m \in 1..Len(q)
    BY <1>1, <1>3, <1>5, <2>2 DEF Leaves
  <2>3. CASE m = Len(q) + 1 /\ k \in 1..Len(q)
    BY <1>1, <1>3, <1>5, <2>3 DEF Leaves
  <2> QED BY <1>2, <2>1, <2>2, <2>3
<1> QED BY <1>1, <1>4, <1>5 DEF p

\* One of the jobs is taken.
LEMMA JobTaken ==
  ASSUME NEW jobs \in Seq(Jobs), NEW n \in Nat, n < Len(jobs), NEW r
  PROVE  /\ Leaves(jobs, n, r) <=> Leaves(jobs, n + 1, r) \/ Deletes(jobs[n + 1], r)
         /\ LeavesOnce(jobs, n, r) => /\ LeavesOnce(jobs, n + 1, r)
                                      /\ Deletes(jobs[n + 1], r) => ~Leaves(jobs, n + 1, r)
<1>1. Len(jobs) \in Nat
  OBVIOUS
<1>2. /\ n + 1 \in (n + 1)..Len(jobs) /\ n + 1 \notin (n + 1 + 1)..Len(jobs)
      /\ \A k : k \in (n + 1)..Len(jobs) <=> k = n + 1 \/ k \in (n + 1 + 1)..Len(jobs)
  BY <1>1
<1> QED BY <1>2, Zenon DEF Leaves, LeavesOnce

\* Nothing waits behind the last job.
LEMMA NoJobLeaves ==
  ASSUME NEW jobs \in Seq(Jobs), NEW r
  PROVE  ~Leaves(jobs, Len(jobs), r) /\ LeavesOnce(jobs, Len(jobs), r)
<1>1. (Len(jobs) + 1)..Len(jobs) = {}
  OBVIOUS
<1> QED BY <1>1 DEF Leaves, LeavesOnce

LEMMA EmptyQueue ==
  ASSUME NEW r
  PROVE  ~Leaves(<<>>, 0, r) /\ LeavesOnce(<<>>, 0, r)
<1>1. (0 + 1)..Len(<<>>) = {}
  OBVIOUS
<1> QED BY <1>1 DEF Leaves, LeavesOnce

-----------------------------------------------------------------------------
(* What views do to the references.                                         *)

\* What DestroyRefr leaves to the next update.
Released(q, v) == IF v.local \in Refs THEN Append(q, [op |-> "delete", ref |-> v.local]) ELSE q

LEMMA ReleasedTyped ==
  ASSUME NEW q \in Seq(Callback), NEW v
  PROVE  Released(q, v) \in Seq(Callback)
<1>1. ASSUME v.local \in Refs PROVE [op |-> "delete", ref |-> v.local] \in Callback
  BY <1>1 DEF Callback
<1> QED BY <1>1 DEF Released

\* The views hold what they held, and no reference appears in the game.
LEMMA SameRefsAccounted ==
  ASSUME NEW vw \in ViewStates, NEW vx \in ViewStates, NEW q, NEW jobs, NEW n, Accounted(vw, q, jobs, n),
         \A i \in Ids, r \in Nat : HoldsRef(vx.of, i, r) <=> HoldsRef(vw.of, i, r),
         vx.spawned = vw.spawned, vx.spawned <= MaxRefs, vx.protection = vw.protection,
         \A r \in Refs : vx.refs[r] # "none" => vw.refs[r] # "none",
         \A r \in Refs : vx.owner[r] # None => vx.of[vx.owner[r]] # None
  PROVE  Accounted(vx, q, jobs, n)
<1>1. \A r \in Nat : (Held(vx.of, r) <=> Held(vw.of, r)) /\ (HeldOnce(vx.of, r) <=> HeldOnce(vw.of, r))
  BY DEF Held, HeldOnce
<1>2. \A r \in Nat : /\ InUse(vx.of, q, jobs, n, r) <=> InUse(vw.of, q, jobs, n, r)
                     /\ InOnePlace(vx.of, q, jobs, n, r) <=> InOnePlace(vw.of, q, jobs, n, r)
  BY <1>1 DEF InUse, InOnePlace
<1>3. \A r \in 1..vx.spawned : r \in Nat /\ r \in Refs
  BY ViewConstants DEF ViewStates, Refs
<1> QED BY <1>2, <1>3, Zenon DEF Accounted

\* A view lets go of its reference, which will be deleted.
LEMMA ReleaseAccounted ==
  ASSUME NEW vw \in ViewStates, NEW vx \in ViewStates, NEW q \in Seq(Callback), NEW jobs, NEW n,
         Accounted(vw, q, jobs, n), NEW i \in Ids, vw.of[i] # None,
         NEW u, vx.of = [vw.of EXCEPT ![i] = u], u # None => u.local \notin Nat,
         vx.spawned = vw.spawned, vx.spawned <= MaxRefs, vx.protection = vw.protection, vx.refs = vw.refs,
         \A r \in Refs : vx.owner[r] # None => vx.of[vx.owner[r]] # None
  PROVE  Accounted(vx, Released(q, vw.of[i]), jobs, n)
<1> DEFINE v == vw.of[i]
           p == Released(q, v)
           x == [op |-> "delete", ref |-> v.local]
<1>1. /\ vx.of[i] = u /\ \A j \in Ids : j # i => vx.of[j] = vw.of[j]
  BY DEF ViewStates
<1>2. \A j \in Ids, r \in Nat : HoldsRef(vx.of, j, r) <=> j # i /\ HoldsRef(vw.of, j, r)
  BY <1>1 DEF HoldsRef
<1>3. \A r : HoldsRef(vw.of, i, r) <=> r = v.local
  BY DEF HoldsRef
<1>4. vx.spawned \in Nat /\ \A r \in 1..vw.spawned : r \in Nat /\ r \in Refs
  BY ViewConstants DEF ViewStates, Refs
<1> HIDE DEF v
<1>5. ASSUME NEW r \in Nat, r \in Refs
      PROVE  /\ Leaves(p, 0, r) <=> Leaves(q, 0, r) \/ r = v.local
             /\ LeavesOnce(q, 0, r) /\ ~(Leaves(q, 0, r) /\ r = v.local) => LeavesOnce(p, 0, r)
  <2>1. CASE v.local \in Refs
    <3>1. x \in Callback /\ (Deletes(x, r) <=> r = v.local)
      BY <2>1 DEF Callback, Deletes
    <3> HIDE DEF x
    <3>2. p = Append(q, x)
      BY <2>1 DEF Released, x
    <3> QED BY <3>1, <3>2, AppendLeaves
  <2>2. CASE v.local \notin Refs
    <3>1. p = q /\ r # v.local
      BY <1>5, <2>2 DEF Released
    <3> QED BY <3>1
  <2> QED BY <2>1, <2>2
<1> HIDE DEF p
<1>6. ASSUME NEW r \in Nat, r \in Refs, r # v.local
      PROVE  /\ InUse(vx.of, p, jobs, n, r) <=> InUse(vw.of, q, jobs, n, r)
             /\ InOnePlace(vw.of, q, jobs, n, r) => InOnePlace(vx.of, p, jobs, n, r)
  <2>1. \A j \in Ids : HoldsRef(vx.of, j, r) <=> HoldsRef(vw.of, j, r)
    BY <1>2, <1>3, <1>6
  <2>2. (Held(vx.of, r) <=> Held(vw.of, r)) /\ (HeldOnce(vx.of, r) <=> HeldOnce(vw.of, r))
    BY <2>1 DEF Held, HeldOnce
  <2>3. (Leaves(p, 0, r) <=> Leaves(q, 0, r)) /\ (LeavesOnce(q, 0, r) => LeavesOnce(p, 0, r))
    BY <1>5, <1>6
  <2> QED BY <2>2, <2>3 DEF InUse, InOnePlace
<1>7. ASSUME NEW r \in Nat, r \in Refs, r = v.local, InOnePlace(vw.of, q, jobs, n, r)
      PROVE  /\ InUse(vx.of, p, jobs, n, r) /\ InUse(vw.of, q, jobs, n, r)
             /\ InOnePlace(vx.of, p, jobs, n, r)
  <2>1. HoldsRef(vw.of, i, r) /\ HeldOnce(vw.of, r)
    BY <1>3, <1>7 DEF InOnePlace
  <2>2. \A j \in Ids : ~HoldsRef(vx.of, j, r)
    BY <1>2, <2>1 DEF HeldOnce
  <2>3. ~Held(vx.of, r) /\ HeldOnce(vx.of, r) /\ Held(vw.of, r)
    BY <2>1, <2>2 DEF Held, HeldOnce
  <2>4. ~Leaves(q, 0, r) /\ ~Leaves(jobs, n, r)
    BY <1>7, <2>3 DEF InOnePlace
  <2>5. Leaves(p, 0, r) /\ LeavesOnce(p, 0, r)
    BY <1>5, <1>7, <2>4 DEF InOnePlace
  <2> QED BY <1>7, <2>3, <2>4, <2>5 DEF InUse, InOnePlace
<1>8. ASSUME NEW r \in Nat, InUse(vx.of, p, jobs, n, r)
      PROVE  r <= vx.spawned
  <2>1. CASE InUse(vw.of, q, jobs, n, r)
    BY <2>1 DEF Accounted
  <2>2. CASE ~InUse(vw.of, q, jobs, n, r)
    <3>1. r # v.local
      BY <1>3, <2>2 DEF InUse, Held
    <3>2. ~Held(vx.of, r) /\ ~Leaves(jobs, n, r) /\ ~Leaves(q, 0, r)
      BY <1>2, <2>2 DEF InUse, Held
    <3>3. Leaves(p, 0, r)
      BY <1>8, <3>2 DEF InUse
    <3>4. r \in Refs
      <4>1. PICK k \in 1..Len(p) : Deletes(p[k], r)
        BY <3>3 DEF Leaves
      <4>2. p \in Seq(Callback)
        BY ReleasedTyped DEF p
      <4>3. p[k] \in Callback
        BY <4>1, <4>2
      <4> QED BY <4>1, <4>3 DEF Callback, Deletes
    <3> QED BY <1>5, <3>1, <3>2, <3>3, <3>4
  <2> QED BY <2>1, <2>2
<1>9. ASSUME NEW r \in 1..vx.spawned
      PROVE  /\ InOnePlace(vx.of, p, jobs, n, r)
             /\ vx.protection[r] = IF InUse(vx.of, p, jobs, n, r) THEN 1 ELSE 0
             /\ vx.refs[r] # "none" => vx.protection[r] = 1
  <2>1. /\ InOnePlace(vw.of, q, jobs, n, r)
        /\ vw.protection[r] = IF InUse(vw.of, q, jobs, n, r) THEN 1 ELSE 0
        /\ vw.refs[r] # "none" => vw.protection[r] = 1
    BY DEF Accounted
  <2>2. r \in Nat /\ r \in Refs
    BY <1>4
  <2>3. InOnePlace(vx.of, p, jobs, n, r) /\ (InUse(vx.of, p, jobs, n, r) <=> InUse(vw.of, q, jobs, n, r))
    BY <1>6, <1>7, <2>1, <2>2
  <2> QED BY <2>1, <2>3
<1>10. Accounted(vx, p, jobs, n)
  BY <1>8, <1>9 DEF Accounted
<1> QED BY <1>10 DEF p, v

\* The view of i, which holds none, becomes u with a new reference.
Spawned(vw, vx, i, u) ==
  /\ vw.of[i] # None => vw.of[i].local \notin Nat
  /\ vx.of = [vw.of EXCEPT ![i] = u] /\ u # None /\ u.local = vw.spawned + 1
  /\ vx.spawned = vw.spawned + 1 /\ vx.spawned <= MaxRefs
  /\ vx.protection = [vw.protection EXCEPT ![vw.spawned + 1] = 1]
  /\ \A r \in 1..vw.spawned : vx.refs[r] = vw.refs[r]
  /\ vx.owner = [vw.owner EXCEPT ![vw.spawned + 1] = i]

LEMMA SpawnAccounted ==
  ASSUME NEW vw \in ViewStates, NEW vx \in ViewStates, NEW q \in Seq(Callback), NEW jobs, NEW n,
         Accounted(vw, q, jobs, n), NEW i \in Ids, NEW u, Spawned(vw, vx, i, u)
  PROVE  Accounted(vx, q, jobs, n)
<1> DEFINE new == vw.spawned + 1
<1> USE DEF Spawned
<1>1. /\ vw.spawned \in Nat /\ new \in Refs /\ new \in Nat /\ \A r \in 1..vx.spawned : r = new \/ r \in 1..vw.spawned
      /\ \A r \in 1..vw.spawned : r \in Refs /\ r \in Nat /\ r # new
      /\ new \notin 1..vw.spawned /\ ~(new <= vw.spawned)
  BY ViewConstants DEF ViewStates, Refs
<1>2. vx.of[i] = u /\ \A j \in Ids : j # i => vx.of[j] = vw.of[j]
  BY DEF ViewStates
<1>3. vx.protection[new] = 1 /\ \A r \in 1..vw.spawned : vx.protection[r] = vw.protection[r]
  BY <1>1 DEF ViewStates
<1>4. vx.owner[new] = i /\ \A r \in Refs : r # new => vx.owner[r] = vw.owner[r]
  BY <1>1 DEF ViewStates
<1>5. \A r \in Nat : InUse(vw.of, q, jobs, n, r) => r <= vw.spawned
  BY DEF Accounted
<1> HIDE DEF new
<1>6. \A j \in Ids, r \in Nat : HoldsRef(vx.of, j, r) <=> IF j = i THEN r = new ELSE HoldsRef(vw.of, j, r)
  BY <1>2 DEF HoldsRef, new
<1>7. \A r \in Nat : ~HoldsRef(vw.of, i, r)
  BY DEF HoldsRef
<1>8. ~Held(vw.of, new) /\ ~Leaves(q, 0, new) /\ ~Leaves(jobs, n, new)
  BY <1>1, <1>5 DEF InUse
<1>9. Held(vx.of, new) /\ HeldOnce(vx.of, new)
  BY <1>1, <1>6, <1>8 DEF Held, HeldOnce
<1>10. LeavesOnce(q, 0, new) /\ LeavesOnce(jobs, n, new)
  BY <1>8 DEF Leaves, LeavesOnce
<1>11. ASSUME NEW r \in Nat, r # new
       PROVE  /\ InUse(vx.of, q, jobs, n, r) <=> InUse(vw.of, q, jobs, n, r)
              /\ InOnePlace(vx.of, q, jobs, n, r) <=> InOnePlace(vw.of, q, jobs, n, r)
  <2>1. \A j \in Ids : HoldsRef(vx.of, j, r) <=> HoldsRef(vw.of, j, r)
    BY <1>6, <1>7, <1>11
  <2>2. (Held(vx.of, r) <=> Held(vw.of, r)) /\ (HeldOnce(vx.of, r) <=> HeldOnce(vw.of, r))
    BY <2>1 DEF Held, HeldOnce
  <2> QED BY <2>2 DEF InUse, InOnePlace
<1>12. \A r \in Nat : InUse(vx.of, q, jobs, n, r) => r <= vx.spawned
  BY <1>1, <1>5, <1>11 DEF new
<1>13. ASSUME NEW r \in 1..vx.spawned
       PROVE  /\ InOnePlace(vx.of, q, jobs, n, r)
              /\ vx.protection[r] = IF InUse(vx.of, q, jobs, n, r) THEN 1 ELSE 0
              /\ vx.refs[r] # "none" => vx.protection[r] = 1
  <2>1. CASE r = new
    BY <1>3, <1>8, <1>9, <1>10, <2>1 DEF InUse, InOnePlace
  <2>2. CASE r # new
    <3>1. r \in 1..vw.spawned /\ r \in Nat
      BY <1>1, <2>2
    <3> QED BY <1>3, <1>11, <2>2, <3>1 DEF Accounted
  <2> QED BY <2>1, <2>2
<1>14. ASSUME NEW r \in Refs, vx.owner[r] # None PROVE vx.of[vx.owner[r]] # None
  <2>1. CASE r = new
    BY <1>2, <1>4, <2>1
  <2>2. CASE r # new
    <3>1. vx.owner[r] = vw.owner[r] /\ vw.owner[r] \in Ids /\ vw.of[vw.owner[r]] # None
      BY <1>4, <1>14, <2>2 DEF Accounted, ViewStates
    <3> QED BY <1>2, <3>1
  <2> QED BY <2>1, <2>2
<1> QED BY <1>12, <1>13, <1>14 DEF Accounted
\* A view that holds a reference within the bound, or none, is a view of the model.
LEMMA NoViewIsNone ==
  ASSUME NEW u \in LooseViews, u.local \in Nat => u.local <= MaxRefs
  PROVE  u # None
<1>1. u.local \in Refs \cup Doors \cup {None}
  BY ViewConstants DEF LooseViews, Refs
<1>2. u \in Views
  BY <1>1 DEF LooseViews, Views
<1> QED BY <1>2, ViewConstants

-----------------------------------------------------------------------------
(* Functions of a view.                                                     *)

LEMMA WholeTyped ==
  ASSUME NEW s, NEW jobs, NEW n, Whole(s, jobs, n)
  PROVE  /\ s \in GameStates /\ s.world \in ViewWorlds /\ s.view \in ViewStates /\ s.queue \in Seq(Callback)
         /\ s.view.spawned \in Nat /\ s.view.of \in [Ids -> LooseViews \cup {None}]
BY DEF Whole, GameStates, ViewStates

LEMMA DestroyRefrFields ==
  ASSUME NEW s \in GameStates, NEW v
  PROVE  /\ DestroyRefr(s, v) \in GameStates /\ DestroyRefr(s, v).world = s.world
         /\ DestroyRefr(s, v).view = s.view /\ DestroyRefr(s, v).queue = Released(s.queue, v)
<1> DEFINE q == Released(s.queue, v)
<1>1. q \in Seq(Callback)
  BY ReleasedTyped DEF GameStates
<1>2. DestroyRefr(s, v) = [s EXCEPT !.queue = q]
  <2>1. CASE v.local \in Refs
    BY <2>1 DEF DestroyRefr, Released
  <2>2. CASE v.local \notin Refs
    <3>1. q = s.queue /\ DestroyRefr(s, v) = s
      BY <2>2 DEF DestroyRefr, Released
    <3> HIDE DEF q
    <3> QED BY <3>1 DEF GameStates
  <2> QED BY <2>1, <2>2
<1> HIDE DEF q
<1> QED BY <1>1, <1>2 DEF GameStates, q

\* A view of i that becomes u, which is of the same form.
LEMMA NamedAgain ==
  ASSUME NEW s, NEW t, s \in GameStates, t.world = s.world, ViewsNamed(s), NEW i \in Ids, NEW u,
         t.view.of = [s.view.of EXCEPT ![i] = u], u # None => s.view.of[i] # None /\ u.remote = s.view.of[i].remote
  PROVE  ViewsNamed(t)
<1>1. s.view.of \in [Ids -> LooseViews \cup {None}]
  BY DEF GameStates, ViewStates
<1>2. t.view.of[i] = u /\ \A j \in Ids : j # i => t.view.of[j] = s.view.of[j]
  BY <1>1
<1>3. ASSUME NEW j \in Ids, t.view.of[j] # None
      PROVE  s.view.of[j] # None /\ t.view.of[j].remote = s.view.of[j].remote
  BY <1>2, <1>3
<1> QED BY <1>3 DEF ViewsNamed

LEMMA DestroyFormWhole ==
  ASSUME NEW s, NEW jobs, NEW n, Whole(s, jobs, n), NEW i \in Ids
  PROVE  /\ Whole(DestroyForm(s, i), jobs, n)
         /\ DestroyForm(s, i).world = s.world /\ DestroyForm(s, i).view.spawned = s.view.spawned
         /\ DestroyForm(s, i).view.of = [s.view.of EXCEPT ![i] = None]
<1> DEFINE t == DestroyForm(s, i)
           v == s.view.of[i]
           d == DestroyRefr(s, v)
           o == [s.view.of EXCEPT ![i] = None]
           owner == [r \in Refs |-> IF s.view.owner[r] = i THEN None ELSE s.view.owner[r]]
           vx == [s.view EXCEPT !.of = o, !.owner = owner]
<1>1. s \in GameStates /\ s.view \in ViewStates /\ s.queue \in Seq(Callback)
      /\ s.view.of \in [Ids -> LooseViews \cup {None}]
  BY WholeTyped
<1>2. CASE v = None
  <2>1. t = s
    BY <1>2 DEF DestroyForm
  <2>2. o = s.view.of
    BY <1>1, <1>2
  <2> HIDE DEF t
  <2> QED BY <2>1, <2>2 DEF t
<1>3. CASE v # None
  <2>1. d \in GameStates /\ d.world = s.world /\ d.view = s.view /\ d.queue = Released(s.queue, v)
    BY <1>1, DestroyRefrFields
  <2>2. t = [d EXCEPT !.view.of[i] = None,
                       !.view.owner = [r \in Refs |-> IF @[r] = i THEN None ELSE @[r]]]
    BY <1>3 DEF DestroyForm
  <2> HIDE DEF d, t
  <2>3. t = [d EXCEPT !.view = vx]
    BY <2>1, <2>2 DEF GameStates, ViewStates
  <2>4. o \in [Ids -> LooseViews \cup {None}] /\ owner \in [Refs -> Ids \cup {None}]
    BY <1>1 DEF ViewStates
  <2>5. \A r \in Refs : owner[r] # None => owner[r] \in Ids /\ owner[r] # i /\ s.view.owner[r] = owner[r]
    BY <1>1 DEF ViewStates
  <2>6. o[i] = None /\ \A j \in Ids : j # i => o[j] = s.view.of[j]
    BY <1>1
  <2> HIDE DEF owner
  <2>7. /\ vx \in ViewStates /\ vx.of = o /\ vx.owner = owner /\ vx.spawned = s.view.spawned
        /\ vx.protection = s.view.protection /\ vx.refs = s.view.refs
    <3> HIDE DEF o
    <3> QED BY <1>1, <2>4 DEF ViewStates
  <2> HIDE DEF vx
  <2>8. t \in GameStates /\ t.world = s.world /\ t.view = vx /\ t.queue = Released(s.queue, v)
    BY <2>1, <2>3, <2>7 DEF GameStates
  <2>9. ViewsNamed(t)
    BY <1>1, <2>7, <2>8, NamedAgain DEF Whole
  <2>10. ASSUME vx.spawned <= MaxRefs PROVE Accounted(vx, Released(s.queue, v), jobs, n)
    <3>1. Accounted(s.view, s.queue, jobs, n)
      BY <2>7, <2>10 DEF Whole
    <3>2. \A r \in Refs : vx.owner[r] # None => vx.of[vx.owner[r]] # None
      BY <2>5, <2>6, <2>7, <3>1 DEF Accounted
    <3> QED BY <1>1, <1>3, <2>7, <2>10, <3>1, <3>2, ReleaseAccounted
  <2>11. Whole(t, jobs, n)
    BY <2>8, <2>9, <2>10 DEF Whole
  <2> QED BY <2>7, <2>8, <2>11 DEF t
<1> QED BY <1>2, <1>3

\* A view of i that lets go of its reference becomes u, which holds none.
LEMMA LetsGoWhole ==
  ASSUME NEW s, NEW jobs, NEW n, Whole(s, jobs, n), NEW i \in Ids, s.view.of[i] # None,
         NEW u \in LooseViews, u.local \notin Nat, u.remote = s.view.of[i].remote
  PROVE  /\ Whole([DestroyRefr(s, s.view.of[i]) EXCEPT !.view.of[i] = u], jobs, n)
         /\ [DestroyRefr(s, s.view.of[i]) EXCEPT !.view.of[i] = u].view.spawned = s.view.spawned
<1> DEFINE v == s.view.of[i]
           d == DestroyRefr(s, v)
           t == [d EXCEPT !.view.of[i] = u]
           o == [s.view.of EXCEPT ![i] = u]
           vx == [s.view EXCEPT !.of = o]
<1>1. s \in GameStates /\ s.view \in ViewStates /\ s.queue \in Seq(Callback) /\ v \in LooseViews
      /\ s.view.of \in [Ids -> LooseViews \cup {None}]
  BY WholeTyped
<1>2. d \in GameStates /\ d.world = s.world /\ d.view = s.view /\ d.queue = Released(s.queue, v)
  BY <1>1, DestroyRefrFields
<1> HIDE DEF d
<1>3. t = [d EXCEPT !.view = vx]
  BY <1>1, <1>2 DEF GameStates, ViewStates
<1> HIDE DEF t
<1>4. v # None /\ u # None
  BY NoViewIsNone
<1>5. o \in [Ids -> LooseViews \cup {None}]
  BY <1>1
<1>6. o[i] = u /\ \A j \in Ids : j # i => o[j] = s.view.of[j]
  BY <1>1
<1>7. /\ vx \in ViewStates /\ vx.of = o /\ vx.owner = s.view.owner /\ vx.spawned = s.view.spawned
      /\ vx.protection = s.view.protection /\ vx.refs = s.view.refs
  <2> HIDE DEF o
  <2> QED BY <1>1, <1>5 DEF ViewStates
<1> HIDE DEF vx
<1>8. t \in GameStates /\ t.world = s.world /\ t.view = vx /\ t.queue = Released(s.queue, v)
  BY <1>2, <1>3, <1>7 DEF GameStates
<1>9. ViewsNamed(t)
  BY <1>1, <1>4, <1>7, <1>8, NamedAgain DEF Whole
<1>10. ASSUME vx.spawned <= MaxRefs PROVE Accounted(vx, Released(s.queue, v), jobs, n)
  <2>1. Accounted(s.view, s.queue, jobs, n)
    BY <1>7, <1>10 DEF Whole
  <2>2. \A r \in Refs : vx.owner[r] # None => vx.of[vx.owner[r]] # None
    BY <1>4, <1>6, <1>7, <2>1 DEF Accounted, ViewStates
  <2> QED BY <1>1, <1>4, <1>7, <1>10, <2>1, <2>2, ReleaseAccounted
<1>11. Whole(t, jobs, n) /\ t.view.spawned = s.view.spawned
  BY <1>7, <1>8, <1>9, <1>10 DEF Whole
<1> QED BY <1>11 DEF t, d

LEMMA VanishWhole ==
  ASSUME NEW s, NEW jobs, NEW n, Whole(s, jobs, n), NEW i \in Ids, s.view.of[i] # None,
         NEW cell \in Cells
  PROVE  Whole(Vanish(s, i, cell), jobs, n) /\ Vanish(s, i, cell).view.spawned = s.view.spawned
<1> DEFINE v == s.view.of[i]
           u == [v EXCEPT !.local = None, !.cell = cell]
<1>1. v \in LooseViews
  BY WholeTyped
<1>2. u \in LooseViews /\ u.local = None /\ u.remote = v.remote
  BY <1>1 DEF LooseViews
<1>3. Vanish(s, i, cell) = [DestroyRefr(s, v) EXCEPT !.view.of[i] = u]
  <2> DEFINE d == DestroyRefr(s, v)
  <2>1. d \in GameStates /\ d.view = s.view
    BY WholeTyped, DestroyRefrFields
  <2>2. Vanish(s, i, cell) = [d EXCEPT !.view.of[i] = [@ EXCEPT !.local = None, !.cell = cell]]
    BY DEF Vanish
  <2> HIDE DEF d
  <2>3. Vanish(s, i, cell) = [d EXCEPT !.view.of[i] = u]
    BY <2>1, <2>2 DEF GameStates, ViewStates
  <2> QED BY <2>3 DEF d
<1> HIDE DEF u
<1> DEFINE t == [DestroyRefr(s, v) EXCEPT !.view.of[i] = u]
<1>4. Whole(t, jobs, n) /\ t.view.spawned = s.view.spawned
  BY <1>2, LetsGoWhole, ViewConstants
<1> HIDE DEF t
<1>5. Vanish(s, i, cell) = t
  BY <1>3 DEF t
<1> QED BY <1>4, <1>5

\* Only the view of i changes, and not what it holds.
LEMMA SameHoldWhole ==
  ASSUME NEW s, NEW jobs, NEW n, Whole(s, jobs, n), NEW i \in Ids, NEW u \in LooseViews,
         \/ s.view.of[i] # None /\ u.local = s.view.of[i].local /\ u.remote = s.view.of[i].remote
         \/ /\ s.view.of[i] = None /\ u.local \notin Nat /\ s.world.valueById[i] # None
            /\ s.world.forms[i] # None => u.remote = s.world.forms[i].refr
  PROVE  Whole([s EXCEPT !.view.of[i] = u], jobs, n)
<1> DEFINE t == [s EXCEPT !.view.of[i] = u]
           o == [s.view.of EXCEPT ![i] = u]
           vx == [s.view EXCEPT !.of = o]
<1>1. s \in GameStates /\ s.view \in ViewStates /\ s.view.of \in [Ids -> LooseViews \cup {None}]
  BY WholeTyped
<1>2. t = [s EXCEPT !.view = vx]
  BY <1>1 DEF GameStates, ViewStates
<1> HIDE DEF t
<1>3. o \in [Ids -> LooseViews \cup {None}] /\ o[i] = u /\ \A j \in Ids : j # i => o[j] = s.view.of[j]
  BY <1>1
<1> HIDE DEF o
<1>4. /\ vx \in ViewStates /\ vx.of = o /\ vx.owner = s.view.owner /\ vx.spawned = s.view.spawned
      /\ vx.protection = s.view.protection /\ vx.refs = s.view.refs
  BY <1>1, <1>3 DEF ViewStates
<1> HIDE DEF vx
<1>5. t \in GameStates /\ t.world = s.world /\ t.view = vx /\ t.queue = s.queue
  BY <1>1, <1>2, <1>4 DEF GameStates
<1>6. ViewsNamed(t)
  <2> SUFFICES ASSUME NEW j \in Ids, t.view.of[j] # None
               PROVE  /\ t.world.valueById[j] # None
                      /\ t.world.forms[j] # None => t.view.of[j].remote = t.world.forms[j].refr
    BY DEF ViewsNamed
  <2>1. CASE j = i
    BY <1>3, <1>4, <1>5, <2>1 DEF Whole, ViewsNamed
  <2>2. CASE j # i
    BY <1>3, <1>4, <1>5, <2>2 DEF Whole, ViewsNamed
  <2> QED BY <2>1, <2>2
<1>7. ASSUME vx.spawned <= MaxRefs PROVE Accounted(vx, s.queue, jobs, n)
  <2>1. Accounted(s.view, s.queue, jobs, n)
    BY <1>4, <1>7 DEF Whole
  <2>2. u.local \in Nat => u.local <= MaxRefs
    <3>1. CASE u.local \in Nat
      <4>1. HoldsRef(s.view.of, i, u.local)
        BY <3>1 DEF HoldsRef
      <4>2. InUse(s.view.of, s.queue, jobs, n, u.local)
        BY <4>1 DEF InUse, Held
      <4>3. u.local <= s.view.spawned
        BY <2>1, <3>1, <4>2 DEF Accounted
      <4> QED BY <1>1, <1>4, <1>7, <3>1, <4>3, ViewConstants DEF ViewStates
    <3> QED BY <3>1
  <2>3. u # None
    BY <2>2, NoViewIsNone
  <2>4. \A r \in Refs : vx.owner[r] # None => vx.of[vx.owner[r]] # None
    BY <1>3, <1>4, <2>1, <2>3 DEF Accounted, ViewStates
  <2>5. \A j \in Ids, r \in Nat : HoldsRef(vx.of, j, r) <=> HoldsRef(s.view.of, j, r)
    BY <1>3, <1>4, <2>3 DEF HoldsRef
  <2> QED BY <1>1, <1>4, <1>7, <2>1, <2>4, <2>5, SameRefsAccounted
<1>8. Whole(t, jobs, n)
  BY <1>5, <1>6, <1>7 DEF Whole
<1> QED BY <1>8 DEF t

LEMMA SpawnWhole ==
  ASSUME NEW s, NEW jobs, NEW n, Whole(s, jobs, n), NEW i \in Ids, s.view.of[i] # None,
         NEW cell \in Cells, NEW look \in {0, 1}
  PROVE  Whole(Spawn(s, i, cell, look), jobs, n)
<1> DEFINE t == Spawn(s, i, cell, look)
           v == s.view.of[i]
           d == DestroyRefr(s, v)
           r == s.view.spawned + 1
           u == [v EXCEPT !.local = r, !.ready = FALSE, !.cell = cell]
           o == [s.view.of EXCEPT ![i] = u]
           refs == [s.view.refs EXCEPT ![r] = "spawning"]
           base == [s.view.base EXCEPT ![r] = look]
           owner == [s.view.owner EXCEPT ![r] = i]
           protection == [s.view.protection EXCEPT ![r] = 1]
           vx == [s.view EXCEPT !.of = o, !.refs = refs, !.base = base, !.owner = owner,
                                !.protection = protection, !.spawned = r]
           \* In between, the view lets go of what it holds.
           z == [v EXCEPT !.local = None]
           oz == [s.view.of EXCEPT ![i] = z]
           vz == [s.view EXCEPT !.of = oz]
<1>1. s \in GameStates /\ s.view \in ViewStates /\ s.queue \in Seq(Callback) /\ v \in LooseViews
      /\ s.view.of \in [Ids -> LooseViews \cup {None}]
  BY WholeTyped
<1>2. d \in GameStates /\ d.world = s.world /\ d.view = s.view /\ d.queue = Released(s.queue, v)
  BY <1>1, DestroyRefrFields
<1>3. t = [d EXCEPT !.view = [s.view EXCEPT
             !.of[i] = [@ EXCEPT !.local = r, !.ready = FALSE, !.cell = cell], !.refs[r] = "spawning",
             !.base[r] = look, !.owner[r] = i, !.protection[r] = 1, !.spawned = r]]
  BY DEF Spawn
<1> HIDE DEF d, t
<1>4. t = [d EXCEPT !.view = vx]
  <2>1. [s.view EXCEPT
           !.of[i] = [@ EXCEPT !.local = r, !.ready = FALSE, !.cell = cell], !.refs[r] = "spawning",
           !.base[r] = look, !.owner[r] = i, !.protection[r] = 1, !.spawned = r] = vx
    BY <1>1 DEF ViewStates
  <2> HIDE DEF vx
  <2> QED BY <1>3, <2>1
<1>5. r \in Nat \ {0}
  BY <1>1 DEF ViewStates
<1>6. u \in LooseViews /\ u.local = r /\ u.remote = v.remote
  <2> HIDE DEF r
  <2> QED BY <1>1, <1>5 DEF LooseViews
<1>7. z \in LooseViews /\ z.local = None
  BY <1>1 DEF LooseViews
<1> HIDE DEF u, z
<1>8. /\ o \in [Ids -> LooseViews \cup {None}] /\ o[i] = u /\ o = [oz EXCEPT ![i] = u]
      /\ oz \in [Ids -> LooseViews \cup {None}] /\ oz[i] = z
      /\ \A j \in Ids : j # i => oz[j] = s.view.of[j]
  BY <1>1, <1>6, <1>7
<1>9. /\ refs \in [Refs -> {"none", "spawning", "shown"}] /\ base \in [Refs -> {0, 1}]
      /\ owner \in [Refs -> Ids \cup {None}] /\ protection \in [Refs -> Int]
      /\ \A k \in Refs : k # r => refs[k] = s.view.refs[k]
  <2> HIDE DEF r
  <2>2. refs \in [Refs -> {"none", "spawning", "shown"}] /\ base \in [Refs -> {0, 1}]
    BY <1>1 DEF ViewStates
  <2>3. owner \in [Refs -> Ids \cup {None}]
    BY <1>1 DEF ViewStates
  <2>4. protection \in [Refs -> Int]
    <3>1. s.view.protection \in [Refs -> Int] /\ 1 \in Int
      BY <1>1 DEF ViewStates
    <3> QED BY <3>1
  <2>5. \A k \in Refs : k # r => refs[k] = s.view.refs[k]
    <3> DEFINE f == s.view.refs
    <3>1. f \in [Refs -> {"none", "spawning", "shown"}]
      BY <1>1 DEF ViewStates
    <3>2. refs = [f EXCEPT ![r] = "spawning"]
      OBVIOUS
    <3> HIDE DEF f, refs
    <3>3. \A k \in Refs : k # r => refs[k] = f[k]
      BY <3>1, <3>2
    <3> QED BY <3>3 DEF f
  <2> HIDE DEF refs, base, owner, protection
  <2> QED BY <2>2, <2>3, <2>4, <2>5
<1>10. vz \in ViewStates /\ vz.of = oz /\ vz.owner = s.view.owner /\ vz.spawned = s.view.spawned
       /\ vz.protection = s.view.protection /\ vz.refs = s.view.refs
  <2> HIDE DEF oz
  <2> QED BY <1>1, <1>8 DEF ViewStates
<1>11. vx \in ViewStates /\ vx.of = o /\ vx.owner = owner /\ vx.spawned = r
       /\ vx.protection = protection /\ vx.refs = refs
  <2> HIDE DEF o, owner, protection, refs, base, r
  <2> QED BY <1>1, <1>5, <1>8, <1>9 DEF ViewStates
<1> HIDE DEF vx, vz
<1>12. t \in GameStates /\ t.world = s.world /\ t.view = vx /\ t.queue = Released(s.queue, v)
  BY <1>2, <1>4, <1>11 DEF GameStates
<1>13. ViewsNamed(t)
  BY <1>1, <1>6, <1>11, <1>12, NamedAgain DEF Whole
<1>14. ASSUME vx.spawned <= MaxRefs PROVE Accounted(vx, Released(s.queue, v), jobs, n)
  <2>1. s.view.spawned \in Nat /\ s.view.spawned <= MaxRefs
    BY <1>1, <1>11, <1>14, ViewConstants DEF ViewStates
  <2>2. Accounted(s.view, s.queue, jobs, n)
    BY <2>1 DEF Whole
  <2>3. u # None /\ z # None
    BY <1>6, <1>7, <1>11, <1>14, NoViewIsNone, ViewConstants
  <2>4. \A k \in Refs : vz.owner[k] # None => vz.of[vz.owner[k]] # None
    BY <1>8, <1>10, <2>2, <2>3 DEF Accounted, ViewStates
  <2>5. Accounted(vz, Released(s.queue, v), jobs, n)
    BY <1>1, <1>7, <1>10, <2>1, <2>2, <2>4, ViewConstants, ReleaseAccounted
  <2>6. Released(s.queue, v) \in Seq(Callback)
    BY <1>1, ReleasedTyped
  <2>7. vx.of = [vz.of EXCEPT ![i] = u] /\ (vz.of[i] # None => vz.of[i].local \notin Nat)
    BY <1>7, <1>8, <1>10, <1>11, ViewConstants
  <2>8. \A k \in 1..s.view.spawned : k \in Refs /\ k # r
    BY <2>1, ViewConstants DEF Refs
  <2>9. \A k \in 1..vz.spawned : vx.refs[k] = vz.refs[k]
    <3> HIDE DEF r, refs
    <3> QED BY <1>9, <1>10, <1>11, <2>8
  <2>10. /\ u.local = vz.spawned + 1 /\ vx.spawned = vz.spawned + 1
         /\ vx.protection = [vz.protection EXCEPT ![vz.spawned + 1] = 1]
         /\ vx.owner = [vz.owner EXCEPT ![vz.spawned + 1] = i]
    BY <1>6, <1>10, <1>11
  <2> DEFINE q == Released(s.queue, v)
  <2>11. vz \in ViewStates /\ vx \in ViewStates /\ q \in Seq(Callback) /\ Accounted(vz, q, jobs, n)
    BY <1>10, <1>11, <2>5, <2>6
  <2> HIDE DEF r, o, oz, refs, base, owner, protection, v, q
  <2>12. Spawned(vz, vx, i, u)
    BY <1>14, <2>3, <2>7, <2>9, <2>10, Zenon DEF Spawned
  <2>13. Accounted(vx, q, jobs, n)
    BY <2>11, <2>12, SpawnAccounted
  <2> QED BY <2>13 DEF q
<1>15. Whole(t, jobs, n)
  BY <1>12, <1>13, <1>14 DEF Whole
<1> QED BY <1>15 DEF t

LEMMA UpdateActorWhole ==
  ASSUME NEW s, NEW jobs, NEW n, Whole(s, jobs, n), NEW i \in Ids, s.view.of[i] # None,
         NEW form \in Forms, player.cell \in Cells
  PROVE  Whole(UpdateActor(s, i, form), jobs, n)
<1> DEFINE v == s.view.of[i]
           u == [v EXCEPT !.cell = form.cell]
           stands == v.local \in Refs /\ s.view.refs[v.local] # "none" /\ s.view.base[v.local] = form.look
<1>1. form.cell \in Cells /\ form.look \in {0, 1} /\ v \in LooseViews /\ s \in GameStates
  BY WholeTyped DEF Forms
<1>2. UpdateActor(s, i, form) \in
        {s, Vanish(s, i, form.cell), [s EXCEPT !.view.of[i] = [@ EXCEPT !.cell = form.cell]],
         Spawn(s, i, form.cell, form.look)}
  BY DEF UpdateActor
<1>3. Whole([s EXCEPT !.view.of[i] = [@ EXCEPT !.cell = form.cell]], jobs, n)
  <2>1. u \in LooseViews /\ u.local = v.local /\ u.remote = v.remote
    BY <1>1 DEF LooseViews
  <2>2. [s EXCEPT !.view.of[i] = [@ EXCEPT !.cell = form.cell]] = [s EXCEPT !.view.of[i] = u]
    BY <1>1 DEF GameStates, ViewStates
  <2> HIDE DEF u
  <2>3. Whole([s EXCEPT !.view.of[i] = u], jobs, n)
    BY <2>1, SameHoldWhole
  <2> QED BY <2>2, <2>3
<1>4. Whole(Vanish(s, i, form.cell), jobs, n) /\ Whole(Spawn(s, i, form.cell, form.look), jobs, n)
  BY <1>1, VanishWhole, SpawnWhole
<1> QED BY <1>2, <1>3, <1>4

LEMMA UpdateDoorWhole ==
  ASSUME NEW s, NEW jobs, NEW n, Whole(s, jobs, n), NEW i \in Ids, s.view.of[i] # None,
         NEW form \in Forms, form.refr \in Doors
  PROVE  Whole(UpdateDoor(s, i, form), jobs, n)
<1> DEFINE v == s.view.of[i]
           u == [v EXCEPT !.local = form.refr, !.ready = TRUE]
           d == DestroyRefr(s, v)
           t == [d EXCEPT !.view.of[i] = [@ EXCEPT !.local = form.refr, !.ready = TRUE]]
<1>1. v \in LooseViews /\ s \in GameStates
  BY WholeTyped
<1>2. u \in LooseViews /\ u.local = form.refr /\ u.remote = v.remote
  BY <1>1 DEF LooseViews
<1>3. d \in GameStates /\ d.view = s.view
  BY <1>1, DestroyRefrFields
<1>4. UpdateDoor(s, i, form) \in {s, t}
  BY DEF UpdateDoor
<1>5. Whole([d EXCEPT !.view.of[i] = u], jobs, n)
  <2> HIDE DEF u
  <2> QED BY <1>2, LetsGoWhole, ViewConstants
<1>6. t = [d EXCEPT !.view.of[i] = u]
  <2> HIDE DEF d
  <2> QED BY <1>3 DEF GameStates, ViewStates
<1> HIDE DEF t, d
<1> QED BY <1>4, <1>5, <1>6

LEMMA UpdateFormWhole ==
  ASSUME NEW s, NEW jobs, NEW n, Whole(s, jobs, n), NEW i \in Ids, player.cell \in Cells
  PROVE  Whole(UpdateForm(s, i), jobs, n)
<1> DEFINE form == s.world.forms[i]
           u == [remote |-> form.refr, local |-> None, ready |-> FALSE, cell |-> None]
<1>1. form \in Forms \cup {None}
  BY WholeTyped DEF ViewWorlds
<1>2. CASE form = None \/ i = s.world.me
  BY <1>2, DestroyFormWhole DEF UpdateForm
<1>3. CASE ~(form = None \/ i = s.world.me) /\ s.view.of[i] = None
  <2>1. UpdateForm(s, i) = [s EXCEPT !.view.of[i] = u]
    BY <1>3 DEF UpdateForm
  <2>2. form \in Forms
    BY <1>1, <1>3
  <2>3. u \in LooseViews /\ u.local = None /\ u.remote = form.refr
    BY <2>2 DEF LooseViews, Forms
  <2>4. s.world.valueById[i] # None
    <3>1. s.world.valueById[i] = form.idx /\ form.idx \in Indexes
      BY <1>3, <2>2 DEF Whole, IdsSound, Forms
    <3> QED BY <3>1, ViewConstants
  <2> HIDE DEF u
  <2> QED BY <1>3, <2>1, <2>3, <2>4, SameHoldWhole, ViewConstants
<1>4. CASE ~(form = None \/ i = s.world.me) /\ s.view.of[i] # None
  <2>1. form \in Forms
    BY <1>1, <1>4
  <2>2. UpdateForm(s, i) = IF form.refr \in Doors THEN UpdateDoor(s, i, form) ELSE UpdateActor(s, i, form)
    BY <1>4 DEF UpdateForm
  <2> HIDE DEF form
  <2> QED BY <1>4, <2>1, <2>2, UpdateDoorWhole, UpdateActorWhole
<1> QED BY <1>2, <1>3, <1>4

-----------------------------------------------------------------------------
(* One job of an update.                                                    *)

LEMMA DeletedFields ==
  ASSUME NEW s \in GameStates, NEW r \in Refs
  PROVE  /\ Deleted(s, r) \in GameStates /\ Deleted(s, r).world = s.world /\ Deleted(s, r).queue = s.queue
         /\ Deleted(s, r).view \in ViewStates /\ Deleted(s, r).view = [s.view EXCEPT !.refs[r] = "none"]
         /\ Deleted(s, r).view.of = s.view.of /\ Deleted(s, r).view.owner = s.view.owner
         /\ Deleted(s, r).view.spawned = s.view.spawned /\ Deleted(s, r).view.protection = s.view.protection
         /\ Deleted(s, r).view.refs = [s.view.refs EXCEPT ![r] = "none"]
<1> DEFINE refs == [s.view.refs EXCEPT ![r] = "none"]
           vx == [s.view EXCEPT !.refs = refs]
<1>1. s.view \in ViewStates /\ refs \in [Refs -> {"none", "spawning", "shown"}]
  BY DEF GameStates, ViewStates
<1>2. Deleted(s, r) = [s EXCEPT !.view = vx] /\ vx = [s.view EXCEPT !.refs[r] = "none"]
  BY <1>1 DEF Deleted, GameStates, ViewStates
<1> HIDE DEF refs
<1>3. /\ vx \in ViewStates /\ vx.of = s.view.of /\ vx.owner = s.view.owner /\ vx.spawned = s.view.spawned
      /\ vx.protection = s.view.protection /\ vx.refs = refs
  BY <1>1 DEF ViewStates
<1> HIDE DEF vx
<1> QED BY <1>2, <1>3 DEF GameStates, refs

\* A job that deletes nothing leaves the references where they are.
LEMMA OtherJob ==
  ASSUME NEW s, NEW jobs \in Seq(Jobs), NEW n \in Nat, n < Len(jobs), Whole(s, jobs, n),
         jobs[n + 1].op # "delete"
  PROVE  Whole(s, jobs, n + 1)
<1>1. SUFFICES ASSUME s.view.spawned <= MaxRefs, Accounted(s.view, s.queue, jobs, n)
               PROVE  Accounted(s.view, s.queue, jobs, n + 1)
  BY DEF Whole
<1>2. \A r : ~Deletes(jobs[n + 1], r)
  BY DEF Deletes
<1>3. \A r : /\ Leaves(jobs, n + 1, r) <=> Leaves(jobs, n, r)
             /\ LeavesOnce(jobs, n, r) => LeavesOnce(jobs, n + 1, r)
  BY <1>2, JobTaken
<1>4. \A r : /\ InUse(s.view.of, s.queue, jobs, n + 1, r) <=> InUse(s.view.of, s.queue, jobs, n, r)
             /\ InOnePlace(s.view.of, s.queue, jobs, n, r) => InOnePlace(s.view.of, s.queue, jobs, n + 1, r)
  BY <1>3 DEF InUse, InOnePlace
<1> QED BY <1>1, <1>4, Zenon DEF Accounted

LEMMA DeleteJob ==
  ASSUME NEW s, NEW jobs \in Seq(Jobs), NEW n \in Nat, n < Len(jobs), Whole(s, jobs, n),
         jobs[n + 1].op = "delete", jobs[n + 1].ref \in Refs
  PROVE  Whole(Run(s, jobs[n + 1]), jobs, n + 1)
<1> DEFINE job == jobs[n + 1]
           q == s.queue
           d == Deleted(s, job.ref)
           t == [d EXCEPT !.view.protection[job.ref] = @ - 1]
           protection == [s.view.protection EXCEPT ![job.ref] = s.view.protection[job.ref] - 1]
           vx == [d.view EXCEPT !.protection = protection]
<1>1. s \in GameStates /\ s.view \in ViewStates
  BY WholeTyped
<1>2. Run(s, job) = t
  BY DEF Run
<1>3. /\ d \in GameStates /\ d.world = s.world /\ d.queue = q /\ d.view \in ViewStates
      /\ d.view.of = s.view.of /\ d.view.owner = s.view.owner /\ d.view.spawned = s.view.spawned
      /\ d.view.protection = s.view.protection /\ d.view.refs = [s.view.refs EXCEPT ![job.ref] = "none"]
  BY <1>1, DeletedFields
<1> HIDE DEF d
<1>4. protection \in [Refs -> Int] /\ protection[job.ref] = s.view.protection[job.ref] - 1
      /\ \A r \in Refs : r # job.ref => protection[r] = s.view.protection[r]
  <2>1. s.view.protection \in [Refs -> Int]
    BY <1>1 DEF ViewStates
  <2> QED BY <2>1
<1>5. t = [d EXCEPT !.view = vx]
  BY <1>3 DEF GameStates, ViewStates
<1> HIDE DEF t, protection
<1>6. /\ vx \in ViewStates /\ vx.of = s.view.of /\ vx.owner = s.view.owner /\ vx.spawned = s.view.spawned
      /\ vx.protection = protection /\ vx.refs = [s.view.refs EXCEPT ![job.ref] = "none"]
  BY <1>3, <1>4 DEF ViewStates
<1> HIDE DEF vx
<1>7. t \in GameStates /\ t.world = s.world /\ t.view = vx /\ t.queue = q
  BY <1>3, <1>5, <1>6 DEF GameStates
<1>8. IdsSound(t.world) /\ ViewsNamed(t)
  BY <1>6, <1>7 DEF Whole, ViewsNamed
<1>9. vx.refs[job.ref] = "none" /\ \A r \in Refs : r # job.ref => vx.refs[r] = s.view.refs[r]
  BY <1>1, <1>6 DEF ViewStates
<1>10. \A r : Deletes(job, r) <=> r = job.ref
  BY DEF Deletes
<1>11. \A r : /\ Leaves(jobs, n, r) <=> Leaves(jobs, n + 1, r) \/ r = job.ref
              /\ LeavesOnce(jobs, n, r) => /\ LeavesOnce(jobs, n + 1, r)
                                           /\ r = job.ref => ~Leaves(jobs, n + 1, r)
  BY <1>10, JobTaken
<1> HIDE DEF job, q
<1>12. ASSUME vx.spawned <= MaxRefs
       PROVE  Accounted(vx, q, jobs, n + 1)
  <2>1. Accounted(s.view, q, jobs, n)
    BY <1>6, <1>12 DEF Whole, q
  <2>2. ASSUME NEW r \in Nat, InUse(vx.of, q, jobs, n + 1, r)
        PROVE  r <= vx.spawned
    <3>1. InUse(s.view.of, q, jobs, n, r)
      BY <1>6, <1>11, <2>2 DEF InUse
    <3> QED BY <1>6, <2>1, <3>1 DEF Accounted
  <2>3. ASSUME NEW r \in 1..vx.spawned
        PROVE  /\ InOnePlace(vx.of, q, jobs, n + 1, r)
               /\ vx.protection[r] = IF InUse(vx.of, q, jobs, n + 1, r) THEN 1 ELSE 0
               /\ vx.refs[r] # "none" => vx.protection[r] = 1
    <3>1. /\ InOnePlace(s.view.of, q, jobs, n, r)
          /\ s.view.protection[r] = IF InUse(s.view.of, q, jobs, n, r) THEN 1 ELSE 0
          /\ s.view.refs[r] # "none" => s.view.protection[r] = 1
      BY <1>6, <2>1 DEF Accounted
    <3>2. InOnePlace(vx.of, q, jobs, n + 1, r)
      BY <1>6, <1>11, <3>1 DEF InOnePlace
    <3>3. r \in Refs
      BY <1>1, <1>6, <1>12, ViewConstants DEF Refs, ViewStates
    <3>4. CASE r = job.ref
      <4>1. InUse(s.view.of, q, jobs, n, r) /\ ~InUse(vx.of, q, jobs, n + 1, r)
        BY <1>6, <1>11, <3>1, <3>4 DEF InUse, InOnePlace
      <4>2. s.view.protection[r] = 1
        BY <3>1, <4>1
      <4>3. vx.protection[r] = 0
        BY <1>4, <1>6, <3>4, <4>2
      <4> QED BY <1>9, <3>2, <3>4, <4>1, <4>3
    <3>5. CASE r # job.ref
      <4>1. InUse(s.view.of, q, jobs, n, r) <=> InUse(vx.of, q, jobs, n + 1, r)
        BY <1>6, <1>11, <3>5 DEF InUse
      <4> QED BY <1>4, <1>6, <1>9, <3>1, <3>2, <3>3, <3>5, <4>1
    <3> QED BY <3>4, <3>5
  <2>4. \A r \in Refs : vx.owner[r] # None => vx.of[vx.owner[r]] # None
    BY <1>6, <2>1 DEF Accounted
  <2> QED BY <2>2, <2>3, <2>4 DEF Accounted
<1>13. Whole(t, jobs, n + 1)
  BY <1>7, <1>8, <1>12 DEF Whole, q
<1> QED BY <1>2, <1>13 DEF job
\* Forms that keep what they stand for leave the views of them right.
LEMMA SameFormsWhole ==
  ASSUME NEW s, NEW t, NEW jobs, NEW n, Whole(s, jobs, n), t.world \in ViewWorlds,
         t.view = s.view, t.queue = s.queue, t \in GameStates,
         t.world.idByValue = s.world.idByValue, t.world.valueById = s.world.valueById,
         t.world.minimumUnusedId = s.world.minimumUnusedId,
         \A i \in Ids : t.world.forms[i] # None =>
           /\ s.world.forms[i] # None /\ t.world.forms[i].idx = s.world.forms[i].idx
           /\ t.world.forms[i].refr = s.world.forms[i].refr
  PROVE  Whole(t, jobs, n)
<1>1. IdsSound(t.world)
  BY DEF Whole, IdsSound
<1>2. ViewsNamed(t)
  BY DEF Whole, ViewsNamed
<1> QED BY <1>1, <1>2 DEF Whole

LEMMA DeadJob ==
  ASSUME NEW s, NEW jobs, NEW n, Whole(s, jobs, n), NEW job, job.op = "dead",
         job.idx \in Indexes, job.dead \in BOOLEAN
  PROVE  Whole(Run(s, job), jobs, n)
<1> DEFINE id == s.world.idByValue[job.idx]
           f == s.world.forms[id]
           u == [f EXCEPT !.dead = job.dead]
           forms == [s.world.forms EXCEPT ![id] = u]
           w == [s.world EXCEPT !.forms = forms]
           t == [s EXCEPT !.world = w]
<1>1. s \in GameStates /\ s.world \in ViewWorlds
  BY WholeTyped
<1>2. Run(s, job) = IF id = None \/ f = None THEN s ELSE [s EXCEPT !.world.forms[id].dead = job.dead]
  BY DEF Run
<1>3. CASE id = None \/ f = None
  BY <1>2, <1>3
<1>4. CASE ~(id = None \/ f = None)
  <2>1. id \in Ids /\ f \in Forms
    <3>1. id \in Ids
      BY <1>1, <1>4 DEF ViewWorlds
    <3> HIDE DEF id
    <3> QED BY <1>1, <1>4, <3>1 DEF ViewWorlds
  <2> HIDE DEF id
  <2>2. Run(s, job) = t
    BY <1>1, <1>2, <1>4, <2>1 DEF GameStates, ViewWorlds
  <2>3. u \in Forms /\ u.idx = f.idx /\ u.refr = f.refr
    BY <2>1 DEF Forms
  <2> HIDE DEF u
  <2>4. s.world.forms \in [Ids -> Forms \cup {None}]
    BY <1>1 DEF ViewWorlds
  <2>5. /\ forms \in [Ids -> Forms \cup {None}] /\ forms[id] = u
        /\ \A i \in Ids : i # id => forms[i] = s.world.forms[i]
    BY <2>1, <2>3, <2>4
  <2>6. \A i \in Ids : forms[i] # None =>
          /\ s.world.forms[i] # None /\ forms[i].idx = s.world.forms[i].idx
          /\ forms[i].refr = s.world.forms[i].refr
    BY <1>4, <2>3, <2>5
  <2> HIDE DEF forms, f
  <2>7. /\ w \in ViewWorlds /\ w.forms = forms /\ w.idByValue = s.world.idByValue
        /\ w.valueById = s.world.valueById /\ w.minimumUnusedId = s.world.minimumUnusedId
    BY <1>1, <2>5 DEF ViewWorlds
  <2> HIDE DEF w
  <2>8. t \in GameStates /\ t.world = w /\ t.view = s.view /\ t.queue = s.queue
    BY <1>1, <2>7 DEF GameStates
  <2> HIDE DEF t
  <2> QED BY <2>2, <2>6, <2>7, <2>8, SameFormsWhole
<1> QED BY <1>3, <1>4

LEMMA RespawnJob ==
  ASSUME NEW s, NEW jobs, NEW n, Whole(s, jobs, n), NEW job, job.op = "respawn"
  PROVE  Whole(Run(s, job), jobs, n)
<1> DEFINE r == LocalOf(s, job.refr)
           t == Deleted(s, r)
<1>1. s \in GameStates /\ s.view \in ViewStates
  BY WholeTyped
<1>2. Run(s, job) = IF r \in Refs THEN t ELSE s
  BY DEF Run
<1> HIDE DEF r
<1>3. CASE r \in Refs
  <2>1. /\ t \in GameStates /\ t.world = s.world /\ t.queue = s.queue /\ t.view \in ViewStates
        /\ t.view.of = s.view.of /\ t.view.owner = s.view.owner /\ t.view.spawned = s.view.spawned
        /\ t.view.protection = s.view.protection /\ t.view.refs = [s.view.refs EXCEPT ![r] = "none"]
    BY <1>1, <1>3, DeletedFields
  <2> HIDE DEF t
  <2>2. \A k \in Refs : t.view.refs[k] # "none" => s.view.refs[k] # "none"
    BY <1>1, <2>1 DEF ViewStates
  <2>3. ASSUME t.view.spawned <= MaxRefs PROVE Accounted(t.view, t.queue, jobs, n)
    <3>1. Accounted(s.view, s.queue, jobs, n)
      BY <2>1, <2>3 DEF Whole
    <3>2. \A k \in Refs : t.view.owner[k] # None => t.view.of[t.view.owner[k]] # None
      BY <2>1, <3>1 DEF Accounted
    <3> QED BY <1>1, <2>1, <2>2, <2>3, <3>1, <3>2, SameRefsAccounted
  <2>4. ViewsNamed(t) /\ IdsSound(t.world)
    BY <2>1 DEF Whole, ViewsNamed
  <2> QED BY <1>2, <1>3, <2>1, <2>3, <2>4 DEF Whole
<1> QED BY <1>2, <1>3

LEMMA JobDone ==
  ASSUME NEW s, NEW jobs \in Seq(Jobs), NEW n \in Nat, n < Len(jobs), Whole(s, jobs, n), player.cell \in Cells
  PROVE  Whole(Run(s, jobs[n + 1]), jobs, n + 1)
<1> DEFINE job == jobs[n + 1]
<1>1. job \in Jobs
  <2>1. n + 1 \in 1..Len(jobs)
    OBVIOUS
  <2> QED BY <2>1
<1>2. ASSUME job.op # "delete" PROVE Whole(s, jobs, n + 1)
  BY <1>2, OtherJob
<1> HIDE DEF job
<1>3. CASE job.op = "delete"
  <2>1. job.ref \in Refs
    BY <1>1, <1>3 DEF Jobs, Callback
  <2> QED BY <1>3, <2>1, DeleteJob DEF job
<1>4. CASE job.op = "dead"
  <2>1. job.idx \in Indexes /\ job.dead \in BOOLEAN
    BY <1>1, <1>4 DEF Jobs, Callback
  <2> QED BY <1>2, <1>4, <2>1, DeadJob DEF job
<1>5. CASE job.op = "respawn"
  BY <1>2, <1>5, RespawnJob DEF job
<1>6. CASE job.op = "destroyForm"
  <2>1. job.id \in Ids /\ Run(s, job) = DestroyForm(s, job.id)
    BY <1>1, <1>6 DEF Jobs, Callback, Run
  <2>2. Whole(s, jobs, n + 1)
    BY <1>2, <1>6
  <2>3. Whole(DestroyForm(s, job.id), jobs, n + 1)
    BY <2>1, <2>2, DestroyFormWhole
  <2> QED BY <2>1, <2>3 DEF job
<1>7. CASE job.op = "updateForm"
  <2>1. job.id \in Ids /\ Run(s, job) = UpdateForm(s, job.id)
    BY <1>1, <1>7 DEF Jobs, Callback, Run
  <2> QED BY <1>2, <1>7, <2>1, UpdateFormWhole DEF job
<1>8. CASE job.op = "skip"
  BY <1>2, <1>8 DEF Run, job
<1>9. job.op \in {"delete", "dead", "respawn", "destroyForm", "updateForm", "skip"}
  BY <1>1 DEF Jobs, Callback
<1> QED BY <1>3, <1>4, <1>5, <1>6, <1>7, <1>8, <1>9

-----------------------------------------------------------------------------
(* All jobs of an update.                                                   *)

\* The jobs of an update have states between them, each after the one before.
LEMMA StatesBetweenJobs ==
  ASSUME NEW s, NEW jobs \in Seq(Jobs)
  PROVE  \E f : /\ f[0] = s /\ f[Len(jobs)] = RunJobs(s, jobs)
                /\ \A n \in 1..Len(jobs) : f[n] = Run(f[n - 1], jobs[n])
<1> DEFINE Begins(f, n) == f = [i \in 0..n |-> IF i = 0 THEN s ELSE Run(f[i - 1], jobs[i])]
           Missing == {n \in 0..Len(jobs) : ~(\E f : Begins(f, n))}
<1>1. Len(jobs) \in Nat
  OBVIOUS
<1>2. Missing = {}
  <2>1. SUFFICES ASSUME Missing # {} PROVE FALSE
    OBVIOUS
  <2>2. Missing \in SUBSET Nat
    BY <1>1
  <2>3. PICK n \in Missing : \A k \in Missing : n <= k
    <3> HIDE DEF Missing
    <3> QED BY <2>1, <2>2, SmallestOfSet
  <2>4. n \in 0..Len(jobs) /\ ~(\E f : Begins(f, n))
    OBVIOUS
  <2>5. CASE n = 0
    <3> DEFINE f == [i \in 0..0 |-> s]
    <3>1. f = [i \in 0..0 |-> IF i = 0 THEN s ELSE Run(f[i - 1], jobs[i])]
      OBVIOUS
    <3> HIDE DEF f
    <3>2. Begins(f, 0)
      BY <3>1
    <3> HIDE DEF Begins
    <3> QED BY <2>4, <2>5, <3>2
  <2>6. CASE n # 0
    <3>1. n - 1 \in 0..Len(jobs) /\ n - 1 \notin Missing
      <4>1. n - 1 \in 0..Len(jobs) /\ ~(n <= n - 1)
        BY <1>1, <2>4, <2>6
      <4> HIDE DEF Missing
      <4> QED BY <2>3, <4>1
    <3>2. PICK f : Begins(f, n - 1)
      BY <3>1
    <3> DEFINE h == [i \in 0..n |-> IF i = n THEN Run(f[n - 1], jobs[n]) ELSE f[i]]
    <3>3. \A i \in 0..(n - 1) : f[i] = IF i = 0 THEN s ELSE Run(f[i - 1], jobs[i])
      BY <3>2
    <3>4. \A i \in 0..n : i # n => i \in 0..(n - 1)
      BY <1>1, <2>4
    <3>5. n \in Nat \ {0} /\ \A i \in 0..n : i # 0 => i - 1 \in 0..n /\ i - 1 # n
      BY <1>1, <2>4, <2>6
    <3>6. \A i \in 0..n : h[i] = IF i = n THEN Run(f[n - 1], jobs[n]) ELSE f[i]
      OBVIOUS
    <3> HIDE DEF h
    <3>7. ASSUME NEW i \in 0..n
          PROVE  h[i] = IF i = 0 THEN s ELSE Run(h[i - 1], jobs[i])
      <4>1. CASE i = 0
        BY <3>3, <3>4, <3>5, <3>6, <4>1
      <4>2. CASE i # 0
        <5>1. h[i - 1] = f[i - 1]
          BY <3>5, <3>6, <4>2
        <5>2. CASE i = n
          BY <3>5, <3>6, <5>1, <5>2
        <5>3. CASE i # n
          BY <3>3, <3>4, <3>6, <4>2, <5>1, <5>3
        <5> QED BY <5>2, <5>3
      <4> QED BY <4>1, <4>2
    <3>8. h = [i \in 0..n |-> h[i]]
      BY DEF h
    <3>9. h = [i \in 0..n |-> IF i = 0 THEN s ELSE Run(h[i - 1], jobs[i])]
      BY <3>7, <3>8, Zenon
    <3>10. Begins(h, n)
      BY <3>9
    <3> HIDE DEF Begins
    <3> QED BY <2>4, <3>10
  <2> QED BY <2>5, <2>6
<1>3. \E f : Begins(f, Len(jobs))
  <2>1. Len(jobs) \in 0..Len(jobs)
    BY <1>1
  <2> QED BY <1>2, <2>1
<1> DEFINE after == CHOOSE f : Begins(f, Len(jobs))
<1>4. Begins(after, Len(jobs))
  BY <1>3, Zenon
<1>5. RunJobs(s, jobs) = after[Len(jobs)]
  BY Zenon DEF RunJobs
<1> HIDE DEF after
<1>6. \A n \in 0..Len(jobs) : after[n] = IF n = 0 THEN s ELSE Run(after[n - 1], jobs[n])
  BY <1>4
<1>7. /\ after[0] = s
      /\ \A n \in 1..Len(jobs) : after[n] = Run(after[n - 1], jobs[n])
  BY <1>1, <1>6
<1> QED BY <1>5, <1>7

\* All jobs are done.
LEMMA JobsRun ==
  ASSUME NEW s, NEW jobs \in Seq(Jobs), Whole(s, jobs, 0), player.cell \in Cells
  PROVE  Whole(RunJobs(s, jobs), jobs, Len(jobs))
<1>1. PICK f : /\ f[0] = s /\ f[Len(jobs)] = RunJobs(s, jobs)
               /\ \A n \in 1..Len(jobs) : f[n] = Run(f[n - 1], jobs[n])
  BY StatesBetweenJobs
<1> DEFINE Wrong == {n \in 0..Len(jobs) : ~Whole(f[n], jobs, n)}
<1>2. Len(jobs) \in Nat /\ Wrong \in SUBSET Nat
  OBVIOUS
<1>3. Wrong = {}
  <2>1. SUFFICES ASSUME Wrong # {} PROVE FALSE
    OBVIOUS
  <2>2. PICK n \in Wrong : \A k \in Wrong : n <= k
    <3> HIDE DEF Wrong
    <3> QED BY <1>2, <2>1, SmallestOfSet
  <2>3. n \in 0..Len(jobs) /\ ~Whole(f[n], jobs, n)
    OBVIOUS
  <2>4. n # 0
    BY <1>1, <2>3
  <2>5. n \in 1..Len(jobs) /\ n - 1 \in 0..(Len(jobs) - 1) /\ (n - 1) + 1 = n /\ n - 1 \in 0..Len(jobs)
    BY <1>2, <2>3, <2>4
  <2>6. n - 1 \notin Wrong
    BY <2>2, <2>5
  <2>7. Whole(f[n - 1], jobs, n - 1)
    BY <2>5, <2>6
  <2>8. Whole(Run(f[n - 1], jobs[(n - 1) + 1]), jobs, (n - 1) + 1)
    BY <2>5, <2>7, JobDone
  <2> QED BY <1>1, <2>3, <2>5, <2>8
<1>4. Len(jobs) \in 0..Len(jobs)
  BY <1>2
<1> QED BY <1>1, <1>3, <1>4
\* The jobs do what the callbacks q do, behind the first m, and delete nothing else.
Includes(all, m, q) ==
  /\ \A k \in 1..Len(q) : k + m \in 1..Len(all) /\ all[k + m] = q[k]
  /\ \A k \in 1..Len(all) : all[k].op = "delete" => k - m \in 1..Len(q)

LEMMA IncludedLeaves ==
  ASSUME NEW all \in Seq(Jobs), NEW m \in Nat, NEW q \in Seq(Callback), Includes(all, m, q), NEW r
  PROVE  /\ Leaves(all, 0, r) <=> Leaves(q, 0, r)
         /\ LeavesOnce(q, 0, r) => LeavesOnce(all, 0, r)
<1>1. Len(all) \in Nat /\ Len(q) \in Nat /\ 0 + 1 = 1
  OBVIOUS
<1>2. \A k \in 1..Len(all) : Deletes(all[k], r) => k - m \in 1..Len(q) /\ Deletes(q[k - m], r)
  <2> SUFFICES ASSUME NEW k \in 1..Len(all), Deletes(all[k], r)
               PROVE  k - m \in 1..Len(q) /\ Deletes(q[k - m], r)
    OBVIOUS
  <2>1. k - m \in 1..Len(q)
    BY DEF Deletes, Includes
  <2>2. all[(k - m) + m] = q[k - m]
    BY <2>1 DEF Includes
  <2>3. (k - m) + m = k
    BY <1>1
  <2> QED BY <2>1, <2>2, <2>3
<1>3. \A k \in 1..Len(q) : Deletes(q[k], r) => k + m \in 1..Len(all) /\ Deletes(all[k + m], r)
  BY DEF Includes
<1>4. Leaves(all, 0, r) => Leaves(q, 0, r)
  BY <1>1, <1>2 DEF Leaves
<1>5. Leaves(q, 0, r) => Leaves(all, 0, r)
  BY <1>1, <1>3 DEF Leaves
<1>6. ASSUME LeavesOnce(q, 0, r), NEW k \in 1..Len(all), NEW l \in 1..Len(all), Deletes(all[k], r), Deletes(all[l], r)
      PROVE  k = l
  <2>1. k - m = l - m
    BY <1>1, <1>2, <1>6 DEF LeavesOnce
  <2> QED BY <1>1, <2>1
<1>7. LeavesOnce(q, 0, r) => LeavesOnce(all, 0, r)
  BY <1>1, <1>6 DEF LeavesOnce
<1> QED BY <1>4, <1>5, <1>7

\* The queue becomes the jobs of an update.
LEMMA UpdateBegins ==
  ASSUME NEW s, NEW all \in Seq(Jobs), NEW m \in Nat, Whole(s, <<>>, 0), Includes(all, m, s.queue)
  PROVE  Whole([s EXCEPT !.queue = <<>>], all, 0)
<1> DEFINE t == [s EXCEPT !.queue = <<>>]
<1>1. s \in GameStates /\ s.queue \in Seq(Callback)
  BY WholeTyped
<1>2. t \in GameStates /\ t.world = s.world /\ t.view = s.view /\ t.queue = <<>>
  <2>1. <<>> \in Seq(Callback)
    OBVIOUS
  <2> DEFINE e == <<>>
  <2>2. e \in Seq(Callback) /\ t = [s EXCEPT !.queue = e]
    BY <2>1
  <2> HIDE DEF e, t
  <2>3. t \in GameStates /\ t.world = s.world /\ t.view = s.view /\ t.queue = e
    BY <1>1, <2>2 DEF GameStates
  <2> QED BY <2>3 DEF e
<1> HIDE DEF t
<1>3. ViewsNamed(t) /\ IdsSound(t.world)
  BY <1>2 DEF Whole, ViewsNamed
<1>4. \A r : /\ ~Leaves(<<>>, 0, r) /\ LeavesOnce(<<>>, 0, r)
             /\ Leaves(all, 0, r) <=> Leaves(s.queue, 0, r)
             /\ LeavesOnce(s.queue, 0, r) => LeavesOnce(all, 0, r)
  BY <1>1, EmptyQueue, IncludedLeaves
<1>5. \A r : /\ InUse(s.view.of, <<>>, all, 0, r) <=> InUse(s.view.of, s.queue, <<>>, 0, r)
             /\ InOnePlace(s.view.of, s.queue, <<>>, 0, r) => InOnePlace(s.view.of, <<>>, all, 0, r)
  BY <1>4 DEF InUse, InOnePlace
<1>6. Accounted(s.view, s.queue, <<>>, 0) => Accounted(s.view, <<>>, all, 0)
  BY <1>5, Zenon DEF Accounted
<1>7. Whole(t, all, 0)
  BY <1>2, <1>3, <1>6 DEF Whole
<1> QED BY <1>7 DEF t

\* After the last job nothing waits but what the queue has.
LEMMA UpdateEnds ==
  ASSUME NEW s, NEW jobs \in Seq(Jobs), Whole(s, jobs, Len(jobs))
  PROVE  Whole(s, <<>>, 0)
<1>1. \A r : /\ ~Leaves(<<>>, 0, r) /\ LeavesOnce(<<>>, 0, r)
             /\ ~Leaves(jobs, Len(jobs), r)
  BY EmptyQueue, NoJobLeaves
<1>2. \A r : /\ InUse(s.view.of, s.queue, <<>>, 0, r) <=> InUse(s.view.of, s.queue, jobs, Len(jobs), r)
             /\ InOnePlace(s.view.of, s.queue, jobs, Len(jobs), r) => InOnePlace(s.view.of, s.queue, <<>>, 0, r)
  BY <1>1 DEF InUse, InOnePlace
<1> QED BY <1>2, Zenon DEF Accounted, Whole

LEMMA ForEachJobs ==
  ASSUME NEW ids, NEW op \in {"destroyForm", "updateForm"}
  PROVE  /\ ForEach(ids, op) \in Seq(Jobs) /\ Len(ForEach(ids, op)) = MaxIds
         /\ \A k \in 1..MaxIds : ForEach(ids, op)[k] = [op |-> IF k - 1 \in ids THEN op ELSE "skip", id |-> k - 1]
         /\ \A k \in 1..Len(ForEach(ids, op)) : ForEach(ids, op)[k].op # "delete"
<1> DEFINE job(k) == [op |-> IF k - 1 \in ids THEN op ELSE "skip", id |-> k - 1]
           p == [k \in 1..MaxIds |-> job(k)]
<1>1. MaxIds \in Nat /\ \A k \in 1..MaxIds : k - 1 \in Ids
  BY ViewConstants DEF Ids
<1>2. \A k \in 1..MaxIds : job(k) \in Jobs /\ job(k).op # "delete"
  BY <1>1 DEF Jobs
<1> HIDE DEF job
<1>3. p \in Seq(Jobs) /\ Len(p) = MaxIds /\ \A k \in 1..MaxIds : p[k] = job(k)
  BY <1>1, <1>2
<1>4. ForEach(ids, op) = p
  BY DEF ForEach, job
<1> HIDE DEF p
<1>5. \A k \in 1..Len(p) : p[k].op # "delete"
  BY <1>2, <1>3
<1> QED BY <1>3, <1>4, <1>5 DEF job

LEMMA ViewJobsTyped ==
  ViewJobs \in Seq(Jobs) /\ \A k \in 1..Len(ViewJobs) : ViewJobs[k].op # "delete"
<1> DEFINE p == IF player.known # player.cell THEN ForEach(Ids, "destroyForm") ELSE <<>>
           all == ForEach(Ids, "updateForm")
<1>1. /\ all \in Seq(Jobs) /\ \A k \in 1..Len(all) : all[k].op # "delete"
      /\ ForEach(Ids, "destroyForm") \in Seq(Jobs)
      /\ \A k \in 1..Len(ForEach(Ids, "destroyForm")) : ForEach(Ids, "destroyForm")[k].op # "delete"
  BY ForEachJobs
<1>2. p \in Seq(Jobs) /\ \A k \in 1..Len(p) : p[k].op # "delete"
  <2>1. CASE player.known # player.cell
    BY <1>1, <2>1
  <2>2. CASE ~(player.known # player.cell)
    <3>1. p = <<>>
      BY <2>2
    <3> HIDE DEF p
    <3> QED BY <3>1
  <2> QED BY <2>1, <2>2
<1>3. ViewJobs = p \o all
  BY DEF ViewJobs
<1> HIDE DEF p, all
<1>4. p \o all \in Seq(Jobs) /\ Len(p \o all) = Len(p) + Len(all) /\ Len(p) \in Nat /\ Len(all) \in Nat
  BY <1>1, <1>2
<1>5. ASSUME NEW k \in 1..Len(p \o all) PROVE (p \o all)[k].op # "delete"
  <2>1. CASE k <= Len(p)
    <3>1. (p \o all)[k] = p[k] /\ k \in 1..Len(p)
      BY <1>1, <1>2, <1>4, <2>1
    <3> QED BY <1>2, <3>1
  <2>2. CASE ~(k <= Len(p))
    <3>1. (p \o all)[k] = all[k - Len(p)] /\ k - Len(p) \in 1..Len(all)
      BY <1>1, <1>2, <1>4, <2>2
    <3> QED BY <1>1, <3>1
  <2> QED BY <2>1, <2>2
<1> QED BY <1>3, <1>4, <1>5

\* The views before the callbacks, or behind them.
LEMMA JobsInclude ==
  ASSUME NEW q \in Seq(Callback), NEW p \in Seq(Jobs), \A k \in 1..Len(p) : p[k].op # "delete"
  PROVE  /\ q \o p \in Seq(Jobs) /\ Includes(q \o p, 0, q)
         /\ p \o q \in Seq(Jobs) /\ Includes(p \o q, Len(p), q)
<1>1. q \in Seq(Jobs) /\ Len(q) \in Nat /\ Len(p) \in Nat
  <2>1. \A k \in 1..Len(q) : q[k] \in Jobs
    BY DEF Jobs
  <2>2. Len(q) \in Nat /\ Len(p) \in Nat /\ q = [k \in 1..Len(q) |-> q[k]]
    OBVIOUS
  <2> QED BY <2>1, <2>2
<1>2. q \o p \in Seq(Jobs) /\ p \o q \in Seq(Jobs)
  BY <1>1
<1>3. /\ Len(q \o p) = Len(q) + Len(p) /\ Len(p \o q) = Len(p) + Len(q)
      /\ \A k \in 1..(Len(q) + Len(p)) : (q \o p)[k] = IF k <= Len(q) THEN q[k] ELSE p[k - Len(q)]
      /\ \A k \in 1..(Len(p) + Len(q)) : (p \o q)[k] = IF k <= Len(p) THEN p[k] ELSE q[k - Len(p)]
  BY <1>1
<1> DEFINE a == q \o p
           b == p \o q
<1> HIDE DEF a, b
<1>4. Includes(a, 0, q)
  <2>1. ASSUME NEW k \in 1..Len(q) PROVE k + 0 \in 1..Len(a) /\ a[k + 0] = q[k]
    BY <1>1, <1>3 DEF a
  <2>2. ASSUME NEW k \in 1..Len(a), a[k].op = "delete" PROVE k - 0 \in 1..Len(q)
    <3>1. SUFFICES ASSUME ~(k <= Len(q)) PROVE FALSE
      BY <1>1, <1>3
    <3>2. a[k] = p[k - Len(q)] /\ k - Len(q) \in 1..Len(p)
      BY <1>1, <1>3, <3>1 DEF a
    <3> QED BY <2>2, <3>2
  <2> QED BY <2>1, <2>2 DEF Includes
<1>5. Includes(b, Len(p), q)
  <2>1. ASSUME NEW k \in 1..Len(q) PROVE k + Len(p) \in 1..Len(b) /\ b[k + Len(p)] = q[k]
    <3>1. k + Len(p) \in 1..(Len(p) + Len(q)) /\ ~(k + Len(p) <= Len(p)) /\ (k + Len(p)) - Len(p) = k
      BY <1>1
    <3> QED BY <1>3, <3>1 DEF b
  <2>2. ASSUME NEW k \in 1..Len(b), b[k].op = "delete" PROVE k - Len(p) \in 1..Len(q)
    <3>1. k \in 1..(Len(p) + Len(q))
      BY <1>3 DEF b
    <3>2. CASE k <= Len(p)
      <4>1. b[k] = p[k] /\ k \in 1..Len(p)
        BY <1>1, <1>3, <3>1, <3>2 DEF b
      <4> QED BY <2>2, <4>1
    <3>3. CASE ~(k <= Len(p))
      BY <1>1, <3>1, <3>3
    <3> QED BY <3>2, <3>3
  <2> QED BY <2>1, <2>2 DEF Includes
<1> QED BY <1>2, <1>4, <1>5 DEF a, b

-----------------------------------------------------------------------------
(* Steps of the client.                                                     *)

LEMMA UpdateGameKeeps ==
  ASSUME ViewStrong, UpdateGame
  PROVE  ViewStrong'
<1> DEFINE t0 == [Game EXCEPT !.queue = <<>>]
           all == queue \o ViewJobs
           d == ViewJobs \o queue
<1>1. Whole(Game, <<>>, 0) /\ Game.queue = queue /\ queue \in Seq(Callback) /\ player.cell \in Cells
  BY WholeTyped DEF ViewStrong, Game
<1>2. /\ all \in Seq(Jobs) /\ Includes(all, 0, queue)
      /\ d \in Seq(Jobs) /\ Includes(d, Len(ViewJobs), queue) /\ Len(ViewJobs) \in Nat
  BY <1>1, ViewJobsTyped, JobsInclude
<1> HIDE DEF all, d
<1>3. Whole(t0, all, 0) /\ Whole(t0, d, 0)
  BY <1>1, <1>2, UpdateBegins
<1> HIDE DEF t0
<1>4. Whole(RunJobs(t0, all), <<>>, 0) /\ Whole(RunJobs(t0, d), <<>>, 0)
  BY <1>1, <1>2, <1>3, JobsRun, UpdateEnds
<1>5. Becomes(RunJobs(t0, all)) \/ Becomes(RunJobs(t0, d))
  BY DEF UpdateGame, t0, all, d
<1>6. PICK t : Whole(t, <<>>, 0) /\ Becomes(t)
  BY <1>4, <1>5
<1>7. Game' = t
  BY <1>6, WholeTyped DEF Becomes, Game, GameStates
<1>8. player' \in [cell : Cells, known : Cells] /\ changes' = changes /\ view'.spawned <= MaxRefs
  BY DEF UpdateGame, ViewStrong
<1>9. (Whole(Game, <<>>, 0))'
  BY <1>6, <1>7 DEF Whole, IdsSound, ViewsNamed
<1> QED BY <1>8, <1>9 DEF ViewStrong
\* The parts of the state, and a step that is whole.
LEMMA ViewParts ==
  ASSUME ViewStrong
  PROVE  /\ Whole(Game, <<>>, 0) /\ Game \in GameStates /\ Game.world = world /\ Game.view = view /\ Game.queue = queue
         /\ world \in ViewWorlds /\ view \in ViewStates /\ queue \in Seq(Callback)
         /\ IdsSound(world) /\ ViewsNamed(Game) /\ Accounted(view, queue, <<>>, 0)
         /\ view.spawned \in Nat /\ view.spawned <= MaxRefs
         /\ player \in [cell : Cells, known : Cells] /\ changes \in 0..MaxChanges
<1>1. Whole(Game, <<>>, 0) /\ Game.world = world /\ Game.view = view /\ Game.queue = queue
  BY DEF ViewStrong, Game
<1>2. Game \in GameStates /\ IdsSound(world) /\ ViewsNamed(Game)
  BY <1>1 DEF Whole
<1>3. Accounted(view, queue, <<>>, 0)
  BY <1>1 DEF Whole, ViewStrong
<1> QED BY <1>1, <1>2, <1>3 DEF ViewStrong, GameStates, ViewStates

LEMMA StaysStrong ==
  ASSUME NEW t, Whole(t, <<>>, 0), t.view.spawned <= MaxRefs, Becomes(t),
         (player \in [cell : Cells, known : Cells])', (changes \in 0..MaxChanges)'
  PROVE  ViewStrong'
<1>1. Game' = t
  BY WholeTyped DEF Becomes, Game, GameStates
<1>2. (Whole(Game, <<>>, 0))'
  BY <1>1 DEF Whole, IdsSound, ViewsNamed
<1>3. (view.spawned <= MaxRefs)'
  BY DEF Becomes
<1> QED BY <1>2, <1>3 DEF ViewStrong

\* Only the world changes, and the forms keep what they stand for.
LEMMA WorldStays ==
  ASSUME ViewStrong, NEW w \in ViewWorlds, world' = w, UNCHANGED <<view, queue>>,
         IdsSound(w), ViewsNamed([Game EXCEPT !.world = w]),
         (player \in [cell : Cells, known : Cells])', (changes \in 0..MaxChanges)'
  PROVE  ViewStrong'
<1> DEFINE t == [Game EXCEPT !.world = w]
<1>1. t \in GameStates /\ t.world = w /\ t.view = view /\ t.queue = queue
  BY ViewParts DEF GameStates
<1> HIDE DEF t
<1>2. Whole(t, <<>>, 0)
  BY <1>1, ViewParts DEF Whole, t
<1>3. Becomes(t) /\ t.view.spawned <= MaxRefs
  BY <1>1, ViewParts DEF Becomes
<1> QED BY <1>2, <1>3, StaysStrong

\* Only the views change, and none takes, or loses, a reference.
LEMMA ViewStays ==
  ASSUME ViewStrong, NEW vx \in ViewStates, view' = vx, UNCHANGED <<world, queue>>,
         vx.spawned = view.spawned, vx.protection = view.protection,
         \A r \in Refs : vx.refs[r] # "none" => view.refs[r] # "none",
         vx.owner = view.owner,
         \A i \in Ids : /\ vx.of[i] = None <=> view.of[i] = None
                        /\ vx.of[i] # None => /\ vx.of[i].local = view.of[i].local
                                              /\ vx.of[i].remote = view.of[i].remote,
         (player \in [cell : Cells, known : Cells])', (changes \in 0..MaxChanges)'
  PROVE  ViewStrong'
<1> DEFINE t == [Game EXCEPT !.view = vx]
<1>1. t \in GameStates /\ t.world = world /\ t.view = vx /\ t.queue = queue
  BY ViewParts DEF GameStates
<1> HIDE DEF t
<1>2. ViewsNamed(t)
  BY <1>1, ViewParts DEF ViewsNamed
<1>3. \A i \in Ids, r \in Nat : HoldsRef(vx.of, i, r) <=> HoldsRef(view.of, i, r)
  BY DEF HoldsRef
<1>4. \A r \in Refs : vx.owner[r] # None => vx.of[vx.owner[r]] # None
  BY ViewParts DEF Accounted, ViewStates
<1>5. Accounted(vx, queue, <<>>, 0)
  BY <1>3, <1>4, ViewParts, SameRefsAccounted
<1>6. Whole(t, <<>>, 0)
  BY <1>1, <1>2, <1>5, ViewParts DEF Whole
<1>7. Becomes(t) /\ t.view.spawned <= MaxRefs
  BY <1>1, ViewParts DEF Becomes
<1> QED BY <1>6, <1>7, StaysStrong

LEMMA SpawnDoneKeeps ==
  ASSUME ViewStrong, NEW r \in Refs, SpawnDone(r)
  PROVE  ViewStrong'
<1> DEFINE i0 == view.owner[r]
           refs == [view.refs EXCEPT ![r] = "shown"]
           of == [i \in Ids |-> IF i = i0 THEN [view.of[i] EXCEPT !.ready = TRUE] ELSE view.of[i]]
           vx == [view EXCEPT !.refs = refs, !.of = of]
<1>1. view \in ViewStates /\ view.refs[r] = "spawning" /\ i0 \in Ids \cup {None}
      /\ (i0 # None => view.of[i0] # None)
  BY ViewParts DEF SpawnDone, ViewStates, Accounted
<1>2. refs \in [Refs -> {"none", "spawning", "shown"}] /\ \A k \in Refs : refs[k] # "none" => view.refs[k] # "none"
  BY <1>1 DEF ViewStates
<1>3. \A i \in Ids : of[i] = IF i = i0 THEN [view.of[i] EXCEPT !.ready = TRUE] ELSE view.of[i]
  OBVIOUS
<1> HIDE DEF i0
<1>4. ASSUME NEW i \in Ids
      PROVE  /\ of[i] \in LooseViews \cup {None} /\ (of[i] = None <=> view.of[i] = None)
             /\ of[i] # None => of[i].local = view.of[i].local /\ of[i].remote = view.of[i].remote
  <2> DEFINE v == view.of[i]
             u == [v EXCEPT !.ready = TRUE]
  <2>1. v \in LooseViews \cup {None}
    BY <1>1 DEF ViewStates
  <2>2. CASE i # i0
    BY <1>3, <2>1, <2>2
  <2>3. CASE i = i0
    <3>1. v # None
      BY <1>1, <2>3, ViewConstants
    <3>2. v \in LooseViews
      BY <2>1, <3>1
    <3>3. u \in LooseViews /\ u.local = v.local /\ u.remote = v.remote
      BY <3>2 DEF LooseViews
    <3>4. v.local \in Nat => v.local <= MaxRefs
      <4>1. SUFFICES ASSUME v.local \in Nat PROVE v.local <= MaxRefs
        OBVIOUS
      <4>2. HoldsRef(view.of, i, v.local)
        BY <3>1 DEF HoldsRef
      <4>3. v.local <= view.spawned
        BY <4>1, <4>2, ViewParts DEF Accounted, InUse, Held
      <4> QED BY <4>1, <4>3, ViewParts, ViewConstants
    <3> HIDE DEF u, v
    <3>5. u # None
      BY <3>3, <3>4, NoViewIsNone
    <3>6. of[i] = u
      BY <1>3, <2>3 DEF u, v
    <3> HIDE DEF of
    <3> QED BY <3>1, <3>3, <3>5, <3>6 DEF v
  <2> QED BY <2>2, <2>3
<1>5. of \in [Ids -> LooseViews \cup {None}]
  BY <1>4
<1>6. view' = vx
  BY <1>1 DEF SpawnDone, i0, ViewStates
<1> HIDE DEF of, refs
<1>7. /\ vx \in ViewStates /\ vx.of = of /\ vx.refs = refs /\ vx.owner = view.owner
      /\ vx.spawned = view.spawned /\ vx.protection = view.protection
  BY <1>1, <1>2, <1>5 DEF ViewStates
<1> HIDE DEF vx
<1>8. (player \in [cell : Cells, known : Cells])' /\ (changes \in 0..MaxChanges)' /\ UNCHANGED <<world, queue>>
  BY ViewParts DEF SpawnDone
<1> QED BY <1>2, <1>4, <1>6, <1>7, <1>8, ViewStays

LEMMA RespawnNeededKeeps ==
  ASSUME ViewStrong, NEW i \in Ids, RespawnNeeded(i)
  PROVE  ViewStrong'
<1> DEFINE cell == world.forms[i].cell
           t == Vanish(Game, i, cell)
<1>1. cell \in Cells
  <2>1. world.forms[i] \in Forms
    BY ViewParts DEF RespawnNeeded, ViewWorlds
  <2> QED BY <2>1 DEF Forms
<1>2. Game.view.of[i] # None
  BY ViewParts DEF RespawnNeeded
<1>3. Becomes(t)
  BY DEF RespawnNeeded
<1> HIDE DEF cell
<1>4. Whole(t, <<>>, 0) /\ t.view.spawned = view.spawned
  BY <1>1, <1>2, ViewParts, VanishWhole
<1> HIDE DEF t
<1>5. (player \in [cell : Cells, known : Cells])' /\ (changes \in 0..MaxChanges)'
  BY ViewParts, ViewConstants DEF RespawnNeeded
<1> QED BY <1>3, <1>4, <1>5, ViewParts, StaysStrong

LEMMA GameLoadsKeeps ==
  ASSUME ViewStrong, GameLoads
  PROVE  ViewStrong'
<1> DEFINE refs == [r \in Refs |-> "none"]
           vx == [view EXCEPT !.refs = refs]
<1>1. refs \in [Refs -> {"none", "spawning", "shown"}] /\ \A k \in Refs : refs[k] = "none"
  OBVIOUS
<1>2. view' = vx /\ view \in ViewStates
  BY ViewParts DEF GameLoads
<1> HIDE DEF refs
<1>3. /\ vx \in ViewStates /\ vx.of = view.of /\ vx.refs = refs /\ vx.owner = view.owner
      /\ vx.spawned = view.spawned /\ vx.protection = view.protection
  BY <1>1, <1>2 DEF ViewStates
<1> HIDE DEF vx
<1>4. (player \in [cell : Cells, known : Cells])' /\ (changes \in 0..MaxChanges)' /\ UNCHANGED <<world, queue>>
  BY ViewParts, ViewConstants DEF GameLoads, Change
<1> QED BY <1>1, <1>2, <1>3, <1>4, ViewStays

LEMMA PlayerMovesKeeps ==
  ASSUME ViewStrong, NEW cell \in Cells, PlayerMoves(cell)
  PROVE  ViewStrong'
<1>1. (player \in [cell : Cells, known : Cells])' /\ (changes \in 0..MaxChanges)'
  BY ViewParts, ViewConstants DEF PlayerMoves, Change
<1>2. Becomes(Game)
  BY ViewParts DEF Becomes, PlayerMoves
<1> QED BY <1>1, <1>2, ViewParts, StaysStrong

LEMMA ConnectionResetKeeps ==
  ASSUME ViewStrong, ConnectionReset
  PROVE  ViewStrong'
<1> DEFINE forms == [i \in Ids |-> None]
           w == [world EXCEPT !.forms = forms, !.me = None]
<1>1. world' = w /\ world \in ViewWorlds /\ forms \in [Ids -> Forms \cup {None}] /\ \A i \in Ids : forms[i] = None
  BY ViewParts DEF ConnectionReset, NoForms
<1> HIDE DEF forms
<1>2. /\ w \in ViewWorlds /\ w.forms = forms /\ w.idByValue = world.idByValue
      /\ w.valueById = world.valueById /\ w.minimumUnusedId = world.minimumUnusedId
  BY <1>1 DEF ViewWorlds
<1> HIDE DEF w
<1>3. IdsSound(w)
  BY <1>1, <1>2, ViewParts DEF IdsSound
<1>4. ViewsNamed([Game EXCEPT !.world = w])
  BY <1>1, <1>2, ViewParts DEF ViewsNamed, GameStates
<1>5. (player \in [cell : Cells, known : Cells])' /\ (changes \in 0..MaxChanges)' /\ UNCHANGED <<view, queue>>
  BY ViewParts, ViewConstants DEF ConnectionReset, Change
<1> QED BY <1>1, <1>2, <1>3, <1>4, <1>5, WorldStays

\* The form of an index is where its id leads.
LEMMA FormOfIndex ==
  ASSUME ViewStrong, NEW idx \in Indexes, FormOf(idx) # None
  PROVE  /\ world.idByValue[idx] \in Ids /\ world.forms[world.idByValue[idx]] \in Forms
         /\ FormOf(idx) = world.forms[world.idByValue[idx]]
<1>1. world.idByValue[idx] \in Ids /\ FormOf(idx) = world.forms[world.idByValue[idx]]
  BY ViewParts DEF FormOf, ViewWorlds
<1> QED BY <1>1, ViewParts DEF ViewWorlds

\* A form that is changed in what the views do not name it by.
LEMMA FormChanges ==
  ASSUME ViewStrong, NEW id \in Ids, world.forms[id] # None, NEW u \in Forms,
         u.idx = world.forms[id].idx, u.refr = world.forms[id].refr,
         world' = [world EXCEPT !.forms[id] = u], UNCHANGED <<view, queue>>,
         (player \in [cell : Cells, known : Cells])', (changes \in 0..MaxChanges)'
  PROVE  ViewStrong'
<1> DEFINE forms == [world.forms EXCEPT ![id] = u]
           w == [world EXCEPT !.forms = forms]
<1>1. world' = w /\ world \in ViewWorlds /\ world.forms \in [Ids -> Forms \cup {None}]
  BY ViewParts DEF ViewWorlds
<1>2. /\ forms \in [Ids -> Forms \cup {None}] /\ forms[id] = u
      /\ \A i \in Ids : i # id => forms[i] = world.forms[i]
  BY <1>1
<1> HIDE DEF forms
<1>3. /\ w \in ViewWorlds /\ w.forms = forms /\ w.idByValue = world.idByValue
      /\ w.valueById = world.valueById /\ w.minimumUnusedId = world.minimumUnusedId
  BY <1>1, <1>2 DEF ViewWorlds
<1> HIDE DEF w
<1>4. \A i \in Ids : forms[i] # None =>
        world.forms[i] # None /\ forms[i].idx = world.forms[i].idx /\ forms[i].refr = world.forms[i].refr
  BY <1>2
<1>5. IdsSound(w)
  BY <1>3, <1>4, ViewParts DEF IdsSound
<1>6. ViewsNamed([Game EXCEPT !.world = w])
  BY <1>3, <1>4, ViewParts DEF ViewsNamed, GameStates
<1> QED BY <1>1, <1>3, <1>5, <1>6, WorldStays

LEMMA UpdateMovementKeeps ==
  ASSUME ViewStrong, NEW idx \in Indexes, NEW cell \in Cells, UpdateMovement(idx, cell)
  PROVE  ViewStrong'
<1> DEFINE id == world.idByValue[idx]
           f == world.forms[id]
           u == [f EXCEPT !.cell = cell]
<1>1. id \in Ids /\ f \in Forms
  BY FormOfIndex DEF UpdateMovement
<1>2. u \in Forms /\ u.idx = f.idx /\ u.refr = f.refr
  BY <1>1 DEF Forms
<1>3. world' = [world EXCEPT !.forms[id] = u]
  BY <1>1, ViewParts DEF UpdateMovement, ViewWorlds
<1>4. (player \in [cell : Cells, known : Cells])' /\ (changes \in 0..MaxChanges)' /\ UNCHANGED <<view, queue>>
  BY ViewParts, ViewConstants DEF UpdateMovement, Change
<1>5. f # None
  BY <1>1, ViewConstants
<1> HIDE DEF u, id
<1> QED BY <1>1, <1>2, <1>3, <1>4, <1>5, FormChanges

LEMMA UpdateAppearanceKeeps ==
  ASSUME ViewStrong, NEW idx \in Indexes, UpdateAppearance(idx)
  PROVE  ViewStrong'
<1> DEFINE id == world.idByValue[idx]
           f == world.forms[id]
           u == [f EXCEPT !.look = 1 - f.look]
<1>1. id \in Ids /\ f \in Forms
  BY FormOfIndex DEF UpdateAppearance
<1>2. u \in Forms /\ u.idx = f.idx /\ u.refr = f.refr
  <2>1. 1 - f.look \in {0, 1}
    BY <1>1 DEF Forms
  <2> QED BY <1>1, <2>1 DEF Forms
<1>3. world' = [world EXCEPT !.forms[id] = u]
  BY <1>1, ViewParts DEF UpdateAppearance, ViewWorlds
<1>4. (player \in [cell : Cells, known : Cells])' /\ (changes \in 0..MaxChanges)' /\ UNCHANGED <<view, queue>>
  BY ViewParts, ViewConstants DEF UpdateAppearance, Change
<1>5. f # None
  BY <1>1, ViewConstants
<1> HIDE DEF u, id
<1> QED BY <1>1, <1>2, <1>3, <1>4, <1>5, FormChanges

\* What is added to the queue deletes nothing.
LEMMA QueuedStays ==
  ASSUME ViewStrong, NEW q \in Seq(Callback), queue' = q, UNCHANGED <<world, view>>,
         \A r : /\ Leaves(q, 0, r) <=> Leaves(queue, 0, r)
                /\ LeavesOnce(queue, 0, r) => LeavesOnce(q, 0, r),
         (player \in [cell : Cells, known : Cells])', (changes \in 0..MaxChanges)'
  PROVE  ViewStrong'
<1> DEFINE t == [Game EXCEPT !.queue = q]
<1>1. t \in GameStates /\ t.world = world /\ t.view = view /\ t.queue = q
  BY ViewParts DEF GameStates
<1> HIDE DEF t
<1>2. \A r : /\ InUse(view.of, q, <<>>, 0, r) <=> InUse(view.of, queue, <<>>, 0, r)
             /\ InOnePlace(view.of, queue, <<>>, 0, r) => InOnePlace(view.of, q, <<>>, 0, r)
  BY DEF InUse, InOnePlace
<1>3. Accounted(view, queue, <<>>, 0)
  BY ViewParts
<1>4. Accounted(view, q, <<>>, 0)
  BY <1>2, <1>3, Zenon DEF Accounted
<1>5. IdsSound(t.world) /\ ViewsNamed(t)
  BY <1>1, ViewParts DEF ViewsNamed
<1>6. Whole(t, <<>>, 0)
  BY <1>1, <1>4, <1>5 DEF Whole
<1>7. Becomes(t) /\ t.view.spawned <= MaxRefs
  BY <1>1, ViewParts DEF Becomes
<1> QED BY <1>6, <1>7, StaysStrong

LEMMA DeathStateKeeps ==
  ASSUME ViewStrong, NEW idx \in Indexes, NEW dead \in BOOLEAN, DeathState(idx, dead)
  PROVE  ViewStrong'
<1> DEFINE form == FormOf(idx)
           job == [op |-> "dead", idx |-> idx, dead |-> dead]
           again == [op |-> "respawn", refr |-> form.refr]
           q == Append(queue, job)
<1>1. form \in Forms /\ form.refr \in Actors
  BY FormOfIndex DEF DeathState
<1>2. job \in Callback /\ again \in Callback /\ \A r : ~Deletes(job, r) /\ ~Deletes(again, r)
  BY <1>1 DEF Callback, Deletes
<1>3. queue' = q \/ queue' = Append(q, again)
  <2> HIDE DEF job, form
  <2>1. queue \in Seq(Callback) /\ q \in Seq(Callback)
    BY <1>2, ViewParts
  <2>2. queue' = q \o (IF ~dead /\ world.me # world.idByValue[idx] THEN <<again>> ELSE <<>>)
    BY DEF DeathState, job, form
  <2> HIDE DEF q, again
  <2>3. q \o <<>> = q /\ q \o <<again>> = Append(q, again)
    BY <1>2, <2>1
  <2> QED BY <2>2, <2>3
<1> HIDE DEF job, again, form
<1>4. /\ q \in Seq(Callback)
      /\ \A r : /\ Leaves(q, 0, r) <=> Leaves(queue, 0, r)
                /\ LeavesOnce(queue, 0, r) => LeavesOnce(q, 0, r)
  BY <1>2, ViewParts, AppendLeaves
<1> HIDE DEF q
<1>5. /\ Append(q, again) \in Seq(Callback)
      /\ \A r : /\ Leaves(Append(q, again), 0, r) <=> Leaves(queue, 0, r)
                /\ LeavesOnce(queue, 0, r) => LeavesOnce(Append(q, again), 0, r)
  BY <1>2, <1>4, AppendLeaves
<1>6. (player \in [cell : Cells, known : Cells])' /\ (changes \in 0..MaxChanges)' /\ UNCHANGED <<world, view>>
  BY ViewParts, ViewConstants DEF DeathState, Change
<1> QED BY <1>3, <1>4, <1>5, <1>6, QueuedStays

LEMMA NextUnusedIs ==
  ASSUME NEW values \in [Ids -> Indexes \cup {None}], NEW id \in Ids
  PROVE  /\ NextUnused(values, id) \in (id + 1)..MaxIds
         /\ NextUnused(values, id) < MaxIds => values[NextUnused(values, id)] = None
<1> DEFINE S == {i \in (id + 1)..MaxIds : i = MaxIds \/ values[i] = None}
<1>1. MaxIds \in Nat /\ id \in Nat /\ id < MaxIds
  BY ViewConstants DEF Ids
<1>2. S \in SUBSET Nat /\ MaxIds \in S
  BY <1>1
<1>3. NextUnused(values, id) = CHOOSE x \in S : \A y \in S : x <= y
  BY DEF NextUnused, Min
<1>4. \E x \in S : \A y \in S : x <= y
  <2> HIDE DEF S
  <2> QED BY <1>2, SmallestOfSet
<1>5. NextUnused(values, id) \in S
  <2> HIDE DEF S
  <2> QED BY <1>3, <1>4, Zenon
<1>6. \A i \in S : i \in (id + 1)..MaxIds /\ (i < MaxIds => values[i] = None)
  BY <1>1
<1> HIDE DEF S
<1> QED BY <1>5, <1>6

LEMMA CreateActorKeeps ==
  ASSUME ViewStrong, NEW idx \in Indexes, NEW refr \in Actors \cup Doors, NEW cell \in Cells,
         NEW dead \in BOOLEAN, NEW isMe \in BOOLEAN, CreateActor(idx, refr, cell, dead, isMe)
  PROVE  ViewStrong'
<1> DEFINE id == world.minimumUnusedId
           f == [idx |-> idx, refr |-> refr, cell |-> cell, dead |-> dead, look |-> 0]
           forms == [world.forms EXCEPT ![id] = f]
           me == IF isMe THEN id ELSE world.me
           idByValue == [world.idByValue EXCEPT ![idx] = id]
           valueById == [world.valueById EXCEPT ![id] = idx]
           next == NextUnused(valueById, id)
           allocated == AllocateIdFor(world, idx)
           w == [allocated EXCEPT !.forms = forms, !.me = me]
<1>1. /\ world \in ViewWorlds /\ world.forms \in [Ids -> Forms \cup {None}] /\ world.me \in Ids \cup {None}
      /\ world.idByValue \in [Indexes -> Ids \cup {None}] /\ world.valueById \in [Ids -> Indexes \cup {None}]
  BY ViewParts DEF ViewWorlds
<1>2. id \in Ids /\ id < MaxIds
  BY <1>1, ViewConstants DEF CreateActor, ViewWorlds, Ids
<1>4. f \in Forms /\ f.idx = idx /\ f.refr = refr
  BY DEF Forms
<1>5. valueById \in [Ids -> Indexes \cup {None}] /\ valueById[id] = idx
      /\ \A i \in Ids : i # id => valueById[i] = world.valueById[i]
  BY <1>1, <1>2
<1>6. next \in (id + 1)..MaxIds /\ (next < MaxIds => valueById[next] = None)
  <2> HIDE DEF valueById, id
  <2> QED BY <1>2, <1>5, NextUnusedIs
<1>7. world.valueById[id] = None /\ world.forms[id] = None /\ view.of[id] = None
  <2>1. world.valueById[id] = None
    BY <1>2, ViewParts DEF IdsSound
  <2>2. world.forms[id] # None => world.forms[id].idx \in Indexes /\ world.valueById[id] = world.forms[id].idx
    BY <1>1, <1>2, ViewParts DEF IdsSound, Forms
  <2>3. view.of[id] # None => world.valueById[id] # None
    BY <1>2, ViewParts DEF ViewsNamed
  <2> QED BY <2>1, <2>2, <2>3, ViewConstants
<1> HIDE DEF next, valueById
<1>8. idByValue \in [Indexes -> Ids \cup {None}] /\ idByValue[idx] = id
      /\ \A x \in Indexes : x # idx => idByValue[x] = world.idByValue[x]
  BY <1>1, <1>2
<1> HIDE DEF f
<1>9. forms \in [Ids -> Forms \cup {None}] /\ forms[id] = f
      /\ \A i \in Ids : i # id => forms[i] = world.forms[i]
  BY <1>1, <1>2, <1>4
<1>10. me \in Ids \cup {None}
  BY <1>1, <1>2
<1>11. next \in 0..MaxIds
  <2>1. id \in Nat /\ MaxIds \in Nat
    BY <1>2, ViewConstants
  <2> HIDE DEF id
  <2> QED BY <1>6, <2>1
<1> HIDE DEF idByValue, forms, me
<1>3. allocated = [world EXCEPT !.idByValue = idByValue, !.valueById = valueById, !.minimumUnusedId = next]
  <2> DEFINE values == [world.valueById EXCEPT ![world.minimumUnusedId] = idx]
             after == NextUnused(values, world.minimumUnusedId)
  <2>1. allocated =
          [world EXCEPT !.idByValue[idx] = world.minimumUnusedId, !.valueById = values, !.minimumUnusedId = after]
    BY DEF AllocateIdFor
  <2>2. next = after /\ valueById = values /\ idByValue = [world.idByValue EXCEPT ![idx] = world.minimumUnusedId]
    BY DEF next, valueById, idByValue
  <2> HIDE DEF values, after, allocated
  <2> QED BY <1>1, <2>1, <2>2 DEF ViewWorlds
<1>12. /\ w \in ViewWorlds /\ w.forms = forms /\ w.idByValue = idByValue /\ w.valueById = valueById
       /\ w.minimumUnusedId = next /\ world' = w
  <2> HIDE DEF allocated
  <2>1. /\ allocated \in ViewWorlds /\ allocated.forms = world.forms /\ allocated.me = world.me
        /\ allocated.idByValue = idByValue /\ allocated.valueById = valueById /\ allocated.minimumUnusedId = next
    BY <1>1, <1>3, <1>5, <1>8, <1>11 DEF ViewWorlds
  <2>2. world' = [allocated EXCEPT !.forms[id] = f, !.me = IF isMe THEN id ELSE @]
    BY DEF CreateActor, allocated, f
  <2>3. forms = [allocated.forms EXCEPT ![id] = f] /\ me = IF isMe THEN id ELSE allocated.me
    BY <2>1 DEF forms, me
  <2> HIDE DEF id
  <2>4. world' = w
    BY <2>1, <2>2, <2>3 DEF ViewWorlds
  <2> QED BY <1>9, <1>10, <2>1, <2>4 DEF ViewWorlds
<1> HIDE DEF w, id
<1>13. ASSUME NEW i \in Ids, forms[i] # None
       PROVE  idByValue[forms[i].idx] = i /\ valueById[i] = forms[i].idx
  <2>1. CASE i = id
    BY <1>4, <1>5, <1>8, <1>9, <2>1
  <2>2. CASE i # id
    <3>1. world.forms[i] \in Forms /\ forms[i] = world.forms[i]
      BY <1>1, <1>9, <1>13, <2>2
    <3>2. world.idByValue[forms[i].idx] = i /\ world.valueById[i] = forms[i].idx /\ forms[i].idx \in Indexes
      BY <1>13, <3>1, ViewParts DEF IdsSound, Forms
    <3>3. forms[i].idx # idx
      BY <1>13, <3>1, <3>2, ViewConstants DEF CreateActor, FormOf
    <3> QED BY <1>5, <1>8, <2>2, <3>2, <3>3
  <2> QED BY <2>1, <2>2
<1>14. ASSUME NEW x \in Indexes, idByValue[x] # None
       PROVE  valueById[idByValue[x]] = x
  <2>1. CASE x = idx
    BY <1>5, <1>8, <2>1
  <2>2. CASE x # idx
    <3>1. idByValue[x] = world.idByValue[x] /\ world.idByValue[x] \in Ids
      BY <1>1, <1>8, <1>14, <2>2
    <3>2. world.valueById[world.idByValue[x]] = x
      BY <1>14, <3>1, ViewParts DEF IdsSound
    <3>3. world.idByValue[x] # id
      BY <1>7, <3>2, ViewConstants
    <3> QED BY <1>5, <3>1, <3>2, <3>3
  <2> QED BY <2>1, <2>2
<1>15. IdsSound(w)
  BY <1>6, <1>12, <1>13, <1>14 DEF IdsSound
<1>16. ViewsNamed([Game EXCEPT !.world = w])
  <2>1. ASSUME NEW i \in Ids, view.of[i] # None
        PROVE  valueById[i] # None /\ (forms[i] # None => view.of[i].remote = forms[i].refr)
    <3>1. i # id
      BY <1>7, <2>1
    <3>2. valueById[i] = world.valueById[i] /\ forms[i] = world.forms[i]
      BY <1>5, <1>9, <3>1
    <3> QED BY <2>1, <3>2, ViewParts DEF ViewsNamed
  <2> QED BY <1>12, <2>1, ViewParts DEF ViewsNamed, GameStates
<1>17. (player \in [cell : Cells, known : Cells])' /\ (changes \in 0..MaxChanges)' /\ UNCHANGED <<view, queue>>
  BY ViewParts, ViewConstants DEF CreateActor, Change
<1> QED BY <1>12, <1>15, <1>16, <1>17, WorldStays
\* A loop that destroys forms, of which the first n are done, since s.
FormsGone(t, s, ids, n) ==
  /\ t.world = s.world /\ t.view.spawned = s.view.spawned
  /\ \A i \in Ids : t.view.of[i] # None => t.view.of[i] = s.view.of[i]
  /\ \A i \in Ids : i < n /\ i \in ids => t.view.of[i] = None

LEMMA LoopDestroys ==
  ASSUME NEW s, Whole(s, <<>>, 0), NEW ids, player.cell \in Cells,
         NEW jobs \in Seq(Jobs), jobs = ForEach(ids, "destroyForm")
  PROVE  Whole(RunJobs(s, jobs), <<>>, 0) /\ FormsGone(RunJobs(s, jobs), s, ids, MaxIds)
<1>1. /\ Len(jobs) = MaxIds
      /\ \A k \in 1..MaxIds : jobs[k] = [op |-> IF k - 1 \in ids THEN "destroyForm" ELSE "skip", id |-> k - 1]
      /\ \A k \in 1..Len(jobs) : jobs[k].op # "delete"
  BY ForEachJobs
<1>3. \A r : ~Leaves(jobs, 0, r) /\ LeavesOnce(jobs, 0, r) /\ ~Leaves(<<>>, 0, r)
  <2>1. \A r : \A k \in 1..Len(jobs) : ~Deletes(jobs[k], r)
    BY <1>1 DEF Deletes
  <2>2. (0 + 1)..Len(jobs) = 1..Len(jobs)
    OBVIOUS
  <2>3. \A r : ~Leaves(jobs, 0, r) /\ LeavesOnce(jobs, 0, r)
    BY <2>1, <2>2, Zenon DEF Leaves, LeavesOnce
  <2> QED BY <2>3, EmptyQueue
<1>4. Whole(s, jobs, 0)
  <2>1. \A r : /\ InUse(s.view.of, s.queue, jobs, 0, r) <=> InUse(s.view.of, s.queue, <<>>, 0, r)
               /\ InOnePlace(s.view.of, s.queue, <<>>, 0, r) => InOnePlace(s.view.of, s.queue, jobs, 0, r)
    BY <1>3 DEF InUse, InOnePlace
  <2> QED BY <2>1, Zenon DEF Accounted, Whole
<1>5. Whole(RunJobs(s, jobs), <<>>, 0)
  BY <1>1, <1>4, JobsRun, UpdateEnds
<1>6. PICK f : /\ f[0] = s /\ f[Len(jobs)] = RunJobs(s, jobs)
               /\ \A n \in 1..Len(jobs) : f[n] = Run(f[n - 1], jobs[n])
  BY StatesBetweenJobs
<1> DEFINE Right(n) == Whole(f[n], jobs, n) /\ FormsGone(f[n], s, ids, n)
           Wrong == {n \in 0..MaxIds : ~Right(n)}
<1>7. MaxIds \in Nat /\ Wrong \in SUBSET Nat
  BY ViewConstants
<1>8. Wrong = {}
  <2>1. SUFFICES ASSUME Wrong # {} PROVE FALSE
    OBVIOUS
  <2>2. PICK n \in Wrong : \A k \in Wrong : n <= k
    <3> HIDE DEF Wrong
    <3> QED BY <1>7, <2>1, SmallestOfSet
  <2>3. n \in 0..MaxIds /\ ~Right(n)
    OBVIOUS
  <2>4. n # 0
    <3>1. FormsGone(s, s, ids, 0)
      BY ViewConstants DEF FormsGone
    <3> QED BY <1>4, <1>6, <2>3, <3>1
  <2> DEFINE p == n - 1
             a == f[p]
             b == f[n]
  <2>5. n \in 1..MaxIds /\ p \in 0..MaxIds /\ p \in Nat /\ p + 1 = n /\ p < MaxIds /\ p \in Ids /\ ~(n <= p)
    BY <1>7, <2>3, <2>4 DEF Ids
  <2>6. Whole(a, jobs, p) /\ FormsGone(a, s, ids, p)
    BY <2>2, <2>5
  <2>7. b = Run(a, jobs[p + 1]) /\ jobs[p + 1] = [op |-> IF p \in ids THEN "destroyForm" ELSE "skip", id |-> p]
    BY <1>1, <1>6, <2>5
  <2>8. \A i \in Ids : i < n <=> i < p \/ i = p
    BY <1>7, <2>5, ViewConstants
  <2> HIDE DEF a, b, p
  <2>9. Whole(b, jobs, n)
    <3>1. Whole(Run(a, jobs[p + 1]), jobs, p + 1)
      BY <1>1, <2>5, <2>6, JobDone
    <3> QED BY <2>5, <2>7, <3>1
  <2>10. FormsGone(b, s, ids, n)
    <3>1. CASE p \in ids
      <4> DEFINE job == jobs[p + 1]
      <4>0. job.op = "destroyForm" /\ job.id = p /\ b = Run(a, job)
        BY <2>7, <3>1
      <4> HIDE DEF job
      <4>1. b = DestroyForm(a, p)
        BY <4>0 DEF Run
      <4>2. b.world = a.world /\ b.view.spawned = a.view.spawned /\ b.view.of = [a.view.of EXCEPT ![p] = None]
        BY <2>5, <2>6, <4>1, DestroyFormWhole
      <4>3. a.view.of \in [Ids -> LooseViews \cup {None}]
        BY <2>6, WholeTyped
      <4>4. b.view.of[p] = None /\ \A i \in Ids : i # p => b.view.of[i] = a.view.of[i]
        BY <2>5, <4>2, <4>3
      <4> QED BY <2>6, <2>8, <4>2, <4>4 DEF FormsGone
    <3>2. CASE p \notin ids
      <4> DEFINE job == jobs[p + 1]
      <4>0. job.op = "skip" /\ b = Run(a, job)
        BY <2>7, <3>2
      <4> HIDE DEF job
      <4>1. b = a
        BY <4>0 DEF Run
      <4> QED BY <2>6, <2>8, <3>2, <4>1 DEF FormsGone
    <3> QED BY <3>1, <3>2
  <2> QED BY <2>3, <2>9, <2>10 DEF b
<1>9. MaxIds \in 0..MaxIds
  BY <1>7
<1>10. FormsGone(f[MaxIds], s, ids, MaxIds)
  BY <1>8, <1>9
<1> QED BY <1>1, <1>5, <1>6, <1>10

LEMMA DestroyFormsWhole ==
  ASSUME NEW s, Whole(s, <<>>, 0), NEW ids, player.cell \in Cells
  PROVE  Whole(DestroyForms(s, ids), <<>>, 0) /\ FormsGone(DestroyForms(s, ids), s, ids, MaxIds)
<1>1. ForEach(ids, "destroyForm") \in Seq(Jobs)
  BY ForEachJobs
<1> QED BY <1>1, LoopDestroys DEF DestroyForms

LEMMA DestroyActorKeeps ==
  ASSUME ViewStrong, NEW idx \in Indexes, DestroyActor(idx)
  PROVE  ViewStrong'
<1> DEFINE id == world.idByValue[idx]
           forms == [world.forms EXCEPT ![id] = None]
           me == IF world.me = id THEN None ELSE world.me
           w == [world EXCEPT !.forms[id] = None, !.me = IF @ = id THEN None ELSE @]
           ids == {i \in Ids : (w.forms[i] = None \/ i = world.me) /\ \E j \in Ids : j >= i /\ world.forms[j] # None}
           d == DestroyForms(Game, ids)
           idByValue == [world.idByValue EXCEPT ![idx] = None]
           valueById == [world.valueById EXCEPT ![id] = None]
           next == IF id < world.minimumUnusedId THEN id ELSE world.minimumUnusedId
           w2 == FreeIdFor(w, idx)
           t == [d EXCEPT !.world = w2]
<1>1. /\ world \in ViewWorlds /\ world.forms \in [Ids -> Forms \cup {None}] /\ world.me \in Ids \cup {None}
      /\ world.idByValue \in [Indexes -> Ids \cup {None}] /\ world.valueById \in [Ids -> Indexes \cup {None}]
      /\ world.minimumUnusedId \in 0..MaxIds
  BY ViewParts DEF ViewWorlds
<1>2. id \in Ids /\ world.forms[id] \in Forms
  BY FormOfIndex DEF DestroyActor
<1>3. Becomes(t)
  BY DEF DestroyActor
<1>4. w = [world EXCEPT !.forms = forms, !.me = me]
  BY <1>1 DEF ViewWorlds
<1>5. /\ forms \in [Ids -> Forms \cup {None}] /\ forms[id] = None
      /\ \A i \in Ids : i # id => forms[i] = world.forms[i]
  BY <1>1, <1>2
<1>6. me \in Ids \cup {None}
  BY <1>1
<1> HIDE DEF w, forms, me
<1>7. /\ w \in ViewWorlds /\ w.forms = forms /\ w.idByValue = world.idByValue /\ w.valueById = world.valueById
      /\ w.minimumUnusedId = world.minimumUnusedId
  BY <1>1, <1>4, <1>5, <1>6 DEF ViewWorlds
<1>8. w2 = [w EXCEPT !.minimumUnusedId = next, !.idByValue = idByValue, !.valueById = valueById]
  <2>1. w.idByValue[idx] = id /\ id # None
    BY <1>2, <1>7, ViewConstants
  <2>2. w2 = [w EXCEPT !.minimumUnusedId = IF id < @ THEN id ELSE @, !.idByValue[idx] = None, !.valueById[id] = None]
    BY <2>1 DEF FreeIdFor
  <2> HIDE DEF w2, id
  <2> QED BY <1>7, <2>2 DEF ViewWorlds
<1>9. /\ idByValue \in [Indexes -> Ids \cup {None}] /\ idByValue[idx] = None
      /\ \A x \in Indexes : x # idx => idByValue[x] = world.idByValue[x]
  BY <1>1
<1>10. /\ valueById \in [Ids -> Indexes \cup {None}] /\ valueById[id] = None
       /\ \A i \in Ids : i # id => valueById[i] = world.valueById[i]
  BY <1>1, <1>2
<1>11. next \in 0..MaxIds /\ (next < MaxIds => valueById[next] = None)
  <2>1. MaxIds \in Nat /\ id \in 0..(MaxIds - 1)
    BY <1>2, ViewConstants DEF Ids
  <2>2. world.minimumUnusedId < MaxIds =>
          world.minimumUnusedId \in Ids /\ world.valueById[world.minimumUnusedId] = None
    BY <1>1, <2>1, ViewParts DEF Ids, IdsSound
  <2> HIDE DEF id, valueById
  <2> QED BY <1>1, <1>10, <2>1, <2>2
<1> HIDE DEF w2, idByValue, valueById, next
<1>12. /\ w2 \in ViewWorlds /\ w2.forms = forms /\ w2.idByValue = idByValue /\ w2.valueById = valueById
       /\ w2.minimumUnusedId = next
  BY <1>5, <1>7, <1>8, <1>9, <1>10, <1>11 DEF ViewWorlds
<1>13. world.valueById[id] = idx
  BY <1>2, ViewParts, ViewConstants DEF IdsSound
<1>14. ASSUME NEW i \in Ids, forms[i] # None
       PROVE  idByValue[forms[i].idx] = i /\ valueById[i] = forms[i].idx
  <2>1. i # id /\ forms[i] = world.forms[i]
    BY <1>5, <1>14
  <2>2. world.forms[i] \in Forms
    BY <1>1, <1>14, <2>1
  <2>3. world.idByValue[forms[i].idx] = i /\ world.valueById[i] = forms[i].idx /\ forms[i].idx \in Indexes
    BY <1>14, <2>1, <2>2, ViewParts DEF IdsSound, Forms
  <2>4. forms[i].idx # idx
    BY <2>1, <2>3
  <2> QED BY <1>9, <1>10, <2>1, <2>3, <2>4
<1>15. ASSUME NEW x \in Indexes, idByValue[x] # None
       PROVE  valueById[idByValue[x]] = x
  <2>1. x # idx /\ idByValue[x] = world.idByValue[x] /\ world.idByValue[x] \in Ids
    BY <1>1, <1>9, <1>15
  <2>2. world.valueById[world.idByValue[x]] = x
    BY <1>15, <2>1, ViewParts DEF IdsSound
  <2> QED BY <1>10, <1>13, <2>1, <2>2
<1>16. IdsSound(w2)
  BY <1>11, <1>12, <1>14, <1>15 DEF IdsSound
<1>17. id \in ids /\ id < MaxIds
  <2>1. id \in Nat /\ id >= id /\ id < MaxIds
    BY <1>2, ViewConstants DEF Ids
  <2>2. world.forms[id] # None
    BY <1>2, ViewConstants
  <2> HIDE DEF id
  <2> QED BY <1>2, <1>5, <1>7, <2>1, <2>2
<1> HIDE DEF ids
<1>18. Whole(d, <<>>, 0) /\ FormsGone(d, Game, ids, MaxIds)
  BY ViewParts, DestroyFormsWhole
<1> HIDE DEF d
<1>19. t \in GameStates /\ t.world = w2 /\ t.view = d.view /\ t.queue = d.queue
  BY <1>12, <1>18, WholeTyped DEF GameStates
<1> HIDE DEF t, id
<1>20. ViewsNamed(t)
  <2> SUFFICES ASSUME NEW i \in Ids, d.view.of[i] # None
               PROVE  valueById[i] # None /\ (forms[i] # None => d.view.of[i].remote = forms[i].refr)
    BY <1>12, <1>19 DEF ViewsNamed
  <2>1. i # id
    BY <1>17, <1>18 DEF FormsGone
  <2>2. d.view.of[i] = view.of[i]
    BY <1>18, ViewParts DEF FormsGone
  <2>3. valueById[i] = world.valueById[i] /\ forms[i] = world.forms[i]
    BY <1>5, <1>10, <2>1
  <2> QED BY <2>2, <2>3, ViewParts DEF ViewsNamed
<1>21. d.view.spawned <= MaxRefs /\ Accounted(d.view, d.queue, <<>>, 0)
  BY <1>18, ViewParts DEF FormsGone, Whole
<1>22. Whole(t, <<>>, 0) /\ t.view.spawned <= MaxRefs
  BY <1>16, <1>19, <1>20, <1>21 DEF Whole
<1>23. (player \in [cell : Cells, known : Cells])' /\ (changes \in 0..MaxChanges)'
  BY ViewParts DEF DestroyActor
<1> QED BY <1>3, <1>22, <1>23, StaysStrong

-----------------------------------------------------------------------------
(* The invariants.                                                          *)

LEMMA ViewInitStrong ==
  ASSUME ViewInit
  PROVE  ViewStrong
<1>1. /\ MaxIds \in Nat /\ MaxRefs \in Nat /\ MaxChanges \in Nat /\ None \notin Ids
  BY ViewConstants
<1>2. world \in ViewWorlds
  BY <1>1 DEF ViewInit, ViewWorlds
<1>3. view \in ViewStates /\ view.spawned = 0
  BY <1>1 DEF ViewInit, ViewStates
<1>4. queue \in Seq(Callback) /\ queue = <<>> /\ changes \in 0..MaxChanges
      /\ player \in [cell : Cells, known : Cells]
  BY <1>1 DEF ViewInit
<1>5. Game \in GameStates /\ Game.world = world /\ Game.view = view /\ Game.queue = queue
  BY <1>2, <1>3, <1>4 DEF Game, GameStates
<1>6. /\ \A i \in Ids : world.forms[i] = None /\ world.valueById[i] = None /\ view.of[i] = None
      /\ \A x \in Indexes : world.idByValue[x] = None
      /\ \A r \in Refs : view.owner[r] = None
      /\ world.minimumUnusedId = 0
  BY DEF ViewInit
<1>7. 0 < MaxIds => 0 \in Ids
  BY <1>1 DEF Ids
<1>8. IdsSound(world)
  BY <1>6, <1>7 DEF IdsSound
<1>9. ViewsNamed(Game)
  BY <1>5, <1>6 DEF ViewsNamed
<1>10. \A r : ~InUse(view.of, queue, <<>>, 0, r)
  BY <1>4, <1>6, EmptyQueue DEF InUse, Held, HoldsRef
<1>11. 1..view.spawned = {}
  BY <1>3
<1>12. Accounted(view, queue, <<>>, 0)
  BY <1>6, <1>10, <1>11 DEF Accounted
<1>13. 0 <= MaxRefs
  BY <1>1
<1> QED BY <1>3, <1>4, <1>5, <1>8, <1>9, <1>12, <1>13 DEF ViewStrong, Whole

LEMMA ViewNextStrong ==
  ASSUME ViewStrong, [ViewNext]_viewVars
  PROVE  ViewStrong'
<1>1. CASE UNCHANGED viewVars
  <2>1. Becomes(Game)
    BY <1>1, ViewParts DEF Becomes, viewVars
  <2>2. (player \in [cell : Cells, known : Cells])' /\ (changes \in 0..MaxChanges)'
    BY <1>1, ViewParts DEF viewVars
  <2> QED BY <2>1, <2>2, ViewParts, StaysStrong
<1>2. CASE ServerMessages
  BY <1>2, ConnectionResetKeeps, CreateActorKeeps, DestroyActorKeeps, UpdateAppearanceKeeps,
     UpdateMovementKeeps, DeathStateKeeps DEF ServerMessages
<1>3. CASE UpdateGame
  BY <1>3, UpdateGameKeeps
<1>4. CASE \E r \in Refs : SpawnDone(r)
  BY <1>4, SpawnDoneKeeps
<1>5. CASE \E i \in Ids : RespawnNeeded(i)
  BY <1>5, RespawnNeededKeeps
<1>6. CASE \E cell \in Cells : PlayerMoves(cell)
  BY <1>6, PlayerMovesKeeps
<1>7. CASE GameLoads
  BY <1>7, GameLoadsKeeps
<1> QED BY <1>1, <1>2, <1>3, <1>4, <1>5, <1>6, <1>7 DEF ViewNext

LEMMA ViewAlwaysStrong ==
  ViewSpec => []ViewStrong
<1>1. ViewInit => ViewStrong
  BY ViewInitStrong
<1>2. ViewStrong /\ [ViewNext]_viewVars => ViewStrong'
  BY ViewNextStrong
<1> QED BY <1>1, <1>2, PTL DEF ViewSpec

\* A view holds only what was spawned.
LEMMA HeldIsSpawned ==
  ASSUME ViewStrong, NEW i \in Ids, view.of[i] # None
  PROVE  view.of[i] \in Views
<1> DEFINE v == view.of[i]
<1>1. v \in LooseViews
  BY ViewParts DEF ViewStates
<1>2. v.local \in Nat => v.local <= MaxRefs
  <2>1. SUFFICES ASSUME v.local \in Nat PROVE v.local <= MaxRefs
    OBVIOUS
  <2>2. HoldsRef(view.of, i, v.local)
    BY DEF HoldsRef
  <2>3. v.local <= view.spawned
    BY <2>1, <2>2, ViewParts DEF Accounted, InUse, Held
  <2> QED BY <2>1, <2>3, ViewParts, ViewConstants
<1> HIDE DEF v
<1>3. v.local \in Refs \cup Doors \cup {None}
  BY <1>1, <1>2, ViewConstants DEF LooseViews, Refs
<1> QED BY <1>1, <1>3 DEF LooseViews, Views, v

\* idManager.ts, remoteServer.ts: whatever a client is told, its ids, forms and views have
\* their types, and every form is found by the index that messages name it by.
THEOREM ViewInvHolds ==
  ViewSpec => []ViewInv
<1>1. ViewStrong => ViewInv
  <2> SUFFICES ASSUME ViewStrong PROVE ViewInv
    OBVIOUS
  <2>1. view.of \in [Ids -> Views \cup {None}]
    <3>1. view.of \in [Ids -> LooseViews \cup {None}]
      BY ViewParts DEF ViewStates
    <3> QED BY <3>1, HeldIsSpawned
  <2>2. view.spawned \in 0..MaxRefs
    BY ViewParts, ViewConstants
  <2>3. ViewTypeOK
    BY <2>1, <2>2, ViewParts DEF ViewTypeOK, ViewWorlds, ViewStates
  <2>4. world.minimumUnusedId < MaxIds => world.forms[world.minimumUnusedId] = None
    <3> DEFINE id == world.minimumUnusedId
    <3>1. SUFFICES ASSUME id < MaxIds, world.forms[id] # None PROVE FALSE
      OBVIOUS
    <3>2. id \in Ids
      BY <3>1, ViewParts, ViewConstants DEF ViewWorlds, Ids
    <3>3. world.forms[id] \in Forms
      BY <3>1, <3>2, ViewParts DEF ViewWorlds
    <3>4. world.valueById[id] = world.forms[id].idx /\ world.forms[id].idx \in Indexes /\ world.valueById[id] = None
      BY <3>1, <3>2, <3>3, ViewParts DEF IdsSound, Forms
    <3> QED BY <3>4, ViewConstants
  <2>5. FormsReachable
    BY <2>4, ViewParts DEF FormsReachable, IdsSound
  <2> QED BY <2>3, <2>5 DEF ViewInv
<1> QED BY <1>1, ViewAlwaysStrong, PTL

\* formViewArray.ts: a view never shows one form under the name of another, because an id is
\* given back only together with the view that has it.
THEOREM ViewsMatchFormsHolds ==
  ViewSpec => []ViewsMatchForms
<1>1. ViewStrong => ViewsMatchForms
  BY ViewParts DEF ViewsMatchForms, ViewsNamed
<1> QED BY <1>1, ViewAlwaysStrong, PTL

\* formView.ts: a reference that a view spawned is held by one view, or deleted once, on the
\* next update, and the world cleaner keeps its hands off until then.
THEOREM NoOrphansHolds ==
  ViewSpec => []NoOrphans
<1>1. ASSUME ViewStrong PROVE NoOrphans
  <2> SUFFICES ASSUME NEW r \in 1..view.spawned
               PROVE  LET held == Cardinality({i \in Ids : view.of[i] # None /\ view.of[i].local = r})
                          leaving == Cardinality({k \in 1..Len(queue) : queue[k].op = "delete" /\ queue[k].ref = r})
                      IN /\ held + leaving = view.protection[r]
                         /\ view.protection[r] \in {0, 1}
                         /\ view.refs[r] # "none" => view.protection[r] = 1
    BY DEF NoOrphans
  <2> DEFINE H == {i \in Ids : view.of[i] # None /\ view.of[i].local = r}
             L == {k \in 1..Len(queue) : queue[k].op = "delete" /\ queue[k].ref = r}
  <2>1. /\ InOnePlace(view.of, queue, <<>>, 0, r)
        /\ view.protection[r] = IF InUse(view.of, queue, <<>>, 0, r) THEN 1 ELSE 0
        /\ view.refs[r] # "none" => view.protection[r] = 1
    BY <1>1, ViewParts DEF Accounted
  <2>2. Held(view.of, r) <=> H # {}
    BY DEF Held, HoldsRef
  <2>3. Leaves(queue, 0, r) <=> L # {}
    BY DEF Leaves, Deletes
  <2>4. ~Leaves(<<>>, 0, r)
    BY EmptyQueue
  <2>5. \A i, j \in H : i = j
    BY <2>1 DEF InOnePlace, HeldOnce, HoldsRef
  <2>6. \A k, m \in L : k = m
    BY <2>1 DEF InOnePlace, LeavesOnce, Deletes
  <2> HIDE DEF H, L
  <2>7. Cardinality(H) = IF H = {} THEN 0 ELSE 1
    <3>1. H = {} => Cardinality(H) = 0
      BY FS_EmptySet
    <3>2. ASSUME H # {} PROVE Cardinality(H) = 1
      <4>0. PICK i \in H : TRUE
        BY <3>2
      <4>1. H = {i}
        BY <2>5, <4>0
      <4> QED BY <4>1, FS_Singleton
    <3> QED BY <3>1, <3>2
  <2>8. Cardinality(L) = IF L = {} THEN 0 ELSE 1
    <3>1. L = {} => Cardinality(L) = 0
      BY FS_EmptySet
    <3>2. ASSUME L # {} PROVE Cardinality(L) = 1
      <4>0. PICK k \in L : TRUE
        BY <3>2
      <4>1. L = {k}
        BY <2>6, <4>0
      <4> QED BY <4>1, FS_Singleton
    <3> QED BY <3>1, <3>2
  <2>9. /\ Cardinality(H) + Cardinality(L) = view.protection[r]
        /\ view.protection[r] \in {0, 1}
    BY <2>1, <2>2, <2>3, <2>4, <2>7, <2>8 DEF InUse, InOnePlace
  <2> QED BY <2>1, <2>9 DEF H, L
<1>2. ViewStrong => NoOrphans
  BY <1>1
<1> QED BY <1>2, ViewAlwaysStrong, PTL
=============================================================================
