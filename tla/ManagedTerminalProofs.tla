------------------------ MODULE ManagedTerminalProofs ------------------------
(***************************************************************************)
(* Proofs about the terminal manager: its types, that every companion      *)
(* process is the one session its host resolves to, that a process is      *)
(* stopped only when its user asked for it, and that QML is shown the      *)
(* state of each session; for any number of hosts, sessions and calls.     *)
(***************************************************************************)
EXTENDS ManagedTerminal, TLAPS

-----------------------------------------------------------------------------
(* Types *)

\* What a call of the user may change: all but the manager's timers
CallTypes ==
    /\ created \in 0..MaxSessions
    /\ session \in [Sessions -> Dtos]
    /\ sessionsById \subseteq 1..created
    /\ deviceSession \in [Hosts -> Sessions \cup {NoSession}]
    /\ lastStates \in [Hosts -> {"closed", "starting", "open", "error"}]
    /\ link \in [Sessions -> {"none", "open", "claimed", "cut"}]
    /\ registered \subseteq Sessions
    /\ pending \subseteq [id : Nat, session : Sessions, command : {"focus", "close"}]
    /\ inbox \in [Sessions -> Seq(Messages)]
    /\ commands \in [Sessions -> Seq(Commands)]
    /\ os \in [Sessions -> {"none", "alive", "clean", "failed", "crashed", "gone"}]
    /\ signalled \subseteq Sessions
    /\ companion \in [Sessions -> {"boot", "up", "exiting"}]
    /\ refused \subseteq Hosts

LEMMA NobodyType == Nobody \in Dtos
  BY HostAssumption DEF Nobody, Dtos

\* The updates of a DTO keep its type.
LEMMA DtoTypes ==
  ASSUME NEW d \in Dtos,
         NEW p \in {"starting", "running", "stopped", "error"},
         NEW w \in {"starting", "open", "closing", "closed", "error"}
  PROVE  /\ [d EXCEPT !.restartRequested = TRUE] \in Dtos
         /\ [d EXCEPT !.closeRequested = TRUE] \in Dtos
         /\ [d EXCEPT !.process = p] \in Dtos
         /\ [d EXCEPT !.process = p, !.window = w] \in Dtos
         /\ [d EXCEPT !.closeRequested = TRUE, !.process = p] \in Dtos
  BY DEF Dtos

LEMMA UiStateType ==
  ASSUME NEW d \in Dtos
  PROVE  UiState(d) \in {"closed", "starting", "open", "error"}
  BY DEF UiState, Dtos

LEMMA TypeInit == Init => TerminalTypeOK
  <1>. SUFFICES ASSUME Init PROVE TerminalTypeOK
    OBVIOUS
  <1>1. inbox \in [Sessions -> Seq(Messages)] /\ commands \in [Sessions -> Seq(Commands)]
    BY DEF Init
  <1>2. session \in [Sessions -> Dtos]
    BY NobodyType DEF Init
  <1>3. shuttingDown \in BOOLEAN
    BY Zenon DEF Init
  <1>4. created \in 0..MaxSessions /\ calls \in 0..MaxCalls
    BY SessionAssumption, CallBoundAssumption DEF Init
  <1>. QED
    BY <1>1, <1>2, <1>3, <1>4 DEF Init, TerminalTypeOK

LEMMA CallTypesHold == TerminalTypeOK => CallTypes
  BY DEF TerminalTypeOK, CallTypes

\* A session a host resolves to is a session that was created.
LEMMA SessionOfDevice ==
  ASSUME TerminalTypeOK, NEW h \in Hosts, SessionForDevice(h) # NoSession
  PROVE  /\ SessionForDevice(h) = deviceSession[h]
         /\ SessionForDevice(h) \in sessionsById
         /\ SessionForDevice(h) \in Sessions
         /\ SessionForDevice(h) <= created
  BY SessionAssumption DEF SessionForDevice, TerminalTypeOK, Sessions

\* Sending a command keeps the types.
LEMMA SendTypes ==
  ASSUME TerminalTypeOK, NEW s \in Sessions, NEW c \in {"focus", "close"}, Send(s, c)
  PROVE  /\ pending' \subseteq [id : Nat, session : Sessions, command : {"focus", "close"}]
         /\ commands' \in [Sessions -> Seq(Commands)]
         /\ link' = link /\ registered' = registered /\ inbox' = inbox
  <1>1. calls + 1 \in Nat
    BY CallBoundAssumption DEF TerminalTypeOK
  <1>2. [id |-> calls + 1, command |-> c] \in Commands
    BY <1>1 DEF Commands
  <1>3. Append(commands[s], [id |-> calls + 1, command |-> c]) \in Seq(Commands)
    BY <1>2 DEF TerminalTypeOK
  <1>4. commands' \in [Sessions -> Seq(Commands)]
    BY <1>3 DEF TerminalTypeOK, Send
  <1>. QED
    BY <1>1, <1>4 DEF TerminalTypeOK, Send

\* Opening keeps the types, whatever calls it.
LEMMA OpenTypes ==
  ASSUME TerminalTypeOK, NEW h \in Hosts, Open(h)
  PROVE  CallTypes'
  <1>. DEFINE s == SessionForDevice(h)
  <1>1. CASE UNCHANGED <<registry, session, lastStates, ipc, peer, refused>>
    BY <1>1 DEF TerminalTypeOK, CallTypes, registry, ipc, peer
  <1>2. CASE s # NoSession /\ Focus(s)
    <2>1. s \in Sessions
      BY <1>2, SessionOfDevice
    <2>2. CASE Send(s, "focus")
      BY <2>1, <2>2, <1>2, SendTypes DEF TerminalTypeOK, CallTypes, Focus, registry, peer
    <2>3. CASE UNCHANGED ipc
      BY <2>3, <1>2 DEF TerminalTypeOK, CallTypes, Focus, registry, peer, ipc
    <2>. QED
      BY <2>2, <2>3, <1>2 DEF Focus
  <1>3. CASE s # NoSession /\ StopForRestart(s)
    <2>1. s \in Sessions
      BY <1>3, SessionOfDevice
    <2>2. [session[s] EXCEPT !.restartRequested = TRUE] \in Dtos
      <3>1. session[s] \in Dtos
        BY <2>1 DEF TerminalTypeOK
      <3>. QED
        BY <3>1, DtoTypes
    <2>3. session' \in [Sessions -> Dtos]
      BY <2>1, <2>2, <1>3 DEF TerminalTypeOK, StopForRestart
    <2>. QED
      BY <2>1, <2>3, <1>3
      DEF TerminalTypeOK, CallTypes, StopForRestart, Signal, registry, ipc
  <1>4. CASE Launch(h)
    <2>. DEFINE n == created + 1
                d == [Nobody EXCEPT !.host = h, !.process = "starting",
                                    !.window = "starting"]
    <2>1. n \in Sessions /\ n \in 0..MaxSessions
      BY <1>4, SessionAssumption DEF Launch, TerminalTypeOK, Sessions
    <2>2. d \in Dtos /\ d.host = h
      BY HostAssumption DEF Nobody, Dtos
    <2>3. session' \in [Sessions -> Dtos] /\ lastStates' \in [Hosts -> {"closed", "starting", "open", "error"}]
      <3>1. session' = [session EXCEPT ![n] = d] /\ lastStates' = [lastStates EXCEPT ![d.host] = "starting"]
        BY <1>4 DEF Launch, Update
      <3>. QED
        BY <3>1, <2>1, <2>2 DEF TerminalTypeOK
    <2>4. sessionsById' \subseteq 1..created'
      BY <1>4, SessionAssumption DEF Launch, TerminalTypeOK
    <2>. QED
      BY <1>4, <2>1, <2>3, <2>4 DEF TerminalTypeOK, CallTypes, Launch
  <1>5. CASE OpenFails(h)
    BY <1>5 DEF TerminalTypeOK, CallTypes, OpenFails, registry, ipc, peer
  <1>. QED
    BY <1>1, <1>2, <1>3, <1>4, <1>5 DEF Open

\* A new DTO and a state to show keep their types.
LEMMA UpdateTypes ==
  ASSUME TerminalTypeOK, NEW s \in Sessions, NEW d \in Dtos,
         NEW x \in {"closed", "starting", "open", "error"}, Update(s, d, x)
  PROVE  /\ session' \in [Sessions -> Dtos]
         /\ lastStates' \in [Hosts -> {"closed", "starting", "open", "error"}]
  <1>1. d.host \in Hosts
    BY DEF Dtos
  <1>. QED
    BY <1>1 DEF Update, TerminalTypeOK

\* Forgetting sessions and unregistering one keep the types.
LEMMA ForgetTypes ==
  ASSUME TerminalTypeOK, NEW S, Forget(S)
  PROVE  /\ sessionsById' \subseteq 1..created
         /\ deviceSession' \in [Hosts -> Sessions \cup {NoSession}]
  BY DEF TerminalTypeOK, Forget

LEMMA UnregisterTypes ==
  ASSUME TerminalTypeOK, NEW s \in Sessions, Unregister(s)
  PROVE  /\ link' \in [Sessions -> {"none", "open", "claimed", "cut"}]
         /\ registered' \subseteq Sessions
         /\ pending' \subseteq [id : Nat, session : Sessions, command : {"focus", "close"}]
         /\ inbox' \in [Sessions -> Seq(Messages)]
         /\ commands' \in [Sessions -> Seq(Commands)]
  <1>1. link' \in [Sessions -> {"none", "open", "claimed", "cut"}]
    BY DEF TerminalTypeOK, Unregister
  <1>2. inbox' \in [Sessions -> Seq(Messages)]
    <2>1. (IF link[s] = "claimed" THEN <<>> ELSE inbox[s]) \in Seq(Messages)
      BY DEF TerminalTypeOK
    <2>. QED
      BY <2>1 DEF TerminalTypeOK, Unregister
  <1>. QED
    BY <1>1, <1>2 DEF TerminalTypeOK, Unregister

LEMMA CloseTypes ==
  ASSUME TerminalTypeOK, NEW s \in Sessions, NEW restart \in BOOLEAN,
         CloseSession(s, restart)
  PROVE  CallTypes' /\ fallbacks' \subseteq Sessions
  <1>. DEFINE d == [session[s] EXCEPT !.closeRequested = TRUE, !.window = "closing",
                                      !.restartRequested = @ \/ restart]
  <1>1. d \in Dtos
    <2>1. session[s] \in Dtos
      BY DEF TerminalTypeOK
    <2>2. (session[s].restartRequested \/ restart) \in BOOLEAN
      BY Zenon
    <2>. QED
      BY <2>1, <2>2 DEF Dtos
  <1>2. session' \in [Sessions -> Dtos]
        /\ lastStates' \in [Hosts -> {"closed", "starting", "open", "error"}]
    <2>1. Update(s, d, "closed")
      BY DEF CloseSession
    <2>. QED
      BY <2>1, <1>1, UpdateTypes
  <1>3. CASE Send(s, "close") /\ fallbacks' = fallbacks \cup {s} /\ UNCHANGED signalled
    BY <1>2, <1>3, SendTypes DEF TerminalTypeOK, CallTypes, CloseSession, registry
  <1>4. CASE Signal(s) /\ UNCHANGED <<ipc, fallbacks>>
    BY <1>2, <1>4 DEF TerminalTypeOK, CallTypes, CloseSession, Signal, registry, ipc
  <1>. QED
    BY <1>3, <1>4 DEF CloseSession

\* What a call leaves alone, and the count of calls
LEMMA CallRest ==
  ASSUME TerminalTypeOK, Call
  PROVE  /\ calls' \in 0..MaxCalls
         /\ shuttingDown' = shuttingDown /\ reopen' = reopen
  BY CallBoundAssumption DEF TerminalTypeOK, Call

LEMMA TypeParts ==
  ASSUME CallTypes', shuttingDown' \in BOOLEAN, reopen' \in [Hosts -> Nat],
         fallbacks' \subseteq Sessions, calls' \in 0..MaxCalls
  PROVE  TerminalTypeOK'
  BY Zenon DEF CallTypes, TerminalTypeOK

LEMMA UserTypes ==
  ASSUME TerminalTypeOK, NEW h \in Hosts,
         UserOpens(h) \/ UserCloses(h) \/ UserRestarts(h) \/ UserFocuses(h)
  PROVE  TerminalTypeOK'
  <1>. DEFINE s == SessionForDevice(h)
  <1>1. Call
    BY DEF UserOpens, UserCloses, UserRestarts, UserFocuses
  <1>2. /\ shuttingDown' \in BOOLEAN /\ reopen' \in [Hosts -> Nat]
        /\ calls' \in 0..MaxCalls
    <2>1. shuttingDown \in BOOLEAN /\ reopen \in [Hosts -> Nat]
      BY Zenon DEF TerminalTypeOK
    <2>2. shuttingDown' = shuttingDown /\ reopen' = reopen /\ calls' \in 0..MaxCalls
      BY <1>1, CallRest
    <2>. QED
      BY <2>1, <2>2, Zenon
  <1>3. fallbacks \subseteq Sessions
    BY DEF TerminalTypeOK
  <1>4. CASE Open(h) /\ UNCHANGED fallbacks
    BY <1>2, <1>3, <1>4, OpenTypes, TypeParts
  <1>5. CASE s # NoSession /\ (CloseSession(s, FALSE) \/ CloseSession(s, TRUE))
    <2>1. s \in Sessions
      BY <1>5, SessionOfDevice
    <2>2. CallTypes' /\ fallbacks' \subseteq Sessions
      BY <2>1, <1>5, CloseTypes
    <2>. QED
      BY <1>2, <2>2, TypeParts
  <1>6. CASE /\ lastStates' = [lastStates EXCEPT ![h] = "closed"]
             /\ UNCHANGED <<registry, session, ipc, fallbacks, peer, refused>>
    <2>1. CallTypes'
      BY <1>6 DEF TerminalTypeOK, CallTypes, registry, ipc, peer
    <2>. QED
      BY <1>2, <1>3, <1>6, <2>1, TypeParts
  <1>7. CASE /\ s # NoSession /\ UNCHANGED fallbacks
             /\ \/ Focus(s)
                \/ /\ Send(s, "focus")
                   /\ UNCHANGED <<registry, session, lastStates, peer, refused>>
    <2>1. s \in Sessions
      BY <1>7, SessionOfDevice
    <2>2. UNCHANGED <<registry, session, lastStates, peer, refused>>
      BY <1>7 DEF Focus
    <2>3. Send(s, "focus") \/ UNCHANGED ipc
      BY <1>7 DEF Focus
    <2>4. CASE Send(s, "focus")
      <3>1. CallTypes'
        BY <2>1, <2>2, <2>4, SendTypes DEF TerminalTypeOK, CallTypes, registry, peer
      <3>. QED
        BY <3>1, <1>2, <1>3, <1>7, TypeParts
    <2>5. CASE UNCHANGED ipc
      <3>1. CallTypes'
        BY <2>2, <2>5 DEF TerminalTypeOK, CallTypes, registry, peer, ipc
      <3>. QED
        BY <3>1, <1>2, <1>3, <1>7, TypeParts
    <2>. QED
      BY <2>3, <2>4, <2>5
  <1>. QED
    BY <1>4, <1>5, <1>6, <1>7, Zenon
    DEF UserOpens, UserCloses, UserRestarts, UserFocuses

\* Process events
LEMMA ProcessTypes ==
  ASSUME TerminalTypeOK, NEW s \in Sessions,
         ProcessStarted(s) \/ StartFails(s) \/ ProcessFinished(s)
  PROVE  TerminalTypeOK'
  <1>0. session[s] \in Dtos /\ session[s].host \in Hosts
    BY DEF TerminalTypeOK, Dtos
  <1>1. CASE ProcessStarted(s)
    <2>. DEFINE d == [session[s] EXCEPT !.process = "running"]
    <2>1. d \in Dtos
      BY <1>0 DEF Dtos
    <2>2. Update(s, d, UiState(d))
      BY <1>1 DEF ProcessStarted
    <2>3. session' \in [Sessions -> Dtos]
          /\ lastStates' \in [Hosts -> {"closed", "starting", "open", "error"}]
      BY <2>1, <2>2, UiStateType, UpdateTypes
    <2>4. UNCHANGED <<registry, shuttingDown, reopen, fallbacks, ipc, peer, refused, calls>>
      BY <1>1 DEF ProcessStarted
    <2>5. UNCHANGED shuttingDown
      BY <2>4, Zenon
    <2>. QED
      BY <2>3, <2>4, <2>5 DEF TerminalTypeOK, registry, ipc, peer
  <1>2. CASE StartFails(s)
    <2>. DEFINE d == [session[s] EXCEPT !.process = "error", !.window = "error"]
    <2>1. d \in Dtos
      BY <1>0 DEF Dtos
    <2>2. Update(s, d, "error") /\ Forget({s}) /\ Unregister(s)
      BY <1>2 DEF StartFails
    <2>3. session' \in [Sessions -> Dtos]
          /\ lastStates' \in [Hosts -> {"closed", "starting", "open", "error"}]
      BY <2>1, <2>2, UpdateTypes
    <2>. QED
      BY <1>0, <1>2, <2>2, <2>3, ForgetTypes, UnregisterTypes
      DEF TerminalTypeOK, StartFails
  <1>3. CASE ProcessFinished(s)
    <2>. DEFINE error == Crashed(s) /\ ~session[s].closeRequested
                p == IF error THEN "error" ELSE "stopped"
                w == IF os[s] = "crashed" THEN "error" ELSE session[s].window
                d == [session[s] EXCEPT !.process = p, !.window = w]
                x == IF error THEN "error" ELSE "closed"
    <2>1. /\ p \in {"starting", "running", "stopped", "error"}
          /\ w \in {"starting", "open", "closing", "closed", "error"}
          /\ x \in {"closed", "starting", "open", "error"}
      BY <1>0 DEF Dtos
    <2>2. d \in Dtos
      <3>. HIDE DEF p, w
      <3>. QED
        BY <1>0, <2>1, DtoTypes
    <2>3. Update(s, d, x) /\ Forget({s}) /\ Unregister(s)
      BY <1>3 DEF ProcessFinished
    <2>4. session' \in [Sessions -> Dtos]
          /\ lastStates' \in [Hosts -> {"closed", "starting", "open", "error"}]
      <3>. HIDE DEF d, x
      <3>. QED
        BY <2>1, <2>2, <2>3, UpdateTypes
    <2>5. reopen' \in [Hosts -> Nat]
      <3>1. reopen' = [reopen EXCEPT ![session[s].host] = IF Reopens(s) THEN @ + 1 ELSE @]
        BY <1>3 DEF ProcessFinished
      <3>. QED
        BY <1>0, <3>1 DEF TerminalTypeOK
    <2>6. os' \in [Sessions -> {"none", "alive", "clean", "failed", "crashed", "gone"}]
      BY <1>3 DEF ProcessFinished, TerminalTypeOK
    <2>7. UNCHANGED <<created, shuttingDown, fallbacks, signalled, companion, refused, calls>>
      BY <1>3 DEF ProcessFinished
    <2>. QED
      BY <2>3, <2>4, <2>5, <2>6, <2>7, ForgetTypes, UnregisterTypes DEF TerminalTypeOK
  <1>. QED
    BY <1>1, <1>2, <1>3

\* Timers
LEMMA TimerTypes ==
  ASSUME TerminalTypeOK
  PROVE  /\ \A h \in Hosts : ReopenTimer(h) => TerminalTypeOK'
         /\ \A s \in Sessions : CloseFallback(s) => TerminalTypeOK'
         /\ \A r \in pending : RequestTimesOut(r) => TerminalTypeOK'
  <1>1. ASSUME NEW h \in Hosts, ReopenTimer(h) PROVE TerminalTypeOK'
    <2>1. CallTypes'
      BY <1>1, OpenTypes DEF ReopenTimer
    <2>2. reopen' \in [Hosts -> Nat]
      BY <1>1 DEF ReopenTimer, TerminalTypeOK
    <2>3. shuttingDown' \in BOOLEAN
      BY <1>1, Zenon DEF ReopenTimer, TerminalTypeOK
    <2>4. fallbacks' \subseteq Sessions /\ calls' \in 0..MaxCalls
      BY <1>1 DEF ReopenTimer, TerminalTypeOK
    <2>. QED
      BY <2>1, <2>2, <2>3, <2>4, TypeParts
  <1>2. ASSUME NEW s \in Sessions, CloseFallback(s) PROVE TerminalTypeOK'
    BY <1>2 DEF CloseFallback, Signal, TerminalTypeOK, registry, ipc
  <1>3. ASSUME NEW r \in pending, RequestTimesOut(r) PROVE TerminalTypeOK'
    <2>1. r.session \in Sessions
      BY DEF TerminalTypeOK
    <2>2. signalled' \subseteq Sessions
      BY <1>3, <2>1 DEF RequestTimesOut, Signal, TerminalTypeOK
    <2>. QED
      BY <1>3, <2>2 DEF RequestTimesOut, TerminalTypeOK, registry
  <1>. QED
    BY <1>1, <1>2, <1>3

\* Messages of the companion
LEMMA DisconnectedTypes ==
  ASSUME TerminalTypeOK, NEW s \in Sessions, Disconnected(s)
  PROVE  /\ link' \in [Sessions -> {"none", "open", "claimed", "cut"}]
         /\ inbox' \in [Sessions -> Seq(Messages)]
         /\ session' \in [Sessions -> Dtos]
         /\ lastStates' \in [Hosts -> {"closed", "starting", "open", "error"}]
  <1>1. session[s] \in Dtos
    BY DEF TerminalTypeOK
  <1>2. link' \in [Sessions -> {"none", "open", "claimed", "cut"}]
        /\ inbox' \in [Sessions -> Seq(Messages)]
    <2>1. link' = [link EXCEPT ![s] = "cut"] /\ inbox' = [inbox EXCEPT ![s] = <<>>]
      BY DEF Disconnected
    <2>. QED
      BY <2>1 DEF TerminalTypeOK
  <1>3. CASE Update(s, session[s], UiState(session[s]))
    <2>1. UiState(session[s]) \in {"closed", "starting", "open", "error"}
      BY <1>1, UiStateType
    <2>. QED
      BY <1>1, <1>2, <1>3, <2>1, UpdateTypes
  <1>4. CASE UNCHANGED <<session, lastStates>>
    BY <1>2, <1>4 DEF TerminalTypeOK
  <1>. QED
    BY <1>3, <1>4 DEF Disconnected

LEMMA ApplyTypes ==
  ASSUME TerminalTypeOK, NEW s \in Sessions, NEW type, Apply(s, type)
  PROVE  /\ session' \in [Sessions -> Dtos]
         /\ lastStates' \in [Hosts -> {"closed", "starting", "open", "error"}]
  <1>. DEFINE w == IF type = "ready" THEN "open"
                   ELSE IF type = "closed" THEN "closed" ELSE session[s].window
              c == session[s].closedReceived \/ type = "closed"
              d == [session[s] EXCEPT !.window = w, !.closedReceived = c]
  <1>1. session[s] \in Dtos
    BY DEF TerminalTypeOK
  <1>2. w \in {"starting", "open", "closing", "closed", "error"}
    BY <1>1 DEF Dtos
  <1>3. c \in BOOLEAN
    BY Zenon
  <1>4. d \in Dtos
    <2>. HIDE DEF w, c
    <2>. QED
      BY <1>1, <1>2, <1>3 DEF Dtos
  <1>5. Update(s, d, UiState(d))
    BY DEF Apply
  <1>. QED
    <2>. HIDE DEF d
    <2>. QED
      BY <1>4, <1>5, UiStateType, UpdateTypes

LEMMA MessageTypes ==
  ASSUME TerminalTypeOK, NEW s \in Sessions, LinkFails(s) \/ ReadMessage(s)
  PROVE  TerminalTypeOK'
  <1>1. CASE LinkFails(s)
    <2>1. /\ Disconnected(s)
          /\ UNCHANGED <<registry, shuttingDown, reopen, fallbacks, registered, pending,
                         commands, peer, refused, calls>>
      BY <1>1 DEF LinkFails
    <2>. QED
      BY <2>1, DisconnectedTypes DEF TerminalTypeOK, registry, peer
  <1>2. CASE ReadMessage(s)
    <2>1. /\ UNCHANGED <<registry, shuttingDown, reopen, fallbacks, registered,
                         commands, peer, refused, calls>>
          /\ pending' \subseteq pending
      BY <1>2 DEF ReadMessage
    <2>2. CASE Disconnected(s)
      BY <2>1, <2>2, DisconnectedTypes DEF TerminalTypeOK, registry, peer
    <2>3. CASE /\ inbox[s] # <<>>
               /\ link' = [link EXCEPT ![s] = "claimed"]
               /\ inbox' = [inbox EXCEPT ![s] = Tail(@)]
               /\ UNCHANGED <<session, lastStates>> \/ Apply(s, Head(inbox[s]).type)
      <3>1. inbox' \in [Sessions -> Seq(Messages)]
        <4>1. Tail(inbox[s]) \in Seq(Messages)
          BY <2>3 DEF TerminalTypeOK
        <4>. QED
          BY <2>3, <4>1 DEF TerminalTypeOK
      <3>2. /\ session' \in [Sessions -> Dtos]
            /\ lastStates' \in [Hosts -> {"closed", "starting", "open", "error"}]
        BY <2>3, ApplyTypes DEF TerminalTypeOK
      <3>. QED
        BY <2>1, <2>3, <3>1, <3>2 DEF TerminalTypeOK, registry, peer
    <2>. QED
      BY <1>2, <2>2, <2>3 DEF ReadMessage
  <1>. QED
    BY <1>1, <1>2

\* The companion process
LEMMA SayTypes ==
  ASSUME TerminalTypeOK, NEW s \in Sessions, NEW m \in Messages, Say(s, <<m>>)
  PROVE  inbox' \in [Sessions -> Seq(Messages)]
  <1>1. inbox[s] \o <<m>> \in Seq(Messages)
    BY DEF TerminalTypeOK
  <1>. QED
    BY <1>1 DEF TerminalTypeOK, Say

LEMMA EventTypes ==
  /\ Event("started") \in Messages
  /\ Event("ready") \in Messages
  /\ Event("closed") \in Messages
  /\ \A id \in Nat : Response(id) \in Messages
  BY DEF Event, Response, Messages

LEMMA CompanionRestTypes ==
  ASSUME TerminalTypeOK, UNCHANGED CompanionRest,
         link' \in [Sessions -> {"none", "open", "claimed", "cut"}],
         inbox' \in [Sessions -> Seq(Messages)],
         commands' \in [Sessions -> Seq(Commands)],
         os' \in [Sessions -> {"none", "alive", "clean", "failed", "crashed", "gone"}],
         signalled' = signalled,
         companion' \in [Sessions -> {"boot", "up", "exiting"}]
  PROVE  TerminalTypeOK'
  <1>1. UNCHANGED shuttingDown
    BY Zenon DEF CompanionRest
  <1>. QED
    BY <1>1 DEF TerminalTypeOK, CompanionRest, registry

LEMMA CompanionTypes ==
  ASSUME TerminalTypeOK, NEW s \in Sessions,
         Connect(s) \/ Ready(s) \/ Serve(s) \/ WindowCloses(s) \/ Exit(s) \/ Die(s)
  PROVE  TerminalTypeOK'
  <1>0. /\ link \in [Sessions -> {"none", "open", "claimed", "cut"}]
        /\ inbox \in [Sessions -> Seq(Messages)]
        /\ commands \in [Sessions -> Seq(Commands)]
        /\ os \in [Sessions -> {"none", "alive", "clean", "failed", "crashed", "gone"}]
        /\ companion \in [Sessions -> {"boot", "up", "exiting"}]
    BY DEF TerminalTypeOK
  <1>1. CASE Connect(s)
    <2>1. <<Event("started")>> \o inbox[s] \in Seq(Messages)
      BY <1>0, EventTypes
    <2>2. inbox' \in [Sessions -> Seq(Messages)]
      BY <1>0, <1>1, <2>1 DEF Connect
    <2>. QED
      BY <1>0, <1>1, <2>2, CompanionRestTypes DEF Connect, peer
  <1>2. CASE Ready(s)
    <2>1. inbox' \in [Sessions -> Seq(Messages)]
      BY <1>0, <1>2, EventTypes, SayTypes DEF Ready
    <2>2. companion' \in [Sessions -> {"boot", "up", "exiting"}]
      BY <1>0, <1>2 DEF Ready
    <2>. QED
      BY <1>0, <1>2, <2>1, <2>2, CompanionRestTypes DEF Ready
  <1>3. CASE Serve(s)
    <2>1. commands[s] # <<>> /\ Head(commands[s]) \in Commands
          /\ Tail(commands[s]) \in Seq(Commands)
      BY <1>0, <1>3 DEF Serve
    <2>2. Response(Head(commands[s]).id) \in Messages
      BY <2>1, EventTypes DEF Commands
    <2>3. inbox' \in [Sessions -> Seq(Messages)]
      BY <1>3, <2>2, SayTypes DEF Serve
    <2>4. commands' \in [Sessions -> Seq(Commands)]
      BY <1>0, <1>3, <2>1 DEF Serve
    <2>5. companion' \in [Sessions -> {"boot", "up", "exiting"}]
      BY <1>0, <1>3 DEF Serve
    <2>. QED
      BY <1>0, <1>3, <2>3, <2>4, <2>5, CompanionRestTypes DEF Serve
  <1>4. CASE WindowCloses(s)
    <2>1. companion' \in [Sessions -> {"boot", "up", "exiting"}]
      BY <1>0, <1>4 DEF WindowCloses
    <2>. QED
      BY <1>0, <1>4, <2>1, CompanionRestTypes DEF WindowCloses
  <1>5. CASE Exit(s)
    <2>1. inbox' \in [Sessions -> Seq(Messages)]
      BY <1>0, <1>5, EventTypes, SayTypes DEF Exit
    <2>2. os' \in [Sessions -> {"none", "alive", "clean", "failed", "crashed", "gone"}]
      BY <1>0, <1>5 DEF Exit
    <2>. QED
      BY <1>0, <1>5, <2>1, <2>2, CompanionRestTypes DEF Exit
  <1>6. CASE Die(s)
    <2>1. os' \in [Sessions -> {"none", "alive", "clean", "failed", "crashed", "gone"}]
      BY <1>0, <1>6 DEF Die
    <2>. QED
      BY <1>0, <1>6, <2>1, CompanionRestTypes DEF Die
  <1>. QED
    BY <1>1, <1>2, <1>3, <1>4, <1>5, <1>6

\* Quitting
LEMMA ShutdownTypes ==
  ASSUME TerminalTypeOK, Shutdown
  PROVE  TerminalTypeOK'
  <1>1. PICK ended \in SUBSET sessionsById :
          /\ session' = [s \in Sessions |->
                IF s \in ended THEN [session[s] EXCEPT !.closeRequested = TRUE,
                                                       !.process = "stopped"]
                ELSE IF s \in sessionsById
                     THEN [session[s] EXCEPT !.closeRequested = TRUE]
                     ELSE session[s]]
          /\ lastStates' = [h \in Hosts |->
                LET s == deviceSession[h] IN
                IF s \in ended THEN "closed"
                ELSE IF s # NoSession /\ link[s] = "claimed" THEN UiState(session[s])
                     ELSE lastStates[h]]
          /\ os' = [s \in Sessions |-> IF s \in ended THEN "gone" ELSE os[s]]
          /\ Forget(ended)
          /\ signalled' = signalled \cup sessionsById
    BY DEF Shutdown
  <1>2. session' \in [Sessions -> Dtos]
    <2>1. ASSUME NEW s \in Sessions PROVE session'[s] \in Dtos
      <3>1. session[s] \in Dtos
        BY DEF TerminalTypeOK
      <3>2. /\ [session[s] EXCEPT !.closeRequested = TRUE] \in Dtos
            /\ [session[s] EXCEPT !.closeRequested = TRUE, !.process = "stopped"] \in Dtos
        BY <3>1, DtoTypes
      <3>. QED
        BY <1>1, <3>1, <3>2
    <2>. QED
      BY <1>1, <2>1
  <1>3. lastStates' \in [Hosts -> {"closed", "starting", "open", "error"}]
    <2>1. ASSUME NEW h \in Hosts, deviceSession[h] # NoSession
          PROVE  UiState(session[deviceSession[h]]) \in {"closed", "starting", "open", "error"}
      BY <2>1, UiStateType DEF TerminalTypeOK
    <2>. QED
      BY <1>1, <2>1 DEF TerminalTypeOK
  <1>4. os' \in [Sessions -> {"none", "alive", "clean", "failed", "crashed", "gone"}]
    BY <1>1 DEF TerminalTypeOK
  <1>5. signalled' \subseteq Sessions
    <2>1. sessionsById \subseteq Sessions
      BY SessionAssumption DEF TerminalTypeOK, Sessions
    <2>. QED
      BY <1>1, <2>1 DEF TerminalTypeOK
  <1>6. /\ link' = [s \in Sessions |-> IF link[s] = "none" THEN "none" ELSE "cut"]
        /\ inbox' = [s \in Sessions |-> <<>>]
        /\ registered' = {} /\ pending' = {}
        /\ UNCHANGED <<created, reopen, fallbacks, commands, companion, refused, calls>>
    BY DEF Shutdown
  <1>7. shuttingDown' \in BOOLEAN
    BY DEF Shutdown
  <1>8. /\ link' \in [Sessions -> {"none", "open", "claimed", "cut"}]
        /\ inbox' \in [Sessions -> Seq(Messages)]
    BY <1>6
  <1>. QED
    BY <1>1, <1>2, <1>3, <1>4, <1>5, <1>6, <1>7, <1>8, ForgetTypes DEF TerminalTypeOK

LEMMA TypeNext == TerminalTypeOK /\ [Next]_vars => TerminalTypeOK'
  <1>. SUFFICES ASSUME TerminalTypeOK, [Next]_vars PROVE TerminalTypeOK'
    OBVIOUS
  <1>1. CASE Next
    <2>1. CASE \E h \in Hosts : UserOpens(h) \/ UserCloses(h) \/ UserRestarts(h)
                                \/ UserFocuses(h) \/ ReopenTimer(h)
      BY <2>1, UserTypes, TimerTypes
    <2>2. CASE \E s \in Sessions : ProcessStarted(s) \/ StartFails(s)
                                   \/ ProcessFinished(s) \/ CloseFallback(s)
      BY <2>2, ProcessTypes, TimerTypes
    <2>3. CASE \E s \in Sessions : LinkFails(s) \/ ReadMessage(s)
      BY <2>3, MessageTypes
    <2>4. CASE \E s \in Sessions : Connect(s) \/ Ready(s) \/ Serve(s)
                                   \/ WindowCloses(s) \/ Exit(s) \/ Die(s)
      BY <2>4, CompanionTypes
    <2>5. CASE \E r \in pending : RequestTimesOut(r)
      BY <2>5, TimerTypes
    <2>. QED
      BY <1>1, <2>1, <2>2, <2>3, <2>4, <2>5, ShutdownTypes, Zenon DEF Next
  <1>2. CASE UNCHANGED vars
    <2>1. UNCHANGED shuttingDown
      BY <1>2, Zenon DEF vars
    <2>2. UNCHANGED <<registry, session, lastStates, reopen, fallbacks, ipc, peer,
                      refused, calls>>
      BY <1>2 DEF vars
    <2>. QED
      BY <2>1, <2>2 DEF registry, ipc, peer, TerminalTypeOK
  <1>. QED
    BY <1>1, <1>2

\* Every variable of the manager, its server and the companions has its type.
THEOREM TerminalTypeCorrect == Spec => []TerminalTypeOK
  <1>. QED
    BY TypeInit, TypeNext, PTL DEF Spec

-----------------------------------------------------------------------------
(* What no step takes back: the host of a session, and the requests made *)

Asked(s) == session[s].closeRequested \/ session[s].restartRequested

Kept ==
    /\ created' \in {created, created + 1}
    /\ \A s \in 1..created : session'[s].host = session[s].host
    /\ \A s \in 1..created : Asked(s) => Asked(s)'

LEMMA SameKept ==
  ASSUME TerminalTypeOK, created' = created, session' = session
  PROVE  Kept
  BY DEF Kept, Asked, TerminalTypeOK

LEMMA UpdateKept ==
  ASSUME TerminalTypeOK, NEW s \in Sessions, NEW d,
         session' = [session EXCEPT ![s] = d], created' = created,
         d.host = session[s].host,
         Asked(s) => d.closeRequested \/ d.restartRequested
  PROVE  Kept
  <1>1. \A t \in 1..created : t \in Sessions
    BY SessionAssumption DEF TerminalTypeOK, Sessions
  <1>. QED
    BY <1>1 DEF Kept, Asked, TerminalTypeOK

LEMMA LaunchKept ==
  ASSUME TerminalTypeOK, NEW h \in Hosts, Launch(h)
  PROVE  Kept
  <1>1. \A t \in 1..created : t \in Sessions /\ t # created + 1
    BY SessionAssumption DEF TerminalTypeOK, Sessions
  <1>2. created' = created + 1
    BY DEF Launch
  <1>3. \A t \in 1..created : session'[t] = session[t]
    BY <1>1 DEF Launch, Update, TerminalTypeOK
  <1>. QED
    BY <1>2, <1>3 DEF Kept, Asked

LEMMA OpenKept ==
  ASSUME TerminalTypeOK, NEW h \in Hosts, Open(h)
  PROVE  Kept
  <1>. DEFINE s == SessionForDevice(h)
  <1>1. CASE UNCHANGED <<registry, session>>
    BY <1>1, SameKept DEF registry
  <1>2. CASE s # NoSession /\ StopForRestart(s)
    <2>1. s \in Sessions /\ session[s] \in Dtos
      BY <1>2, SessionOfDevice DEF TerminalTypeOK
    <2>. DEFINE d == [session[s] EXCEPT !.restartRequested = TRUE]
    <2>2. d.host = session[s].host /\ d.restartRequested
      BY <2>1 DEF Dtos
    <2>3. session' = [session EXCEPT ![s] = d] /\ created' = created
      BY <1>2 DEF StopForRestart, registry
    <2>. QED
      <3>. HIDE DEF d, s
      <3>. QED
        BY <2>1, <2>2, <2>3, UpdateKept
  <1>3. CASE Launch(h)
    BY <1>3, LaunchKept
  <1>. QED
    BY <1>1, <1>2, <1>3 DEF Open, Focus, OpenFails

LEMMA CloseKept ==
  ASSUME TerminalTypeOK, NEW s \in Sessions, NEW restart \in BOOLEAN,
         CloseSession(s, restart)
  PROVE  Kept /\ session'[s].closeRequested
  <1>. DEFINE r == session[s].restartRequested \/ restart
              d == [session[s] EXCEPT !.closeRequested = TRUE, !.window = "closing",
                                      !.restartRequested = r]
  <1>1. session[s] \in Dtos
    BY DEF TerminalTypeOK
  <1>2. d.host = session[s].host /\ d.closeRequested
    BY <1>1 DEF Dtos
  <1>3. session' = [session EXCEPT ![s] = d] /\ created' = created
    BY DEF CloseSession, Update, registry
  <1>4. session'[s].closeRequested
    <2>. HIDE DEF d
    <2>. QED
      BY <1>2, <1>3 DEF TerminalTypeOK
  <1>. QED
    <2>. HIDE DEF d
    <2>. QED
      BY <1>2, <1>3, <1>4, UpdateKept

-----------------------------------------------------------------------------
(* The inductive invariant: a process that has not been reaped is listed,  *)
(* a listed session is the one its host resolves to, and whatever is       *)
(* stopped or will be, by a timer or an unanswered close, was asked for.   *)

Unreaped(s) == os[s] \notin {"none", "gone"}

Stopping(s) ==
    \/ s \in signalled \/ s \in fallbacks
    \/ \E r \in pending : r.session = s /\ r.command = "close"

Listed == \A s \in Sessions : Unreaped(s) => s \in sessionsById
Resolves == \A s \in sessionsById : deviceSession[session[s].host] = s
Wanted == \A s \in Sessions : Stopping(s) => s <= created /\ Asked(s)

Sound == Listed /\ Resolves /\ Wanted

\* What a step may do to the processes and to the sessions to be stopped
Careful ==
    /\ Kept
    /\ \A s \in Sessions : Stopping(s)' => Stopping(s) \/ (s <= created /\ Asked(s)')

LEMMA WantedKept ==
  ASSUME TerminalTypeOK, Wanted, Careful
  PROVE  Wanted'
  <1>. SUFFICES ASSUME NEW s \in Sessions, Stopping(s)' PROVE s <= created' /\ Asked(s)'
    BY DEF Wanted
  <1>0. created \in Nat /\ created' >= created /\ s \in Nat /\ s >= 1 /\ created' \in Int
    BY SessionAssumption DEF TerminalTypeOK, Careful, Kept, Sessions
  <1>1. CASE Stopping(s)
    <2>1. s <= created /\ Asked(s)
      BY <1>1 DEF Wanted
    <2>2. s \in 1..created
      BY <1>0, <2>1
    <2>3. Asked(s)'
      BY <2>1, <2>2 DEF Careful, Kept
    <2>. QED
      BY <1>0, <2>1, <2>3
  <1>2. CASE s <= created /\ Asked(s)'
    BY <1>0, <1>2
  <1>. QED
    BY <1>1, <1>2 DEF Careful

LEMMA SoundStep ==
  ASSUME TerminalTypeOK, Sound, Careful, UNCHANGED registry,
         \A s \in Sessions : Unreaped(s)' => Unreaped(s)
  PROVE  Sound'
  <1>1. Wanted'
    BY WantedKept DEF Sound
  <1>2. Listed'
    BY DEF Sound, Listed, registry
  <1>3. Resolves'
    BY DEF Sound, Resolves, registry, Careful, Kept, TerminalTypeOK
  <1>. QED
    BY <1>1, <1>2, <1>3 DEF Sound

LEMMA SoundForget ==
  ASSUME TerminalTypeOK, Sound, Careful, created' = created, NEW S, Forget(S),
         \A s \in Sessions : Unreaped(s)' => Unreaped(s) /\ s \notin S
  PROVE  Sound'
  <1>1. Wanted'
    BY WantedKept DEF Sound
  <1>2. Listed'
    BY DEF Sound, Listed, Forget
  <1>3. Resolves'
    <2>. SUFFICES ASSUME NEW s \in sessionsById' PROVE (deviceSession[session[s].host] = s)'
      BY DEF Resolves
    <2>1. s \in sessionsById /\ s \notin S /\ s \in 1..created /\ s \in Sessions
      BY SessionAssumption DEF Forget, TerminalTypeOK, Sessions
    <2>2. session'[s].host = session[s].host /\ session[s].host \in Hosts
      BY <2>1 DEF Careful, Kept, TerminalTypeOK, Dtos
    <2>. QED
      BY <2>1, <2>2 DEF Sound, Resolves, Forget
  <1>. QED
    BY <1>1, <1>2, <1>3 DEF Sound

\* Nothing is newly stopped when only a focus request is sent.
LEMMA FocusStops ==
  ASSUME TerminalTypeOK, NEW t \in Sessions, Send(t, "focus") \/ UNCHANGED ipc,
         UNCHANGED <<signalled, fallbacks>>
  PROVE  \A s \in Sessions : Stopping(s)' => Stopping(s)
  BY DEF Stopping, Send, ipc

LEMMA SoundInit == Init => Sound
  BY DEF Init, Sound, Listed, Resolves, Wanted, Unreaped, Stopping

LEMMA LaunchSound ==
  ASSUME TerminalTypeOK, Sound, NEW h \in Hosts, SessionForDevice(h) = NoSession,
         Launch(h), UNCHANGED fallbacks
  PROVE  Sound'
  <1>. DEFINE n == created + 1
              d == [Nobody EXCEPT !.host = h, !.process = "starting",
                                  !.window = "starting"]
  <1>0. /\ created' = n /\ sessionsById' = sessionsById \cup {n}
        /\ deviceSession' = [deviceSession EXCEPT ![h] = n]
        /\ session' = [session EXCEPT ![n] = d]
        /\ os' = [os EXCEPT ![n] = "alive"]
        /\ UNCHANGED <<pending, signalled>>
    BY DEF Launch, Update
  <1>1. n \in Sessions /\ \A s \in sessionsById : s \in 1..created /\ s \in Sessions /\ s # n
    BY SessionAssumption DEF Launch, TerminalTypeOK, Sessions
  <1>2. d.host = h
    BY HostAssumption DEF Nobody
  <1>3. Wanted'
    <2>1. Careful
      BY <1>0, LaunchKept DEF Careful, Stopping
    <2>. QED
      BY <2>1, WantedKept DEF Sound
  <1>4. Listed'
    BY <1>0, <1>1 DEF Sound, Listed, Unreaped, TerminalTypeOK
  <1>5. Resolves'
    <2>. SUFFICES ASSUME NEW s \in sessionsById' PROVE (deviceSession[session[s].host] = s)'
      BY DEF Resolves
    <2>1. CASE s = n
      <3>1. session'[s] = d
        BY <1>0, <1>1, <2>1 DEF TerminalTypeOK
      <3>2. session'[s].host = h
        <4>. HIDE DEF d
        <4>. QED
          BY <1>2, <3>1
      <3>. QED
        BY <1>0, <2>1, <3>2 DEF TerminalTypeOK
    <2>2. CASE s \in sessionsById
      <3>1. session'[s] = session[s] /\ session[s].host \in Hosts
        BY <1>0, <1>1, <2>2 DEF TerminalTypeOK, Dtos
      <3>2. deviceSession[session[s].host] = s
        BY <2>2 DEF Sound, Resolves
      <3>3. session[s].host # h
        <4>1. s # NoSession
          BY <1>1, <2>2, SessionAssumption
        <4>. QED
          BY <2>2, <3>2, <4>1 DEF SessionForDevice
      <3>. QED
        BY <1>0, <3>1, <3>2, <3>3 DEF TerminalTypeOK
    <2>. QED
      BY <1>0, <2>1, <2>2
  <1>. QED
    BY <1>3, <1>4, <1>5 DEF Sound

LEMMA OpenSound ==
  ASSUME TerminalTypeOK, Sound, NEW h \in Hosts, Open(h), UNCHANGED fallbacks
  PROVE  Sound'
  <1>. DEFINE s == SessionForDevice(h)
  <1>0. Kept
    BY OpenKept
  <1>1. CASE UNCHANGED <<registry, ipc, peer>>
    <2>1. Careful /\ \A t \in Sessions : Unreaped(t)' => Unreaped(t)
      BY <1>0, <1>1 DEF Careful, Stopping, Unreaped, ipc, peer
    <2>. QED
      BY <1>1, <2>1, SoundStep
  <1>2. CASE s # NoSession /\ Focus(s)
    <2>1. UNCHANGED <<registry, peer>> /\ (Send(s, "focus") \/ UNCHANGED ipc)
      BY <1>2 DEF Focus
    <2>2. s \in Sessions
      BY <1>2, SessionOfDevice
    <2>3. \A t \in Sessions : Stopping(t)' => Stopping(t)
      BY <2>1, <2>2, FocusStops DEF peer
    <2>4. Careful /\ \A t \in Sessions : Unreaped(t)' => Unreaped(t)
      BY <1>0, <2>1, <2>3 DEF Careful, Unreaped, peer
    <2>. QED
      BY <2>1, <2>4, SoundStep
  <1>3. CASE s # NoSession /\ StopForRestart(s)
    <2>1. UNCHANGED <<registry, ipc, os>> /\ signalled' \subseteq signalled \cup {s}
      BY <1>3 DEF StopForRestart, Signal
    <2>2. s \in Sessions /\ s <= created
      BY <1>3, SessionOfDevice
    <2>3. session'[s].restartRequested
      <3>1. session[s] \in Dtos
        BY <2>2 DEF TerminalTypeOK
      <3>2. session'[s] = [session[s] EXCEPT !.restartRequested = TRUE]
        BY <1>3, <2>2 DEF StopForRestart, TerminalTypeOK
      <3>. QED
        BY <3>1, <3>2 DEF Dtos
    <2>4. Careful /\ \A t \in Sessions : Unreaped(t)' => Unreaped(t)
      BY <1>0, <2>1, <2>2, <2>3 DEF Careful, Stopping, Asked, Unreaped, ipc
    <2>. QED
      BY <2>1, <2>4, SoundStep
  <1>4. CASE s = NoSession /\ Launch(h)
    BY <1>4, LaunchSound
  <1>5. s # NoSession => UiState(session[s]) \in {"closed", "starting", "open", "error"}
    <2>1. s # NoSession => session[s] \in Dtos
      BY SessionOfDevice DEF TerminalTypeOK
    <2>. QED
      BY <2>1, UiStateType
  <1>. QED
    BY <1>1, <1>2, <1>3, <1>4, <1>5 DEF Open, OpenFails

LEMMA CloseSound ==
  ASSUME TerminalTypeOK, Sound, NEW s \in Sessions, s <= created,
         NEW restart \in BOOLEAN, CloseSession(s, restart)
  PROVE  Sound'
  <1>1. Kept /\ session'[s].closeRequested
    BY CloseKept
  <1>2. UNCHANGED <<registry, os>>
    BY DEF CloseSession
  <1>3. \A t \in Sessions : Stopping(t)' => Stopping(t) \/ t = s
    <2>1. CASE Send(s, "close") /\ fallbacks' = fallbacks \cup {s} /\ UNCHANGED signalled
      BY <2>1 DEF Send, Stopping
    <2>2. CASE Signal(s) /\ UNCHANGED <<ipc, fallbacks>>
      BY <2>2 DEF Signal, Stopping, ipc
    <2>. QED
      BY <2>1, <2>2 DEF CloseSession
  <1>4. Careful
    BY <1>1, <1>3 DEF Careful, Asked
  <1>. QED
    BY <1>2, <1>4, SoundStep DEF Unreaped

LEMMA UserSound ==
  ASSUME TerminalTypeOK, Sound, NEW h \in Hosts,
         UserOpens(h) \/ UserCloses(h) \/ UserRestarts(h) \/ UserFocuses(h)
  PROVE  Sound'
  <1>. DEFINE s == SessionForDevice(h)
  <1>1. CASE Open(h) /\ UNCHANGED fallbacks
    BY <1>1, OpenSound
  <1>2. CASE s # NoSession /\ (CloseSession(s, FALSE) \/ CloseSession(s, TRUE))
    <2>1. s \in Sessions /\ s <= created
      BY <1>2, SessionOfDevice
    <2>. QED
      <3>. HIDE DEF s
      <3>. QED
        BY <1>2, <2>1, CloseSound
  <1>3. CASE UNCHANGED <<registry, session, ipc, fallbacks, peer>>
    <2>1. Careful /\ \A t \in Sessions : Unreaped(t)' => Unreaped(t)
      BY <1>3, SameKept DEF Careful, Stopping, Unreaped, registry, ipc, peer
    <2>. QED
      BY <1>3, <2>1, SoundStep
  <1>4. CASE s # NoSession /\ UNCHANGED fallbacks
             /\ UNCHANGED <<registry, session, peer>>
             /\ (Send(s, "focus") \/ UNCHANGED ipc)
    <2>1. \A t \in Sessions : Stopping(t)' => Stopping(t)
      BY <1>4, SessionOfDevice, FocusStops DEF peer
    <2>2. Careful /\ \A t \in Sessions : Unreaped(t)' => Unreaped(t)
      BY <1>4, <2>1, SameKept DEF Careful, Unreaped, registry, peer
    <2>. QED
      BY <1>4, <2>2, SoundStep
  <1>. QED
    <2>1. CASE UserFocuses(h)
      BY <1>4, <2>1 DEF UserFocuses, Focus
    <2>. QED
      BY <1>1, <1>2, <1>3, <2>1, Zenon DEF UserOpens, UserCloses, UserRestarts

LEMMA ProcessKept ==
  ASSUME TerminalTypeOK, NEW s \in Sessions,
         ProcessStarted(s) \/ StartFails(s) \/ ProcessFinished(s)
  PROVE  Kept
  <1>0. session[s] \in Dtos
    BY DEF TerminalTypeOK
  <1>1. ASSUME NEW p, NEW w, NEW x, created' = created,
               Update(s, [session[s] EXCEPT !.process = p, !.window = w], x)
        PROVE  Kept
    <2>. DEFINE d == [session[s] EXCEPT !.process = p, !.window = w]
    <2>1. /\ d.host = session[s].host
          /\ d.closeRequested = session[s].closeRequested
          /\ d.restartRequested = session[s].restartRequested
      BY <1>0 DEF Dtos
    <2>2. session' = [session EXCEPT ![s] = d]
      BY <1>1 DEF Update
    <2>. QED
      <3>. HIDE DEF d
      <3>. QED
        BY <1>1, <2>1, <2>2, UpdateKept DEF Asked
  <1>2. ASSUME NEW p, NEW x, created' = created,
               Update(s, [session[s] EXCEPT !.process = p], x)
        PROVE  Kept
    <2>. DEFINE d == [session[s] EXCEPT !.process = p]
    <2>1. /\ d.host = session[s].host
          /\ d.closeRequested = session[s].closeRequested
          /\ d.restartRequested = session[s].restartRequested
      BY <1>0 DEF Dtos
    <2>2. session' = [session EXCEPT ![s] = d]
      BY <1>2 DEF Update
    <2>. QED
      <3>. HIDE DEF d
      <3>. QED
        BY <1>2, <2>1, <2>2, UpdateKept DEF Asked
  <1>3. CASE ProcessStarted(s)
    BY <1>2, <1>3 DEF ProcessStarted, registry
  <1>4. CASE StartFails(s)
    BY <1>1, <1>4 DEF StartFails
  <1>5. CASE ProcessFinished(s)
    <2>. DEFINE error == Crashed(s) /\ ~session[s].closeRequested
                p == IF error THEN "error" ELSE "stopped"
                w == IF os[s] = "crashed" THEN "error" ELSE session[s].window
                x == IF error THEN "error" ELSE "closed"
    <2>1. Update(s, [session[s] EXCEPT !.process = p, !.window = w], x) /\ created' = created
      BY <1>5 DEF ProcessFinished
    <2>. QED
      <3>. HIDE DEF p, w, x
      <3>. QED
        BY <1>1, <2>1
  <1>. QED
    BY <1>3, <1>4, <1>5

LEMMA ProcessSound ==
  ASSUME TerminalTypeOK, Sound, NEW s \in Sessions,
         ProcessStarted(s) \/ StartFails(s) \/ ProcessFinished(s)
  PROVE  Sound'
  <1>0. Kept
    BY ProcessKept
  <1>1. CASE ProcessStarted(s)
    <2>1. UNCHANGED <<registry, fallbacks, ipc, peer>>
      BY <1>1 DEF ProcessStarted
    <2>2. Careful /\ \A t \in Sessions : Unreaped(t)' => Unreaped(t)
      BY <1>0, <2>1 DEF Careful, Stopping, Unreaped, ipc, peer
    <2>. QED
      BY <2>1, <2>2, SoundStep
  <1>2. CASE StartFails(s) \/ ProcessFinished(s)
    <2>1. /\ os' = [os EXCEPT ![s] = "gone"]
          /\ Forget({s}) /\ Unregister(s)
          /\ UNCHANGED <<created, fallbacks, signalled>>
      BY <1>2 DEF StartFails, ProcessFinished
    <2>2. Careful
      BY <1>0, <2>1 DEF Careful, Stopping, Unregister
    <2>3. \A t \in Sessions : Unreaped(t)' => Unreaped(t) /\ t \notin {s}
      BY <2>1 DEF Unreaped, TerminalTypeOK
    <2>. QED
      BY <2>1, <2>2, <2>3, SoundForget
  <1>. QED
    BY <1>1, <1>2

LEMMA TimerSound ==
  ASSUME TerminalTypeOK, Sound
  PROVE  /\ \A h \in Hosts : ReopenTimer(h) => Sound'
         /\ \A s \in Sessions : CloseFallback(s) => Sound'
         /\ \A r \in pending : RequestTimesOut(r) => Sound'
  <1>1. ASSUME NEW h \in Hosts, ReopenTimer(h) PROVE Sound'
    BY <1>1, OpenSound DEF ReopenTimer
  <1>2. ASSUME NEW s \in Sessions, CloseFallback(s) PROVE Sound'
    <2>1. /\ UNCHANGED <<registry, session, ipc, os>>
          /\ s \in fallbacks /\ fallbacks' \subseteq fallbacks
          /\ signalled' \subseteq signalled \cup {s}
      BY <1>2 DEF CloseFallback, Signal
    <2>2. Careful /\ \A t \in Sessions : Unreaped(t)' => Unreaped(t)
      BY <2>1, SameKept DEF Careful, Stopping, Unreaped, registry, ipc
    <2>. QED
      BY <2>1, <2>2, SoundStep
  <1>3. ASSUME NEW r \in pending, RequestTimesOut(r) PROVE Sound'
    <2>1. /\ UNCHANGED <<registry, session, fallbacks, os>>
          /\ pending' \subseteq pending
          /\ \A t \in signalled' : t \in signalled \/ (t = r.session /\ r.command = "close")
      BY <1>3 DEF RequestTimesOut, Signal, Stops
    <2>2. Careful /\ \A t \in Sessions : Unreaped(t)' => Unreaped(t)
      BY <2>1, SameKept DEF Careful, Stopping, Unreaped, registry
    <2>. QED
      BY <2>1, <2>2, SoundStep
  <1>. QED
    BY <1>1, <1>2, <1>3

LEMMA MessageKept ==
  ASSUME TerminalTypeOK, NEW s \in Sessions, created' = created,
         Disconnected(s) \/ UNCHANGED session \/ (\E type : Apply(s, type))
  PROVE  Kept
  <1>0. session[s] \in Dtos
    BY DEF TerminalTypeOK
  <1>1. CASE UNCHANGED session
    BY <1>1, SameKept
  <1>2. CASE Update(s, session[s], UiState(session[s]))
    BY <1>2, UpdateKept DEF Update, Asked
  <1>3. ASSUME NEW type, Apply(s, type) PROVE Kept
    <2>. DEFINE w == IF type = "ready" THEN "open"
                     ELSE IF type = "closed" THEN "closed" ELSE session[s].window
                c == session[s].closedReceived \/ type = "closed"
                d == [session[s] EXCEPT !.window = w, !.closedReceived = c]
    <2>1. session' = [session EXCEPT ![s] = d]
      BY <1>3 DEF Apply, Update
    <2>2. /\ d.host = session[s].host
          /\ d.closeRequested = session[s].closeRequested
          /\ d.restartRequested = session[s].restartRequested
      <3>. HIDE DEF w, c
      <3>. QED
        BY <1>0 DEF Dtos
    <2>. QED
      <3>. HIDE DEF d
      <3>. QED
        BY <2>1, <2>2, UpdateKept DEF Asked
  <1>. QED
    BY <1>1, <1>2, <1>3 DEF Disconnected

LEMMA MessageSound ==
  ASSUME TerminalTypeOK, Sound, NEW s \in Sessions, LinkFails(s) \/ ReadMessage(s)
  PROVE  Sound'
  <1>1. UNCHANGED <<registry, fallbacks, peer>> /\ pending' \subseteq pending
    BY DEF LinkFails, ReadMessage
  <1>2. Disconnected(s) \/ UNCHANGED session \/ (\E type : Apply(s, type))
    BY DEF LinkFails, ReadMessage
  <1>3. Kept
    BY <1>1, <1>2, MessageKept DEF registry
  <1>4. Careful /\ \A t \in Sessions : Unreaped(t)' => Unreaped(t)
    BY <1>1, <1>3 DEF Careful, Stopping, Unreaped, peer
  <1>. QED
    BY <1>1, <1>4, SoundStep

LEMMA CompanionSound ==
  ASSUME TerminalTypeOK, Sound, NEW s \in Sessions,
         Connect(s) \/ Ready(s) \/ Serve(s) \/ WindowCloses(s) \/ Exit(s) \/ Die(s)
  PROVE  Sound'
  <1>1. UNCHANGED CompanionRest /\ signalled' = signalled
    BY DEF Connect, Ready, Serve, WindowCloses, Exit, Die, peer
  <1>2. Careful
    BY <1>1, SameKept DEF Careful, Stopping, CompanionRest, registry
  <1>3. os' = os \/ (os[s] = "alive" /\ \E x : os' = [os EXCEPT ![s] = x])
    BY DEF Connect, Ready, Serve, WindowCloses, Exit, Die, peer
  <1>4. \A t \in Sessions : Unreaped(t)' => Unreaped(t)
    BY <1>3 DEF Unreaped, TerminalTypeOK
  <1>. QED
    BY <1>1, <1>2, <1>4, SoundStep DEF CompanionRest

LEMMA ShutdownSound ==
  ASSUME TerminalTypeOK, Sound, Shutdown
  PROVE  Sound'
  <1>1. PICK ended \in SUBSET sessionsById :
          /\ session' = [s \in Sessions |->
                IF s \in ended THEN [session[s] EXCEPT !.closeRequested = TRUE,
                                                       !.process = "stopped"]
                ELSE IF s \in sessionsById
                     THEN [session[s] EXCEPT !.closeRequested = TRUE]
                     ELSE session[s]]
          /\ os' = [s \in Sessions |-> IF s \in ended THEN "gone" ELSE os[s]]
          /\ Forget(ended)
          /\ signalled' = signalled \cup sessionsById
    BY DEF Shutdown
  <1>2. created' = created /\ fallbacks' = fallbacks /\ pending' = {}
    BY DEF Shutdown
  <1>3. \A s \in Sessions :
           /\ session'[s].host = session[s].host
           /\ Asked(s) => Asked(s)'
           /\ s \in sessionsById => Asked(s)'
    <2>. SUFFICES ASSUME NEW s \in Sessions
                  PROVE  /\ session'[s].host = session[s].host
                         /\ Asked(s) => Asked(s)'
                         /\ s \in sessionsById => Asked(s)'
      OBVIOUS
    <2>1. session[s] \in Dtos
      BY DEF TerminalTypeOK
    <2>. DEFINE d == [session[s] EXCEPT !.closeRequested = TRUE]
                e == [session[s] EXCEPT !.closeRequested = TRUE, !.process = "stopped"]
    <2>2. /\ d.host = session[s].host /\ d.closeRequested
          /\ e.host = session[s].host /\ e.closeRequested
      BY <2>1 DEF Dtos
    <2>3. session'[s] = IF s \in ended THEN e
                        ELSE IF s \in sessionsById THEN d ELSE session[s]
      BY <1>1
    <2>. QED
      <3>. HIDE DEF d, e
      <3>. QED
        BY <1>1, <2>2, <2>3 DEF Asked
  <1>4. 1..created \subseteq Sessions /\ \A s \in sessionsById : s <= created
    BY SessionAssumption DEF TerminalTypeOK, Sessions
  <1>5. Kept
    BY <1>2, <1>3, <1>4 DEF Kept
  <1>6. Careful
    BY <1>1, <1>2, <1>3, <1>4, <1>5 DEF Careful, Stopping
  <1>7. \A s \in Sessions : Unreaped(s)' => Unreaped(s) /\ s \notin ended
    BY <1>1 DEF Unreaped
  <1>. QED
    BY <1>1, <1>2, <1>6, <1>7, SoundForget

LEMMA SoundNext == TerminalTypeOK /\ Sound /\ [Next]_vars => Sound'
  <1>. SUFFICES ASSUME TerminalTypeOK, Sound, [Next]_vars PROVE Sound'
    OBVIOUS
  <1>1. CASE Next
    <2>1. CASE \E h \in Hosts : UserOpens(h) \/ UserCloses(h) \/ UserRestarts(h)
                                \/ UserFocuses(h) \/ ReopenTimer(h)
      BY <2>1, UserSound, TimerSound
    <2>2. CASE \E s \in Sessions : ProcessStarted(s) \/ StartFails(s)
                                   \/ ProcessFinished(s) \/ CloseFallback(s)
      BY <2>2, ProcessSound, TimerSound
    <2>3. CASE \E s \in Sessions : LinkFails(s) \/ ReadMessage(s)
      BY <2>3, MessageSound
    <2>4. CASE \E s \in Sessions : Connect(s) \/ Ready(s) \/ Serve(s)
                                   \/ WindowCloses(s) \/ Exit(s) \/ Die(s)
      BY <2>4, CompanionSound
    <2>5. CASE \E r \in pending : RequestTimesOut(r)
      BY <2>5, TimerSound
    <2>. QED
      BY <1>1, <2>1, <2>2, <2>3, <2>4, <2>5, ShutdownSound, Zenon DEF Next
  <1>2. CASE UNCHANGED vars
    <2>1. UNCHANGED <<registry, session, fallbacks, ipc, peer>>
      BY <1>2 DEF vars
    <2>2. Careful /\ \A t \in Sessions : Unreaped(t)' => Unreaped(t)
      BY <2>1, SameKept DEF Careful, Stopping, Unreaped, registry, ipc, peer
    <2>. QED
      BY <2>1, <2>2, SoundStep
  <1>. QED
    BY <1>1, <1>2

LEMMA SoundAlways == Spec => [](TerminalTypeOK /\ Sound)
  <1>1. Init => TerminalTypeOK /\ Sound
    BY TypeInit, SoundInit
  <1>2. TerminalTypeOK /\ Sound /\ [Next]_vars => (TerminalTypeOK /\ Sound)'
    BY TypeNext, SoundNext
  <1>. QED
    BY <1>1, <1>2, PTL DEF Spec

\* Every companion process that has not been reaped is the one session its
\* host resolves to, so close and shutdown reach it.
THEOREM NoOrphanAlways == Spec => []NoOrphan
  <1>1. TerminalTypeOK /\ Sound => NoOrphan
    BY DEF Sound, Listed, Resolves, Unreaped, NoOrphan
  <1>. QED
    BY <1>1, SoundAlways, PTL

\* A companion is only signalled when its session was asked to close or to
\* restart, or the manager quits.
THEOREM StopOnlyAskedAlways == Spec => []StopOnlyAsked
  <1>1. TerminalTypeOK /\ Sound => StopOnlyAsked
    BY DEF Sound, Wanted, Stopping, Asked, StopOnlyAsked, TerminalTypeOK
  <1>. QED
    BY <1>1, SoundAlways, PTL

-----------------------------------------------------------------------------
(* What is shown *)

\* A host resolves to a session of its own.
Pointers ==
    \A h \in Hosts : deviceSession[h] # NoSession =>
        deviceSession[h] \in sessionsById /\ session[deviceSession[h]].host = h

\* A host without a session is shown closed or in error, and one with a session
\* as the session is.
ShownFor(h) ==
    IF deviceSession[h] = NoSession THEN lastStates[h] \in {"closed", "error"}
    ELSE \/ session[deviceSession[h]].closeRequested
         \/ lastStates[h] = UiState(session[deviceSession[h]])

Shows == Pointers /\ \A h \in Hosts : ShownFor(h)

LEMMA ShowsIs == TerminalTypeOK /\ Shows => ShownIsState
  <1>. SUFFICES ASSUME TerminalTypeOK, Shows, NEW h \in Hosts
                PROVE  LET s == SessionForDevice(h) IN
                       IF s = NoSession THEN lastStates[h] \in {"closed", "error"}
                       ELSE session[s].closeRequested \/ lastStates[h] = UiState(session[s])
    BY DEF ShownIsState
  <1>1. SessionForDevice(h) = deviceSession[h]
    BY DEF SessionForDevice, Shows, Pointers
  <1>. QED
    BY <1>1 DEF Shows, ShownFor

LEMMA ShowsInit == Init => Shows
  BY DEF Init, Shows, Pointers, ShownFor

LEMMA ShowsSame ==
  ASSUME Shows, UNCHANGED <<registry, session, lastStates>>
  PROVE  Shows'
  BY DEF Shows, Pointers, ShownFor, registry, UiState

LEMMA ShowsUpdate ==
  ASSUME TerminalTypeOK, Resolves, Shows, NEW s \in sessionsById, NEW d \in Dtos, NEW x,
         d.host = session[s].host, Update(s, d, x),
         x = UiState(d) \/ d.closeRequested,
         UNCHANGED registry
  PROVE  Shows'
  <1>1. s \in Sessions /\ d.host \in Hosts
    BY SessionAssumption DEF TerminalTypeOK, Sessions, Dtos
  <1>2. /\ session'[s] = d /\ lastStates'[d.host] = x
        /\ \A t \in Sessions : t # s => session'[t] = session[t]
        /\ \A h \in Hosts : h # d.host => lastStates'[h] = lastStates[h]
    BY <1>1 DEF Update, TerminalTypeOK
  <1>3. \A h \in Hosts : deviceSession[h] # NoSession =>
           deviceSession[h] \in Sessions /\ (deviceSession[h] = s => h = d.host)
    BY DEF TerminalTypeOK, Shows, Pointers
  <1>4. Pointers'
    BY <1>2, <1>3 DEF Shows, Pointers, registry
  <1>5. deviceSession[d.host] = s /\ s # NoSession
    BY <1>1, SessionAssumption DEF Resolves
  <1>6. ASSUME NEW h \in Hosts, h # d.host PROVE ShownFor(h)'
    BY <1>2, <1>3, <1>6 DEF Shows, ShownFor, registry
  <1>7. ShownFor(d.host)'
    BY <1>1, <1>2, <1>5 DEF ShownFor, registry, UiState
  <1>. QED
    BY <1>4, <1>6, <1>7 DEF Shows

\* The end of a session leaves its host without one.
LEMMA ShowsForget ==
  ASSUME TerminalTypeOK, Resolves, Shows, NEW s \in sessionsById, NEW d \in Dtos,
         d.host = session[s].host, NEW x \in {"closed", "error"}, Update(s, d, x),
         Forget({s})
  PROVE  Shows'
  <1>1. s \in Sessions /\ d.host \in Hosts
    BY SessionAssumption DEF TerminalTypeOK, Sessions, Dtos
  <1>2. /\ session'[s] = d /\ lastStates'[d.host] = x
        /\ \A t \in Sessions : t # s => session'[t] = session[t]
        /\ \A h \in Hosts : h # d.host => lastStates'[h] = lastStates[h]
    BY <1>1 DEF Update, TerminalTypeOK
  <1>3. deviceSession[d.host] = s /\ s # NoSession
    BY <1>1, SessionAssumption DEF Resolves
  <1>4. \A h \in Hosts : deviceSession[h] # NoSession =>
           deviceSession[h] \in Sessions /\ (deviceSession[h] = s <=> h = d.host)
    BY <1>3 DEF TerminalTypeOK, Shows, Pointers
  <1>5. \A h \in Hosts : deviceSession'[h] = IF h = d.host THEN NoSession ELSE deviceSession[h]
    BY <1>3, <1>4 DEF Forget
  <1>6. Pointers'
    BY <1>2, <1>3, <1>4, <1>5 DEF Shows, Pointers, Forget
  <1>7. ASSUME NEW h \in Hosts, h # d.host PROVE ShownFor(h)'
    BY <1>2, <1>4, <1>5, <1>7 DEF Shows, ShownFor
  <1>8. ShownFor(d.host)'
    BY <1>1, <1>2, <1>5 DEF ShownFor
  <1>. QED
    BY <1>6, <1>7, <1>8 DEF Shows

\* A host without a session is told so.
LEMMA ShowsNone ==
  ASSUME TerminalTypeOK, Shows, NEW h \in Hosts, SessionForDevice(h) = NoSession,
         NEW x \in {"closed", "error"}, lastStates' = [lastStates EXCEPT ![h] = x],
         UNCHANGED <<registry, session>>
  PROVE  Shows'
  <1>1. deviceSession[h] = NoSession
    BY DEF SessionForDevice, Shows, Pointers
  <1>2. lastStates'[h] = x /\ \A g \in Hosts : g # h => lastStates'[g] = lastStates[g]
    BY DEF TerminalTypeOK
  <1>3. Pointers'
    BY DEF Shows, Pointers, registry
  <1>4. \A g \in Hosts : ShownFor(g)'
    BY <1>1, <1>2 DEF Shows, ShownFor, registry
  <1>. QED
    BY <1>3, <1>4 DEF Shows

LEMMA ShowsOpen ==
  ASSUME TerminalTypeOK, Resolves, Shows, NEW h \in Hosts, Open(h)
  PROVE  Shows'
  <1>. DEFINE s == SessionForDevice(h)
  <1>1. CASE UNCHANGED <<registry, session, lastStates>>
    BY <1>1, ShowsSame
  <1>2. CASE s # NoSession /\ StopForRestart(s)
    <2>. DEFINE d == [session[s] EXCEPT !.restartRequested = TRUE]
    <2>1. s \in Sessions /\ session[s] \in Dtos
      BY <1>2, SessionOfDevice DEF TerminalTypeOK
    <2>2. session' = [session EXCEPT ![s] = d] /\ UNCHANGED <<registry, lastStates>>
      BY <1>2 DEF StopForRestart
    <2>3. d.host = session[s].host /\ (d.closeRequested <=> session[s].closeRequested)
          /\ d.process = session[s].process /\ d.window = session[s].window
      BY <2>1 DEF Dtos
    <2>. HIDE DEF s, d
    <2>4. \A t \in Sessions : /\ session'[t].host = session[t].host
                              /\ session'[t].closeRequested <=> session[t].closeRequested
                              /\ session'[t].process = session[t].process
                              /\ session'[t].window = session[t].window
      BY <2>1, <2>2, <2>3 DEF TerminalTypeOK
    <2>5. \A g \in Hosts : deviceSession[g] \in Sessions \/ deviceSession[g] = NoSession
      BY DEF TerminalTypeOK
    <2>6. Pointers'
      BY <2>2, <2>4, <2>5 DEF Shows, Pointers, registry
    <2>7. ASSUME NEW g \in Hosts PROVE ShownFor(g)'
      <3>1. \A t \in Sessions : UiState(session[t])' = UiState(session[t])
        BY <2>4 DEF UiState
      <3>. QED
        BY <2>2, <2>4, <2>5, <3>1 DEF Shows, ShownFor, registry
    <2>. QED
      BY <2>6, <2>7 DEF Shows
  <1>3. CASE s = NoSession /\ Launch(h)
    <2>. DEFINE n == created + 1
                d == [Nobody EXCEPT !.host = h, !.process = "starting", !.window = "starting"]
    <2>1. /\ n \in Sessions /\ sessionsById' = sessionsById \cup {n}
          /\ deviceSession' = [deviceSession EXCEPT ![h] = n]
          /\ session' = [session EXCEPT ![n] = d] /\ n \notin sessionsById
          /\ n # NoSession
      BY <1>3, SessionAssumption DEF Launch, Update, Sessions, TerminalTypeOK
    <2>2. d.host = h /\ UiState(d) = "starting"
      BY DEF Nobody, UiState
    <2>3. lastStates' = [lastStates EXCEPT ![h] = "starting"]
      BY <1>3, <2>2 DEF Launch, Update
    <2>. HIDE DEF n, d
    <2>4. /\ session'[n] = d /\ deviceSession'[h] = n /\ lastStates'[h] = "starting"
          /\ \A t \in sessionsById : session'[t] = session[t]
          /\ \A g \in Hosts : g # h => /\ deviceSession'[g] = deviceSession[g]
                                      /\ lastStates'[g] = lastStates[g]
      BY <2>1, <2>3 DEF TerminalTypeOK
    <2>5. Pointers'
      BY <2>1, <2>2, <2>4 DEF Shows, Pointers
    <2>6. ShownFor(h)'
      BY <2>1, <2>2, <2>4 DEF ShownFor
    <2>7. ASSUME NEW g \in Hosts, g # h PROVE ShownFor(g)'
      BY <2>4, <2>7 DEF Shows, Pointers, ShownFor
    <2>. QED
      BY <2>5, <2>6, <2>7 DEF Shows
  <1>4. CASE s = NoSession /\ OpenFails(h)
    BY <1>4, ShowsNone DEF OpenFails
  <1>5. s # NoSession => UiState(session[s]) \in {"closed", "starting", "open", "error"}
    <2>1. s # NoSession => session[s] \in Dtos
      BY SessionOfDevice DEF TerminalTypeOK
    <2>. QED
      BY <2>1, UiStateType
  <1>. QED
    BY <1>1, <1>2, <1>3, <1>4, <1>5 DEF Open, Focus

LEMMA ShowsClose ==
  ASSUME TerminalTypeOK, Resolves, Shows, NEW s \in sessionsById, NEW restart \in BOOLEAN,
         CloseSession(s, restart)
  PROVE  Shows'
  <1>. DEFINE d == [session[s] EXCEPT !.closeRequested = TRUE, !.window = "closing",
                                      !.restartRequested = @ \/ restart]
  <1>1. session[s] \in Dtos
    BY SessionAssumption DEF TerminalTypeOK, Sessions
  <1>2. d \in Dtos /\ d.host = session[s].host /\ d.closeRequested
    <2>1. (session[s].restartRequested \/ restart) \in BOOLEAN
      BY Zenon
    <2>. QED
      BY <1>1, <2>1 DEF Dtos
  <1>3. Update(s, d, "closed") /\ UNCHANGED registry
    BY DEF CloseSession
  <1>. HIDE DEF d
  <1>. QED
    BY <1>2, <1>3, ShowsUpdate

LEMMA ShowsUser ==
  ASSUME TerminalTypeOK, Resolves, Shows, NEW h \in Hosts,
         UserOpens(h) \/ UserCloses(h) \/ UserRestarts(h) \/ UserFocuses(h) \/ ReopenTimer(h)
  PROVE  Shows'
  <1>. DEFINE s == SessionForDevice(h)
  <1>1. CASE Open(h)
    BY <1>1, ShowsOpen
  <1>2. CASE s # NoSession /\ (CloseSession(s, FALSE) \/ CloseSession(s, TRUE))
    <2>1. s \in sessionsById
      BY <1>2, SessionOfDevice
    <2>. HIDE DEF s
    <2>. QED
      BY <1>2, <2>1, ShowsClose
  <1>3. CASE s = NoSession /\ lastStates' = [lastStates EXCEPT ![h] = "closed"]
             /\ UNCHANGED <<registry, session>>
    BY <1>3, ShowsNone
  <1>4. CASE UNCHANGED <<registry, session, lastStates>>
    BY <1>4, ShowsSame
  <1>. QED
    <2>1. CASE UserFocuses(h)
      BY <1>4, <2>1 DEF UserFocuses, Focus
    <2>2. CASE UserCloses(h)
      BY <1>2, <1>3, <2>2 DEF UserCloses
    <2>3. CASE UserRestarts(h)
      BY <1>1, <1>2, <2>3, Zenon DEF UserRestarts
    <2>. QED
      BY <1>1, <2>1, <2>2, <2>3, Zenon DEF UserOpens, ReopenTimer

LEMMA ShowsProcess ==
  ASSUME TerminalTypeOK, Resolves, Shows, NEW s \in Sessions,
         ProcessStarted(s) \/ StartFails(s) \/ ProcessFinished(s)
  PROVE  Shows'
  <1>0. s \in sessionsById /\ session[s] \in Dtos
    BY DEF ProcessStarted, StartFails, ProcessFinished, TerminalTypeOK
  <1>1. CASE ProcessStarted(s)
    <2>. DEFINE d == [session[s] EXCEPT !.process = "running"]
    <2>1. d \in Dtos /\ d.host = session[s].host
      BY <1>0 DEF Dtos
    <2>2. Update(s, d, UiState(d)) /\ UNCHANGED registry
      BY <1>1 DEF ProcessStarted
    <2>. HIDE DEF d
    <2>. QED
      BY <1>0, <2>1, <2>2, ShowsUpdate
  <1>2. CASE StartFails(s)
    <2>. DEFINE d == [session[s] EXCEPT !.process = "error", !.window = "error"]
    <2>1. d \in Dtos /\ d.host = session[s].host
      BY <1>0 DEF Dtos
    <2>2. Update(s, d, "error") /\ Forget({s})
      BY <1>2 DEF StartFails
    <2>. HIDE DEF d
    <2>. QED
      BY <1>0, <2>1, <2>2, ShowsForget
  <1>3. CASE ProcessFinished(s)
    <2>. DEFINE error == Crashed(s) /\ ~session[s].closeRequested
                p == IF error THEN "error" ELSE "stopped"
                w == IF os[s] = "crashed" THEN "error" ELSE session[s].window
                x == IF error THEN "error" ELSE "closed"
                d == [session[s] EXCEPT !.process = p, !.window = w]
    <2>1. /\ p \in {"stopped", "error"} /\ x \in {"closed", "error"}
          /\ w \in {"starting", "open", "closing", "closed", "error"}
      BY <1>0 DEF Dtos
    <2>2. Update(s, d, x) /\ Forget({s})
      BY <1>3 DEF ProcessFinished
    <2>. HIDE DEF p, w, x
    <2>3. d \in Dtos /\ d.host = session[s].host
      BY <1>0, <2>1 DEF Dtos
    <2>. HIDE DEF d
    <2>. QED
      BY <1>0, <2>1, <2>2, <2>3, ShowsForget
  <1>. QED
    BY <1>1, <1>2, <1>3

LEMMA ShowsMessage ==
  ASSUME TerminalTypeOK, Resolves, Shows, NEW s \in Sessions, LinkFails(s) \/ ReadMessage(s)
  PROVE  Shows'
  <1>1. UNCHANGED registry
    BY DEF LinkFails, ReadMessage
  <1>2. session[s] \in Dtos
    BY DEF TerminalTypeOK
  <1>3. CASE UNCHANGED <<session, lastStates>>
    BY <1>1, <1>3, ShowsSame
  <1>4. CASE s \in sessionsById /\ Update(s, session[s], UiState(session[s]))
    BY <1>1, <1>2, <1>4, ShowsUpdate
  <1>5. ASSUME NEW type, s \in sessionsById, Apply(s, type) PROVE Shows'
    <2>. DEFINE w == IF type = "ready" THEN "open"
                     ELSE IF type = "closed" THEN "closed" ELSE session[s].window
                c == session[s].closedReceived \/ type = "closed"
                d == [session[s] EXCEPT !.window = w, !.closedReceived = c]
    <2>1. Update(s, d, UiState(d))
      BY <1>5 DEF Apply
    <2>2. w \in {"starting", "open", "closing", "closed", "error"}
      BY <1>2 DEF Dtos
    <2>3. c \in BOOLEAN
      BY Zenon
    <2>. HIDE DEF w, c
    <2>4. d \in Dtos /\ d.host = session[s].host
      BY <1>2, <2>2, <2>3 DEF Dtos
    <2>. HIDE DEF d
    <2>. QED
      BY <1>1, <1>5, <2>1, <2>4, ShowsUpdate
  <1>. QED
    BY <1>3, <1>4, <1>5 DEF LinkFails, ReadMessage, Disconnected

LEMMA ShowsShutdown ==
  ASSUME TerminalTypeOK, Shows, Shutdown
  PROVE  Shows'
  <1>1. PICK ended \in SUBSET sessionsById :
          /\ session' = [s \in Sessions |->
                IF s \in ended THEN [session[s] EXCEPT !.closeRequested = TRUE,
                                                       !.process = "stopped"]
                ELSE IF s \in sessionsById
                     THEN [session[s] EXCEPT !.closeRequested = TRUE]
                     ELSE session[s]]
          /\ lastStates' = [h \in Hosts |->
                LET s == deviceSession[h] IN
                IF s \in ended THEN "closed"
                ELSE IF s # NoSession /\ link[s] = "claimed" THEN UiState(session[s])
                     ELSE lastStates[h]]
          /\ Forget(ended)
    BY DEF Shutdown
  <1>2. NoSession \notin ended /\ \A s \in sessionsById : s \in Sessions
    <2>1. 1..created \subseteq Sessions /\ sessionsById \subseteq 1..created
      BY SessionAssumption DEF TerminalTypeOK, Sessions
    <2>. QED
      BY <2>1, SessionAssumption
  <1>3. ASSUME NEW h \in Hosts, deviceSession'[h] # NoSession
        PROVE  /\ deviceSession'[h] \in sessionsById'
               /\ session'[deviceSession'[h]].host = h
               /\ session'[deviceSession'[h]].closeRequested
    <2>. DEFINE s == deviceSession[h]
    <2>1. s \notin ended /\ s # NoSession /\ deviceSession'[h] = s
      BY <1>1, <1>3 DEF Forget
    <2>2. s \in sessionsById /\ session[s].host = h /\ s \in Sessions
      BY <1>2, <2>1 DEF Shows, Pointers
    <2>3. session'[s] = [session[s] EXCEPT !.closeRequested = TRUE] /\ session[s] \in Dtos
      BY <1>1, <2>1, <2>2 DEF TerminalTypeOK
    <2>. QED
      BY <1>1, <2>1, <2>2, <2>3 DEF Forget, Dtos
  <1>4. Pointers'
    BY <1>3 DEF Pointers
  <1>5. ASSUME NEW h \in Hosts PROVE ShownFor(h)'
    <2>1. CASE deviceSession'[h] # NoSession
      BY <1>3, <2>1 DEF ShownFor
    <2>2. CASE deviceSession'[h] = NoSession
      <3>1. deviceSession[h] = NoSession \/ deviceSession[h] \in ended
        BY <1>1, <2>2 DEF Forget
      <3>2. lastStates'[h] \in {"closed", "error"}
        BY <1>1, <1>2, <3>1 DEF Shows, ShownFor
      <3>. QED
        BY <2>2, <3>2 DEF ShownFor
    <2>. QED
      BY <2>1, <2>2
  <1>. QED
    BY <1>4, <1>5 DEF Shows

LEMMA ShowsNext == TerminalTypeOK /\ Sound /\ Shows /\ [Next]_vars => Shows'
  <1>. SUFFICES ASSUME TerminalTypeOK, Resolves, Shows, [Next]_vars PROVE Shows'
    BY DEF Sound
  <1>1. CASE Next
    <2>1. CASE \E h \in Hosts : UserOpens(h) \/ UserCloses(h) \/ UserRestarts(h)
                                \/ UserFocuses(h) \/ ReopenTimer(h)
      BY <2>1, ShowsUser
    <2>2. CASE \E s \in Sessions : ProcessStarted(s) \/ StartFails(s) \/ ProcessFinished(s)
      BY <2>2, ShowsProcess
    <2>3. CASE \E s \in Sessions : LinkFails(s) \/ ReadMessage(s)
      BY <2>3, ShowsMessage
    <2>4. CASE \/ \E s \in Sessions : CloseFallback(s) \/ Connect(s) \/ Ready(s) \/ Serve(s)
                                      \/ WindowCloses(s) \/ Exit(s) \/ Die(s)
               \/ \E r \in pending : RequestTimesOut(r)
      <3>1. UNCHANGED <<registry, session, lastStates>>
        BY <2>4 DEF CloseFallback, Connect, Ready, Serve, WindowCloses, Exit, Die,
           CompanionRest, RequestTimesOut
      <3>. QED
        BY <3>1, ShowsSame
    <2>. QED
      BY <1>1, <2>1, <2>2, <2>3, <2>4, ShowsShutdown, Zenon DEF Next
  <1>2. CASE UNCHANGED vars
    BY <1>2, ShowsSame DEF vars
  <1>. QED
    BY <1>1, <1>2

\* QML is shown the state each host's session has, or that it has none: no event
\* of the process, the companion or a timer is missed, nor one of an earlier
\* session of the host shown.
THEOREM StatesAreShown == Spec => []ShownIsState
  <1>1. TerminalTypeOK /\ Sound /\ Shows /\ [Next]_vars => Shows'
    BY ShowsNext
  <1>2. Spec => [](TerminalTypeOK /\ Sound /\ Shows)
    BY <1>1, SoundAlways, ShowsInit, PTL DEF Spec
  <1>. QED
    BY <1>2, ShowsIs, PTL

=============================================================================
