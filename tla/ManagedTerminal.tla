--------------------------- MODULE ManagedTerminal ---------------------------
(***************************************************************************)
(* features/terminal: the manager of external terminal windows and its     *)
(* local IPC server, with the companion process it launches                *)
(* (vendor/alacritty).  Every slot of the manager runs on the GUI thread   *)
(* and is one action; the environment chooses the order of the user's      *)
(* calls, of process and socket events, and of timers.                     *)
(***************************************************************************)
EXTENDS Integers, Sequences

CONSTANTS
    Hosts,
    NoSession,
    MaxSessions,  \* bound: sessions created
    MaxCalls      \* bound: calls of the user

Sessions == 1..MaxSessions

ASSUME HostAssumption == Hosts # {}
ASSUME SessionAssumption == MaxSessions \in Nat /\ NoSession \notin Sessions
ASSUME CallBoundAssumption == MaxCalls \in Nat

VARIABLES
    created,        \* sessions created so far: ids are uuids, never reused
    session,        \* session DTOs: host, process, window, flags
    sessionsById,
    deviceSession,
    lastStates,     \* last state emitted to QML
    shuttingDown,
    reopen,         \* zero-delay timers that will open the host again
    fallbacks,      \* sessions with a close fallback timer
    link,           \* NTTP socket of a session's companion
    registered,     \* sessions the IPC server lets announce themselves
    pending,        \* requests whose timer runs
    inbox,          \* messages of the companion not yet read
    commands,       \* commands the companion has not yet read
    os,             \* the companion's process
    signalled,      \* processes sent SIGTERM or SIGKILL
    companion,      \* "boot", "up" once it has windows, "exiting"
    refused,        \* ghost: hosts for which a launch failed
    calls

registry == <<created, sessionsById, deviceSession>>
ipc == <<link, registered, pending, inbox, commands>>
peer == <<os, signalled, companion>>
vars == <<registry, session, lastStates, shuttingDown, reopen, fallbacks, ipc,
          peer, refused, calls>>

Nobody == [host |-> CHOOSE h \in Hosts : TRUE, process |-> "stopped",
           window |-> "closed", closedReceived |-> FALSE,
           closeRequested |-> FALSE, restartRequested |-> FALSE]

Event(name) == [type |-> name, id |-> 0]
Response(id) == [type |-> "response", id |-> id]

Init ==
    /\ created = 0
    /\ session = [s \in Sessions |-> Nobody]
    /\ sessionsById = {}
    /\ deviceSession = [h \in Hosts |-> NoSession]
    /\ lastStates = [h \in Hosts |-> "closed"]
    /\ shuttingDown = FALSE
    /\ reopen = [h \in Hosts |-> 0]
    /\ fallbacks = {}
    /\ link = [s \in Sessions |-> "none"]
    /\ registered = {} /\ pending = {}
    /\ inbox = [s \in Sessions |-> <<>>]
    /\ commands = [s \in Sessions |-> <<>>]
    /\ os = [s \in Sessions |-> "none"]
    /\ signalled = {}
    /\ companion = [s \in Sessions |-> "boot"]
    /\ refused = {}
    /\ calls = 0

-----------------------------------------------------------------------------
(* Session state *)

SessionForDevice(h) ==
    IF deviceSession[h] \in sessionsById THEN deviceSession[h] ELSE NoSession

\* Fault: a session that is closing is shown so.
UiStateOfWindow(d) == IF d.process = "error" THEN "error" ELSE d.window

UiState(d) ==
    CASE d.process = "error" \/ d.window = "error" -> "error"
      [] d.process # "error" /\ d.window = "open" -> "open"
      [] d.process # "error" /\ d.window \in {"starting", "closing", "closed"} ->
            IF d.process = "starting" \/ d.window = "starting"
            THEN "starting" ELSE "closed"

\* The new DTO of s, and what QML is told of it.
Update(s, dto, shown) ==
    /\ session' = [session EXCEPT ![s] = dto]
    /\ lastStates' = [lastStates EXCEPT ![dto.host] = shown]

\* _stop_process
Signal(s) ==
    signalled' = IF session[s].process = "stopped" THEN signalled ELSE signalled \cup {s}

\* send_command, when the session's socket is connected
Send(s, command) ==
    LET id == calls + 1 IN
    /\ pending' = pending \cup {[id |-> id, session |-> s, command |-> command]}
    /\ commands' = [commands EXCEPT ![s] = Append(@, [id |-> id, command |-> command])]
    /\ UNCHANGED <<link, registered, inbox>>

\* _cleanup_session, unregister_session: the records of s go, not its DTO.
Forget(S) ==
    /\ sessionsById' = sessionsById \ S
    /\ deviceSession' = [h \in Hosts |->
           IF deviceSession[h] \in S THEN NoSession ELSE deviceSession[h]]

Unregister(s) ==
    /\ registered' = registered \ {s}
    /\ pending' = {r \in pending : r.session # s}
    /\ link' = [link EXCEPT ![s] = IF @ = "claimed" THEN "cut" ELSE @]
    /\ inbox' = [inbox EXCEPT ![s] = IF link[s] = "claimed" THEN <<>> ELSE @]
    /\ UNCHANGED commands

-----------------------------------------------------------------------------
(* Calls of the user *)

\* The device is gone, in development mode, the binary or the socket is
\* missing; also when the model has no session left.
OpenFails(h) ==
    /\ lastStates' = [lastStates EXCEPT ![h] = "error"]
    /\ refused' = refused \cup {h}
    /\ UNCHANGED <<registry, session, ipc, peer>>

Launch(h) ==
    LET s == created + 1 IN
    /\ created < MaxSessions
    /\ created' = s
    /\ sessionsById' = sessionsById \cup {s}
    /\ deviceSession' = [deviceSession EXCEPT ![h] = s]
    /\ registered' = registered \cup {s}
    /\ Update(s, [Nobody EXCEPT !.host = h, !.process = "starting",
                                !.window = "starting"], "starting")
    /\ os' = [os EXCEPT ![s] = "alive"]
    /\ UNCHANGED <<link, pending, inbox, commands, signalled, companion, refused>>

Focus(s) ==
    /\ IF UiState(session[s]) # "starting" /\ link[s] = "claimed"
       THEN Send(s, "focus")
       ELSE UNCHANGED ipc
    /\ UNCHANGED <<registry, session, lastStates, peer, refused>>

\* open, for a session that is closing, closed or in error
StopForRestart(s) ==
    /\ session' = [session EXCEPT ![s].restartRequested = TRUE]
    /\ Signal(s)
    /\ UNCHANGED <<registry, lastStates, ipc, os, companion, refused>>

\* Fault: an open while a session ends launches at once.
OpenAtOnce(h) ==
    LET s == SessionForDevice(h) IN
    \/ shuttingDown /\ UNCHANGED <<registry, session, lastStates, ipc, peer, refused>>
    \/ ~shuttingDown /\ s # NoSession /\ UiState(session[s]) = "open" /\ Focus(s)
    \/ ~shuttingDown /\ (s = NoSession \/ UiState(session[s]) # "open")
       /\ (Launch(h) \/ OpenFails(h))

Open(h) ==
    LET s == SessionForDevice(h)
        state == IF s = NoSession THEN "none" ELSE UiState(session[s]) IN
    \/ /\ shuttingDown \/ state = "starting"
       /\ UNCHANGED <<registry, session, lastStates, ipc, peer, refused>>
    \/ ~shuttingDown /\ state = "open" /\ Focus(s)
    \/ ~shuttingDown /\ state \in {"closed", "error"} /\ StopForRestart(s)
    \/ ~shuttingDown /\ state = "none" /\ (Launch(h) \/ OpenFails(h))

\* Fault: nothing stops a terminal that answers window.close and stays.
CloseTrusting(s, restart) ==
    /\ Update(s, [session[s] EXCEPT !.closeRequested = TRUE, !.window = "closing",
                                    !.restartRequested = @ \/ restart], "closed")
    /\ IF link[s] = "claimed"
       THEN Send(s, "close") /\ UNCHANGED <<signalled, fallbacks>>
       ELSE Signal(s) /\ UNCHANGED <<ipc, fallbacks>>
    /\ UNCHANGED <<registry, os, companion, refused>>

\* close and, with restart, restart: a session with a control channel is asked.
CloseSession(s, restart) ==
    /\ Update(s, [session[s] EXCEPT !.closeRequested = TRUE, !.window = "closing",
                                    !.restartRequested = @ \/ restart], "closed")
    /\ IF link[s] = "claimed"
       THEN Send(s, "close") /\ fallbacks' = fallbacks \cup {s} /\ UNCHANGED signalled
       ELSE Signal(s) /\ UNCHANGED <<ipc, fallbacks>>
    /\ UNCHANGED <<registry, os, companion, refused>>

Call ==
    /\ calls < MaxCalls
    /\ calls' = calls + 1
    /\ UNCHANGED <<shuttingDown, reopen>>

UserOpens(h) == Call /\ Open(h) /\ UNCHANGED fallbacks

\* close; restart of a host without a session is open.
UserCloses(h) ==
    LET s == SessionForDevice(h) IN
    /\ Call
    /\ \/ s # NoSession /\ CloseSession(s, FALSE)
       \/ /\ s = NoSession
          /\ lastStates' = [lastStates EXCEPT ![h] = "closed"]
          /\ UNCHANGED <<registry, session, ipc, fallbacks, peer, refused>>

UserRestarts(h) ==
    LET s == SessionForDevice(h) IN
    /\ Call
    /\ \/ s # NoSession /\ CloseSession(s, TRUE)
       \/ s = NoSession /\ Open(h) /\ UNCHANGED fallbacks

\* focus; set_title, ping and get_info also send in every state.
UserFocuses(h) ==
    LET s == SessionForDevice(h) IN
    /\ s # NoSession
    /\ Call
    /\ \/ Focus(s)
       \/ /\ link[s] = "claimed" /\ Send(s, "focus")
          /\ UNCHANGED <<registry, session, lastStates, peer, refused>>
    /\ UNCHANGED fallbacks

-----------------------------------------------------------------------------
(* Process events *)

ProcessStarted(s) ==
    LET dto == [session[s] EXCEPT !.process = "running"] IN
    /\ s \in sessionsById /\ session[s].process = "starting"
    /\ Update(s, dto, UiState(dto))
    /\ UNCHANGED <<registry, shuttingDown, reopen, fallbacks, ipc, peer, refused, calls>>

\* errorOccurred(FailedToStart)
StartFails(s) ==
    /\ s \in sessionsById /\ session[s].process = "starting"
    /\ os[s] = "alive" /\ companion[s] = "boot" /\ link[s] = "none"
    /\ os' = [os EXCEPT ![s] = "gone"]
    /\ Update(s, [session[s] EXCEPT !.process = "error", !.window = "error"], "error")
    /\ Forget({s}) /\ Unregister(s)
    /\ refused' = refused \cup {session[s].host}
    /\ UNCHANGED <<created, shuttingDown, reopen, fallbacks, signalled, companion, calls>>

\* _process_finished; a crash runs _process_error first, whose state the
\* same signal replaces.  The timer opens the host again.
Crashed(s) == os[s] = "crashed" \/ (os[s] = "failed" /\ ~session[s].closedReceived)

\* Fault: a session that was asked to close is not restarted.
ReopenUnlessClosing(s) ==
    session[s].restartRequested /\ ~session[s].closeRequested /\ ~shuttingDown

Reopens(s) == session[s].restartRequested /\ ~shuttingDown

ProcessFinished(s) ==
    LET error == Crashed(s) /\ ~session[s].closeRequested IN
    /\ s \in sessionsById /\ session[s].process # "starting"
    /\ os[s] \in {"clean", "failed", "crashed"}
    /\ os' = [os EXCEPT ![s] = "gone"]
    /\ Update(s, [session[s] EXCEPT
                    !.process = IF error THEN "error" ELSE "stopped",
                    !.window = IF os[s] = "crashed" THEN "error" ELSE @],
              IF error THEN "error" ELSE "closed")
    /\ Forget({s}) /\ Unregister(s)
    /\ reopen' = [reopen EXCEPT ![session[s].host] = IF Reopens(s) THEN @ + 1 ELSE @]
    /\ UNCHANGED <<created, shuttingDown, fallbacks, signalled, companion, refused, calls>>

-----------------------------------------------------------------------------
(* Timers *)

ReopenTimer(h) ==
    /\ reopen[h] > 0
    /\ reopen' = [reopen EXCEPT ![h] = @ - 1]
    /\ Open(h)
    /\ UNCHANGED <<shuttingDown, fallbacks, calls>>

\* Fault: the fallback stops the terminal the host has now.
FallbackOfHost(s) ==
    LET t == SessionForDevice(session[s].host) IN
    /\ s \in fallbacks
    /\ fallbacks' = fallbacks \ {s}
    /\ IF t # NoSession THEN Signal(t) ELSE UNCHANGED signalled
    /\ UNCHANGED <<registry, session, lastStates, shuttingDown, reopen, ipc, os,
                   companion, refused, calls>>

\* _close_fallback; a second timer of the session would find it signalled.
CloseFallback(s) ==
    /\ s \in fallbacks
    /\ fallbacks' = fallbacks \ {s}
    /\ IF s \in sessionsById THEN Signal(s) ELSE UNCHANGED signalled
    /\ UNCHANGED <<registry, session, lastStates, shuttingDown, reopen, ipc, os,
                   companion, refused, calls>>

\* Fault: any command that is not answered stops the terminal.
TimeoutStops(r) == TRUE

\* _command_timed_out
Stops(r) == r.command = "close"

\* _request_timed_out
RequestTimesOut(r) ==
    /\ r \in pending
    /\ pending' = pending \ {r}
    /\ IF r.session \in sessionsById /\ Stops(r) THEN Signal(r.session)
       ELSE UNCHANGED signalled
    /\ UNCHANGED <<registry, session, lastStates, shuttingDown, reopen, fallbacks,
                   link, registered, inbox, commands, os, companion, refused, calls>>

-----------------------------------------------------------------------------
(* Messages of the companion *)

\* The socket is aborted or closes; _ipc_disconnected shows the state again.
Disconnected(s) ==
    /\ link' = [link EXCEPT ![s] = "cut"]
    /\ inbox' = [inbox EXCEPT ![s] = <<>>]
    /\ IF s \in sessionsById /\ link[s] = "claimed"
       THEN Update(s, session[s], UiState(session[s]))
       ELSE UNCHANGED <<session, lastStates>>

LinkFails(s) ==
    /\ link[s] \in {"open", "claimed"}
    /\ Disconnected(s)
    /\ UNCHANGED <<registry, shuttingDown, reopen, fallbacks, registered, pending,
                   commands, peer, refused, calls>>

\* Fault: an event changes the session and QML is not told.
ApplyUnshown(s, type) ==
    session' = [session EXCEPT
        ![s].window = IF type = "ready" THEN "open"
                      ELSE IF type = "closed" THEN "closed" ELSE @,
        ![s].closedReceived = @ \/ type = "closed"]
    /\ UNCHANGED lastStates

\* handle_terminal_event; the companion sends no child.exited or terminal.error.
Apply(s, type) ==
    LET dto == [session[s] EXCEPT
            !.window = IF type = "ready" THEN "open"
                       ELSE IF type = "closed" THEN "closed" ELSE @,
            !.closedReceived = @ \/ type = "closed"] IN
    Update(s, dto, UiState(dto))

\* _read_socket, _handle_message; the first message claims the session.
ReadMessage(s) ==
    LET m == Head(inbox[s])
        known == {r \in pending : r.session = s /\ r.id = m.id} IN
    /\ link[s] \in {"open", "claimed"} /\ inbox[s] # <<>>
    /\ \/ /\ s \notin registered \/ (m.type = "response" /\ known = {})
          /\ Disconnected(s)
          /\ UNCHANGED pending
       \/ /\ s \in registered
          /\ link' = [link EXCEPT ![s] = "claimed"]
          /\ inbox' = [inbox EXCEPT ![s] = Tail(@)]
          /\ \/ /\ m.type = "response" /\ known # {}
                /\ pending' = pending \ known
                /\ UNCHANGED <<session, lastStates>>
             \/ /\ m.type # "response" /\ s \in sessionsById
                /\ Apply(s, m.type)
                /\ UNCHANGED pending
    /\ UNCHANGED <<registry, shuttingDown, reopen, fallbacks, registered, commands,
                   peer, refused, calls>>

-----------------------------------------------------------------------------
(* The companion process *)

Say(s, messages) == inbox' = [inbox EXCEPT ![s] = @ \o messages]

CompanionRest == <<registry, session, lastStates, shuttingDown, reopen, fallbacks,
                   registered, pending, refused, calls>>

\* NttpClient.spawn: terminal.started is written before any other event.
Connect(s) ==
    /\ os[s] = "alive" /\ link[s] = "none" /\ ~shuttingDown
    /\ link' = [link EXCEPT ![s] = "open"]
    /\ inbox' = [inbox EXCEPT ![s] = <<Event("started")>> \o @]
    /\ UNCHANGED <<commands, peer, CompanionRest>>

\* main: the event loop starts.
Ready(s) ==
    /\ os[s] = "alive" /\ companion[s] = "boot"
    /\ companion' = [companion EXCEPT ![s] = "up"]
    /\ IF link[s] = "cut" THEN UNCHANGED inbox ELSE Say(s, <<Event("ready")>>)
    /\ UNCHANGED <<link, commands, os, signalled, CompanionRest>>

\* handle_command; window.close before there are windows is lost.
Serve(s) ==
    LET c == Head(commands[s]) IN
    /\ os[s] = "alive" /\ link[s] = "claimed" /\ commands[s] # <<>>
    /\ commands' = [commands EXCEPT ![s] = Tail(@)]
    /\ Say(s, <<Response(c.id)>>)
    /\ companion' = [companion EXCEPT
           ![s] = IF c.command = "close" /\ @ = "up" THEN "exiting" ELSE @]
    /\ UNCHANGED <<link, os, signalled, CompanionRest>>

\* The user closes the window, or the SSH child ends.
WindowCloses(s) ==
    /\ os[s] = "alive" /\ companion[s] = "up"
    /\ companion' = [companion EXCEPT ![s] = "exiting"]
    /\ UNCHANGED <<link, inbox, commands, os, signalled, CompanionRest>>

\* The thread that writes terminal.closed is not joined.
Exit(s) ==
    /\ os[s] = "alive" /\ companion[s] = "exiting"
    /\ os' = [os EXCEPT ![s] = "clean"]
    /\ \/ link[s] # "cut" /\ Say(s, <<Event("closed")>>)
       \/ UNCHANGED inbox
    /\ UNCHANGED <<link, commands, signalled, companion, CompanionRest>>

\* The process dies, or exits with an error before its loop runs.
Die(s) ==
    /\ os[s] = "alive"
    /\ \/ os' = [os EXCEPT ![s] = "crashed"]
       \/ companion[s] = "boot" /\ os' = [os EXCEPT ![s] = "failed"]
    /\ UNCHANGED <<link, inbox, commands, signalled, companion, CompanionRest>>

Killed(s) == s \in signalled /\ Die(s)

-----------------------------------------------------------------------------
(* Quitting *)

\* shutdown: sessions whose process ends while waitForFinished waits run
\* their finished handler; the processes of the others are killed.
Shutdown ==
    /\ ~shuttingDown /\ shuttingDown' = TRUE
    /\ \E ended \in SUBSET sessionsById :
         /\ session' = [s \in Sessions |->
                IF s \in ended THEN [session[s] EXCEPT !.closeRequested = TRUE,
                                                       !.process = "stopped"]
                ELSE IF s \in sessionsById
                     THEN [session[s] EXCEPT !.closeRequested = TRUE]
                     ELSE session[s]]
         /\ lastStates' = [h \in Hosts |->
                LET s == deviceSession[h] IN
                IF s \in ended THEN "closed"
                ELSE IF s # NoSession /\ link[s] = "claimed" THEN UiState(session[s])
                     ELSE lastStates[h]]
         /\ os' = [s \in Sessions |-> IF s \in ended THEN "gone" ELSE os[s]]
         /\ Forget(ended)
         /\ signalled' = signalled \cup sessionsById
    /\ link' = [s \in Sessions |-> IF link[s] = "none" THEN "none" ELSE "cut"]
    /\ registered' = {} /\ pending' = {}
    /\ inbox' = [s \in Sessions |-> <<>>]
    /\ UNCHANGED <<created, reopen, fallbacks, commands, companion, refused, calls>>

Next ==
    \/ \E h \in Hosts :
         UserOpens(h) \/ UserCloses(h) \/ UserRestarts(h) \/ UserFocuses(h)
         \/ ReopenTimer(h)
    \/ \E s \in Sessions :
         \/ ProcessStarted(s) \/ StartFails(s) \/ ProcessFinished(s)
         \/ CloseFallback(s) \/ LinkFails(s) \/ ReadMessage(s)
         \/ Connect(s) \/ Ready(s) \/ Serve(s) \/ WindowCloses(s) \/ Exit(s) \/ Die(s)
    \/ \E r \in pending : RequestTimesOut(r)
    \/ Shutdown

Spec == Init /\ [][Next]_vars

\* Qt delivers process events and timers, and a signalled process ends.
\* Nothing is assumed of the user, the companion or its socket.
Fairness ==
    /\ \A s \in Sessions :
         /\ WF_vars(ProcessStarted(s)) /\ WF_vars(ProcessFinished(s))
         /\ WF_vars(CloseFallback(s)) /\ WF_vars(Killed(s))
    /\ \A h \in Hosts : WF_vars(ReopenTimer(h))

FairSpec == Spec /\ Fairness

-----------------------------------------------------------------------------
(* Properties *)

Dtos == [host : Hosts, process : {"starting", "running", "stopped", "error"},
         window : {"starting", "open", "closing", "closed", "error"},
         closedReceived : BOOLEAN, closeRequested : BOOLEAN,
         restartRequested : BOOLEAN]
Messages == [type : {"started", "ready", "closed", "response"}, id : Nat]
Commands == [id : Nat, command : {"focus", "close"}]

\* Every variable has its type.
TerminalTypeOK ==
    /\ created \in 0..MaxSessions
    /\ session \in [Sessions -> Dtos]
    /\ sessionsById \subseteq 1..created
    /\ deviceSession \in [Hosts -> Sessions \cup {NoSession}]
    /\ lastStates \in [Hosts -> {"closed", "starting", "open", "error"}]
    /\ shuttingDown \in BOOLEAN
    /\ reopen \in [Hosts -> Nat]
    /\ fallbacks \subseteq Sessions
    /\ link \in [Sessions -> {"none", "open", "claimed", "cut"}]
    /\ registered \subseteq Sessions
    /\ pending \subseteq [id : Nat, session : Sessions, command : {"focus", "close"}]
    /\ inbox \in [Sessions -> Seq(Messages)]
    /\ commands \in [Sessions -> Seq(Commands)]
    /\ os \in [Sessions -> {"none", "alive", "clean", "failed", "crashed", "gone"}]
    /\ signalled \subseteq Sessions
    /\ companion \in [Sessions -> {"boot", "up", "exiting"}]
    /\ refused \subseteq Hosts
    /\ calls \in 0..MaxCalls

\* A process that has not been reaped is the one session its host resolves to
\* (README, "one managed session per inventory host"): so a host never has
\* two terminals, and close and shutdown reach every process there is.
NoOrphan ==
    \A s \in Sessions : os[s] \notin {"none", "gone"} =>
        s \in sessionsById /\ deviceSession[session[s].host] = s

\* A terminal is stopped only because its user asked to close or restart that
\* session, or quit: not by a lost control channel, a command it did not
\* answer, or a timer left over from an earlier session of the host.
StopOnlyAsked ==
    \A s \in signalled : session[s].closeRequested \/ session[s].restartRequested

\* What QML was last told of a host is what state_for_device would answer,
\* except that a session asked to close is already shown closed.
ShownIsState ==
    \A h \in Hosts :
        LET s == SessionForDevice(h) IN
        IF s = NoSession THEN lastStates[h] \in {"closed", "error"}
        ELSE session[s].closeRequested \/ lastStates[h] = UiState(session[s])

\* A terminal that was asked to close ends, whatever its companion does.
CloseEnds ==
    \A s \in Sessions :
        (s \in sessionsById /\ session[s].closeRequested) ~> (os[s] = "gone")

\* A restart that was asked for starts a later session of the host, unless
\* the manager quits or a launch for the host fails.
RestartServed ==
    \A s \in Sessions :
        session[s].restartRequested ~>
            \/ \E t \in (s + 1)..created : session[t].host = session[s].host
            \/ shuttingDown
            \/ session[s].host \in refused
=============================================================================
