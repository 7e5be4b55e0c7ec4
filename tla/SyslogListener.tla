--------------------------- MODULE SyslogListener ---------------------------
(***************************************************************************)
(* features/syslog as the program runs it: the Qt manager, its QProcess    *)
(* bridge and the native collector (native/syslog_collector), which frames *)
(* and stores messages and prints one line for each.  The manager's slots  *)
(* run on the GUI thread; a slot that waits for the process is open        *)
(* between its first and its last step, and runs only the process's        *)
(* signals in between.                                                     *)
(***************************************************************************)
EXTENDS Integers, Sequences, FiniteSets, SequencesExt

CONSTANTS
    Projects,     \* message databases of the workspaces
    Clients,      \* TCP peers
    Udp,          \* the source of datagrams
    Streams,      \* what a peer sends: sequences of Bytes
    MaxMessageBytes,
    MaxTcpClients,
    MaxDatagrams, \* bound: datagrams of an accepted size
    MaxCalls,     \* bound: calls of the manager
    MaxFailures   \* bound: failed inserts, failed starts and crashes

\* A byte of a message, CR and LF
Bytes == {"x", "r", "n"}

ASSUME SourceAssumption == Udp \notin Clients
ASSUME StreamAssumption == Streams \subseteq Seq(Bytes)
ASSUME SyslogBoundAssumption ==
    {MaxMessageBytes, MaxTcpClients, MaxDatagrams, MaxCalls, MaxFailures} \subseteq Nat

Sources == Clients \cup {Udp}

VARIABLES
    repository,   \* database of the open workspace
    state,        \* listenerState
    quit,         \* _shutdown
    slot,         \* the slot that waits: what it does once the process has ended
    process,      \* "none", "boot", "serve", or "dead" when Qt has not yet noticed
    database,     \* the --info-db it was launched with
    pipe,         \* lines printed and not yet drained
    ready,        \* _ready_message is set
    terminated,   \* SIGTERM was sent
    connected,    \* TCP clients
    unread,       \* bytes a client sent that were not received
    consumed,     \* ghost: bytes received from a client
    buffer,
    count,        \* ghost: messages taken from a source
    work,         \* messages still to store in this poll
    inserted,     \* the first of them is in the database
    stored,       \* messages of each database
    committed,    \* ghost: messages ever stored
    dropped,      \* ghost: messages counted as dropped
    lost,         \* ghost: messages the collector was working on when it died
    shown,        \* rows given to QML, in order
    troubled,     \* ghost: the manager showed "error" since the last launch
    calls, failures

manager == <<repository, state, quit, slot, calls>>
launch == <<process, database, ready, terminated, troubled>>
sockets == <<connected, unread, consumed, buffer, count>>
store == <<work, inserted, stored, committed, dropped, lost>>
vars == <<manager, launch, pipe, sockets, store, shown, failures>>

Running == process # "none"

Init ==
    /\ repository \in Projects
    /\ state = "stopped" /\ quit = FALSE /\ slot = "none"
    /\ process = "none" /\ database = repository
    /\ pipe = <<>> /\ ready = FALSE /\ terminated = FALSE /\ troubled = FALSE
    /\ connected = {}
    /\ unread \in [Clients -> Streams]
    /\ consumed = [c \in Clients |-> <<>>]
    /\ buffer = [c \in Clients |-> <<>>]
    /\ count = [s \in Sources |-> 0]
    /\ work = <<>> /\ inserted = FALSE
    /\ stored = [p \in Projects |-> {}]
    /\ committed = {} /\ dropped = {} /\ lost = {}
    /\ shown = <<>>
    /\ calls = 0 /\ failures = 0

-----------------------------------------------------------------------------
(* Framing of a TCP stream *)

\* Where the lines of the bytes end
Newlines(bytes) == {i \in DOMAIN bytes : bytes[i] = "n"}

\* The last newline before position i, or 0
NewlineBefore(bytes, i) == Max({0} \cup {j \in Newlines(bytes) : j < i})

\* The line that ends before position i
Line(bytes, i) == SubSeq(bytes, NewlineBefore(bytes, i) + 1, i - 1)

\* What stays in the buffer: what follows the last newline
Rest(bytes) == Line(bytes, Len(bytes) + 1)

StripReturn(line) ==
    IF line # <<>> /\ Last(line) = "r" THEN Front(line) ELSE line

\* The non-empty lines, each by its end: the messages of the bytes
Frames(bytes) == {i \in Newlines(bytes) : StripReturn(Line(bytes, i)) # <<>>}

-----------------------------------------------------------------------------
(* The collector process *)

\* Messages number count + 1 .. count + n of a source
Messages(s, n) == [i \in 1..n |-> <<s, count[s] + i>>]

Idle == process = "serve" /\ work = <<>>

WriteLines(lines) == pipe' = pipe \o lines

\* main: configuration, databases and sockets are there, or it exits with 1.
Boot ==
    /\ process = "boot"
    /\ \/ /\ process' = "serve"
          /\ WriteLines(<<[type |-> "ready"]>>)
          /\ UNCHANGED failures
       \/ /\ failures < MaxFailures /\ failures' = failures + 1
          /\ process' = "dead"
          /\ WriteLines(<<[type |-> "error"]>>)
    /\ UNCHANGED <<manager, database, ready, terminated, troubled, sockets, store, shown>>

\* A datagram over the limit is ignored.
ReceiveUdp ==
    /\ Idle
    /\ count[Udp] < MaxDatagrams
    /\ work' = Messages(Udp, 1)
    /\ count' = [count EXCEPT ![Udp] = @ + 1]
    /\ UNCHANGED <<manager, launch, pipe, connected, unread, consumed, buffer,
                   inserted, stored, committed, dropped, lost, shown, failures>>

\* A client over the limit is closed at once, with what it sent.
AcceptTcp(c) ==
    /\ Idle
    /\ c \notin connected /\ consumed[c] = <<>> /\ unread[c] # <<>>
    /\ IF Cardinality(connected) >= MaxTcpClients
       THEN unread' = [unread EXCEPT ![c] = <<>>] /\ UNCHANGED connected
       ELSE connected' = connected \cup {c} /\ UNCHANGED unread
    /\ UNCHANGED <<manager, launch, pipe, consumed, buffer, count, store, shown, failures>>

\* Fault: a line is looked for in the chunk alone.
ReceiveChunkAlone(c, n) ==
    LET chunk == SubSeq(unread[c], 1, n)
        bytes == buffer[c] \o chunk IN
    /\ work' = Messages(c, Cardinality(Frames(chunk)))
    /\ count' = [count EXCEPT ![c] = @ + Cardinality(Frames(chunk))]
    /\ buffer' = [buffer EXCEPT ![c] = Rest(bytes)]
    /\ connected' = connected

\* Fault: the lines stored stay in the buffer.
ReceiveUnerased(c, n) ==
    LET bytes == buffer[c] \o SubSeq(unread[c], 1, n) IN
    /\ work' = Messages(c, Cardinality(Frames(bytes)))
    /\ count' = [count EXCEPT ![c] = @ + Cardinality(Frames(bytes))]
    /\ buffer' = [buffer EXCEPT ![c] = bytes]
    /\ connected' = connected

\* receive_tcp: the complete lines are stored, and a client whose last line
\* is already over the limit is closed.
ReceiveChunk(c, n) ==
    LET bytes == buffer[c] \o SubSeq(unread[c], 1, n) IN
    /\ work' = Messages(c, Cardinality(Frames(bytes)))
    /\ count' = [count EXCEPT ![c] = @ + Cardinality(Frames(bytes))]
    /\ buffer' = [buffer EXCEPT ![c] = Rest(bytes)]
    /\ connected' = IF Len(Rest(bytes)) > MaxMessageBytes
                    THEN connected \ {c} ELSE connected

ReceiveTcp(c) ==
    /\ Idle /\ c \in connected
    /\ \E n \in DOMAIN unread[c] :
         /\ ReceiveChunk(c, n)
         /\ consumed' = [consumed EXCEPT ![c] = @ \o SubSeq(unread[c], 1, n)]
         /\ unread' = [unread EXCEPT ![c] = SubSeq(@, n + 1, Len(@))]
    /\ UNCHANGED <<manager, launch, pipe, inserted, stored, committed, dropped,
                   lost, shown, failures>>

\* The peer closed: what it sent last needs no newline.
EndTcp(c) ==
    /\ Idle /\ c \in connected /\ unread[c] = <<>>
    /\ work' = Messages(c, IF buffer[c] = <<>> THEN 0 ELSE 1)
    /\ count' = [count EXCEPT ![c] = @ + Len(work')]
    /\ connected' = connected \ {c}
    /\ UNCHANGED <<manager, launch, pipe, unread, consumed, buffer, inserted, stored,
                   committed, dropped, lost, shown, failures>>

\* store: the row is committed before its line is printed.
Insert ==
    /\ process = "serve" /\ work # <<>> /\ ~inserted
    /\ stored' = [stored EXCEPT ![database] = @ \cup {Head(work)}]
    /\ committed' = committed \cup {Head(work)}
    /\ inserted' = TRUE
    /\ UNCHANGED <<manager, launch, pipe, sockets, work, dropped, lost, shown, failures>>

\* Fault: the line does not wait for the row.
Committed(m) == TRUE

IsCommitted(m) == inserted

EmitMessage ==
    /\ process = "serve" /\ work # <<>> /\ IsCommitted(Head(work))
    /\ WriteLines(<<[type |-> "message", row |-> Head(work)]>>)
    /\ work' = Tail(work) /\ inserted' = FALSE
    /\ UNCHANGED <<manager, launch, sockets, stored, committed, dropped, lost, shown,
                   failures>>

\* Fault: a message that could not be stored is not counted.
DropSilently == dropped' = dropped

CountDrop == dropped' = dropped \cup {Head(work)}

InsertFails ==
    /\ process = "serve" /\ work # <<>> /\ ~inserted
    /\ failures < MaxFailures /\ failures' = failures + 1
    /\ CountDrop
    /\ WriteLines(<<[type |-> "dropped"], [type |-> "error"]>>)
    /\ work' = Tail(work)
    /\ UNCHANGED <<manager, launch, sockets, inserted, stored, committed, lost, shown>>

\* The process is gone; what it had in memory goes with it.
Dies ==
    /\ process' = "dead"
    /\ connected' = {}
    /\ unread' = [c \in Clients |-> IF c \in connected THEN <<>> ELSE unread[c]]
    /\ lost' = lost \cup ToSet(work)
    /\ work' = <<>> /\ inserted' = FALSE
    /\ UNCHANGED <<manager, database, ready, terminated, troubled, pipe, consumed,
                   buffer, count, stored, committed, dropped, shown>>

\* run() returns after the poll in which SIGTERM came.
Terminate == terminated /\ Idle /\ Dies /\ UNCHANGED failures

Crash ==
    /\ process \in {"boot", "serve"}
    /\ failures < MaxFailures /\ failures' = failures + 1
    /\ Dies

-----------------------------------------------------------------------------
(* The bridge *)

\* Fault: rows that come while the manager shows an error are not shown.
ShowListening(line) ==
    IF line.type = "message" /\ state = "listening" THEN Append(shown, line.row) ELSE shown

\* _messages_stored
Show(line) == IF line.type = "message" THEN Append(shown, line.row) ELSE shown

\* _handle_event and the manager's slots for its signals
Drain ==
    LET line == Head(pipe) IN
    /\ pipe # <<>>
    /\ pipe' = Tail(pipe)
    /\ ready' = (ready \/ line.type = "ready")
    /\ shown' = Show(line)
    /\ state' = IF line.type = "error" THEN "error" ELSE state
    /\ troubled' = (troubled \/ line.type = "error")
    /\ UNCHANGED <<repository, quit, slot, calls, process, database, terminated,
                   sockets, store, failures>>

\* QProcess.finished, once its output has been read
ReapProcess == process = "dead" /\ pipe = <<>> /\ process' = "none"

\* _native_stopped
StateOnExit ==
    IF ~quit /\ state \notin {"stopped", "stopping", "error"} THEN "error" ELSE state

Finished ==
    /\ slot = "none" /\ ReapProcess
    /\ state' = StateOnExit
    /\ troubled' = (troubled \/ state' = "error")
    /\ UNCHANGED <<repository, quit, slot, calls, database, ready, terminated, pipe,
                   sockets, store, shown, failures>>

-----------------------------------------------------------------------------
(* Slots of the manager *)

Refuses == quit \/ state \in {"starting", "listening"}

\* startServer on database db, after the process of before is gone or not
LaunchOn(db) ==
    \/ /\ process = "none"
       /\ process' = "boot" /\ database' = db
       /\ ready' = FALSE /\ terminated' = FALSE /\ troubled' = FALSE
       /\ state' = "starting" /\ slot' = "start"
       /\ UNCHANGED failures
    \/ /\ process # "none"
       /\ state' = "listening" /\ slot' = "none"
       /\ UNCHANGED <<launch, failures>>
    \/ /\ failures < MaxFailures /\ failures' = failures + 1  \* retention, no binary
       /\ state' = "error" /\ troubled' = TRUE
       /\ slot' = IF process = "none" THEN "none" ELSE "fail"
       /\ terminated' = (process # "none")
       /\ UNCHANGED <<process, database, ready>>

Called ==
    /\ slot = "none" /\ ~quit
    /\ calls < MaxCalls /\ calls' = calls + 1

StartServer ==
    /\ Called /\ ~Refuses
    /\ LaunchOn(repository)
    /\ UNCHANGED <<repository, quit, pipe, sockets, store, shown>>

\* The end of startServer: the collector said it is ready,
Ready ==
    /\ slot = "start" /\ ready
    /\ state' = "listening" /\ slot' = "none"
    /\ UNCHANGED <<repository, quit, calls, launch, pipe, sockets, store, shown, failures>>

\* or it did not within two seconds, or has ended.
NotReady ==
    /\ slot = "start" /\ ~ready
    /\ (process = "dead" /\ pipe = <<>>) \/ failures < MaxFailures
    /\ failures' = IF process = "dead" THEN failures ELSE failures + 1
    /\ state' = "error" /\ troubled' = TRUE
    /\ slot' = "fail" /\ terminated' = TRUE
    /\ UNCHANGED <<repository, quit, calls, process, database, ready, pipe, sockets,
                   store, shown>>

\* native.stop begins for the slot next; a process is ended first.
StopFor(next) ==
    /\ state' = "stopping"
    /\ slot' = next
    /\ terminated' = TRUE
    /\ UNCHANGED <<process, database, ready, troubled>>

StopServer ==
    /\ Called /\ state # "stopped"
    /\ IF Running THEN StopFor("stop")
       ELSE state' = "stopped" /\ slot' = "none" /\ UNCHANGED launch
    /\ UNCHANGED <<repository, quit, pipe, sockets, store, shown, failures>>

\* Fault: the collector is not stopped before the database changes.
SwitchRunning(p) ==
    /\ Called /\ p # repository
    /\ repository' = p
    /\ UNCHANGED <<state, slot, launch, failures, quit, pipe, sockets, store, shown>>

\* route_active_workspace -> set_database_paths, then the start on opening
\* when that is enabled.  Only a listener shown as running is stopped.
SwitchProject(p) ==
    /\ Called /\ p # repository
    /\ repository' = p
    /\ IF state = "listening" /\ Running THEN StopFor("restart") /\ UNCHANGED failures
       ELSE \/ state = "stopped" /\ LaunchOn(p)
            \/ UNCHANGED <<state, slot, launch, failures>>
    /\ UNCHANGED <<quit, pipe, sockets, store, shown>>

\* resetLogData: the rows of one host or of all, with the listener stopped.
Reset ==
    /\ \E rows \in SUBSET stored[repository] :
         stored' = [stored EXCEPT ![repository] = @ \ rows]
    /\ UNCHANGED <<work, inserted, committed, dropped, lost>>

ResetLogData ==
    /\ Called
    /\ IF state = "listening" /\ Running
       THEN StopFor("reset") /\ UNCHANGED store
       ELSE Reset /\ UNCHANGED <<state, slot, launch>>
    /\ UNCHANGED <<repository, quit, pipe, sockets, shown, failures>>

\* shutdown
Quit ==
    /\ slot = "none" /\ ~quit
    /\ quit' = TRUE
    /\ terminated' = TRUE
    /\ slot' = IF Running THEN "quit" ELSE "none"
    /\ UNCHANGED <<repository, state, calls, process, database, ready, troubled, pipe,
                   sockets, store, shown, failures>>

\* The process did not end in 1.5 seconds: SIGKILL
Kill ==
    /\ slot \in {"fail", "stop", "restart", "reset", "quit"}
    /\ process \in {"boot", "serve"}
    /\ Dies /\ UNCHANGED failures

\* waitForFinished returns and the slot goes on.
StopEnds ==
    /\ slot \in {"fail", "stop", "quit"} /\ ReapProcess
    /\ slot' = "none"
    /\ state' = IF slot = "stop" THEN "stopped" ELSE state
    /\ UNCHANGED <<repository, quit, calls, database, ready, terminated, troubled,
                   pipe, sockets, store, shown, failures>>

\* The process of before is gone: the listener starts again.
Relaunches ==
    /\ slot \in {"restart", "reset"} /\ process = "dead" /\ pipe = <<>>
    /\ IF slot = "reset" THEN Reset ELSE UNCHANGED store
    /\ \/ /\ process' = "boot" /\ database' = repository
          /\ ready' = FALSE /\ terminated' = FALSE /\ troubled' = FALSE
          /\ state' = "starting" /\ slot' = "start"
          /\ UNCHANGED failures
       \/ /\ failures < MaxFailures /\ failures' = failures + 1
          /\ process' = "none" /\ state' = "error" /\ slot' = "none"
          /\ troubled' = TRUE
          /\ UNCHANGED <<database, ready, terminated>>
    /\ UNCHANGED <<repository, quit, calls, pipe, sockets, shown>>

Collector ==
    \/ Boot \/ ReceiveUdp \/ Insert \/ EmitMessage \/ InsertFails \/ Terminate \/ Crash
    \/ \E c \in Clients : AcceptTcp(c) \/ ReceiveTcp(c) \/ EndTcp(c)

Next ==
    \/ Collector
    \/ Drain \/ Finished
    \/ StartServer \/ Ready \/ NotReady \/ StopServer \/ ResetLogData \/ Quit
    \/ Kill \/ StopEnds \/ Relaunches
    \/ \E p \in Projects : SwitchProject(p)

Spec == Init /\ [][Next]_vars

\* Qt delivers lines, the end of the process and the end of a wait; a live
\* collector goes on with the message it has.
Fairness ==
    /\ WF_vars(Drain) /\ WF_vars(Finished) /\ WF_vars(EmitMessage)
    /\ WF_vars(Ready) /\ WF_vars(Kill) /\ WF_vars(StopEnds) /\ WF_vars(Relaunches)

FairSpec == Spec /\ Fairness

-----------------------------------------------------------------------------
(* Properties *)

\* The lines of a stream, and what follows the last one
MostMessages(s) == Cardinality(Frames(s)) + (IF Rest(s) = <<>> THEN 0 ELSE 1)

AllMessages ==
    {Udp} \X (1..MaxDatagrams) \cup
    Clients \X UNION {1..MostMessages(s) : s \in Streams}

\* Every variable has its type.
SyslogTypeOK ==
    /\ repository \in Projects /\ database \in Projects
    /\ state \in {"stopped", "starting", "listening", "stopping", "error"}
    /\ slot \in {"none", "start", "fail", "stop", "restart", "reset", "quit"}
    /\ process \in {"none", "boot", "serve", "dead"}
    /\ {quit, ready, terminated, troubled, inserted} \subseteq BOOLEAN
    /\ connected \subseteq Clients
    /\ ToSet(work) \cup committed \cup dropped \cup lost \cup ToSet(shown)
          \subseteq AllMessages
    /\ \A p \in Projects : stored[p] \subseteq committed
    /\ calls \in 0..MaxCalls /\ failures \in 0..MaxFailures

\* Whatever the chunks a TCP stream arrives in, the messages taken from it are
\* its non-empty lines, with what follows the last newline when the peer
\* closes; and each message taken is stored, counted as dropped, still being
\* stored, or was being stored when the collector was killed.
NothingLostQuietly ==
    /\ \A c \in Clients :
         LET lines == Cardinality(Frames(consumed[c])) IN
         \/ count[c] = lines
         \/ /\ count[c] = lines + 1 /\ c \notin connected
            /\ unread[c] = <<>> /\ Rest(consumed[c]) # <<>>
    /\ \A s \in Sources : \A k \in 1..count[s] :
         <<s, k>> \in committed \cup dropped \cup lost \cup ToSet(work)

\* QML is given a row only after it is stored, once, and the rows of a source
\* in the order they came (SYSTEM_LOGS.md, the event follows the commit).
ShownAfterStored ==
    /\ ToSet(shown) \subseteq committed
    /\ \A i, j \in DOMAIN shown :
         i < j /\ shown[i][1] = shown[j][1] => shown[i][2] < shown[j][2]

\* Between slots, a collector whose manager has shown no error since it was
\* launched writes to the database of the open workspace (main.py keeps the
\* runtime services on the databases of the active project).  One whose
\* manager shows "error" is not stopped when the project is switched.
FollowsUnlessTroubled ==
    process \in {"boot", "serve"} /\ slot = "none" /\ ~troubled =>
        database = repository

\* A stored row reaches QML unless the collector died before printing it.
RowsShown ==
    \A m \in AllMessages : (m \in committed) ~> (m \in ToSet(shown) \cup lost)
=============================================================================
