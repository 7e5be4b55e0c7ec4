--------------------------- MODULE SessionRegistry ---------------------------
(***************************************************************************)
(* infrastructure/network/session_registry.py: the owner of the reusable   *)
(* CLI sessions, one SessionEntry per host, shared by the GUI thread, the  *)
(* background tasks and the batch workers.                                 *)
(*                                                                         *)
(* Every block under the registry lock (self._lock) takes no other lock,   *)
(* so each one is a single step.  An entry's operation_lock is held over   *)
(* device I/O: taking it, working under it and releasing it are steps of   *)
(* their own.  Entries and connectors are numbered in order of creation;   *)
(* 0 stands for None.                                                      *)
(***************************************************************************)
EXTENDS Integers, FiniteSets

CONSTANTS
    Hosts,          \* device hosts
    Threads,        \* threads that call the registry
    NoThread,       \* owner of a free operation_lock
    Kinds,          \* the registry methods the threads call
    MaxEntries,     \* bound: SessionEntry objects ever created
    MaxConnectors,  \* bound: connectors that ever get connected
    MaxCalls        \* bound: calls each thread makes

AllKinds == {"open", "close", "close_all", "execute"}

ASSUME KindsAssumption == Kinds \subseteq AllKinds
ASSUME HostAssumption == Hosts # {}
ASSUME ThreadAssumption == NoThread \notin Threads
ASSUME BoundAssumption == /\ MaxEntries \in Nat
                          /\ MaxConnectors \in Nat
                          /\ MaxCalls \in Nat

None == 0
Entries == 1 .. MaxEntries
Connectors == 1 .. MaxConnectors

VARIABLES
    sessions,    \* self._sessions: host -> the registered entry, or None
    created,     \* number of entries created so far
    owner,       \* thread that holds entry.operation_lock
    connector,   \* entry.connector
    state,       \* entry.state
    generation,  \* entry.generation
    link,        \* connector -> "none" (not made), "up" or "down"
    reaping,     \* connectors handed to close_all's disconnect threads
    pc,          \* what each thread does next
    call,        \* local: the host of the call
    ent,         \* local: entry of the innermost open/close/execute
    outer,       \* local: execute's entry while its nested open runs
    existing,    \* local: execute's `existing`
    conn,        \* local: connector being opened or disconnected
    seen,        \* local: execute's `generation`
    todo,        \* local: close_all's entries not yet read
    waitFor,     \* local: connectors whose disconnect close_all joins
    calls        \* calls made so far

shared == <<sessions, created, owner, connector, state, generation,
            link, reaping>>
locals == <<pc, call, ent, outer, existing, conn, seen, todo, waitFor, calls>>
vars == <<shared, locals>>

States == {"closed", "opening", "connected", "error", "closing", "stale"}

PCs == {"idle", "open_lock", "open_check", "connecting", "preparing",
        "close_lock", "close_take", "disconnecting", "close_pop",
        "exec_entry", "exec_lock", "exec_check", "exec_open", "exec_opened",
        "exec_rejected", "exec_prepare", "operating", "reading", "joining"}

Init ==
    /\ sessions = [h \in Hosts |-> None]
    /\ created = 0
    /\ owner = [e \in Entries |-> NoThread]
    /\ connector = [e \in Entries |-> None]
    /\ state = [e \in Entries |-> "closed"]
    /\ generation = [e \in Entries |-> 0]
    /\ link = [c \in Connectors |-> "none"]
    /\ reaping = {}
    /\ pc = [t \in Threads |-> "idle"]
    /\ call = [t \in Threads |-> CHOOSE h \in Hosts : TRUE]
    /\ ent = [t \in Threads |-> None]
    /\ outer = [t \in Threads |-> None]
    /\ existing = [t \in Threads |-> None]
    /\ conn = [t \in Threads |-> None]
    /\ seen = [t \in Threads |-> 0]
    /\ todo = [t \in Threads |-> {}]
    /\ waitFor = [t \in Threads |-> {}]
    /\ calls = [t \in Threads |-> 0]

-----------------------------------------------------------------------------
(* Helpers *)

Alive(c) == c # None /\ link[c] = "up"

Disconnect(cs) ==
    link' = [c \in Connectors |-> IF c \in cs THEN "down" ELSE link[c]]

EntryOf(h) == IF sessions[h] = None THEN created + 1 ELSE sessions[h]

\* _entry(host): the registered entry, or a new one put in its place.
Register(h) ==
    /\ EntryOf(h) \in Entries
    /\ sessions' = [sessions EXCEPT ![h] = EntryOf(h)]
    /\ created' = IF sessions[h] = None THEN created + 1 ELSE created

GetConnector(h) ==
    IF sessions[h] # None /\ Alive(connector[sessions[h]])
    THEN connector[sessions[h]]
    ELSE None

Goto(t, p) == pc' = [pc EXCEPT ![t] = p]

Begin(t, kind, h, p) ==
    /\ pc[t] = "idle"
    /\ kind \in Kinds
    /\ calls[t] < MaxCalls
    /\ calls' = [calls EXCEPT ![t] = @ + 1]
    /\ call' = [call EXCEPT ![t] = h]
    /\ Goto(t, p)

\* Fault: the lock is entered whoever holds it.
TakeLockUnchecked(t, from, to) ==
    /\ pc[t] = from
    /\ owner' = [owner EXCEPT ![ent[t]] = t]
    /\ Goto(t, to)
    /\ UNCHANGED <<sessions, created, connector, state, generation, link,
                   reaping, call, ent, outer, existing, conn, seen, todo,
                   waitFor, calls>>

\* RLock.acquire: the thread that holds the lock may take it again.
TakeLock(t, from, to) ==
    /\ pc[t] = from
    /\ owner[ent[t]] \in {NoThread, t}
    /\ owner' = [owner EXCEPT ![ent[t]] = t]
    /\ Goto(t, to)
    /\ UNCHANGED <<sessions, created, connector, state, generation, link,
                   reaping, call, ent, outer, existing, conn, seen, todo,
                   waitFor, calls>>

\* Fault: the lock is never given back.
ReleaseLockForgotten(t) == UNCHANGED owner

\* RLock.release: a nested open gives its hold back and execute keeps its own.
ReleaseLock(t) ==
    owner' = [owner EXCEPT ![ent[t]] = IF outer[t] = ent[t] THEN t ELSE NoThread]

SetState(t, s) == state' = [state EXCEPT ![ent[t]] = s]

\* entry.connector = c; entry.generation += 1; the previous one is disconnected.
Install(t, c) ==
    /\ connector' = [connector EXCEPT ![ent[t]] = c]
    /\ generation' = [generation EXCEPT ![ent[t]] = @ + 1]
    /\ SetState(t, "connected")
    /\ Disconnect({connector[ent[t]]})

-----------------------------------------------------------------------------
(* open(host), called by a client or by execute *)

OpenCall(t, h) ==
    /\ Begin(t, "open", h, "open_lock")
    /\ Register(h)
    /\ ent' = [ent EXCEPT ![t] = EntryOf(h)]
    /\ UNCHANGED <<owner, connector, state, generation, link, reaping, outer,
                   existing, conn, seen, todo, waitFor>>

OpenNested(t) ==
    /\ pc[t] = "exec_open"
    /\ Register(call[t])
    /\ ent' = [ent EXCEPT ![t] = EntryOf(call[t])]
    /\ outer' = [outer EXCEPT ![t] = ent[t]]
    /\ Goto(t, "open_lock")
    /\ UNCHANGED <<owner, connector, state, generation, link, reaping, call,
                   existing, conn, seen, todo, waitFor, calls>>

OpenLock(t) == TakeLock(t, "open_lock", "open_check")

\* Leaving open: to the client, or back into execute with the result.
LeaveOpen(t, ok) ==
    /\ ReleaseLock(t)
    /\ ent' = [ent EXCEPT ![t] = outer[t]]
    /\ outer' = [outer EXCEPT ![t] = None]
    /\ conn' = [conn EXCEPT ![t] = None]
    /\ Goto(t, IF outer[t] = None THEN "idle"
               ELSE IF ok THEN "exec_opened" ELSE "exec_rejected")
    /\ UNCHANGED <<sessions, created, reaping, call, existing, seen, todo,
                   waitFor, calls>>

OpenAlready(t) ==
    /\ pc[t] = "open_check"
    /\ Alive(connector[ent[t]])
    /\ SetState(t, "connected")
    /\ LeaveOpen(t, TRUE)
    /\ UNCHANGED <<connector, generation, link>>

\* The device is unknown, in development mode or of an unsupported method, or
\* loading it raises (the state is then left as it was).
OpenRefused(t) ==
    /\ pc[t] = "open_check"
    /\ ~Alive(connector[ent[t]])
    /\ \E s \in {"error", "closed", state[ent[t]]} : SetState(t, s)
    /\ LeaveOpen(t, FALSE)
    /\ UNCHANGED <<connector, generation, link>>

\* Fault: a state the interface does not know.
OpenConnectingUnknownState(t) ==
    /\ pc[t] = "open_check"
    /\ ~Alive(connector[ent[t]])
    /\ SetState(t, "open")
    /\ Goto(t, "connecting")
    /\ UNCHANGED <<sessions, created, owner, connector, generation, link,
                   reaping, call, ent, outer, existing, conn, seen, todo,
                   waitFor, calls>>

OpenConnecting(t) ==
    /\ pc[t] = "open_check"
    /\ ~Alive(connector[ent[t]])
    /\ SetState(t, "opening")
    /\ Goto(t, "connecting")
    /\ UNCHANGED <<sessions, created, owner, connector, generation, link,
                   reaping, call, ent, outer, existing, conn, seen, todo,
                   waitFor, calls>>

OpenConnectFailed(t) ==
    /\ pc[t] = "connecting"
    /\ SetState(t, "error")
    /\ LeaveOpen(t, FALSE)
    /\ UNCHANGED <<connector, generation, link>>

OpenConnected(t) ==
    /\ pc[t] = "connecting"
    /\ \E c \in Connectors :
          /\ link[c] = "none"
          /\ \A d \in Connectors : link[d] = "none" => c <= d
          /\ link' = [link EXCEPT ![c] = "up"]
          /\ conn' = [conn EXCEPT ![t] = c]
    /\ Goto(t, "preparing")
    /\ UNCHANGED <<sessions, created, owner, connector, state, generation,
                   reaping, call, ent, outer, existing, seen, todo, waitFor,
                   calls>>

OpenInstalled(t) ==
    /\ pc[t] = "preparing"
    /\ Install(t, conn[t])
    /\ LeaveOpen(t, TRUE)

\* Fault: the connector of a failed open is left connected.
OpenPrepareFailedKeepsLink(t) ==
    /\ pc[t] = "preparing"
    /\ SetState(t, "error")
    /\ LeaveOpen(t, FALSE)
    /\ UNCHANGED <<connector, generation, link>>

OpenPrepareFailed(t) ==
    /\ pc[t] = "preparing"
    /\ Disconnect({conn[t]})
    /\ SetState(t, "error")
    /\ LeaveOpen(t, FALSE)
    /\ UNCHANGED <<connector, generation>>

Open(t) ==
    \/ \E h \in Hosts : OpenCall(t, h)
    \/ OpenNested(t) \/ OpenLock(t)
    \/ OpenAlready(t) \/ OpenRefused(t) \/ OpenConnecting(t)
    \/ OpenConnectFailed(t) \/ OpenConnected(t)
    \/ OpenInstalled(t) \/ OpenPrepareFailed(t)

-----------------------------------------------------------------------------
(* close(host) *)

CloseNothing(t, h) ==
    /\ Begin(t, "close", h, "idle")
    /\ sessions[h] = None
    /\ UNCHANGED <<shared, ent, outer, existing, conn, seen, todo, waitFor>>

CloseCall(t, h) ==
    /\ Begin(t, "close", h, "close_lock")
    /\ sessions[h] # None
    /\ ent' = [ent EXCEPT ![t] = sessions[h]]
    /\ UNCHANGED <<shared, outer, existing, conn, seen, todo, waitFor>>

\* Fault: close does not wait for a running operation.
CloseLockSkipped(t) ==
    /\ pc[t] = "close_lock"
    /\ Goto(t, "close_take")
    /\ UNCHANGED <<shared, call, ent, outer, existing, conn, seen, todo,
                   waitFor, calls>>

CloseLock(t) == TakeLock(t, "close_lock", "close_take")

CloseTake(t) ==
    /\ pc[t] = "close_take"
    /\ SetState(t, "closing")
    /\ conn' = [conn EXCEPT ![t] = connector[ent[t]]]
    /\ connector' = [connector EXCEPT ![ent[t]] = None]
    /\ Goto(t, "disconnecting")
    /\ UNCHANGED <<sessions, created, owner, generation, link, reaping, call,
                   ent, outer, existing, seen, todo, waitFor, calls>>

\* Fault: the entry is left in state "closing".
CloseDisconnectedKeepsState(t) ==
    /\ pc[t] = "disconnecting"
    /\ Disconnect({conn[t]})
    /\ ReleaseLock(t)
    /\ conn' = [conn EXCEPT ![t] = None]
    /\ Goto(t, "close_pop")
    /\ UNCHANGED <<sessions, created, connector, state, generation, reaping,
                   call, ent, outer, existing, seen, todo, waitFor, calls>>

CloseDisconnected(t) ==
    /\ pc[t] = "disconnecting"
    /\ Disconnect({conn[t]})
    /\ SetState(t, "closed")
    /\ ReleaseLock(t)
    /\ conn' = [conn EXCEPT ![t] = None]
    /\ Goto(t, "close_pop")
    /\ UNCHANGED <<sessions, created, connector, generation, reaping, call,
                   ent, outer, existing, seen, todo, waitFor, calls>>

\* Fault: the closed entry is put back.
ClosePopPutsBack(t) ==
    /\ pc[t] = "close_pop"
    /\ sessions' = [sessions EXCEPT ![call[t]] = ent[t]]
    /\ ent' = [ent EXCEPT ![t] = None]
    /\ Goto(t, "idle")
    /\ UNCHANGED <<created, owner, connector, state, generation, link, reaping,
                   call, outer, existing, conn, seen, todo, waitFor, calls>>

\* Pops whatever entry is registered now: the lock was released before.
ClosePop(t) ==
    /\ pc[t] = "close_pop"
    /\ sessions' = [sessions EXCEPT ![call[t]] = None]
    /\ ent' = [ent EXCEPT ![t] = None]
    /\ Goto(t, "idle")
    /\ UNCHANGED <<created, owner, connector, state, generation, link, reaping,
                   call, outer, existing, conn, seen, todo, waitFor, calls>>

Close(t) ==
    \/ \E h \in Hosts : CloseNothing(t, h) \/ CloseCall(t, h)
    \/ CloseLock(t) \/ CloseTake(t) \/ CloseDisconnected(t) \/ ClosePop(t)

-----------------------------------------------------------------------------
(* close_all(timeout): no operation_lock is taken *)

CloseAllCall(t) ==
    /\ Begin(t, "close_all", call[t], "reading")
    /\ todo' = [todo EXCEPT ![t] = {sessions[h] : h \in Hosts} \ {None}]
    /\ sessions' = [h \in Hosts |-> None]
    /\ UNCHANGED <<created, owner, connector, state, generation, link, reaping,
                   ent, outer, existing, conn, seen, waitFor>>

CloseAllRead(t) ==
    /\ pc[t] = "reading"
    /\ \E e \in todo[t] :
          /\ todo' = [todo EXCEPT ![t] = @ \ {e}]
          /\ waitFor' = [waitFor EXCEPT ![t] = @ \cup ({connector[e]} \ {None})]
    /\ UNCHANGED <<shared, pc, call, ent, outer, existing, conn, seen, calls>>

CloseAllStart(t) ==
    /\ pc[t] = "reading"
    /\ todo[t] = {}
    /\ reaping' = reaping \cup waitFor[t]
    /\ Goto(t, "joining")
    /\ UNCHANGED <<sessions, created, owner, connector, state, generation, link,
                   call, ent, outer, existing, conn, seen, todo, waitFor, calls>>

\* Every disconnect thread joined: with timeout=None the only way back.
CloseAllJoined(t) ==
    /\ pc[t] = "joining"
    /\ waitFor[t] \cap reaping = {}
    /\ waitFor' = [waitFor EXCEPT ![t] = {}]
    /\ Goto(t, "idle")
    /\ UNCHANGED <<shared, call, ent, outer, existing, conn, seen, todo, calls>>

\* The deadline passes first; the daemon threads go on.
CloseAllTimeout(t) ==
    /\ pc[t] = "joining"
    /\ waitFor[t] \cap reaping # {}
    /\ waitFor' = [waitFor EXCEPT ![t] = {}]
    /\ Goto(t, "idle")
    /\ UNCHANGED <<shared, call, ent, outer, existing, conn, seen, todo, calls>>

CloseAll(t) ==
    \/ CloseAllCall(t) \/ CloseAllRead(t) \/ CloseAllStart(t)
    \/ CloseAllJoined(t) \/ CloseAllTimeout(t)

\* One daemon thread per connector: _disconnect(connector).
Reap(c) ==
    /\ c \in reaping
    /\ Disconnect({c})
    /\ reaping' = reaping \ {c}
    /\ UNCHANGED <<sessions, created, owner, connector, state, generation, locals>>

-----------------------------------------------------------------------------
(* execute(host, operation, ensure_open, lock_timeout) *)

ExecCall(t, h) ==
    /\ Begin(t, "execute", h, "exec_entry")
    /\ existing' = [existing EXCEPT ![t] = GetConnector(h)]
    /\ UNCHANGED <<shared, ent, outer, conn, seen, todo, waitFor>>

ExecEntry(t) ==
    /\ pc[t] = "exec_entry"
    /\ Register(call[t])
    /\ ent' = [ent EXCEPT ![t] = EntryOf(call[t])]
    /\ Goto(t, "exec_lock")
    /\ UNCHANGED <<owner, connector, state, generation, link, reaping, call,
                   outer, existing, conn, seen, todo, waitFor, calls>>

ExecLock(t) == TakeLock(t, "exec_lock", "exec_check")

\* Back to the caller, the operation_lock (if held) released.
Return(t) ==
    /\ ent' = [ent EXCEPT ![t] = None]
    /\ existing' = [existing EXCEPT ![t] = None]
    /\ seen' = [seen EXCEPT ![t] = 0]
    /\ Goto(t, "idle")
    /\ UNCHANGED <<sessions, created, connector, generation, link, reaping,
                   call, outer, conn, todo, waitFor, calls>>

\* lock_timeout passes while another thread works on the entry: session_busy.
ExecBusy(t) ==
    /\ pc[t] = "exec_lock"
    /\ owner[ent[t]] # NoThread
    /\ Return(t)
    /\ UNCHANGED <<owner, state>>

\* The connector read before the lock replaces the entry's, dead or alive.
ExecAdopt(t) ==
    /\ pc[t] = "exec_check"
    /\ existing[t] # None
    /\ connector[ent[t]] # existing[t]
    /\ Install(t, existing[t])
    /\ Goto(t, "exec_prepare")
    /\ seen' = [seen EXCEPT ![t] = generation[ent[t]] + 1]
    /\ UNCHANGED <<sessions, created, owner, reaping, call, ent, outer,
                   existing, conn, todo, waitFor, calls>>

ExecReuse(t) ==
    /\ pc[t] = "exec_check"
    /\ \/ existing[t] # None /\ connector[ent[t]] = existing[t]
       \/ existing[t] = None /\ Alive(connector[ent[t]])
    /\ Goto(t, "exec_prepare")
    /\ seen' = [seen EXCEPT ![t] = generation[ent[t]]]
    /\ UNCHANGED <<shared, call, ent, outer, existing, conn, todo, waitFor, calls>>

NoLiveSession(t) ==
    /\ pc[t] = "exec_check"
    /\ existing[t] = None
    /\ ~Alive(connector[ent[t]])
    /\ SetState(t, IF connector[ent[t]] = None THEN "closed" ELSE "stale")

\* ensure_open=False
ExecNoSession(t) ==
    /\ NoLiveSession(t)
    /\ ReleaseLock(t)
    /\ Return(t)

\* ensure_open=True: open() resolves the entry again, under this one's lock.
ExecOpen(t) ==
    /\ NoLiveSession(t)
    /\ Goto(t, "exec_open")
    /\ UNCHANGED <<sessions, created, owner, connector, generation, link,
                   reaping, call, ent, outer, existing, conn, seen, todo,
                   waitFor, calls>>

ExecRejected(t) ==
    /\ pc[t] = "exec_rejected"
    /\ ReleaseLock(t)
    /\ Return(t)
    /\ UNCHANGED state

ExecOpened(t) ==
    /\ pc[t] = "exec_opened"
    /\ Alive(connector[ent[t]])
    /\ Goto(t, "exec_prepare")
    /\ seen' = [seen EXCEPT ![t] = generation[ent[t]]]
    /\ UNCHANGED <<shared, call, ent, outer, existing, conn, todo, waitFor, calls>>

ExecNotLive(t) ==
    /\ pc[t] = "exec_opened"
    /\ ~Alive(connector[ent[t]])
    /\ SetState(t, "error")
    /\ ReleaseLock(t)
    /\ Return(t)

ExecStart(t) ==
    /\ pc[t] = "exec_prepare"
    /\ Goto(t, "operating")
    /\ UNCHANGED <<shared, call, ent, outer, existing, conn, seen, todo,
                   waitFor, calls>>

\* The state is written only if the generation is the one the operation began on.
SetStateIfCurrent(t, s) ==
    state' = IF seen[t] = generation[ent[t]]
             THEN [state EXCEPT ![ent[t]] = s] ELSE state

ExecDone(t) ==
    /\ pc[t] = "operating"
    /\ SetStateIfCurrent(t, "connected")
    /\ ReleaseLock(t)
    /\ Return(t)

\* _prepare or the operation raised.
ExecFailed(t) ==
    /\ pc[t] \in {"exec_prepare", "operating"}
    /\ SetStateIfCurrent(t, IF Alive(connector[ent[t]]) THEN "connected" ELSE "stale")
    /\ ReleaseLock(t)
    /\ Return(t)

Execute(t) ==
    \/ \E h \in Hosts : ExecCall(t, h)
    \/ ExecEntry(t) \/ ExecLock(t) \/ ExecBusy(t) \/ ExecAdopt(t)
    \/ ExecReuse(t) \/ ExecNoSession(t) \/ ExecOpen(t) \/ ExecRejected(t)
    \/ ExecOpened(t) \/ ExecNotLive(t) \/ ExecStart(t) \/ ExecDone(t)
    \/ ExecFailed(t)

-----------------------------------------------------------------------------

\* The device or the network ends a session: is_alive() answers False from now on.
Drop(c) ==
    /\ link[c] = "up"
    /\ Disconnect({c})
    /\ UNCHANGED <<sessions, created, owner, connector, state, generation,
                   reaping, locals>>

\* Every client has made its last call.
Done ==
    /\ \A t \in Threads : pc[t] = "idle" /\ calls[t] = MaxCalls
    /\ UNCHANGED vars

Step(t) == Open(t) \/ Close(t) \/ CloseAll(t) \/ Execute(t)

Next ==
    \/ \E t \in Threads : Step(t)
    \/ \E c \in Connectors : Reap(c) \/ Drop(c)
    \/ Done

Spec == Init /\ [][Next]_vars

(* The scheduler runs every thread, device I/O and operations end.  Clients  *)
(* need not call, links need not drop.                                       *)
Proceed(t) == pc[t] # "idle" /\ Step(t)

FairSpec ==
    /\ Spec
    /\ \A t \in Threads : WF_vars(Proceed(t))
    /\ \A c \in Connectors : WF_vars(Reap(c))

-----------------------------------------------------------------------------
(* Properties *)

TypeOK ==
    /\ sessions \in [Hosts -> Entries \cup {None}]
    /\ created \in 0 .. MaxEntries
    /\ owner \in [Entries -> Threads \cup {NoThread}]
    /\ connector \in [Entries -> Connectors \cup {None}]
    /\ state \in [Entries -> States]
    /\ generation \in [Entries -> Nat]
    /\ link \in [Connectors -> {"none", "up", "down"}]
    /\ reaping \subseteq Connectors
    /\ pc \in [Threads -> PCs]
    /\ call \in [Threads -> Hosts]
    /\ ent \in [Threads -> Entries \cup {None}]
    /\ outer \in [Threads -> Entries \cup {None}]
    /\ existing \in [Threads -> Connectors \cup {None}]
    /\ conn \in [Threads -> Connectors \cup {None}]
    /\ seen \in [Threads -> Nat]
    /\ todo \in [Threads -> SUBSET Entries]
    /\ waitFor \in [Threads -> SUBSET Connectors]
    /\ calls \in [Threads -> Nat]

\* The steps of a thread that are under the operation_lock of ent.
Locked == {"open_check", "connecting", "preparing", "close_take",
           "disconnecting", "exec_check", "exec_open", "exec_opened",
           "exec_rejected", "exec_prepare", "operating"}

HeldBy(t) == (IF pc[t] \in Locked THEN {ent[t]} ELSE {}) \cup ({outer[t]} \ {None})

\* No two threads are ever both inside the operation_lock of one entry,
\* whichever of open, close and execute (with its nested open) they run.
EntryMutex ==
    \A t, u \in Threads : t # u => HeldBy(t) \cap HeldBy(u) = {}

\* execute keeps its operation_lock while the open it calls takes one: of the
\* same entry (the lock is reentrant) or of one created later.  A cycle of
\* waiting threads would need someone to wait for an older entry.
LockOrder ==
    \A t \in Threads : outer[t] # None => outer[t] <= ent[t]

\* Nobody registers an entry older than one in use for the same host: a caller
\* that resolved its entry can only find that entry, none or a newer one there.
NewestRegistered ==
    \A t \in Threads :
        ent[t] # None /\ sessions[call[t]] # None => ent[t] <= sessions[call[t]]

\* What get_state shows: "opening" and "closing" only while a thread is at it,
\* "connected" never for an entry that has no connector.
StateHonest ==
    \A e \in Entries :
        /\ state[e] \in {"opening", "closing"} => owner[e] # NoThread
        /\ state[e] = "connected" => connector[e] # None

Operating(t) == pc[t] = "operating"

\* A running operation keeps the connector and the generation it was given:
\* nothing that open, close or another execute does replaces them under it, so
\* execute's test generation == entry.generation never fails.
ChannelPinned ==
    [][\A t \in Threads :
          Operating(t) /\ Operating(t)' =>
              /\ connector'[ent[t]] = connector[ent[t]]
              /\ generation'[ent[t]] = seen[t]]_vars

\* No two operations run on the same live CLI channel at once.
ChannelSerialized ==
    \A t, u \in Threads :
        t # u /\ Operating(t) /\ Operating(u) /\ Alive(connector[ent[t]])
            => connector[ent[t]] # connector[ent[u]]

\* When nobody is calling, every live connector belongs to a registered session.
SoleOwner ==
    (\A t \in Threads : pc[t] = "idle") /\ reaping = {} =>
        \A c \in Connectors : link[c] = "up" =>
            \E h \in Hosts : sessions[h] # None /\ connector[sessions[h]] = c

\* Every call returns: no thread waits for an operation_lock for ever.
CallsReturn == \A t \in Threads : pc[t] # "idle" ~> pc[t] = "idle"

-----------------------------------------------------------------------------
(* The abstract registry *)

Channel == [h \in Hosts |-> IF sessions[h] = None THEN None
                            ELSE connector[sessions[h]]]

Running ==
    [h \in Hosts |->
        IF \E t \in Threads : Operating(t) /\ call[t] = h
        THEN CHOOSE t \in Threads : Operating(t) /\ call[t] = h
        ELSE NoThread]

HS == INSTANCE HostSessions WITH channel <- Channel, running <- Running

\* While no client closes a session, the registry keeps what it promises: one
\* operation at a time on a host's channel, which only changes in between.
ImplementsHostSessions == HS!Spec
=============================================================================
