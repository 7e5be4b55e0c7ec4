----------------------- MODULE SessionRegistryChannels -----------------------
(***************************************************************************)
(* Proofs about the channels of the session registry: what get_state shows *)
(* is true, a running operation keeps its connector, and, while no client  *)
(* closes a session, no live connector is lost and the registry implements *)
(* HostSessions; for any hosts, threads, entries, connectors and calls.    *)
(***************************************************************************)
EXTENDS SessionRegistryProofs

-----------------------------------------------------------------------------
(* The inductive invariant: what a state stands for *)

\* An entry is "opening" or "closing" by a thread that is at it.
OpeningInv ==
    \A e \in Entries : state[e] = "opening" =>
        \E t \in Threads : ent[t] = e /\ pc[t] \in {"connecting", "preparing"}

ClosingInv ==
    \A e \in Entries : state[e] = "closing" =>
        \E t \in Threads : ent[t] = e /\ pc[t] = "disconnecting"

ConnectedInv ==
    \A e \in Entries : state[e] = "connected" => connector[e] # None

\* A thread prepares the connector it made, and operates on the one of the
\* generation it read.
ChannelInv ==
    \A t \in Threads :
        /\ pc[t] = "preparing" => conn[t] # None
        /\ pc[t] \in {"exec_prepare", "operating"} =>
              /\ connector[ent[t]] # None
              /\ seen[t] = generation[ent[t]]

StateInv == OpeningInv /\ ClosingInv /\ ConnectedInv /\ ChannelInv

-----------------------------------------------------------------------------
(* The inductive invariant while no client closes a session *)

Steady == Kinds \subseteq {"open", "execute"}

\* Entries are for one host each, and empty until they are handed out.
EntryInv ==
    /\ \A g, h \in Hosts : sessions[g] = sessions[h] /\ sessions[g] # None => g = h
    /\ \A e \in Entries : e > created => connector[e] = None

\* Nobody closes: an entry in use stays the registered one.
SteadyInv ==
    /\ \A t \in Threads :
         pc[t] \notin {"close_lock", "close_take", "disconnecting", "close_pop",
                       "reading", "joining"}
    /\ reaping = {}
    /\ \A t \in Threads : ent[t] # None => sessions[call[t]] = ent[t]
    /\ \A t \in Threads : outer[t] # None => sessions[call[t]] = outer[t]

\* A live connector is a session's or about to be.
OwnerInv ==
    \A c \in Connectors : link[c] = "up" =>
        \/ \E h \in Hosts : sessions[h] # None /\ connector[sessions[h]] = c
        \/ \E t \in Threads : pc[t] = "preparing" /\ conn[t] = c

-----------------------------------------------------------------------------
(* States *)

\* What the steps need of the types.
LocalTypes ==
    /\ pc \in [Threads -> PCs]
    /\ ent \in [Threads -> Entries \cup {None}]
    /\ state \in [Entries -> States]
    /\ connector \in [Entries -> Connectors \cup {None}]
    /\ generation \in [Entries -> Nat]
    /\ conn \in [Threads -> Connectors \cup {None}]
    /\ existing \in [Threads -> Connectors \cup {None}]
    /\ seen \in [Threads -> Nat]
    /\ None \notin Entries /\ None \notin Connectors
    /\ \A t \in Threads : pc[t] \in Locked => ent[t] \in Entries

\* No two threads are at a step under the same operation_lock.
Alone ==
    \A t, u \in Threads :
        pc[t] \in Locked /\ pc[u] \in Locked /\ ent[t] = ent[u] => t = u

LEMMA TypesAre == TypeInv => LocalTypes
  <1>. SUFFICES ASSUME TypeInv PROVE LocalTypes
    OBVIOUS
  <1>1. None \notin Entries /\ None \notin Connectors
    BY DEF None, Entries, Connectors
  <1>2. \A t \in Threads : pc[t] \in Locked => ent[t] \in Entries
    BY DEF TypeInv, TypeOK, Control, Resolved, Locked
  <1>. QED
    BY <1>1, <1>2 DEF TypeInv, TypeOK, LocalTypes

LEMMA AloneAre == TypeInv /\ Ownership => Alone
  <1>. SUFFICES ASSUME TypeInv, Ownership, NEW t \in Threads, NEW u \in Threads,
                       pc[t] \in Locked, pc[u] \in Locked, ent[t] = ent[u]
                PROVE  t = u
    BY DEF Alone
  <1>1. ent[t] \in Entries
    BY TypesAre DEF LocalTypes
  <1>2. owner[ent[t]] = t /\ owner[ent[t]] = u
    BY <1>1 DEF Ownership, HeldBy
  <1>. QED
    BY <1>2

LEMMA StateInvInit == Init => StateInv
  BY DEF Init, StateInv, OpeningInv, ClosingInv, ConnectedInv, ChannelInv

LEMMA StateInvNext == TypeInv /\ Ownership /\ StateInv /\ [Next]_vars => StateInv'
  <1>. SUFFICES ASSUME TypeInv, Ownership, StateInv, [Next]_vars PROVE StateInv'
    OBVIOUS
  <1>1. LocalTypes /\ Alone
    BY TypesAre, AloneAre
  <1>2. ASSUME NEW t \in Threads, Step(t) PROVE StateInv'
    <2>1. ASSUME NEW h \in Hosts, OpenCall(t, h) PROVE StateInv'
      <3>1. OpeningInv'
        BY <2>1 DEF StateInv, OpeningInv, OpenCall, Begin, Goto
      <3>2. ClosingInv'
        BY <2>1 DEF StateInv, ClosingInv, OpenCall, Begin, Goto
      <3>3. ConnectedInv'
        BY <2>1 DEF StateInv, ConnectedInv, OpenCall
      <3>4. ChannelInv'
        BY <1>1, <2>1
        DEF StateInv, ChannelInv, OpeningInv, ClosingInv, LocalTypes, Alone,
            Locked, PCs, States, shared, OpenCall, Begin, Register, Goto
      <3>. QED
        BY <3>1, <3>2, <3>3, <3>4 DEF StateInv
    <2>2. ASSUME OpenNested(t) PROVE StateInv'
      <3>1. OpeningInv'
        BY <2>2 DEF StateInv, OpeningInv, OpenNested, Goto
      <3>2. ClosingInv'
        BY <2>2 DEF StateInv, ClosingInv, OpenNested, Goto
      <3>3. ConnectedInv'
        BY <2>2 DEF StateInv, ConnectedInv, OpenNested
      <3>4. ChannelInv'
        BY <2>2 DEF StateInv, ChannelInv, OpenNested, Goto
      <3>. QED
        BY <3>1, <3>2, <3>3, <3>4 DEF StateInv
    <2>3. ASSUME OpenLock(t) PROVE StateInv'
      <3>1. OpeningInv'
        BY <2>3 DEF StateInv, OpeningInv, OpenLock, TakeLock, Goto
      <3>2. ClosingInv'
        BY <2>3 DEF StateInv, ClosingInv, OpenLock, TakeLock, Goto
      <3>3. ConnectedInv'
        BY <2>3 DEF StateInv, ConnectedInv, OpenLock, TakeLock
      <3>4. ChannelInv'
        BY <2>3 DEF StateInv, ChannelInv, OpenLock, TakeLock, Goto
      <3>. QED
        BY <3>1, <3>2, <3>3, <3>4 DEF StateInv
    <2>4. ASSUME OpenAlready(t) PROVE StateInv'
      <3>1. OpeningInv'
        BY <2>4
        DEF StateInv, OpeningInv, OpenAlready, LeaveOpen, SetState, Goto
      <3>2. ClosingInv'
        BY <2>4
        DEF StateInv, ClosingInv, OpenAlready, LeaveOpen, SetState, Goto
      <3>3. ConnectedInv'
        BY <2>4 DEF StateInv, ConnectedInv, OpenAlready, SetState, Alive
      <3>4. ChannelInv'
        BY <2>4 DEF StateInv, ChannelInv, OpenAlready, LeaveOpen, Goto
      <3>. QED
        BY <3>1, <3>2, <3>3, <3>4 DEF StateInv
    <2>5. ASSUME OpenRefused(t) PROVE StateInv'
      <3>1. OpeningInv'
        BY <2>5
        DEF StateInv, OpeningInv, OpenRefused, LeaveOpen, SetState, Goto
      <3>2. ClosingInv'
        BY <2>5
        DEF StateInv, ClosingInv, OpenRefused, LeaveOpen, SetState, Goto
      <3>3. ConnectedInv'
        BY <2>5 DEF StateInv, ConnectedInv, OpenRefused, SetState
      <3>4. ChannelInv'
        BY <2>5 DEF StateInv, ChannelInv, OpenRefused, LeaveOpen, Goto
      <3>. QED
        BY <3>1, <3>2, <3>3, <3>4 DEF StateInv
    <2>6. ASSUME OpenConnecting(t) PROVE StateInv'
      <3>1. OpeningInv'
        BY <1>1, <2>6
        DEF StateInv, OpeningInv, LocalTypes, OpenConnecting, SetState, Goto
      <3>2. ClosingInv'
        BY <2>6 DEF StateInv, ClosingInv, OpenConnecting, SetState, Goto
      <3>3. ConnectedInv'
        BY <2>6 DEF StateInv, ConnectedInv, OpenConnecting, SetState
      <3>4. ChannelInv'
        BY <2>6 DEF StateInv, ChannelInv, OpenConnecting, Goto
      <3>. QED
        BY <3>1, <3>2, <3>3, <3>4 DEF StateInv
    <2>7. ASSUME OpenConnectFailed(t) PROVE StateInv'
      <3>1. OpeningInv'
        BY <1>1, <2>7
        DEF StateInv, OpeningInv, LocalTypes, OpenConnectFailed, LeaveOpen,
            SetState, Goto
      <3>2. ClosingInv'
        BY <2>7
        DEF StateInv, ClosingInv, OpenConnectFailed, LeaveOpen, SetState, Goto
      <3>3. ConnectedInv'
        BY <2>7 DEF StateInv, ConnectedInv, OpenConnectFailed, SetState
      <3>4. ChannelInv'
        BY <2>7 DEF StateInv, ChannelInv, OpenConnectFailed, LeaveOpen, Goto
      <3>. QED
        BY <3>1, <3>2, <3>3, <3>4 DEF StateInv
    <2>8. ASSUME OpenConnected(t) PROVE StateInv'
      <3>1. OpeningInv'
        BY <2>8 DEF StateInv, OpeningInv, OpenConnected, Goto
      <3>2. ClosingInv'
        BY <2>8 DEF StateInv, ClosingInv, OpenConnected, Goto
      <3>3. ConnectedInv'
        BY <2>8 DEF StateInv, ConnectedInv, OpenConnected
      <3>4. ChannelInv'
        BY <1>1, <2>8
        DEF StateInv, ChannelInv, LocalTypes, OpenConnected, Goto
      <3>. QED
        BY <3>1, <3>2, <3>3, <3>4 DEF StateInv
    <2>9. ASSUME OpenInstalled(t) PROVE StateInv'
      <3>1. OpeningInv'
        BY <1>1, <2>9
        DEF StateInv, OpeningInv, LocalTypes, OpenInstalled, Install,
            LeaveOpen, SetState, Goto
      <3>2. ClosingInv'
        BY <2>9
        DEF StateInv, ClosingInv, OpenInstalled, Install, LeaveOpen, SetState,
            Goto
      <3>3. ConnectedInv'
        BY <1>1, <2>9
        DEF StateInv, ConnectedInv, ChannelInv, LocalTypes, OpenInstalled,
            Install, SetState
      <3>4. ChannelInv'
        BY <1>1, <2>9
        DEF StateInv, ChannelInv, LocalTypes, Alone, Locked, OpenInstalled,
            Install, LeaveOpen, Goto
      <3>. QED
        BY <3>1, <3>2, <3>3, <3>4 DEF StateInv
    <2>10. ASSUME OpenPrepareFailed(t) PROVE StateInv'
      <3>1. OpeningInv'
        BY <1>1, <2>10
        DEF StateInv, OpeningInv, LocalTypes, OpenPrepareFailed, LeaveOpen,
            SetState, Goto
      <3>2. ClosingInv'
        BY <2>10
        DEF StateInv, ClosingInv, OpenPrepareFailed, LeaveOpen, SetState, Goto
      <3>3. ConnectedInv'
        BY <2>10 DEF StateInv, ConnectedInv, OpenPrepareFailed, SetState
      <3>4. ChannelInv'
        BY <1>1, <2>10
        DEF StateInv, ChannelInv, LocalTypes, OpenPrepareFailed, LeaveOpen,
            Goto
      <3>. QED
        BY <3>1, <3>2, <3>3, <3>4 DEF StateInv
    <2>11. ASSUME NEW h \in Hosts, CloseNothing(t, h) PROVE StateInv'
      <3>1. OpeningInv'
        BY <2>11 DEF StateInv, OpeningInv, shared, CloseNothing, Begin, Goto
      <3>2. ClosingInv'
        BY <2>11 DEF StateInv, ClosingInv, shared, CloseNothing, Begin, Goto
      <3>3. ConnectedInv'
        BY <2>11 DEF StateInv, ConnectedInv, shared, CloseNothing
      <3>4. ChannelInv'
        BY <2>11 DEF StateInv, ChannelInv, shared, CloseNothing, Begin, Goto
      <3>. QED
        BY <3>1, <3>2, <3>3, <3>4 DEF StateInv
    <2>12. ASSUME NEW h \in Hosts, CloseCall(t, h) PROVE StateInv'
      <3>1. OpeningInv'
        BY <2>12 DEF StateInv, OpeningInv, shared, CloseCall, Begin, Goto
      <3>2. ClosingInv'
        BY <2>12 DEF StateInv, ClosingInv, shared, CloseCall, Begin, Goto
      <3>3. ConnectedInv'
        BY <2>12 DEF StateInv, ConnectedInv, shared, CloseCall
      <3>4. ChannelInv'
        BY <2>12 DEF StateInv, ChannelInv, shared, CloseCall, Begin, Goto
      <3>. QED
        BY <3>1, <3>2, <3>3, <3>4 DEF StateInv
    <2>13. ASSUME CloseLock(t) PROVE StateInv'
      <3>1. OpeningInv'
        BY <2>13 DEF StateInv, OpeningInv, CloseLock, TakeLock, Goto
      <3>2. ClosingInv'
        BY <2>13 DEF StateInv, ClosingInv, CloseLock, TakeLock, Goto
      <3>3. ConnectedInv'
        BY <2>13 DEF StateInv, ConnectedInv, CloseLock, TakeLock
      <3>4. ChannelInv'
        BY <2>13 DEF StateInv, ChannelInv, CloseLock, TakeLock, Goto
      <3>. QED
        BY <3>1, <3>2, <3>3, <3>4 DEF StateInv
    <2>14. ASSUME CloseTake(t) PROVE StateInv'
      <3>1. OpeningInv'
        BY <2>14 DEF StateInv, OpeningInv, CloseTake, SetState, Goto
      <3>2. ClosingInv'
        BY <1>1, <2>14
        DEF StateInv, ClosingInv, LocalTypes, CloseTake, SetState, Goto
      <3>3. ConnectedInv'
        BY <1>1, <2>14
        DEF StateInv, ConnectedInv, LocalTypes, CloseTake, SetState
      <3>4. ChannelInv'
        BY <1>1, <2>14
        DEF StateInv, ChannelInv, Alone, Locked, CloseTake, Goto
      <3>. QED
        BY <3>1, <3>2, <3>3, <3>4 DEF StateInv
    <2>15. ASSUME CloseDisconnected(t) PROVE StateInv'
      <3>1. OpeningInv'
        BY <2>15 DEF StateInv, OpeningInv, CloseDisconnected, SetState, Goto
      <3>2. ClosingInv'
        BY <1>1, <2>15
        DEF StateInv, ClosingInv, LocalTypes, CloseDisconnected, SetState,
            Goto
      <3>3. ConnectedInv'
        BY <2>15 DEF StateInv, ConnectedInv, CloseDisconnected, SetState
      <3>4. ChannelInv'
        BY <2>15 DEF StateInv, ChannelInv, CloseDisconnected, Goto
      <3>. QED
        BY <3>1, <3>2, <3>3, <3>4 DEF StateInv
    <2>16. ASSUME ClosePop(t) PROVE StateInv'
      <3>1. OpeningInv'
        BY <2>16 DEF StateInv, OpeningInv, ClosePop, Goto
      <3>2. ClosingInv'
        BY <2>16 DEF StateInv, ClosingInv, ClosePop, Goto
      <3>3. ConnectedInv'
        BY <2>16 DEF StateInv, ConnectedInv, ClosePop
      <3>4. ChannelInv'
        BY <2>16 DEF StateInv, ChannelInv, ClosePop, Goto
      <3>. QED
        BY <3>1, <3>2, <3>3, <3>4 DEF StateInv
    <2>17. ASSUME CloseAllCall(t) PROVE StateInv'
      <3>1. OpeningInv'
        BY <2>17 DEF StateInv, OpeningInv, CloseAllCall, Begin, Goto
      <3>2. ClosingInv'
        BY <2>17 DEF StateInv, ClosingInv, CloseAllCall, Begin, Goto
      <3>3. ConnectedInv'
        BY <2>17 DEF StateInv, ConnectedInv, CloseAllCall
      <3>4. ChannelInv'
        BY <2>17 DEF StateInv, ChannelInv, CloseAllCall, Begin, Goto
      <3>. QED
        BY <3>1, <3>2, <3>3, <3>4 DEF StateInv
    <2>18. ASSUME CloseAllRead(t) PROVE StateInv'
      <3>1. OpeningInv'
        BY <2>18 DEF StateInv, OpeningInv, shared, CloseAllRead
      <3>2. ClosingInv'
        BY <2>18 DEF StateInv, ClosingInv, shared, CloseAllRead
      <3>3. ConnectedInv'
        BY <2>18 DEF StateInv, ConnectedInv, shared, CloseAllRead
      <3>4. ChannelInv'
        BY <2>18 DEF StateInv, ChannelInv, shared, CloseAllRead
      <3>. QED
        BY <3>1, <3>2, <3>3, <3>4 DEF StateInv
    <2>19. ASSUME CloseAllStart(t) PROVE StateInv'
      <3>1. OpeningInv'
        BY <2>19 DEF StateInv, OpeningInv, CloseAllStart, Goto
      <3>2. ClosingInv'
        BY <2>19 DEF StateInv, ClosingInv, CloseAllStart, Goto
      <3>3. ConnectedInv'
        BY <2>19 DEF StateInv, ConnectedInv, CloseAllStart
      <3>4. ChannelInv'
        BY <2>19 DEF StateInv, ChannelInv, CloseAllStart, Goto
      <3>. QED
        BY <3>1, <3>2, <3>3, <3>4 DEF StateInv
    <2>20. ASSUME CloseAllJoined(t) PROVE StateInv'
      <3>1. OpeningInv'
        BY <2>20 DEF StateInv, OpeningInv, shared, CloseAllJoined, Goto
      <3>2. ClosingInv'
        BY <2>20 DEF StateInv, ClosingInv, shared, CloseAllJoined, Goto
      <3>3. ConnectedInv'
        BY <2>20 DEF StateInv, ConnectedInv, shared, CloseAllJoined
      <3>4. ChannelInv'
        BY <2>20 DEF StateInv, ChannelInv, shared, CloseAllJoined, Goto
      <3>. QED
        BY <3>1, <3>2, <3>3, <3>4 DEF StateInv
    <2>21. ASSUME CloseAllTimeout(t) PROVE StateInv'
      <3>1. OpeningInv'
        BY <2>21 DEF StateInv, OpeningInv, shared, CloseAllTimeout, Goto
      <3>2. ClosingInv'
        BY <2>21 DEF StateInv, ClosingInv, shared, CloseAllTimeout, Goto
      <3>3. ConnectedInv'
        BY <2>21 DEF StateInv, ConnectedInv, shared, CloseAllTimeout
      <3>4. ChannelInv'
        BY <2>21 DEF StateInv, ChannelInv, shared, CloseAllTimeout, Goto
      <3>. QED
        BY <3>1, <3>2, <3>3, <3>4 DEF StateInv
    <2>22. ASSUME NEW h \in Hosts, ExecCall(t, h) PROVE StateInv'
      <3>1. OpeningInv'
        BY <2>22 DEF StateInv, OpeningInv, shared, ExecCall, Begin, Goto
      <3>2. ClosingInv'
        BY <1>1, <2>22
        DEF StateInv, ClosingInv, OpeningInv, ChannelInv, LocalTypes, Alone,
            Locked, PCs, States, shared, ExecCall, Begin, Goto
      <3>3. ConnectedInv'
        BY <2>22 DEF StateInv, ConnectedInv, shared, ExecCall
      <3>4. ChannelInv'
        BY <2>22 DEF StateInv, ChannelInv, shared, ExecCall, Begin, Goto
      <3>. QED
        BY <3>1, <3>2, <3>3, <3>4 DEF StateInv
    <2>23. ASSUME ExecEntry(t) PROVE StateInv'
      <3>1. OpeningInv'
        BY <2>23 DEF StateInv, OpeningInv, ExecEntry, Goto
      <3>2. ClosingInv'
        BY <2>23 DEF StateInv, ClosingInv, ExecEntry, Goto
      <3>3. ConnectedInv'
        BY <2>23 DEF StateInv, ConnectedInv, ExecEntry
      <3>4. ChannelInv'
        BY <2>23 DEF StateInv, ChannelInv, ExecEntry, Goto
      <3>. QED
        BY <3>1, <3>2, <3>3, <3>4 DEF StateInv
    <2>24. ASSUME ExecLock(t) PROVE StateInv'
      <3>1. OpeningInv'
        BY <2>24 DEF StateInv, OpeningInv, ExecLock, TakeLock, Goto
      <3>2. ClosingInv'
        BY <2>24 DEF StateInv, ClosingInv, ExecLock, TakeLock, Goto
      <3>3. ConnectedInv'
        BY <2>24 DEF StateInv, ConnectedInv, ExecLock, TakeLock
      <3>4. ChannelInv'
        BY <2>24 DEF StateInv, ChannelInv, ExecLock, TakeLock, Goto
      <3>. QED
        BY <3>1, <3>2, <3>3, <3>4 DEF StateInv
    <2>25. ASSUME ExecBusy(t) PROVE StateInv'
      <3>1. OpeningInv'
        BY <2>25 DEF StateInv, OpeningInv, ExecBusy, Return, Goto
      <3>2. ClosingInv'
        BY <2>25 DEF StateInv, ClosingInv, ExecBusy, Return, Goto
      <3>3. ConnectedInv'
        BY <2>25 DEF StateInv, ConnectedInv, ExecBusy, Return
      <3>4. ChannelInv'
        BY <2>25 DEF StateInv, ChannelInv, ExecBusy, Return, Goto
      <3>. QED
        BY <3>1, <3>2, <3>3, <3>4 DEF StateInv
    <2>26. ASSUME ExecAdopt(t) PROVE StateInv'
      <3>1. OpeningInv'
        BY <2>26 DEF StateInv, OpeningInv, ExecAdopt, Install, SetState, Goto
      <3>2. ClosingInv'
        BY <2>26 DEF StateInv, ClosingInv, ExecAdopt, Install, SetState, Goto
      <3>3. ConnectedInv'
        BY <1>1, <2>26
        DEF StateInv, ConnectedInv, LocalTypes, ExecAdopt, Install, SetState
      <3>4. ChannelInv'
        BY <1>1, <2>26
        DEF StateInv, ChannelInv, LocalTypes, Alone, Locked, ExecAdopt,
            Install, Goto
      <3>. QED
        BY <3>1, <3>2, <3>3, <3>4 DEF StateInv
    <2>27. ASSUME ExecReuse(t) PROVE StateInv'
      <3>1. OpeningInv'
        BY <2>27 DEF StateInv, OpeningInv, shared, ExecReuse, Goto
      <3>2. ClosingInv'
        BY <2>27 DEF StateInv, ClosingInv, shared, ExecReuse, Goto
      <3>3. ConnectedInv'
        BY <2>27 DEF StateInv, ConnectedInv, shared, ExecReuse
      <3>4. ChannelInv'
        BY <1>1, <2>27
        DEF StateInv, ChannelInv, LocalTypes, shared, ExecReuse, Goto, Alive
      <3>. QED
        BY <3>1, <3>2, <3>3, <3>4 DEF StateInv
    <2>28. ASSUME ExecNoSession(t) PROVE StateInv'
      <3>1. OpeningInv'
        BY <2>28
        DEF StateInv, OpeningInv, ExecNoSession, NoLiveSession, SetState,
            Return, Goto
      <3>2. ClosingInv'
        BY <2>28
        DEF StateInv, ClosingInv, ExecNoSession, NoLiveSession, SetState,
            Return, Goto
      <3>3. ConnectedInv'
        BY <2>28
        DEF StateInv, ConnectedInv, ExecNoSession, NoLiveSession, SetState,
            Return
      <3>4. ChannelInv'
        BY <2>28
        DEF StateInv, ChannelInv, ExecNoSession, NoLiveSession, Return, Goto
      <3>. QED
        BY <3>1, <3>2, <3>3, <3>4 DEF StateInv
    <2>29. ASSUME ExecOpen(t) PROVE StateInv'
      <3>1. OpeningInv'
        BY <2>29
        DEF StateInv, OpeningInv, ExecOpen, NoLiveSession, SetState, Goto
      <3>2. ClosingInv'
        BY <2>29
        DEF StateInv, ClosingInv, ExecOpen, NoLiveSession, SetState, Goto
      <3>3. ConnectedInv'
        BY <2>29 DEF StateInv, ConnectedInv, ExecOpen, NoLiveSession, SetState
      <3>4. ChannelInv'
        BY <2>29 DEF StateInv, ChannelInv, ExecOpen, Goto
      <3>. QED
        BY <3>1, <3>2, <3>3, <3>4 DEF StateInv
    <2>30. ASSUME ExecRejected(t) PROVE StateInv'
      <3>1. OpeningInv'
        BY <2>30 DEF StateInv, OpeningInv, ExecRejected, Return, Goto
      <3>2. ClosingInv'
        BY <2>30 DEF StateInv, ClosingInv, ExecRejected, Return, Goto
      <3>3. ConnectedInv'
        BY <2>30 DEF StateInv, ConnectedInv, ExecRejected, Return
      <3>4. ChannelInv'
        BY <2>30 DEF StateInv, ChannelInv, ExecRejected, Return, Goto
      <3>. QED
        BY <3>1, <3>2, <3>3, <3>4 DEF StateInv
    <2>31. ASSUME ExecOpened(t) PROVE StateInv'
      <3>1. OpeningInv'
        BY <2>31 DEF StateInv, OpeningInv, shared, ExecOpened, Goto
      <3>2. ClosingInv'
        BY <2>31 DEF StateInv, ClosingInv, shared, ExecOpened, Goto
      <3>3. ConnectedInv'
        BY <2>31 DEF StateInv, ConnectedInv, shared, ExecOpened
      <3>4. ChannelInv'
        BY <1>1, <2>31
        DEF StateInv, ChannelInv, LocalTypes, shared, ExecOpened, Goto, Alive
      <3>. QED
        BY <3>1, <3>2, <3>3, <3>4 DEF StateInv
    <2>32. ASSUME ExecNotLive(t) PROVE StateInv'
      <3>1. OpeningInv'
        BY <2>32 DEF StateInv, OpeningInv, ExecNotLive, SetState, Return, Goto
      <3>2. ClosingInv'
        BY <2>32 DEF StateInv, ClosingInv, ExecNotLive, SetState, Return, Goto
      <3>3. ConnectedInv'
        BY <2>32 DEF StateInv, ConnectedInv, ExecNotLive, SetState, Return
      <3>4. ChannelInv'
        BY <2>32 DEF StateInv, ChannelInv, ExecNotLive, Return, Goto
      <3>. QED
        BY <3>1, <3>2, <3>3, <3>4 DEF StateInv
    <2>33. ASSUME ExecStart(t) PROVE StateInv'
      <3>1. OpeningInv'
        BY <2>33 DEF StateInv, OpeningInv, shared, ExecStart, Goto
      <3>2. ClosingInv'
        BY <2>33 DEF StateInv, ClosingInv, shared, ExecStart, Goto
      <3>3. ConnectedInv'
        BY <2>33 DEF StateInv, ConnectedInv, shared, ExecStart
      <3>4. ChannelInv'
        BY <2>33 DEF StateInv, ChannelInv, shared, ExecStart, Goto
      <3>. QED
        BY <3>1, <3>2, <3>3, <3>4 DEF StateInv
    <2>34. ASSUME ExecDone(t) PROVE StateInv'
      <3>1. OpeningInv'
        BY <2>34
        DEF StateInv, OpeningInv, ExecDone, SetStateIfCurrent, Return, Goto
      <3>2. ClosingInv'
        BY <2>34
        DEF StateInv, ClosingInv, ExecDone, SetStateIfCurrent, Return, Goto
      <3>3. ConnectedInv'
        BY <2>34
        DEF StateInv, ConnectedInv, ChannelInv, ExecDone, SetStateIfCurrent,
            Return
      <3>4. ChannelInv'
        BY <1>1, <2>34
        DEF StateInv, ChannelInv, LocalTypes, ExecDone, Return, Goto
      <3>. QED
        BY <3>1, <3>2, <3>3, <3>4 DEF StateInv
    <2>35. ASSUME ExecFailed(t) PROVE StateInv'
      <3>1. OpeningInv'
        BY <2>35
        DEF StateInv, OpeningInv, ExecFailed, SetStateIfCurrent, Return, Goto
      <3>2. ClosingInv'
        BY <2>35
        DEF StateInv, ClosingInv, ExecFailed, SetStateIfCurrent, Return, Goto
      <3>3. ConnectedInv'
        BY <2>35
        DEF StateInv, ConnectedInv, ExecFailed, SetStateIfCurrent, Return,
            Alive
      <3>4. ChannelInv'
        BY <1>1, <2>35
        DEF StateInv, ChannelInv, LocalTypes, ExecFailed, Return, Goto
      <3>. QED
        BY <3>1, <3>2, <3>3, <3>4 DEF StateInv
    <2>. QED
      BY <1>2, <2>1, <2>2, <2>3, <2>4, <2>5, <2>6, <2>7, <2>8, <2>9, <2>10,
         <2>11, <2>12, <2>13, <2>14, <2>15, <2>16, <2>17, <2>18, <2>19, <2>20,
         <2>21, <2>22, <2>23, <2>24, <2>25, <2>26, <2>27, <2>28, <2>29, <2>30,
         <2>31, <2>32, <2>33, <2>34, <2>35
      DEF Step, Open, Close, CloseAll, Execute
  <1>3. ASSUME NEW c \in Connectors, Reap(c) \/ Drop(c) PROVE StateInv'
    BY <1>3
    DEF Reap, Drop, locals, StateInv, OpeningInv, ClosingInv, ConnectedInv,
        ChannelInv
  <1>4. CASE UNCHANGED vars
    BY <1>4
    DEF vars, shared, locals, StateInv, OpeningInv, ClosingInv, ConnectedInv,
        ChannelInv
  <1>. QED
    BY <1>2, <1>3, <1>4 DEF Next, Done

\* get_state shows "opening" and "closing" only while a thread is at it under
\* the entry's lock, and "connected" never without a connector.
THEOREM StatesAreHonest == Spec => []StateHonest
  <1>1. TypeInv /\ Ownership /\ StateInv => StateHonest
    <2>. SUFFICES ASSUME TypeInv, Ownership, StateInv, NEW e \in Entries
                  PROVE  /\ state[e] \in {"opening", "closing"} => owner[e] # NoThread
                         /\ state[e] = "connected" => connector[e] # None
      BY DEF StateHonest
    <2>1. ASSUME state[e] \in {"opening", "closing"} PROVE owner[e] # NoThread
      <3>1. PICK t \in Threads : ent[t] = e /\ pc[t] \in Locked
        BY <2>1 DEF StateInv, OpeningInv, ClosingInv, Locked
      <3>2. owner[e] = t
        BY <3>1 DEF Ownership, HeldBy
      <3>. QED
        BY <3>2, ThreadAssumption
    <2>. QED
      BY <2>1 DEF StateInv, ConnectedInv
  <1>. QED
    BY <1>1, TypeInvInit, TypeInvNext, OwnershipInit, OwnershipNext,
       StateInvInit, StateInvNext, PTL
    DEF Spec

-----------------------------------------------------------------------------
(* Running operations *)

\* An entry's connector is replaced under its lock only, by a thread that is
\* not operating.
LEMMA ConnectorSteps ==
  ASSUME TypeInv, Next
  PROVE  \/ UNCHANGED <<connector, generation>>
         \/ \E t \in Threads :
              /\ pc[t] \in {"preparing", "close_take", "exec_check"}
              /\ \A e \in Entries \ {ent[t]} :
                   connector'[e] = connector[e] /\ generation'[e] = generation[e]
  <1>1. ASSUME NEW t \in Threads, OpenInstalled(t) \/ ExecAdopt(t) \/ CloseTake(t)
        PROVE  /\ pc[t] \in {"preparing", "close_take", "exec_check"}
               /\ \A e \in Entries \ {ent[t]} :
                    connector'[e] = connector[e] /\ generation'[e] = generation[e]
    BY <1>1 DEF OpenInstalled, ExecAdopt, CloseTake, Install, TypeInv, TypeOK
  <1>2. ASSUME NEW t \in Threads, Step(t), ~OpenInstalled(t), ~ExecAdopt(t), ~CloseTake(t)
        PROVE  UNCHANGED <<connector, generation>>
    BY <1>2
    DEF Step, Open, Close, CloseAll, Execute, TakeLock, LeaveOpen, Return,
        shared, OpenCall, OpenNested, OpenLock, OpenAlready, OpenRefused,
        OpenConnecting, OpenConnectFailed, OpenConnected, OpenPrepareFailed,
        CloseNothing, CloseCall, CloseLock, CloseDisconnected, ClosePop,
        CloseAllCall, CloseAllRead, CloseAllStart, CloseAllJoined,
        CloseAllTimeout, ExecCall, ExecEntry, ExecLock, ExecBusy, ExecReuse,
        ExecNoSession, ExecOpen, ExecRejected, ExecOpened, ExecNotLive,
        ExecStart, ExecDone, ExecFailed
  <1>. QED
    BY <1>1, <1>2 DEF Next, Reap, Drop, Done, vars, shared

LEMMA PinnedStep ==
  ASSUME TypeInv, Ownership, StateInv, [Next]_vars,
         NEW t \in Threads, Operating(t), Operating(t)'
  PROVE  connector'[ent[t]] = connector[ent[t]] /\ generation'[ent[t]] = seen[t]
  <1>1. LocalTypes /\ Alone
    BY TypesAre, AloneAre
  <1>2. ent[t] \in Entries /\ seen[t] = generation[ent[t]]
    BY <1>1 DEF Operating, LocalTypes, Locked, StateInv, ChannelInv
  <1>3. CASE UNCHANGED <<connector, generation>>
    BY <1>2, <1>3
  <1>4. ASSUME NEW u \in Threads, pc[u] \in {"preparing", "close_take", "exec_check"},
               \A e \in Entries \ {ent[u]} :
                 connector'[e] = connector[e] /\ generation'[e] = generation[e]
        PROVE  connector'[ent[t]] = connector[ent[t]] /\ generation'[ent[t]] = seen[t]
    <2>1. u # t
      BY <1>4 DEF Operating
    <2>2. ent[u] # ent[t]
      BY <1>1, <1>4 DEF Alone, Locked, Operating
    <2>. QED
      BY <1>2, <1>4, <2>2
  <1>5. CASE Next
    BY <1>3, <1>4, <1>5, ConnectorSteps
  <1>6. CASE UNCHANGED vars
    BY <1>3, <1>6 DEF vars, shared
  <1>. QED
    BY <1>5, <1>6

\* An operation ends on the connector and the generation it started with.
THEOREM OperationKeepsChannel == Spec => ChannelPinned
  <1>1. TypeInv /\ Ownership /\ StateInv /\ [Next]_vars =>
          [\A t \in Threads :
             Operating(t) /\ Operating(t)' =>
               /\ connector'[ent[t]] = connector[ent[t]]
               /\ generation'[ent[t]] = seen[t]]_vars
    BY PinnedStep
  <1>. QED
    BY <1>1, TypeInvInit, TypeInvNext, OwnershipInit, OwnershipNext,
       StateInvInit, StateInvNext, PTL
    DEF Spec, ChannelPinned

-----------------------------------------------------------------------------
(* Entries *)

LEMMA EntryInvInit == Init => EntryInv
  BY BoundAssumption DEF Init, EntryInv, Entries

\* What a step does to the entries: one is handed out, some are taken off the
\* registry, or one in use is given a connector.
LEMMA EntrySteps ==
  ASSUME TypeInv, Next
  PROVE  \/ \E h \in Hosts : Register(h) /\ UNCHANGED connector
         \/ /\ \A h \in Hosts : sessions'[h] \in {None, sessions[h]}
            /\ UNCHANGED <<created, connector>>
         \/ /\ \E t \in Threads : ent[t] \in Entries /\
                 \A e \in Entries \ {ent[t]} : connector'[e] = connector[e]
            /\ UNCHANGED <<sessions, created>>
  <1>1. ASSUME NEW t \in Threads, OpenInstalled(t) \/ ExecAdopt(t) \/ CloseTake(t)
        PROVE  /\ ent[t] \in Entries
               /\ \A e \in Entries \ {ent[t]} : connector'[e] = connector[e]
               /\ UNCHANGED <<sessions, created>>
    <2>1. ent[t] \in Entries
      BY <1>1, TypesAre
      DEF OpenInstalled, ExecAdopt, CloseTake, LocalTypes, Locked
    <2>. QED
      BY <1>1, <2>1
      DEF OpenInstalled, ExecAdopt, CloseTake, Install, LeaveOpen, TypeInv,
          TypeOK
  <1>2. ASSUME NEW t \in Threads, OpenNested(t) \/ ExecEntry(t)
        PROVE  \E h \in Hosts : Register(h) /\ UNCHANGED connector
    BY <1>2 DEF OpenNested, ExecEntry, TypeInv, TypeOK
  <1>3. ASSUME NEW t \in Threads, ClosePop(t) \/ CloseAllCall(t)
        PROVE  /\ \A h \in Hosts : sessions'[h] \in {None, sessions[h]}
               /\ UNCHANGED <<created, connector>>
    BY <1>3 DEF ClosePop, CloseAllCall, TypeInv, TypeOK
  <1>4. ASSUME NEW t \in Threads, Step(t), ~OpenInstalled(t), ~ExecAdopt(t), ~CloseTake(t),
               ~OpenNested(t), ~ExecEntry(t), ~ClosePop(t), ~CloseAllCall(t)
        PROVE  \/ \E h \in Hosts : Register(h) /\ UNCHANGED connector
               \/ UNCHANGED <<sessions, created, connector>>
    BY <1>4
    DEF Step, Open, Close, CloseAll, Execute, TakeLock, LeaveOpen, Return,
        shared, OpenCall, OpenLock, OpenAlready, OpenRefused, OpenConnecting,
        OpenConnectFailed, OpenConnected, OpenPrepareFailed, CloseNothing,
        CloseCall, CloseLock, CloseDisconnected, CloseAllRead, CloseAllStart,
        CloseAllJoined, CloseAllTimeout, ExecCall, ExecLock, ExecBusy,
        ExecReuse, ExecNoSession, ExecOpen, ExecRejected, ExecOpened,
        ExecNotLive, ExecStart, ExecDone, ExecFailed
  <1>. QED
    BY <1>1, <1>2, <1>3, <1>4 DEF Next, Reap, Drop, Done, vars, shared

LEMMA EntryInvNext == TypeInv /\ Order /\ EntryInv /\ [Next]_vars => EntryInv'
  <1>. SUFFICES ASSUME TypeInv, Order, EntryInv, [Next]_vars PROVE EntryInv'
    OBVIOUS
  <1>1. /\ sessions \in [Hosts -> Entries \cup {None}] /\ created \in Nat
        /\ \A h \in Hosts : sessions[h] <= created
        /\ \A t \in Threads : ent[t] <= created
        /\ None = 0
    BY BoundAssumption DEF TypeInv, TypeOK, Order, None
  <1>2. ASSUME NEW h \in Hosts, Register(h), UNCHANGED connector PROVE EntryInv'
    <2>1. CASE sessions[h] # None
      BY <1>2, <2>1 DEF Register, EntryOf, EntryInv
    <2>2. CASE sessions[h] = None
      <3>1. /\ created' = created + 1
            /\ sessions'[h] = created + 1
            /\ \A g \in Hosts \ {h} : sessions'[g] = sessions[g]
        BY <1>1, <1>2, <2>2 DEF Register, EntryOf
      <3>2. \A g, k \in Hosts : sessions'[g] = sessions'[k] /\ sessions'[g] # None => g = k
        <4>. SUFFICES ASSUME NEW g \in Hosts, NEW k \in Hosts, sessions'[g] = sessions'[k],
                             sessions'[g] # None
                      PROVE  g = k
          OBVIOUS
        <4>1. \A x \in Hosts : sessions[x] \in Int /\ sessions[x] # created + 1
          BY <1>1, BoundAssumption DEF Entries
        <4>. QED
          BY <3>1, <4>1 DEF EntryInv
      <3>3. \A e \in Entries : e > created' => connector'[e] = None
        BY <1>1, <1>2, <3>1 DEF EntryInv, Entries
      <3>. QED
        BY <3>2, <3>3 DEF EntryInv
    <2>. QED
      BY <2>1, <2>2
  <1>3. CASE /\ \A h \in Hosts : sessions'[h] \in {None, sessions[h]}
             /\ UNCHANGED <<created, connector>>
    BY <1>3 DEF EntryInv
  <1>4. ASSUME NEW t \in Threads, ent[t] \in Entries,
               \A e \in Entries \ {ent[t]} : connector'[e] = connector[e],
               UNCHANGED <<sessions, created>>
        PROVE  EntryInv'
    <2>1. ~(ent[t] > created)
      BY <1>1, <1>4, BoundAssumption DEF Entries
    <2>. QED
      BY <1>4, <2>1 DEF EntryInv
  <1>5. CASE UNCHANGED vars
    BY <1>5 DEF vars, shared, EntryInv
  <1>. QED
    BY <1>2, <1>3, <1>4, <1>5, EntrySteps

-----------------------------------------------------------------------------
(* While no client closes a session *)

LEMMA SteadyInit == Init => SteadyInv /\ OwnerInv
  BY DEF Init, SteadyInv, OwnerInv

\* The steps there are.
SteadyStep(t) == Open(t) \/ Execute(t)

LEMMA SteadySteps ==
  ASSUME Steady, SteadyInv, Next
  PROVE  \/ \E t \in Threads : SteadyStep(t)
         \/ \E c \in Connectors : Drop(c)
         \/ UNCHANGED vars
  BY DEF Steady, SteadyInv, Next, Step, SteadyStep, Close, CloseAll, Reap,
         Done, Begin, CloseNothing, CloseCall, CloseLock, TakeLock, CloseTake,
         CloseDisconnected, ClosePop, CloseAllCall, CloseAllRead,
         CloseAllStart, CloseAllJoined, CloseAllTimeout

LEMMA SteadyNext ==
  ASSUME Steady, TypeInv, Ownership, StateInv, EntryInv, SteadyInv, OwnerInv, Next
  PROVE  SteadyInv' /\ OwnerInv'
  <1>1. LocalTypes /\ Alone
    BY TypesAre, AloneAre
  <1>2. /\ sessions \in [Hosts -> Entries \cup {None}]
        /\ call \in [Threads -> Hosts] /\ outer \in [Threads -> Entries \cup {None}]
        /\ link \in [Connectors -> {"none", "up", "down"}]
    BY DEF TypeInv, TypeOK
  <1>3. \A t \in Threads : /\ pc[t] \notin Resolved => ent[t] = None
                           /\ pc[t] \notin {"open_lock", "open_check", "connecting", "preparing"}
                                => outer[t] = None
    BY DEF TypeInv, Control
  <1>4. ASSUME NEW t \in Threads, SteadyStep(t) PROVE SteadyInv' /\ OwnerInv'
    <2>1. ASSUME NEW h \in Hosts, OpenCall(t, h) PROVE SteadyInv' /\ OwnerInv'
      <3>1. SteadyInv'
        BY <1>1, <1>2, <1>3, <2>1
        DEF SteadyInv, LocalTypes, OpenCall, Begin, Register, Goto, EntryOf
      <3>2. OwnerInv'
        BY <2>1 DEF OwnerInv, OpenCall, Begin, Register, Goto, EntryOf
      <3>. QED
        BY <3>1, <3>2
    <2>2. ASSUME OpenNested(t) PROVE SteadyInv' /\ OwnerInv'
      <3>1. SteadyInv'
        BY <1>2, <2>2 DEF SteadyInv, OpenNested, Register, Goto, EntryOf
      <3>2. OwnerInv'
        BY <2>2 DEF OwnerInv, OpenNested, Register, Goto, EntryOf
      <3>. QED
        BY <3>1, <3>2
    <2>3. ASSUME OpenLock(t) PROVE SteadyInv' /\ OwnerInv'
      <3>1. SteadyInv'
        BY <2>3 DEF SteadyInv, OpenLock, TakeLock, Goto
      <3>2. OwnerInv'
        BY <2>3 DEF OwnerInv, OpenLock, TakeLock, Goto
      <3>. QED
        BY <3>1, <3>2
    <2>4. ASSUME OpenAlready(t) PROVE SteadyInv' /\ OwnerInv'
      <3>1. SteadyInv'
        BY <2>4 DEF SteadyInv, OpenAlready, LeaveOpen, Goto
      <3>2. OwnerInv'
        BY <2>4 DEF OwnerInv, OpenAlready, LeaveOpen, Goto
      <3>. QED
        BY <3>1, <3>2
    <2>5. ASSUME OpenRefused(t) PROVE SteadyInv' /\ OwnerInv'
      <3>1. SteadyInv'
        BY <2>5 DEF SteadyInv, OpenRefused, LeaveOpen, Goto
      <3>2. OwnerInv'
        BY <2>5 DEF OwnerInv, OpenRefused, LeaveOpen, Goto
      <3>. QED
        BY <3>1, <3>2
    <2>6. ASSUME OpenConnecting(t) PROVE SteadyInv' /\ OwnerInv'
      <3>1. SteadyInv'
        BY <2>6 DEF SteadyInv, OpenConnecting, Goto
      <3>2. OwnerInv'
        BY <2>6 DEF OwnerInv, OpenConnecting, Goto
      <3>. QED
        BY <3>1, <3>2
    <2>7. ASSUME OpenConnectFailed(t) PROVE SteadyInv' /\ OwnerInv'
      <3>1. SteadyInv'
        BY <2>7 DEF SteadyInv, OpenConnectFailed, LeaveOpen, Goto
      <3>2. OwnerInv'
        BY <2>7 DEF OwnerInv, OpenConnectFailed, LeaveOpen, Goto
      <3>. QED
        BY <3>1, <3>2
    <2>8. ASSUME OpenConnected(t) PROVE SteadyInv' /\ OwnerInv'
      <3>1. SteadyInv'
        BY <2>8 DEF SteadyInv, OpenConnected, Goto
      <3>2. OwnerInv'
        BY <1>1, <2>8 DEF OwnerInv, LocalTypes, OpenConnected, Goto
      <3>. QED
        BY <3>1, <3>2
    <2>9. ASSUME OpenInstalled(t) PROVE SteadyInv' /\ OwnerInv'
      <3>1. SteadyInv'
        BY <2>9 DEF SteadyInv, OpenInstalled, LeaveOpen, Goto
      <3>2. OwnerInv'
        BY <1>1, <1>2, <2>9
        DEF SteadyInv, OwnerInv, LocalTypes, Locked, OpenInstalled, Install,
            LeaveOpen, Goto, Disconnect
      <3>. QED
        BY <3>1, <3>2
    <2>10. ASSUME OpenPrepareFailed(t) PROVE SteadyInv' /\ OwnerInv'
      <3>1. SteadyInv'
        BY <2>10 DEF SteadyInv, OpenPrepareFailed, LeaveOpen, Goto
      <3>2. OwnerInv'
        BY <2>10 DEF OwnerInv, OpenPrepareFailed, LeaveOpen, Goto, Disconnect
      <3>. QED
        BY <3>1, <3>2
    <2>11. ASSUME NEW h \in Hosts, ExecCall(t, h) PROVE SteadyInv' /\ OwnerInv'
      <3>1. SteadyInv'
        BY <1>3, <2>11 DEF SteadyInv, Resolved, shared, ExecCall, Begin, Goto
      <3>2. OwnerInv'
        BY <2>11 DEF OwnerInv, shared, ExecCall, Begin, Goto
      <3>. QED
        BY <3>1, <3>2
    <2>12. ASSUME ExecEntry(t) PROVE SteadyInv' /\ OwnerInv'
      <3>1. SteadyInv'
        BY <1>2, <2>12 DEF SteadyInv, ExecEntry, Register, Goto, EntryOf
      <3>2. OwnerInv'
        BY <2>12 DEF OwnerInv, ExecEntry, Register, Goto, EntryOf
      <3>. QED
        BY <3>1, <3>2
    <2>13. ASSUME ExecLock(t) PROVE SteadyInv' /\ OwnerInv'
      <3>1. SteadyInv'
        BY <2>13 DEF SteadyInv, ExecLock, TakeLock, Goto
      <3>2. OwnerInv'
        BY <2>13 DEF OwnerInv, ExecLock, TakeLock, Goto
      <3>. QED
        BY <3>1, <3>2
    <2>14. ASSUME ExecBusy(t) PROVE SteadyInv' /\ OwnerInv'
      <3>1. SteadyInv'
        BY <2>14 DEF SteadyInv, ExecBusy, Return, Goto
      <3>2. OwnerInv'
        BY <2>14 DEF OwnerInv, ExecBusy, Return, Goto
      <3>. QED
        BY <3>1, <3>2
    <2>15. ASSUME ExecAdopt(t) PROVE SteadyInv' /\ OwnerInv'
      <3>1. SteadyInv'
        BY <2>15 DEF SteadyInv, ExecAdopt, Goto
      <3>2. OwnerInv'
        BY <2>15 DEF OwnerInv, ExecAdopt, Install, Goto, Disconnect
      <3>. QED
        BY <3>1, <3>2
    <2>16. ASSUME ExecReuse(t) PROVE SteadyInv' /\ OwnerInv'
      <3>1. SteadyInv'
        BY <2>16 DEF SteadyInv, shared, ExecReuse, Goto
      <3>2. OwnerInv'
        BY <2>16 DEF OwnerInv, shared, ExecReuse, Goto
      <3>. QED
        BY <3>1, <3>2
    <2>17. ASSUME ExecNoSession(t) PROVE SteadyInv' /\ OwnerInv'
      <3>1. SteadyInv'
        BY <2>17 DEF SteadyInv, ExecNoSession, Return, Goto
      <3>2. OwnerInv'
        BY <2>17 DEF OwnerInv, ExecNoSession, NoLiveSession, Return, Goto
      <3>. QED
        BY <3>1, <3>2
    <2>18. ASSUME ExecOpen(t) PROVE SteadyInv' /\ OwnerInv'
      <3>1. SteadyInv'
        BY <2>18 DEF SteadyInv, ExecOpen, Goto
      <3>2. OwnerInv'
        BY <2>18 DEF OwnerInv, ExecOpen, NoLiveSession, Goto
      <3>. QED
        BY <3>1, <3>2
    <2>19. ASSUME ExecRejected(t) PROVE SteadyInv' /\ OwnerInv'
      <3>1. SteadyInv'
        BY <2>19 DEF SteadyInv, ExecRejected, Return, Goto
      <3>2. OwnerInv'
        BY <2>19 DEF OwnerInv, ExecRejected, Return, Goto
      <3>. QED
        BY <3>1, <3>2
    <2>20. ASSUME ExecOpened(t) PROVE SteadyInv' /\ OwnerInv'
      <3>1. SteadyInv'
        BY <2>20 DEF SteadyInv, shared, ExecOpened, Goto
      <3>2. OwnerInv'
        BY <2>20 DEF OwnerInv, shared, ExecOpened, Goto
      <3>. QED
        BY <3>1, <3>2
    <2>21. ASSUME ExecNotLive(t) PROVE SteadyInv' /\ OwnerInv'
      <3>1. SteadyInv'
        BY <2>21 DEF SteadyInv, ExecNotLive, Return, Goto
      <3>2. OwnerInv'
        BY <2>21 DEF OwnerInv, ExecNotLive, Return, Goto
      <3>. QED
        BY <3>1, <3>2
    <2>22. ASSUME ExecStart(t) PROVE SteadyInv' /\ OwnerInv'
      <3>1. SteadyInv'
        BY <2>22 DEF SteadyInv, shared, ExecStart, Goto
      <3>2. OwnerInv'
        BY <2>22 DEF OwnerInv, shared, ExecStart, Goto
      <3>. QED
        BY <3>1, <3>2
    <2>23. ASSUME ExecDone(t) PROVE SteadyInv' /\ OwnerInv'
      <3>1. SteadyInv'
        BY <2>23 DEF SteadyInv, ExecDone, Return, Goto
      <3>2. OwnerInv'
        BY <2>23 DEF OwnerInv, ExecDone, Return, Goto
      <3>. QED
        BY <3>1, <3>2
    <2>24. ASSUME ExecFailed(t) PROVE SteadyInv' /\ OwnerInv'
      <3>1. SteadyInv'
        BY <2>24 DEF SteadyInv, ExecFailed, Return, Goto
      <3>2. OwnerInv'
        BY <2>24 DEF OwnerInv, ExecFailed, Return, Goto
      <3>. QED
        BY <3>1, <3>2
    <2>. QED
      BY <1>4, <2>1, <2>2, <2>3, <2>4, <2>5, <2>6, <2>7, <2>8, <2>9, <2>10,
         <2>11, <2>12, <2>13, <2>14, <2>15, <2>16, <2>17, <2>18, <2>19, <2>20,
         <2>21, <2>22, <2>23, <2>24
      DEF SteadyStep, Open, Execute
  <1>5. ASSUME NEW c \in Connectors, Drop(c) PROVE SteadyInv' /\ OwnerInv'
    BY <1>5 DEF Drop, Disconnect, locals, SteadyInv, OwnerInv
  <1>6. CASE UNCHANGED vars
    BY <1>6 DEF vars, shared, locals, SteadyInv, OwnerInv
  <1>. QED
    BY <1>4, <1>5, <1>6, SteadySteps

RegistryInv == TypeInv /\ Ownership /\ Order /\ StateInv /\ EntryInv

LEMMA RegistryInvariant == Spec => []RegistryInv
  <1>1. Init => RegistryInv
    BY TypeInvInit, OwnershipInit, OrderInit, StateInvInit, EntryInvInit
    DEF RegistryInv
  <1>2. RegistryInv /\ [Next]_vars => RegistryInv'
    BY TypeInvNext, OwnershipNext, OrderNext, StateInvNext, EntryInvNext
    DEF RegistryInv
  <1>. QED
    BY <1>1, <1>2, PTL DEF Spec

LEMMA SteadyInvariant ==
  ASSUME Steady
  PROVE  Spec => [](SteadyInv /\ OwnerInv)
  <1>1. RegistryInv /\ SteadyInv /\ OwnerInv /\ [Next]_vars => (SteadyInv /\ OwnerInv)'
    <2>1. ASSUME UNCHANGED vars, SteadyInv, OwnerInv PROVE (SteadyInv /\ OwnerInv)'
      BY <2>1 DEF vars, shared, locals, SteadyInv, OwnerInv
    <2>. QED
      BY <2>1, SteadyNext DEF RegistryInv
  <1>. QED
    BY <1>1, SteadyInit, RegistryInvariant, PTL DEF Spec

\* While no client closes a session, no open and no execute leaves a live
\* connector behind: when nobody is calling, each belongs to a session.
THEOREM NoConnectorLost ==
  ASSUME Steady
  PROVE  Spec => []SoleOwner
  <1>1. SteadyInv /\ OwnerInv => SoleOwner
    BY DEF OwnerInv, SoleOwner
  <1>. QED
    BY <1>1, SteadyInvariant, PTL

-----------------------------------------------------------------------------
(* The registry implements HostSessions *)

\* Thread t runs the operation on h.
RunsOn(t, h) == Operating(t) /\ call[t] = h

\* Running is what its name says: no two threads run operations on a host.
RunningInv ==
    \A h \in Hosts :
        /\ \A t \in Threads : RunsOn(t, h) => Running[h] = t
        /\ (\A t \in Threads : ~RunsOn(t, h)) => Running[h] = NoThread

LEMMA RunningIs == RegistryInv /\ SteadyInv => RunningInv
  <1>. SUFFICES ASSUME RegistryInv, SteadyInv PROVE RunningInv
    OBVIOUS
  <1>1. LocalTypes /\ Alone
    BY TypesAre, AloneAre DEF RegistryInv
  <1>2. ASSUME NEW h \in Hosts, NEW t \in Threads, RunsOn(t, h) PROVE Running[h] = t
    <2>1. \A u \in Threads : RunsOn(u, h) => u = t
      <3>. SUFFICES ASSUME NEW u \in Threads, RunsOn(u, h) PROVE u = t
        OBVIOUS
      <3>1. pc[t] \in Locked /\ pc[u] \in Locked
        BY <1>2 DEF RunsOn, Operating, Locked
      <3>2. ent[t] # None /\ ent[u] # None
        BY <1>1, <3>1 DEF LocalTypes
      <3>3. ent[t] = ent[u]
        BY <1>2, <3>2 DEF SteadyInv, RunsOn
      <3>. QED
        BY <1>1, <3>1, <3>3 DEF Alone
    <2>. QED
      BY <1>2, <2>1 DEF Running, RunsOn
  <1>3. ASSUME NEW h \in Hosts, \A t \in Threads : ~RunsOn(t, h) PROVE Running[h] = NoThread
    BY <1>3 DEF Running, RunsOn
  <1>. QED
    BY <1>2, <1>3 DEF RunningInv

\* An operation begins, or ends.
Starts(t) == ExecStart(t)

Ends(t) == Operating(t) /\ (ExecDone(t) \/ ExecFailed(t))

Installs(t) == OpenInstalled(t) \/ ExecAdopt(t)

\* No channel and no operation changes.
Same ==
    /\ \A h \in Hosts : Channel'[h] = Channel[h]
    /\ \A t \in Threads, h \in Hosts : RunsOn(t, h)' <=> RunsOn(t, h)

LEMMA SameStep ==
  ASSUME RegistryInv, SteadyInv, NEW t \in Threads, SteadyStep(t),
         ~Starts(t), ~Ends(t), ~Installs(t)
  PROVE  Same
  <1>1. LocalTypes /\ EntryInv
    BY TypesAre DEF RegistryInv
  <1>2. /\ sessions \in [Hosts -> Entries \cup {None}] /\ created \in Nat
        /\ call \in [Threads -> Hosts] /\ \A h \in Hosts : sessions[h] <= created
    BY BoundAssumption DEF RegistryInv, Order, TypeInv, TypeOK
  <1>3. ASSUME NEW h \in Hosts, Register(h), UNCHANGED connector, NEW g \in Hosts
        PROVE  Channel'[g] = Channel[g]
    <2>1. sessions'[g] = sessions[g] \/
            (g = h /\ sessions[g] = None /\ sessions'[g] = created + 1 /\ created + 1 \in Entries)
      BY <1>2, <1>3 DEF Register, EntryOf
    <2>2. created + 1 \in Entries => connector[created + 1] = None
      BY <1>1, <1>2 DEF EntryInv
    <2>. QED
      BY <1>3, <2>1, <2>2 DEF Channel
  <1>4. ASSUME UNCHANGED <<sessions, connector>> PROVE \A g \in Hosts : Channel'[g] = Channel[g]
    BY <1>4 DEF Channel
  <1>5. ASSUME NEW h \in Hosts, OpenCall(t, h) PROVE Same
    <2>1. \A g \in Hosts : Channel'[g] = Channel[g]
      BY <1>5, <1>3 DEF OpenCall
    <2>2. \A u \in Threads, g \in Hosts : RunsOn(u, g)' <=> RunsOn(u, g)
      BY <1>5 DEF RunsOn, Operating, OpenCall, Begin, Goto
    <2>. QED
      BY <2>1, <2>2 DEF Same
  <1>6. ASSUME OpenNested(t) PROVE Same
    <2>1. \A g \in Hosts : Channel'[g] = Channel[g]
      BY <1>2, <1>6, <1>3 DEF OpenNested
    <2>2. \A u \in Threads, g \in Hosts : RunsOn(u, g)' <=> RunsOn(u, g)
      BY <1>6 DEF RunsOn, Operating, OpenNested, Goto
    <2>. QED
      BY <2>1, <2>2 DEF Same
  <1>7. ASSUME OpenLock(t) PROVE Same
    <2>1. \A g \in Hosts : Channel'[g] = Channel[g]
      BY <1>7, <1>4 DEF OpenLock, TakeLock
    <2>2. \A u \in Threads, g \in Hosts : RunsOn(u, g)' <=> RunsOn(u, g)
      BY <1>7 DEF RunsOn, Operating, OpenLock, TakeLock, Goto
    <2>. QED
      BY <2>1, <2>2 DEF Same
  <1>8. ASSUME OpenAlready(t) PROVE Same
    <2>1. \A g \in Hosts : Channel'[g] = Channel[g]
      BY <1>8, <1>4 DEF OpenAlready, LeaveOpen
    <2>2. \A u \in Threads, g \in Hosts : RunsOn(u, g)' <=> RunsOn(u, g)
      BY <1>8 DEF RunsOn, Operating, OpenAlready, LeaveOpen, Goto
    <2>. QED
      BY <2>1, <2>2 DEF Same
  <1>9. ASSUME OpenRefused(t) PROVE Same
    <2>1. \A g \in Hosts : Channel'[g] = Channel[g]
      BY <1>9, <1>4 DEF OpenRefused, LeaveOpen
    <2>2. \A u \in Threads, g \in Hosts : RunsOn(u, g)' <=> RunsOn(u, g)
      BY <1>9 DEF RunsOn, Operating, OpenRefused, LeaveOpen, Goto
    <2>. QED
      BY <2>1, <2>2 DEF Same
  <1>10. ASSUME OpenConnecting(t) PROVE Same
    <2>1. \A g \in Hosts : Channel'[g] = Channel[g]
      BY <1>10, <1>4 DEF OpenConnecting
    <2>2. \A u \in Threads, g \in Hosts : RunsOn(u, g)' <=> RunsOn(u, g)
      BY <1>10 DEF RunsOn, Operating, OpenConnecting, Goto
    <2>. QED
      BY <2>1, <2>2 DEF Same
  <1>11. ASSUME OpenConnectFailed(t) PROVE Same
    <2>1. \A g \in Hosts : Channel'[g] = Channel[g]
      BY <1>11, <1>4 DEF OpenConnectFailed, LeaveOpen
    <2>2. \A u \in Threads, g \in Hosts : RunsOn(u, g)' <=> RunsOn(u, g)
      BY <1>11 DEF RunsOn, Operating, OpenConnectFailed, LeaveOpen, Goto
    <2>. QED
      BY <2>1, <2>2 DEF Same
  <1>12. ASSUME OpenConnected(t) PROVE Same
    <2>1. \A g \in Hosts : Channel'[g] = Channel[g]
      BY <1>12, <1>4 DEF OpenConnected
    <2>2. \A u \in Threads, g \in Hosts : RunsOn(u, g)' <=> RunsOn(u, g)
      BY <1>12 DEF RunsOn, Operating, OpenConnected, Goto
    <2>. QED
      BY <2>1, <2>2 DEF Same
  <1>13. ASSUME OpenPrepareFailed(t) PROVE Same
    <2>1. \A g \in Hosts : Channel'[g] = Channel[g]
      BY <1>13, <1>4 DEF OpenPrepareFailed, LeaveOpen
    <2>2. \A u \in Threads, g \in Hosts : RunsOn(u, g)' <=> RunsOn(u, g)
      BY <1>13 DEF RunsOn, Operating, OpenPrepareFailed, LeaveOpen, Goto
    <2>. QED
      BY <2>1, <2>2 DEF Same
  <1>14. ASSUME NEW h \in Hosts, ExecCall(t, h) PROVE Same
    <2>1. \A g \in Hosts : Channel'[g] = Channel[g]
      BY <1>14, <1>4 DEF shared, ExecCall
    <2>2. \A u \in Threads, g \in Hosts : RunsOn(u, g)' <=> RunsOn(u, g)
      BY <1>14 DEF RunsOn, Operating, ExecCall, Begin, Goto
    <2>. QED
      BY <2>1, <2>2 DEF Same
  <1>15. ASSUME ExecEntry(t) PROVE Same
    <2>1. \A g \in Hosts : Channel'[g] = Channel[g]
      BY <1>2, <1>15, <1>3 DEF ExecEntry
    <2>2. \A u \in Threads, g \in Hosts : RunsOn(u, g)' <=> RunsOn(u, g)
      BY <1>15 DEF RunsOn, Operating, ExecEntry, Goto
    <2>. QED
      BY <2>1, <2>2 DEF Same
  <1>16. ASSUME ExecLock(t) PROVE Same
    <2>1. \A g \in Hosts : Channel'[g] = Channel[g]
      BY <1>16, <1>4 DEF ExecLock, TakeLock
    <2>2. \A u \in Threads, g \in Hosts : RunsOn(u, g)' <=> RunsOn(u, g)
      BY <1>16 DEF RunsOn, Operating, ExecLock, TakeLock, Goto
    <2>. QED
      BY <2>1, <2>2 DEF Same
  <1>17. ASSUME ExecBusy(t) PROVE Same
    <2>1. \A g \in Hosts : Channel'[g] = Channel[g]
      BY <1>17, <1>4 DEF ExecBusy, Return
    <2>2. \A u \in Threads, g \in Hosts : RunsOn(u, g)' <=> RunsOn(u, g)
      BY <1>17 DEF RunsOn, Operating, ExecBusy, Return, Goto
    <2>. QED
      BY <2>1, <2>2 DEF Same
  <1>18. ASSUME ExecReuse(t) PROVE Same
    <2>1. \A g \in Hosts : Channel'[g] = Channel[g]
      BY <1>18, <1>4 DEF shared, ExecReuse
    <2>2. \A u \in Threads, g \in Hosts : RunsOn(u, g)' <=> RunsOn(u, g)
      BY <1>18 DEF RunsOn, Operating, ExecReuse, Goto
    <2>. QED
      BY <2>1, <2>2 DEF Same
  <1>19. ASSUME ExecNoSession(t) PROVE Same
    <2>1. \A g \in Hosts : Channel'[g] = Channel[g]
      BY <1>19, <1>4 DEF ExecNoSession, Return
    <2>2. \A u \in Threads, g \in Hosts : RunsOn(u, g)' <=> RunsOn(u, g)
      BY <1>19
      DEF RunsOn, Operating, ExecNoSession, NoLiveSession, Return, Goto
    <2>. QED
      BY <2>1, <2>2 DEF Same
  <1>20. ASSUME ExecOpen(t) PROVE Same
    <2>1. \A g \in Hosts : Channel'[g] = Channel[g]
      BY <1>20, <1>4 DEF ExecOpen
    <2>2. \A u \in Threads, g \in Hosts : RunsOn(u, g)' <=> RunsOn(u, g)
      BY <1>20 DEF RunsOn, Operating, ExecOpen, NoLiveSession, Goto
    <2>. QED
      BY <2>1, <2>2 DEF Same
  <1>21. ASSUME ExecRejected(t) PROVE Same
    <2>1. \A g \in Hosts : Channel'[g] = Channel[g]
      BY <1>21, <1>4 DEF ExecRejected, Return
    <2>2. \A u \in Threads, g \in Hosts : RunsOn(u, g)' <=> RunsOn(u, g)
      BY <1>21 DEF RunsOn, Operating, ExecRejected, Return, Goto
    <2>. QED
      BY <2>1, <2>2 DEF Same
  <1>22. ASSUME ExecOpened(t) PROVE Same
    <2>1. \A g \in Hosts : Channel'[g] = Channel[g]
      BY <1>22, <1>4 DEF shared, ExecOpened
    <2>2. \A u \in Threads, g \in Hosts : RunsOn(u, g)' <=> RunsOn(u, g)
      BY <1>22 DEF RunsOn, Operating, ExecOpened, Goto
    <2>. QED
      BY <2>1, <2>2 DEF Same
  <1>23. ASSUME ExecNotLive(t) PROVE Same
    <2>1. \A g \in Hosts : Channel'[g] = Channel[g]
      BY <1>23, <1>4 DEF ExecNotLive, Return
    <2>2. \A u \in Threads, g \in Hosts : RunsOn(u, g)' <=> RunsOn(u, g)
      BY <1>23 DEF RunsOn, Operating, ExecNotLive, Return, Goto
    <2>. QED
      BY <2>1, <2>2 DEF Same
  <1>24. ASSUME ExecDone(t) PROVE Same
    <2>1. \A g \in Hosts : Channel'[g] = Channel[g]
      BY <1>24, <1>4 DEF ExecDone, Return
    <2>2. \A u \in Threads, g \in Hosts : RunsOn(u, g)' <=> RunsOn(u, g)
      BY <1>24 DEF Operating, ExecDone, Ends
    <2>. QED
      BY <2>1, <2>2 DEF Same
  <1>25. ASSUME ExecFailed(t) PROVE Same
    <2>1. \A g \in Hosts : Channel'[g] = Channel[g]
      BY <1>25, <1>4 DEF ExecFailed, Return
    <2>2. \A u \in Threads, g \in Hosts : RunsOn(u, g)' <=> RunsOn(u, g)
      BY <1>25 DEF RunsOn, Operating, ExecFailed, Return, Goto, Ends
    <2>. QED
      BY <2>1, <2>2 DEF Same
  <1>. QED
    BY <1>5, <1>6, <1>7, <1>8, <1>9, <1>10, <1>11, <1>12, <1>13, <1>14, <1>15,
       <1>16, <1>17, <1>18, <1>19, <1>20, <1>21, <1>22, <1>23, <1>24, <1>25
    DEF SteadyStep, Open, Execute, Starts, Installs

\* A step of the registry is a step of HostSessions or changes nothing there.
LEMMA RefinedStep ==
  ASSUME Steady, RegistryInv, SteadyInv, RunningInv, RunningInv', [Next]_vars
  PROVE  [HS!Next]_(HS!vars)
  <1>1. LocalTypes /\ Alone /\ EntryInv /\ StateInv
    BY TypesAre, AloneAre DEF RegistryInv
  <1>2. /\ sessions \in [Hosts -> Entries \cup {None}]
        /\ call \in [Threads -> Hosts]
        /\ NoThread \notin Threads
    BY ThreadAssumption DEF RegistryInv, TypeInv, TypeOK
  <1>3. /\ Channel = [h \in Hosts |-> Channel[h]] /\ Channel' = [h \in Hosts |-> Channel'[h]]
        /\ Running = [h \in Hosts |-> Running[h]] /\ Running' = [h \in Hosts |-> Running'[h]]
    BY DEF Channel, Running
  <1>4. \A h \in Hosts : Running[h] # NoThread => \E t \in Threads : RunsOn(t, h)
    BY DEF RunningInv
  <1>5. ASSUME Same PROVE UNCHANGED HS!vars
    <2>1. \A h \in Hosts : Running'[h] = Running[h]
      <3>. SUFFICES ASSUME NEW h \in Hosts PROVE Running'[h] = Running[h]
        OBVIOUS
      <3>1. CASE \E t \in Threads : RunsOn(t, h)
        <4>1. PICK t \in Threads : RunsOn(t, h)
          BY <3>1
        <4>2. RunsOn(t, h)'
          BY <1>5, <4>1 DEF Same
        <4>. QED
          BY <4>1, <4>2 DEF RunningInv
      <3>2. CASE \A t \in Threads : ~RunsOn(t, h)
        <4>1. \A t \in Threads : ~RunsOn(t, h)'
          BY <1>5, <3>2 DEF Same
        <4>. QED
          BY <3>2, <4>1 DEF RunningInv
      <3>. QED
        BY <3>1, <3>2
    <2>. QED
      BY <1>3, <1>5, <2>1 DEF Same, HS!vars
  <1>6. ASSUME NEW t \in Threads, Starts(t) PROVE HS!Next
    <2>. DEFINE h == call[t]
    <2>1. /\ h \in Hosts /\ pc[t] = "exec_prepare" /\ UNCHANGED <<sessions, connector, call>>
          /\ \A u \in Threads : pc'[u] = IF u = t THEN "operating" ELSE pc[u]
      BY <1>1, <1>2, <1>6 DEF Starts, ExecStart, Goto, shared, LocalTypes
    <2>2. ent[t] # None /\ ent[t] = sessions[h] /\ connector[ent[t]] # None
      BY <1>1, <2>1 DEF LocalTypes, Locked, SteadyInv, StateInv, ChannelInv
    <2>3. Channel[h] # None
      BY <2>1, <2>2 DEF Channel
    <2>4. \A u \in Threads : ~RunsOn(u, h)
      <3>. SUFFICES ASSUME NEW u \in Threads, RunsOn(u, h) PROVE FALSE
        OBVIOUS
      <3>1. pc[u] = "operating" /\ ent[u] = sessions[h]
        BY <1>1 DEF RunsOn, Operating, LocalTypes, Locked, SteadyInv
      <3>. QED
        BY <1>1, <2>1, <2>2, <3>1 DEF Alone, Locked
    <2>5. RunsOn(t, h)' /\ \A u \in Threads, g \in Hosts : g # h => (RunsOn(u, g)' <=> RunsOn(u, g))
      BY <2>1 DEF RunsOn, Operating
    <2>6. Running[h] = NoThread /\ Running'[h] = t
      BY <2>1, <2>4, <2>5 DEF RunningInv
    <2>7. ASSUME NEW g \in Hosts, g # h PROVE Running'[g] = Running[g]
      <3>1. CASE \E u \in Threads : RunsOn(u, g)
        BY <2>5, <2>7, <3>1 DEF RunningInv
      <3>2. CASE \A u \in Threads : ~RunsOn(u, g)
        BY <2>5, <2>7, <3>2 DEF RunningInv
      <3>. QED
        BY <3>1, <3>2
    <2>8. Channel' = Channel
      BY <2>1 DEF Channel
    <2>9. Running' = [Running EXCEPT ![h] = t]
      BY <1>3, <2>1, <2>6, <2>7
    <2>. HIDE DEF h
    <2>10. HS!Start(h, t)
      BY <2>3, <2>6, <2>8, <2>9 DEF HS!Start
    <2>. QED
      BY <2>1, <2>10 DEF HS!Next
  <1>7. ASSUME NEW t \in Threads, Ends(t) PROVE HS!Next
    <2>. DEFINE h == call[t]
    <2>1. /\ h \in Hosts /\ pc[t] = "operating" /\ UNCHANGED <<sessions, connector, call>>
          /\ \A u \in Threads : pc'[u] = IF u = t THEN "idle" ELSE pc[u]
      BY <1>1, <1>2, <1>7
      DEF Ends, Operating, ExecDone, ExecFailed, Return, Goto, LocalTypes
    <2>2. RunsOn(t, h) /\ Running[h] = t
      BY <2>1 DEF RunsOn, Operating, RunningInv
    <2>3. \A u \in Threads : ~RunsOn(u, h)'
      <3>. SUFFICES ASSUME NEW u \in Threads, RunsOn(u, h)' PROVE FALSE
        OBVIOUS
      <3>1. u # t /\ RunsOn(u, h)
        BY <2>1 DEF RunsOn, Operating
      <3>. QED
        BY <2>1, <2>2, <3>1 DEF RunningInv
    <2>4. \A u \in Threads, g \in Hosts : g # h => (RunsOn(u, g)' <=> RunsOn(u, g))
      BY <2>1 DEF RunsOn, Operating
    <2>5. Running'[h] = NoThread
      BY <2>1, <2>3 DEF RunningInv
    <2>6. ASSUME NEW g \in Hosts, g # h PROVE Running'[g] = Running[g]
      <3>1. CASE \E u \in Threads : RunsOn(u, g)
        BY <2>4, <2>6, <3>1 DEF RunningInv
      <3>2. CASE \A u \in Threads : ~RunsOn(u, g)
        BY <2>4, <2>6, <3>2 DEF RunningInv
      <3>. QED
        BY <3>1, <3>2
    <2>7. Channel' = Channel
      BY <2>1 DEF Channel
    <2>8. Running' = [Running EXCEPT ![h] = NoThread]
      BY <1>3, <2>1, <2>5, <2>6
    <2>. HIDE DEF h
    <2>9. HS!Finish(h)
      BY <1>2, <2>2, <2>7, <2>8 DEF HS!Finish
    <2>. QED
      BY <2>1, <2>9 DEF HS!Next
  <1>8. ASSUME NEW t \in Threads, Installs(t) PROVE HS!Next
    <2>. DEFINE h == call[t]
    <2>1. PICK c \in Connectors :
            /\ connector' = [connector EXCEPT ![ent[t]] = c] /\ UNCHANGED <<sessions, call>>
      BY <1>1, <1>8
      DEF Installs, OpenInstalled, ExecAdopt, Install, LeaveOpen, StateInv,
          ChannelInv, LocalTypes
    <2>2. /\ h \in Hosts /\ ent[t] \in Entries /\ ent[t] = sessions[h] /\ pc[t] \in Locked
          /\ pc[t] # "operating"
      BY <1>1, <1>2, <1>8
      DEF Installs, OpenInstalled, ExecAdopt, LocalTypes, Locked, SteadyInv
    <2>3. \A u \in Threads : pc'[u] = "operating" <=> pc[u] = "operating"
      BY <1>1, <1>8
      DEF Installs, OpenInstalled, ExecAdopt, LeaveOpen, Goto, LocalTypes
    <2>4. \A u \in Threads : ~RunsOn(u, h)
      <3>. SUFFICES ASSUME NEW u \in Threads, RunsOn(u, h) PROVE FALSE
        OBVIOUS
      <3>1. pc[u] = "operating" /\ ent[u] = sessions[h]
        BY <1>1 DEF RunsOn, Operating, LocalTypes, Locked, SteadyInv
      <3>. QED
        BY <1>1, <2>2, <3>1 DEF Alone, Locked
    <2>5. \A u \in Threads, g \in Hosts : RunsOn(u, g)' <=> RunsOn(u, g)
      BY <2>1, <2>3 DEF RunsOn, Operating
    <2>6. \A g \in Hosts : Running'[g] = Running[g]
      <3>. SUFFICES ASSUME NEW g \in Hosts PROVE Running'[g] = Running[g]
        OBVIOUS
      <3>1. CASE \E u \in Threads : RunsOn(u, g)
        BY <2>5, <3>1 DEF RunningInv
      <3>2. CASE \A u \in Threads : ~RunsOn(u, g)
        BY <2>5, <3>2 DEF RunningInv
      <3>. QED
        BY <3>1, <3>2
    <2>7. Running[h] = NoThread /\ Running' = Running
      BY <1>3, <2>2, <2>4, <2>6 DEF RunningInv
    <2>8. /\ Channel'[h] = c
          /\ \A g \in Hosts : g # h => Channel'[g] = Channel[g]
      <3>1. connector \in [Entries -> Connectors \cup {None}]
        BY <1>1 DEF LocalTypes
      <3>2. \A g \in Hosts : g # h => sessions[g] # ent[t]
        BY <1>1, <2>2 DEF EntryInv, LocalTypes
      <3>3. None \notin Entries
        BY <1>1 DEF LocalTypes
      <3>. QED
        BY <2>1, <2>2, <3>1, <3>2, <3>3 DEF Channel
    <2>9. Channel' = [Channel EXCEPT ![h] = c]
      BY <1>3, <2>2, <2>8
    <2>. HIDE DEF h
    <2>10. HS!Replace(h)
      BY <2>1, <2>7, <2>9 DEF HS!Replace
    <2>. QED
      BY <2>2, <2>10 DEF HS!Next
  <1>9. ASSUME NEW t \in Threads, SteadyStep(t) PROVE [HS!Next]_(HS!vars)
    BY <1>5, <1>6, <1>7, <1>8, <1>9, SameStep
  <1>10. ASSUME NEW c \in Connectors, Drop(c) PROVE UNCHANGED HS!vars
    <2>1. Same
      BY <1>10 DEF Drop, locals, Same, Channel, RunsOn, Operating
    <2>. QED
      BY <1>5, <2>1
  <1>11. ASSUME UNCHANGED vars PROVE UNCHANGED HS!vars
    <2>1. Same
      BY <1>11 DEF vars, shared, locals, Same, Channel, RunsOn, Operating
    <2>. QED
      BY <1>5, <2>1
  <1>. QED
    BY <1>9, <1>10, <1>11, SteadySteps

\* While no client closes a session, open and execute keep what the registry
\* promises: one channel per host, operations on it one at a time, and the
\* channel replaced only in between.
THEOREM RegistryImplementsHostSessions ==
  ASSUME Steady
  PROVE  Spec => ImplementsHostSessions
  <1>1. Init => HS!Init
    <2>. SUFFICES ASSUME Init PROVE HS!Init
      OBVIOUS
    <2>1. Channel = [h \in Hosts |-> None]
      BY DEF Init, Channel
    <2>2. Running = [h \in Hosts |-> NoThread]
      BY DEF Init, Running, Operating
    <2>. QED
      BY <2>1, <2>2 DEF HS!Init
  <1>2. RegistryInv /\ SteadyInv /\ RunningInv /\ RunningInv' /\ [Next]_vars
          => [HS!Next]_(HS!vars)
    BY RefinedStep
  <1>. QED
    BY <1>1, <1>2, RunningIs, RegistryInvariant, SteadyInvariant, PTL
    DEF Spec, ImplementsHostSessions, HS!Spec

=============================================================================
