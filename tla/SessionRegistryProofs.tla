------------------------ MODULE SessionRegistryProofs ------------------------
(***************************************************************************)
(* Proofs about the session registry: its types, the mutual exclusion of   *)
(* each entry's operation_lock and the order in which locks are nested,    *)
(* for any number of hosts, threads, entries, connectors and calls.        *)
(***************************************************************************)
EXTENDS SessionRegistry, TLAPS

\* The program counters at which a call has resolved its entry.
Resolved == PCs \ {"idle", "exec_entry", "reading", "joining"}

\* Control and locals agree: a resolved call has an entry, and execute's entry
\* is set aside in outer exactly while its nested open runs.
Control ==
    \A t \in Threads :
        /\ pc[t] \in Resolved => ent[t] # None
        /\ pc[t] \notin Resolved => ent[t] = None
        /\ outer[t] # None =>
              pc[t] \in {"open_lock", "open_check", "connecting", "preparing"}

TypeInv == TypeOK /\ Control

-----------------------------------------------------------------------------
(* Types and control *)

LEMMA TypeInvInit == Init => TypeInv
  BY HostAssumption, BoundAssumption
  DEF Init, TypeInv, TypeOK, Control, Resolved, States, PCs, Entries,
      Connectors, None

LEMMA InstallTypes ==
  ASSUME TypeOK, NEW t \in Threads, NEW c \in Connectors \cup {None}, Install(t, c)
  PROVE  /\ connector' \in [Entries -> Connectors \cup {None}]
         /\ generation' \in [Entries -> Nat]
         /\ state' \in [Entries -> States]
         /\ link' \in [Connectors -> {"none", "up", "down"}]
  <1>1. connector' \in [Entries -> Connectors \cup {None}]
    BY DEF TypeOK, Install
  <1>2. generation' \in [Entries -> Nat]
    <2>1. generation \in [Entries -> Nat]
      BY DEF TypeOK
    <2>2. CASE ent[t] \in Entries
      BY <2>1, <2>2 DEF Install
    <2>3. CASE ent[t] \notin Entries
      BY <2>1, <2>3 DEF Install
    <2>. QED
      BY <2>2, <2>3
  <1>3. state' \in [Entries -> States]
    BY DEF TypeOK, Install, SetState, States
  <1>4. link' \in [Connectors -> {"none", "up", "down"}]
    BY DEF TypeOK, Install, Disconnect
  <1>. QED
    BY <1>1, <1>2, <1>3, <1>4

LEMMA TypeInvNext == TypeInv /\ [Next]_vars => TypeInv'
  <1>. SUFFICES ASSUME TypeInv, [Next]_vars PROVE TypeInv'
    OBVIOUS
  <1>. USE BoundAssumption
       DEF TypeInv, TypeOK, Control, Resolved, shared, locals, States, PCs,
           None, Entries, Connectors
  <1>1. ASSUME NEW t \in Threads, Step(t) PROVE TypeInv'
    <2>. USE <1>1
    <2>1. ASSUME NEW h \in Hosts, OpenCall(t, h) PROVE TypeInv'
      <3>1. TypeOK'
        BY <2>1, SMTT(30)
        DEF OpenCall, Begin, Register, Goto, EntryOf
      <3>2. Control'
        BY <2>1
        DEF OpenCall, Begin, Register, Goto, EntryOf
      <3>. QED
        BY <3>1, <3>2
    <2>2. ASSUME OpenNested(t) PROVE TypeInv'
      BY <2>2 DEF OpenNested, Register, Goto, EntryOf
    <2>3. ASSUME OpenLock(t) PROVE TypeInv'
      BY <2>3 DEF OpenLock, TakeLock, Goto
    <2>4. ASSUME OpenAlready(t) PROVE TypeInv'
      BY <2>4
      DEF OpenAlready, LeaveOpen, SetState, Goto, ReleaseLock
    <2>5. ASSUME OpenRefused(t) PROVE TypeInv'
      <3>1. ent[t] \in Entries
        BY <2>5 DEF OpenRefused
      <3>2. state[ent[t]] \in States
        BY <3>1
      <3>3. \E s \in States : state' = [state EXCEPT ![ent[t]] = s]
        BY <2>5, <3>2 DEF OpenRefused, SetState
      <3>4. state' \in [Entries -> States]
        BY <3>3
      <3>. QED
        BY <2>5, <3>4 DEF OpenRefused, LeaveOpen, Goto, ReleaseLock
    <2>6. ASSUME OpenConnecting(t) PROVE TypeInv'
      BY <2>6 DEF OpenConnecting, SetState, Goto
    <2>7. ASSUME OpenConnectFailed(t) PROVE TypeInv'
      BY <2>7
      DEF OpenConnectFailed, LeaveOpen, SetState, Goto, ReleaseLock
    <2>8. ASSUME OpenConnected(t) PROVE TypeInv'
      <3>1. TypeOK'
        BY <2>8, SMTT(30) DEF OpenConnected, Goto
      <3>2. Control'
        BY <2>8 DEF OpenConnected, Goto
      <3>. QED
        BY <3>1, <3>2
    <2>9. ASSUME OpenInstalled(t) PROVE TypeInv'
      BY <2>9, InstallTypes DEF OpenInstalled, LeaveOpen, Goto, ReleaseLock
    <2>10. ASSUME OpenPrepareFailed(t) PROVE TypeInv'
      BY <2>10
      DEF OpenPrepareFailed, LeaveOpen, SetState, Goto, ReleaseLock, Disconnect
    <2>11. ASSUME NEW h \in Hosts, CloseNothing(t, h) PROVE TypeInv'
      <3>1. TypeOK'
        BY <2>11, SMTT(30) DEF CloseNothing, Begin, Goto
      <3>2. Control'
        BY <2>11 DEF CloseNothing, Begin, Goto
      <3>. QED
        BY <3>1, <3>2
    <2>12. ASSUME NEW h \in Hosts, CloseCall(t, h) PROVE TypeInv'
      <3>1. TypeOK'
        BY <2>12, SMTT(30) DEF CloseCall, Begin, Goto
      <3>2. Control'
        BY <2>12 DEF CloseCall, Begin, Goto
      <3>. QED
        BY <3>1, <3>2
    <2>13. ASSUME CloseLock(t) PROVE TypeInv'
      BY <2>13 DEF CloseLock, TakeLock, Goto
    <2>14. ASSUME CloseTake(t) PROVE TypeInv'
      BY <2>14 DEF CloseTake, SetState, Goto
    <2>15. ASSUME CloseDisconnected(t) PROVE TypeInv'
      BY <2>15
      DEF CloseDisconnected, SetState, Goto, ReleaseLock, Disconnect
    <2>16. ASSUME ClosePop(t) PROVE TypeInv'
      BY <2>16 DEF ClosePop, Goto
    <2>17. ASSUME CloseAllCall(t) PROVE TypeInv'
      <3>1. TypeOK'
        BY <2>17, SMTT(30) DEF CloseAllCall, Begin, Goto
      <3>2. Control'
        BY <2>17 DEF CloseAllCall, Begin, Goto
      <3>. QED
        BY <3>1, <3>2
    <2>18. ASSUME CloseAllRead(t) PROVE TypeInv'
      <3>1. PICK e \in todo[t] :
               /\ todo' = [todo EXCEPT ![t] = @ \ {e}]
               /\ waitFor' = [waitFor EXCEPT ![t] = @ \cup ({connector[e]} \ {None})]
        BY <2>18 DEF CloseAllRead
      <3>2. e \in Entries /\ {connector[e]} \ {None} \subseteq Connectors
        <4>1. e \in Entries
          BY <3>1
        <4>. QED
          BY <4>1
      <3>3. todo' \in [Threads -> SUBSET Entries]
        BY <3>1
      <3>4. waitFor' \in [Threads -> SUBSET Connectors]
        <4>1. waitFor[t] \cup ({connector[e]} \ {None}) \in SUBSET Connectors
          BY <3>2
        <4>. QED
          BY <3>1, <4>1
      <3>. QED
        BY <2>18, <3>3, <3>4 DEF CloseAllRead
    <2>19. ASSUME CloseAllStart(t) PROVE TypeInv'
      BY <2>19 DEF CloseAllStart, Goto
    <2>20. ASSUME CloseAllJoined(t) PROVE TypeInv'
      BY <2>20 DEF CloseAllJoined, Goto
    <2>21. ASSUME CloseAllTimeout(t) PROVE TypeInv'
      BY <2>21 DEF CloseAllTimeout, Goto
    <2>22. ASSUME NEW h \in Hosts, ExecCall(t, h) PROVE TypeInv'
      <3>1. TypeOK'
        BY <2>22, SMTT(30) DEF ExecCall, Begin, Goto, GetConnector
      <3>2. Control'
        BY <2>22 DEF ExecCall, Begin, Goto, GetConnector
      <3>. QED
        BY <3>1, <3>2
    <2>23. ASSUME ExecEntry(t) PROVE TypeInv'
      <3>1. TypeOK'
        BY <2>23 DEF ExecEntry, Register, Goto, EntryOf
      <3>2. Control'
        BY <2>23 DEF ExecEntry, Register, Goto, EntryOf
      <3>. QED
        BY <3>1, <3>2
    <2>24. ASSUME ExecLock(t) PROVE TypeInv'
      BY <2>24 DEF ExecLock, TakeLock, Goto
    <2>25. ASSUME ExecBusy(t) PROVE TypeInv'
      BY <2>25 DEF ExecBusy, Return, Goto
    <2>26. ASSUME ExecAdopt(t) PROVE TypeInv'
      <3>1. ent[t] \in Entries
        BY <2>26 DEF ExecAdopt
      <3>2. generation[ent[t]] + 1 \in Nat
        BY <3>1
      <3>3. seen' \in [Threads -> Nat]
        BY <2>26, <3>2 DEF ExecAdopt
      <3>4. Install(t, existing[t])
        BY <2>26 DEF ExecAdopt
      <3>5. /\ connector' \in [Entries -> Connectors \cup {None}]
            /\ generation' \in [Entries -> Nat]
            /\ state' \in [Entries -> States]
            /\ link' \in [Connectors -> {"none", "up", "down"}]
        BY <3>4, InstallTypes
      <3>. QED
        <4>1. TypeOK'
          BY <2>26, <3>3, <3>5 DEF ExecAdopt, Goto
        <4>2. Control'
          BY <2>26, <3>3, <3>5, SMTT(30) DEF ExecAdopt, Goto
        <4>. QED
          BY <4>1, <4>2
    <2>27. ASSUME ExecReuse(t) PROVE TypeInv'
      BY <2>27 DEF ExecReuse, Goto
    <2>28. ASSUME ExecNoSession(t) PROVE TypeInv'
      BY <2>28
      DEF ExecNoSession, NoLiveSession, SetState, ReleaseLock, Return, Goto
    <2>29. ASSUME ExecOpen(t) PROVE TypeInv'
      BY <2>29 DEF ExecOpen, NoLiveSession, SetState, Goto
    <2>30. ASSUME ExecRejected(t) PROVE TypeInv'
      BY <2>30 DEF ExecRejected, ReleaseLock, Return, Goto
    <2>31. ASSUME ExecOpened(t) PROVE TypeInv'
      BY <2>31 DEF ExecOpened, Goto
    <2>32. ASSUME ExecNotLive(t) PROVE TypeInv'
      BY <2>32
      DEF ExecNotLive, SetState, ReleaseLock, Return, Goto
    <2>33. ASSUME ExecStart(t) PROVE TypeInv'
      BY <2>33 DEF ExecStart, Goto
    <2>34. ASSUME ExecDone(t) PROVE TypeInv'
      BY <2>34
      DEF ExecDone, SetStateIfCurrent, ReleaseLock, Return, Goto
    <2>35. ASSUME ExecFailed(t) PROVE TypeInv'
      BY <2>35
      DEF ExecFailed, SetStateIfCurrent, ReleaseLock, Return, Goto
    <2>. QED
      BY <2>1, <2>2, <2>3, <2>4, <2>5, <2>6, <2>7, <2>8, <2>9, <2>10, <2>11,
        <2>12, <2>13, <2>14, <2>15, <2>16, <2>17, <2>18, <2>19, <2>20, <2>21,
        <2>22, <2>23, <2>24, <2>25, <2>26, <2>27, <2>28, <2>29, <2>30, <2>31,
        <2>32, <2>33, <2>34, <2>35
      DEF Step, Open, Close, CloseAll, Execute
  <1>2. ASSUME NEW c \in Connectors, Reap(c) PROVE TypeInv'
    BY <1>2 DEF Reap, Disconnect
  <1>3. ASSUME NEW c \in Connectors, Drop(c) PROVE TypeInv'
    BY <1>3 DEF Drop, Disconnect
  <1>4. CASE UNCHANGED vars
    BY <1>4 DEF vars
  <1>. QED
    BY <1>1, <1>2, <1>3, <1>4 DEF Next, Done

\* Every variable keeps its type in every reachable state of the registry.
THEOREM TypeCorrect == Spec => []TypeOK
  <1>1. TypeInv => TypeOK
    BY DEF TypeInv
  <1>. QED
    BY <1>1, TypeInvInit, TypeInvNext, PTL DEF Spec

-----------------------------------------------------------------------------
(* The operation_lock *)

\* A thread owns exactly the locks its program counter says it is under.
Ownership ==
    \A t \in Threads, e \in Entries : owner[e] = t <=> e \in HeldBy(t)

LEMMA OwnershipInit == Init => Ownership
  BY ThreadAssumption DEF Init, Ownership, HeldBy, Locked, None

LEMMA OwnershipNext == TypeInv /\ Ownership /\ [Next]_vars => Ownership'
  <1>. SUFFICES ASSUME TypeInv, Ownership, [Next]_vars PROVE Ownership'
    OBVIOUS
  <1>. USE ThreadAssumption
       DEF TypeInv, TypeOK, Control, Ownership, HeldBy, Locked, Resolved, PCs,
           shared, locals, None
  <1>1. ASSUME NEW t \in Threads, Step(t) PROVE Ownership'
    <2>. USE <1>1
    <2>1. ASSUME NEW h \in Hosts, OpenCall(t, h) PROVE Ownership'
      BY <2>1
      DEF OpenCall, Begin, Register, Goto, EntryOf
    <2>2. ASSUME OpenNested(t) PROVE Ownership'
      BY <2>2 DEF OpenNested, Register, Goto, EntryOf
    <2>3. ASSUME OpenLock(t) PROVE Ownership'
      BY <2>3 DEF OpenLock, TakeLock, Goto
    <2>4. ASSUME OpenAlready(t) PROVE Ownership'
      BY <2>4
      DEF OpenAlready, LeaveOpen, SetState, Goto, ReleaseLock
    <2>5. ASSUME OpenRefused(t) PROVE Ownership'
      BY <2>5
      DEF OpenRefused, LeaveOpen, SetState, Goto, ReleaseLock
    <2>6. ASSUME OpenConnecting(t) PROVE Ownership'
      BY <2>6 DEF OpenConnecting, SetState, Goto
    <2>7. ASSUME OpenConnectFailed(t) PROVE Ownership'
      BY <2>7
      DEF OpenConnectFailed, LeaveOpen, SetState, Goto, ReleaseLock
    <2>8. ASSUME OpenConnected(t) PROVE Ownership'
      BY <2>8 DEF OpenConnected, Goto
    <2>9. ASSUME OpenInstalled(t) PROVE Ownership'
      BY <2>9
      DEF OpenInstalled, Install, LeaveOpen, SetState, Goto, ReleaseLock, Disconnect
    <2>10. ASSUME OpenPrepareFailed(t) PROVE Ownership'
      BY <2>10
      DEF OpenPrepareFailed, LeaveOpen, SetState, Goto, ReleaseLock, Disconnect
    <2>11. ASSUME NEW h \in Hosts, CloseNothing(t, h) PROVE Ownership'
      BY <2>11 DEF CloseNothing, Begin, Goto
    <2>12. ASSUME NEW h \in Hosts, CloseCall(t, h) PROVE Ownership'
      BY <2>12 DEF CloseCall, Begin, Goto
    <2>13. ASSUME CloseLock(t) PROVE Ownership'
      BY <2>13 DEF CloseLock, TakeLock, Goto
    <2>14. ASSUME CloseTake(t) PROVE Ownership'
      BY <2>14 DEF CloseTake, SetState, Goto
    <2>15. ASSUME CloseDisconnected(t) PROVE Ownership'
      BY <2>15
      DEF CloseDisconnected, SetState, Goto, ReleaseLock, Disconnect
    <2>16. ASSUME ClosePop(t) PROVE Ownership'
      BY <2>16 DEF ClosePop, Goto
    <2>17. ASSUME CloseAllCall(t) PROVE Ownership'
      BY <2>17 DEF CloseAllCall, Begin, Goto
    <2>18. ASSUME CloseAllRead(t) PROVE Ownership'
      BY <2>18 DEF CloseAllRead
    <2>19. ASSUME CloseAllStart(t) PROVE Ownership'
      BY <2>19 DEF CloseAllStart, Goto
    <2>20. ASSUME CloseAllJoined(t) PROVE Ownership'
      BY <2>20 DEF CloseAllJoined, Goto
    <2>21. ASSUME CloseAllTimeout(t) PROVE Ownership'
      BY <2>21 DEF CloseAllTimeout, Goto
    <2>22. ASSUME NEW h \in Hosts, ExecCall(t, h) PROVE Ownership'
      BY <2>22 DEF ExecCall, Begin, Goto, GetConnector
    <2>23. ASSUME ExecEntry(t) PROVE Ownership'
      BY <2>23 DEF ExecEntry, Register, Goto, EntryOf
    <2>24. ASSUME ExecLock(t) PROVE Ownership'
      BY <2>24 DEF ExecLock, TakeLock, Goto
    <2>25. ASSUME ExecBusy(t) PROVE Ownership'
      BY <2>25 DEF ExecBusy, Return, Goto
    <2>26. ASSUME ExecAdopt(t) PROVE Ownership'
      BY <2>26
      DEF ExecAdopt, Install, SetState, Goto, Disconnect
    <2>27. ASSUME ExecReuse(t) PROVE Ownership'
      BY <2>27 DEF ExecReuse, Goto
    <2>28. ASSUME ExecNoSession(t) PROVE Ownership'
      BY <2>28
      DEF ExecNoSession, NoLiveSession, SetState, ReleaseLock, Return, Goto
    <2>29. ASSUME ExecOpen(t) PROVE Ownership'
      BY <2>29 DEF ExecOpen, NoLiveSession, SetState, Goto
    <2>30. ASSUME ExecRejected(t) PROVE Ownership'
      BY <2>30 DEF ExecRejected, ReleaseLock, Return, Goto
    <2>31. ASSUME ExecOpened(t) PROVE Ownership'
      BY <2>31 DEF ExecOpened, Goto
    <2>32. ASSUME ExecNotLive(t) PROVE Ownership'
      BY <2>32
      DEF ExecNotLive, SetState, ReleaseLock, Return, Goto
    <2>33. ASSUME ExecStart(t) PROVE Ownership'
      BY <2>33 DEF ExecStart, Goto
    <2>34. ASSUME ExecDone(t) PROVE Ownership'
      BY <2>34
      DEF ExecDone, SetStateIfCurrent, ReleaseLock, Return, Goto
    <2>35. ASSUME ExecFailed(t) PROVE Ownership'
      BY <2>35
      DEF ExecFailed, SetStateIfCurrent, ReleaseLock, Return, Goto
    <2>. QED
      BY <2>1, <2>2, <2>3, <2>4, <2>5, <2>6, <2>7, <2>8, <2>9, <2>10, <2>11,
        <2>12, <2>13, <2>14, <2>15, <2>16, <2>17, <2>18, <2>19, <2>20, <2>21,
        <2>22, <2>23, <2>24, <2>25, <2>26, <2>27, <2>28, <2>29, <2>30, <2>31,
        <2>32, <2>33, <2>34, <2>35
      DEF Step, Open, Close, CloseAll, Execute
  <1>2. ASSUME NEW c \in Connectors, Reap(c) PROVE Ownership'
    BY <1>2 DEF Reap, Disconnect
  <1>3. ASSUME NEW c \in Connectors, Drop(c) PROVE Ownership'
    BY <1>3 DEF Drop, Disconnect
  <1>4. CASE UNCHANGED vars
    BY <1>4 DEF vars
  <1>. QED
    BY <1>1, <1>2, <1>3, <1>4 DEF Next, Done

\* At most one thread is inside the operation_lock of an entry: open, close and
\* execute of the same session never overlap.
THEOREM LocksExclude == Spec => []EntryMutex
  <1>1. TypeInv /\ Ownership => EntryMutex
    <2>. SUFFICES ASSUME TypeInv, Ownership, NEW t \in Threads,
                         NEW u \in Threads, t # u, NEW e \in HeldBy(t) \cap HeldBy(u)
                  PROVE FALSE
      BY DEF EntryMutex
    <2>1. e \in Entries
      BY DEF TypeInv, TypeOK, Control, HeldBy, Locked, Resolved, PCs
    <2>. QED
      BY <2>1 DEF Ownership
  <1>. QED
    BY <1>1, TypeInvInit, TypeInvNext, OwnershipInit, OwnershipNext, PTL DEF Spec

-----------------------------------------------------------------------------
(* The order in which locks are nested *)

\* Entry numbers in use are those handed out, and no caller holds on to an entry
\* newer than the registered one.
Order ==
    /\ \A h \in Hosts : sessions[h] <= created
    /\ \A t \in Threads : ent[t] <= created
    /\ NewestRegistered
    /\ LockOrder

LEMMA OrderInit == Init => Order
  BY DEF Init, Order, NewestRegistered, LockOrder, None

\* A thread leaves its entry; entries may have been taken off the registry.
LEMMA OrderLeave ==
  ASSUME TypeInv, Order, NEW t \in Threads, outer[t] = None,
         ent' = [ent EXCEPT ![t] = None], UNCHANGED <<created, outer, call>>,
         \A h \in Hosts : sessions'[h] \in {None, sessions[h]}
  PROVE  Order'
  <1>. USE DEF TypeInv, TypeOK, Order, None
  <1>0. created \in Int /\ 0 <= created
    BY BoundAssumption
  <1>1. \A u \in Threads : ent'[u] = IF u = t THEN None ELSE ent[u]
    OBVIOUS
  <1>2. \A u \in Threads : ent'[u] <= created'
    BY <1>0, <1>1
  <1>3. \A h \in Hosts : sessions'[h] <= created'
    BY <1>0
  <1>4. NewestRegistered'
    BY <1>1 DEF NewestRegistered
  <1>5. LockOrder'
    BY <1>1 DEF LockOrder
  <1>. QED
    BY <1>2, <1>3, <1>4, <1>5

\* A thread resolves the entry of h, keeping the one it holds (if any) in outer.
LEMMA OrderRegister ==
  ASSUME TypeInv, Order, NEW t \in Threads, NEW h \in Hosts, Register(h),
         ent' = [ent EXCEPT ![t] = EntryOf(h)],
         outer' = [outer EXCEPT ![t] = ent[t]],
         call' = [call EXCEPT ![t] = h],
         ent[t] # None => call[t] = h
  PROVE  Order'
  <1>. USE DEF TypeInv, TypeOK, Order, None, Entries
  <1>0. created \in Int /\ 0 <= created
    BY BoundAssumption
  <1>1. \A u \in Threads : /\ ent'[u] = IF u = t THEN EntryOf(h) ELSE ent[u]
                           /\ outer'[u] = IF u = t THEN ent[t] ELSE outer[u]
                           /\ call'[u] = IF u = t THEN h ELSE call[u]
    OBVIOUS
  <1>2. \A g \in Hosts : sessions'[g] = IF g = h THEN EntryOf(h) ELSE sessions[g]
    BY DEF Register
  <1>3. /\ EntryOf(h) \in Int
        /\ created <= created' /\ EntryOf(h) <= created'
        /\ created' \in Int
        /\ sessions[h] = None => created < EntryOf(h)
        /\ sessions[h] # None => EntryOf(h) = sessions[h]
    BY <1>0 DEF Register, EntryOf
  <1>4. /\ \A u \in Threads : ent[u] \in Int /\ ent[u] <= created
        /\ \A g \in Hosts : sessions[g] \in Int /\ sessions[g] <= created
    BY BoundAssumption
  <1>5. \A u \in Threads : ent'[u] <= created'
    BY <1>0, <1>1, <1>3, <1>4
  <1>6. \A g \in Hosts : sessions'[g] <= created'
    <2>. SUFFICES ASSUME NEW g \in Hosts PROVE sessions'[g] <= created'
      OBVIOUS
    <2>1. CASE g = h
      BY <1>2, <1>3, <2>1
    <2>2. CASE g # h
      <3>1. sessions'[g] = sessions[g]
        BY <1>2, <2>2
      <3>. QED
        BY <1>0, <1>3, <1>4, <3>1
    <2>. QED
      BY <2>1, <2>2
  <1>7. \A u \in Threads : ent[u] # None /\ call[u] = h => ent[u] <= EntryOf(h)
    BY <1>0, <1>3, <1>4 DEF NewestRegistered
  <1>8. NewestRegistered'
    <2>. SUFFICES ASSUME NEW u \in Threads, ent'[u] # None, sessions'[call'[u]] # None
                  PROVE  ent'[u] <= sessions'[call'[u]]
      BY DEF NewestRegistered
    <2>1. CASE u = t
      BY <1>1, <1>2, <1>3, <2>1
    <2>2. CASE u # t /\ call[u] = h
      BY <1>1, <1>2, <1>7, <2>2
    <2>3. CASE u # t /\ call[u] # h
      BY <1>1, <1>2, <2>3 DEF NewestRegistered
    <2>. QED
      BY <2>1, <2>2, <2>3
  <1>9. LockOrder'
    BY <1>1, <1>7 DEF LockOrder
  <1>. QED
    BY <1>5, <1>6, <1>8, <1>9

LEMMA OrderNext == TypeInv /\ Order /\ [Next]_vars => Order'
  <1>. SUFFICES ASSUME TypeInv, Order, [Next]_vars PROVE Order'
    OBVIOUS
  <1>. USE BoundAssumption
       DEF TypeInv, TypeOK, Control, Order, NewestRegistered, LockOrder,
           Resolved, PCs, shared, locals, None, Entries
  <1>1. ASSUME NEW t \in Threads, Step(t) PROVE Order'
    <2>. USE <1>1
    <2>1. ASSUME NEW h \in Hosts, OpenCall(t, h) PROVE Order'
      <3>1. outer[t] = None /\ ent[t] = None
        BY <2>1 DEF OpenCall, Begin
      <3>2. outer' = [outer EXCEPT ![t] = ent[t]]
        BY <2>1, <3>1 DEF OpenCall
      <3>. QED
        BY <2>1, <3>1, <3>2, OrderRegister DEF OpenCall, Begin
    <2>2. ASSUME OpenNested(t) PROVE Order'
      BY <2>2, OrderRegister DEF OpenNested
    <2>3. ASSUME OpenLock(t) PROVE Order'
      BY <2>3 DEF OpenLock, TakeLock, Goto
    <2>4. ASSUME OpenAlready(t) PROVE Order'
      BY <2>4 DEF OpenAlready, LeaveOpen, Goto, ReleaseLock
    <2>5. ASSUME OpenRefused(t) PROVE Order'
      BY <2>5 DEF OpenRefused, LeaveOpen, Goto, ReleaseLock
    <2>6. ASSUME OpenConnecting(t) PROVE Order'
      BY <2>6 DEF OpenConnecting, Goto
    <2>7. ASSUME OpenConnectFailed(t) PROVE Order'
      BY <2>7 DEF OpenConnectFailed, LeaveOpen, Goto, ReleaseLock
    <2>8. ASSUME OpenConnected(t) PROVE Order'
      BY <2>8 DEF OpenConnected, Goto
    <2>9. ASSUME OpenInstalled(t) PROVE Order'
      BY <2>9
      DEF OpenInstalled, Install, LeaveOpen, Goto, ReleaseLock, Disconnect
    <2>10. ASSUME OpenPrepareFailed(t) PROVE Order'
      BY <2>10
      DEF OpenPrepareFailed, LeaveOpen, Goto, ReleaseLock, Disconnect
    <2>11. ASSUME NEW h \in Hosts, CloseNothing(t, h) PROVE Order'
      BY <2>11 DEF CloseNothing, Begin, Goto
    <2>12. ASSUME NEW h \in Hosts, CloseCall(t, h) PROVE Order'
      BY <2>12 DEF CloseCall, Begin, Goto
    <2>13. ASSUME CloseLock(t) PROVE Order'
      BY <2>13 DEF CloseLock, TakeLock, Goto
    <2>14. ASSUME CloseTake(t) PROVE Order'
      BY <2>14 DEF CloseTake, Goto
    <2>15. ASSUME CloseDisconnected(t) PROVE Order'
      BY <2>15 DEF CloseDisconnected, Goto, ReleaseLock, Disconnect
    <2>16. ASSUME ClosePop(t) PROVE Order'
      BY <2>16, OrderLeave DEF ClosePop
    <2>17. ASSUME CloseAllCall(t) PROVE Order'
      BY <2>17 DEF CloseAllCall, Begin, Goto
    <2>18. ASSUME CloseAllRead(t) PROVE Order'
      BY <2>18 DEF CloseAllRead
    <2>19. ASSUME CloseAllStart(t) PROVE Order'
      BY <2>19 DEF CloseAllStart, Goto
    <2>20. ASSUME CloseAllJoined(t) PROVE Order'
      BY <2>20 DEF CloseAllJoined, Goto
    <2>21. ASSUME CloseAllTimeout(t) PROVE Order'
      BY <2>21 DEF CloseAllTimeout, Goto
    <2>22. ASSUME NEW h \in Hosts, ExecCall(t, h) PROVE Order'
      BY <2>22 DEF ExecCall, Begin, Goto, GetConnector
    <2>23. ASSUME ExecEntry(t) PROVE Order'
      <3>1. outer[t] = None /\ ent[t] = None
        BY <2>23 DEF ExecEntry
      <3>2. outer' = [outer EXCEPT ![t] = ent[t]]
        BY <2>23, <3>1 DEF ExecEntry
      <3>3. call' = [call EXCEPT ![t] = call[t]] /\ call[t] \in Hosts
        BY <2>23 DEF ExecEntry
      <3>. QED
        BY <2>23, <3>1, <3>2, <3>3, OrderRegister DEF ExecEntry
    <2>24. ASSUME ExecLock(t) PROVE Order'
      BY <2>24 DEF ExecLock, TakeLock, Goto
    <2>25. ASSUME ExecBusy(t) PROVE Order'
      BY <2>25, OrderLeave DEF ExecBusy, Return
    <2>26. ASSUME ExecAdopt(t) PROVE Order'
      BY <2>26 DEF ExecAdopt, Install, Goto, Disconnect
    <2>27. ASSUME ExecReuse(t) PROVE Order'
      BY <2>27 DEF ExecReuse, Goto
    <2>28. ASSUME ExecNoSession(t) PROVE Order'
      BY <2>28, OrderLeave DEF ExecNoSession, NoLiveSession, Return
    <2>29. ASSUME ExecOpen(t) PROVE Order'
      BY <2>29 DEF ExecOpen, NoLiveSession, Goto
    <2>30. ASSUME ExecRejected(t) PROVE Order'
      BY <2>30, OrderLeave DEF ExecRejected, Return
    <2>31. ASSUME ExecOpened(t) PROVE Order'
      BY <2>31 DEF ExecOpened, Goto
    <2>32. ASSUME ExecNotLive(t) PROVE Order'
      BY <2>32, OrderLeave DEF ExecNotLive, Return
    <2>33. ASSUME ExecStart(t) PROVE Order'
      BY <2>33 DEF ExecStart, Goto
    <2>34. ASSUME ExecDone(t) PROVE Order'
      BY <2>34, OrderLeave DEF ExecDone, Return
    <2>35. ASSUME ExecFailed(t) PROVE Order'
      BY <2>35, OrderLeave DEF ExecFailed, Return
    <2>. QED
      BY <2>1, <2>2, <2>3, <2>4, <2>5, <2>6, <2>7, <2>8, <2>9, <2>10, <2>11,
        <2>12, <2>13, <2>14, <2>15, <2>16, <2>17, <2>18, <2>19, <2>20, <2>21,
        <2>22, <2>23, <2>24, <2>25, <2>26, <2>27, <2>28, <2>29, <2>30, <2>31,
        <2>32, <2>33, <2>34, <2>35
      DEF Step, Open, Close, CloseAll, Execute
  <1>2. ASSUME NEW c \in Connectors, Reap(c) PROVE Order'
    BY <1>2 DEF Reap, Disconnect
  <1>3. ASSUME NEW c \in Connectors, Drop(c) PROVE Order'
    BY <1>3 DEF Drop, Disconnect
  <1>4. CASE UNCHANGED vars
    BY <1>4 DEF vars
  <1>. QED
    BY <1>1, <1>2, <1>3, <1>4 DEF Next, Done

\* A thread that holds one operation_lock asks only for the lock of the same or
\* of a newer entry, so threads never wait for each other in a cycle.
THEOREM NestedLocksAscend == Spec => []LockOrder
  <1>1. Order => LockOrder
    BY DEF Order
  <1>. QED
    BY <1>1, TypeInvInit, TypeInvNext, OrderInit, OrderNext, PTL DEF Spec

\* Whoever resolved an entry finds later that entry, none or a newer one
\* registered for its host, never an older one.
THEOREM RegisteredEntryIsNewest == Spec => []NewestRegistered
  <1>1. Order => NewestRegistered
    BY DEF Order
  <1>. QED
    BY <1>1, TypeInvInit, TypeInvNext, OrderInit, OrderNext, PTL DEF Spec
=============================================================================
