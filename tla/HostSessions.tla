----------------------------- MODULE HostSessions -----------------------------
(***************************************************************************)
(* What the session registry promises its clients (docs/ARCHITECTURE.md,   *)
(* section 6): one CLI channel per host, reused by the operations, which   *)
(* run on it one at a time.  The channel changes only between operations.  *)
(***************************************************************************)
CONSTANTS Hosts, Threads, NoThread, Connectors, None

VARIABLES
    channel,  \* the connector a host's next operation uses
    running   \* the thread whose operation runs on a host

vars == <<channel, running>>

Init ==
    /\ channel = [h \in Hosts |-> None]
    /\ running = [h \in Hosts |-> NoThread]

Replace(h) ==
    /\ running[h] = NoThread
    /\ \E c \in Connectors : channel' = [channel EXCEPT ![h] = c]
    /\ UNCHANGED running

Start(h, t) ==
    /\ running[h] = NoThread
    /\ channel[h] # None
    /\ running' = [running EXCEPT ![h] = t]
    /\ UNCHANGED channel

Finish(h) ==
    /\ running[h] # NoThread
    /\ running' = [running EXCEPT ![h] = NoThread]
    /\ UNCHANGED channel

Next == \E h \in Hosts : Replace(h) \/ Finish(h) \/ \E t \in Threads : Start(h, t)

Spec == Init /\ [][Next]_vars
=============================================================================
