------------------------------- MODULE ViewPush -------------------------------
(***************************************************************************)
(* core/view_push with features/dhcp: rows the user edits are collected,   *)
(* sent to their device under the host's session lock and marked           *)
(* synchronized; afterwards, and whenever a running-config is collected,   *)
(* the device's helper addresses are written back over the rows.  One      *)
(* thread per pushed host, one GUI thread, one database, one device per    *)
(* host, and one file in which every push leaves its result.               *)
(***************************************************************************)
EXTENDS Integers, FiniteSets

CONSTANTS
    Hosts,
    Plain,          \* kinds of row without options
    Options,        \* options of a pool, each with its action_Cfg bit
    NoRow, NoPool, Free,
    MaxRows,        \* bound: rows ever inserted
    MaxEdits,       \* bound: edits of the user
    MaxCalls,       \* bound: hosts pushed and running-configs collected
    MaxConcurrent   \* hosts of a batch at once

Synced == "helper"   \* the kind a device snapshot replaces
Kinds == Plain \cup {"pool"}
Ids == 1..MaxRows
Values == [Options -> BOOLEAN]   \* an option is set or left to its default
Unset == [o \in Options |-> FALSE]

Modes == {"single", "batch"}
Statuses == {"pending_apply", "pending_delete", "synchronized"}
Row == [host : Hosts, kind : Kinds, opts : Values, bits : Values, status : Statuses]
Task == [id : Ids, row : Row]
Device == [pool : Values \cup {NoPool}, plain : SUBSET Plain]

ASSUME PushAssumption ==
    /\ "pool" \notin Plain /\ Synced \in Plain
    /\ NoPool \notin Values /\ NoRow \notin Row /\ Free \notin Modes
    /\ IsFiniteSet(Hosts)
    /\ {MaxRows, MaxEdits, MaxCalls, MaxConcurrent} \subseteq Nat

VARIABLES
    rows,        \* the tables: NoRow or host, kind, options, bits, status
    next,        \* ids used
    device,      \* what each device runs
    push,        \* the push of a host, by a task of its own or in a batch
    tasks,       \* the rows it read
    batch,       \* hosts of the running batch that are to be reconciled
    batching,    \* a batch task runs
    session,     \* holder of the host's operation lock
    unsent,      \* its commands the device has still to carry out
    output,      \* what the result file holds
    deferred,    \* hosts with a post-push task
    snapshot,    \* running-config collected and not yet written back
    cancelled,   \* the application shuts down
    excused,     \* ghost: kinds of row of a host for which a known weakness was met
    edits, calls

database == <<rows, next>>
threads == <<push, tasks, batch, batching>>
bounds == <<edits, calls>>
vars == <<database, device, threads, session, unsent, output, deferred, snapshot,
          cancelled, excused, bounds>>

NoResult == [host |-> Free, ok |-> FALSE]

Init ==
    /\ rows = [i \in Ids |-> NoRow]
    /\ next = 0
    /\ device = [h \in Hosts |-> [pool |-> NoPool, plain |-> {}]]
    /\ push = [x \in Modes \X Hosts |-> "idle"]
    /\ tasks = [x \in Modes \X Hosts |-> {}]
    /\ batch = {} /\ batching = FALSE
    /\ session = [h \in Hosts |-> Free]
    /\ unsent = [h \in Hosts |-> {}]
    /\ output = NoResult
    /\ deferred = [h \in Hosts |-> 0]
    /\ snapshot = [h \in Hosts |-> [step |-> "none"]]
    /\ cancelled = FALSE
    /\ excused = {}
    /\ edits = 0 /\ calls = 0

-----------------------------------------------------------------------------
(* Rows *)

RowsOf(h, kind) == {i \in Ids : rows[i] # NoRow /\ rows[i].host = h /\ rows[i].kind = kind}

\* Those the getters show
Live(h, kind) == {i \in RowsOf(h, kind) : rows[i].status # "pending_delete"}

Draft(h, kind, opts, bits) ==
    [host |-> h, kind |-> kind, opts |-> opts, bits |-> bits,
     status |-> "pending_apply"]

OnDevice(h, kind) ==
    IF kind = "pool" THEN device[h].pool # NoPool ELSE kind \in device[h].plain

\* soft_delete: a draft goes, any other row waits for its removal.
SoftDelete(i) ==
    IF rows[i].status = "pending_apply" THEN NoRow
    ELSE [rows[i] EXCEPT !.status = "pending_delete"]

\* A row that is pending again after its push is not a draft to the device.
DropsPushed(i) ==
    IF rows[i].status = "pending_apply" /\ OnDevice(rows[i].host, rows[i].kind)
    THEN {rows[i].kind} ELSE {}

Excuse(h, kinds) == excused' = excused \cup {h} \X kinds

Insert(h, kind, opts) ==
    /\ next < MaxRows /\ next' = next + 1
    /\ rows' = [rows EXCEPT ![next + 1] = Draft(h, kind, opts, opts)]

Edit ==
    /\ ~cancelled
    /\ edits < MaxEdits /\ edits' = edits + 1
    /\ UNCHANGED <<device, threads, session, unsent, output, deferred, snapshot, cancelled,
                   calls>>

\* add_dhcp_pool; option_presence_action_cfg selects the options that are set.
AddPool(h, opts) ==
    /\ Edit
    /\ Live(h, "pool") = {}
    /\ Insert(h, "pool", opts)
    /\ UNCHANGED excused

\* add_dhcp_helper_address is an upsert, add_excluded_address an insert.
AddPlain(h, kind) ==
    /\ Edit
    /\ \/ /\ RowsOf(h, kind) = {}
          /\ Insert(h, kind, Unset)
       \/ /\ kind = Synced
          /\ \E i \in RowsOf(h, kind) :
               rows' = [rows EXCEPT ![i].status = "pending_apply"]
          /\ UNCHANGED next
    /\ UNCHANGED excused

\* option_action_cfg: the options that differ from the row
Changed(i, opts) == [o \in Options |-> opts[o] # rows[i].opts[o]]

\* Fault: a status that no push collects.
OtherStatus(i) == "pending"

StatusOnUpdate(i) == "pending_apply"

\* update_dhcp_pool, same identity: the bits are those of this edit alone.
UpdatePool(i, opts) ==
    LET bits == Changed(i, opts) IN
    /\ rows[i] # NoRow /\ rows[i].kind = "pool" /\ rows[i].status # "pending_delete"
    /\ Edit
    /\ opts # rows[i].opts
    /\ rows' = [rows EXCEPT ![i].opts = opts, ![i].bits = bits,
                            ![i].status = StatusOnUpdate(i)]
    /\ Excuse(rows[i].host, {"pool" : o \in {o \in Options : rows[i].bits[o] /\ ~bits[o]}})
    /\ UNCHANGED next

\* update_dhcp_pool with another name, network or mask
ReplacePool(i, opts) ==
    /\ rows[i] # NoRow /\ rows[i].kind = "pool" /\ rows[i].status # "pending_delete"
    /\ Edit
    /\ next < MaxRows /\ next' = next + 1
    /\ rows' = [rows EXCEPT ![i] = SoftDelete(i),
                            ![next + 1] = Draft(rows[i].host, "pool", opts, opts)]
    /\ Excuse(rows[i].host, DropsPushed(i))

DeleteRow(i) ==
    /\ rows[i] # NoRow /\ rows[i].status # "pending_delete"
    /\ Edit
    /\ rows' = [rows EXCEPT ![i] = SoftDelete(i)]
    /\ Excuse(rows[i].host, DropsPushed(i))
    /\ UNCHANGED next

-----------------------------------------------------------------------------
(* Starting a push *)

\* pushViewPushAsync: one task for a host
PushOne(h) ==
    /\ ~cancelled /\ calls < MaxCalls /\ calls' = calls + 1
    /\ push[<<"single", h>>] = "idle"
    /\ push' = [push EXCEPT ![<<"single", h>>] = "queued"]
    /\ UNCHANGED <<database, device, tasks, batch, batching, session, unsent, output,
                   deferred, snapshot, cancelled, excused, edits>>

\* pushViewPushBatchAsync: one task for its hosts
PushBatch(S) ==
    /\ ~cancelled /\ calls + Cardinality(S) <= MaxCalls
    /\ calls' = calls + Cardinality(S)
    /\ ~batching /\ batching' = TRUE
    /\ push' = [x \in Modes \X Hosts |->
                   IF x[1] = "batch" /\ x[2] \in S THEN "queued" ELSE push[x]]
    /\ batch' = {}
    /\ UNCHANGED <<database, device, tasks, session, unsent, output, deferred, snapshot,
                   cancelled, excused, edits>>

PushRest == <<batching, deferred, snapshot, cancelled, bounds>>

\* A push of h ends; reported is whether it was a success with a report.
End(m, h, reported) ==
    /\ push' = [push EXCEPT ![<<m, h>>] = IF m = "batch" THEN "done" ELSE "ended"]
    /\ tasks' = [tasks EXCEPT ![<<m, h>>] = {}]
    /\ batch' = IF reported THEN batch \cup {<<m, h>>} ELSE batch

Active == {h \in Hosts : push[<<"batch", h>>] \in {"waiting", "sending", "sent"}}

\* The pending rows of the host
Pending(h) ==
    {i \in Ids : rows[i] # NoRow /\ rows[i].host = h
                 /\ rows[i].status \in {"pending_apply", "pending_delete"}}

\* Before the session is taken: collect_pending_tasks.  A batch cancelled
\* before a host starts skips it.
Collect(m, h) ==
    /\ push[<<m, h>>] = "queued"
    /\ m = "single" \/ cancelled \/ Cardinality(Active) < MaxConcurrent
    /\ IF Pending(h) = {} \/ (m = "batch" /\ cancelled)
       THEN End(m, h, FALSE)
       ELSE /\ push' = [push EXCEPT ![<<m, h>>] = "waiting"]
            /\ tasks' = [tasks EXCEPT ![<<m, h>>] =
                            {[id |-> i, row |-> rows[i]] : i \in Pending(h)}]
            /\ UNCHANGED batch
    /\ UNCHANGED <<database, device, session, unsent, output, excused, PushRest>>

-----------------------------------------------------------------------------
(* The worker, in the host's session *)

\* A row whose push is done
Settled(row) == [row EXCEPT !.status = "synchronized", !.bits = Unset]

\* Rows that are no longer as they were read, nor as another push of the same
\* row settled them
Stale(T) == {t \in T : /\ rows[t.id] # t.row
                       /\ t.row.status = "pending_delete" \/ rows[t.id] # Settled(t.row)}

KindsOf(T) == {t.row.kind : t \in T}

\* The template: a pool's options, by its bits
Configure(pool, row) ==
    LET base == IF pool = NoPool THEN Unset ELSE pool IN
    [o \in Options |-> IF row.bits[o] THEN row.opts[o] ELSE base[o]]

Executed(d, row) ==
    LET removed == row.status = "pending_delete" IN
    IF row.kind = "pool"
    THEN [d EXCEPT !.pool = IF removed THEN NoPool ELSE Configure(@, row)]
    ELSE [d EXCEPT !.plain = IF removed THEN @ \ {row.kind} ELSE @ \cup {row.kind}]

\* Excluded addresses, pools, helpers; each in the order of its ids
Precedes(a, b) ==
    LET order == <<"excluded", "pool", "helper">>
        rank(t) == CHOOSE k \in 1..3 : order[k] = t.row.kind IN
    rank(a) < rank(b) \/ (rank(a) = rank(b) /\ a.id < b.id)

\* push_tasks, once the session is free
Connect(m, h) ==
    /\ push[<<m, h>>] = "waiting" /\ session[h] = Free
    /\ session' = [session EXCEPT ![h] = m]
    /\ unsent' = [unsent EXCEPT ![h] = tasks[<<m, h>>]]
    /\ push' = [push EXCEPT ![<<m, h>>] = "sending"]
    /\ UNCHANGED <<database, device, tasks, batch, output, excused, PushRest>>

\* The device carries out the next command, or refuses it.
Command(m, h) ==
    /\ push[<<m, h>>] = "sending"
    /\ \E t \in unsent[h], refused \in BOOLEAN :
         /\ \A u \in unsent[h] : ~Precedes(u, t)
         /\ unsent' = [unsent EXCEPT ![h] = @ \ {t}]
         /\ device' = IF refused THEN device
                      ELSE [device EXCEPT ![h] = Executed(@, t.row)]
         /\ Excuse(h, IF refused THEN {t.row.kind} ELSE KindsOf(Stale({t})))
    /\ UNCHANGED <<database, threads, session, output, PushRest>>

\* The result file is written: only an exception is a failure.
Report(m, h) ==
    /\ push[<<m, h>>] = "sending"
    /\ \E ok \in BOOLEAN :
         /\ ok => unsent[h] = {}
         /\ output' = [host |-> h, ok |-> ok]
    /\ unsent' = [unsent EXCEPT ![h] = {}]
    /\ push' = [push EXCEPT ![<<m, h>>] = "sent"]
    /\ UNCHANGED <<database, device, tasks, batch, session, excused, PushRest>>

\* The session does not open, or is busy for longer than lock_timeout.
NoSession(m, h) ==
    /\ push[<<m, h>>] = "waiting"
    /\ End(m, h, FALSE)
    /\ UNCHANGED <<database, device, session, unsent, output, excused, PushRest>>

\* Fault: the rows are marked whatever device the result is of.
ResultIsOfAny(h) == TRUE

ResultIsOf(h) == output.host = h

\* _apply_task_mark, by id
Marked(T) ==
    [i \in Ids |->
        LET mine == {t \in T : t.id = i} IN
        IF mine = {} \/ rows[i] = NoRow THEN rows[i]
        ELSE IF (CHOOSE t \in mine : TRUE).row.status = "pending_delete" THEN NoRow
             ELSE Settled(rows[i])]

\* The result file is read: its result is of this push, or of a later one of
\* another host, which marks nothing and is reported all the same.
Mark(m, h) ==
    LET T == tasks[<<m, h>>]
        changes == \E t \in T : rows[t.id] # NoRow IN
    /\ push[<<m, h>>] = "sent"
    /\ session' = [session EXCEPT ![h] = Free]
    /\ \/ /\ ResultIsOf(h) /\ output.ok
          /\ rows' = Marked(T)
          /\ End(m, h, changes)
          /\ Excuse(h, KindsOf(Stale(T)))
       \/ /\ ~(ResultIsOf(h) /\ output.ok)
          /\ End(m, h, output.ok)
          /\ UNCHANGED <<rows, excused>>
       \/ /\ \E x \in Modes \X Hosts : push[x] = "sending"   \* it is being written
          /\ End(m, h, FALSE)
          /\ UNCHANGED <<rows, excused>>
    /\ UNCHANGED <<next, device, unsent, output, PushRest>>

-----------------------------------------------------------------------------
(* The end of a push, on the GUI thread *)

\* _handle_background_task_finished, _start_post_push_single
SingleEnds(h) ==
    /\ push[<<"single", h>>] = "ended"
    /\ push' = [push EXCEPT ![<<"single", h>>] = "idle"]
    /\ deferred' = [deferred EXCEPT ![h] = IF <<"single", h>> \in batch THEN @ + 1 ELSE @]
    /\ batch' = batch \ {<<"single", h>>}
    /\ UNCHANGED <<database, device, tasks, batching, session, unsent, output, snapshot,
                   cancelled, excused, bounds>>

\* The batch is over once all its hosts are: _start_post_push_batch
BatchEnds ==
    /\ batching /\ batching' = FALSE
    /\ \A h \in Hosts : push[<<"batch", h>>] \in {"idle", "done"}
    /\ push' = [x \in Modes \X Hosts |-> IF x[1] = "batch" THEN "idle" ELSE push[x]]
    /\ deferred' = [h \in Hosts |->
                       IF <<"batch", h>> \in batch THEN deferred[h] + 1 ELSE deferred[h]]
    /\ batch' = {x \in batch : x[1] = "single"}
    /\ UNCHANGED <<database, device, tasks, session, unsent, output, snapshot, cancelled,
                   excused, bounds>>

-----------------------------------------------------------------------------
(* Writing device state back *)

\* sync_dhcp_helpers: the host's helpers become those of the device.
Written(h, plain) ==
    /\ rows' = [i \in Ids |->
           IF i \in RowsOf(h, Synced) THEN NoRow
           ELSE IF Synced \in plain /\ i = next + 1
                THEN Settled(Draft(h, Synced, Unset, Unset))
                ELSE rows[i]]
    /\ next' = IF Synced \in plain THEN next + 1 ELSE next

WriteBack(h, plain) == (Synced \in plain => next < MaxRows) /\ Written(h, plain)

\* reconcile_after_push: the snapshot is taken and, by force, written back in
\* the session; or one of its steps fails.
Reconcile(h) ==
    /\ deferred[h] > 0 /\ session[h] = Free
    /\ deferred' = [deferred EXCEPT ![h] = @ - 1]
    /\ \/ WriteBack(h, device[h].plain) /\ excused' = excused \ {<<h, Synced>>}
       \/ UNCHANGED <<database, excused>>
    /\ UNCHANGED <<device, threads, session, unsent, output, snapshot, cancelled, bounds>>

\* RunningConfigService.collect, in the session
CollectConfig(h) ==
    /\ ~cancelled /\ calls < MaxCalls /\ calls' = calls + 1
    /\ snapshot[h].step = "none" /\ session[h] = Free
    /\ \E mode \in {"safe", "force"} :
         snapshot' = [snapshot EXCEPT
             ![h] = [step |-> "taken", plain |-> device[h].plain, mode |-> mode]]
    /\ UNCHANGED <<database, device, threads, session, unsent, output, deferred, cancelled,
                   excused, edits>>

\* sync_device_state reads what is pending before its transaction.
HasPending(h) ==
    \E i \in RowsOf(h, Synced) : rows[i].status # "synchronized"

LookForPending(h) ==
    /\ snapshot[h].step = "taken"
    /\ snapshot' = [snapshot EXCEPT ![h] =
           IF @.mode = "safe" /\ HasPending(h) THEN [step |-> "none"]
           ELSE [@ EXCEPT !.step = "write"]]
    /\ UNCHANGED <<database, device, threads, session, unsent, output, deferred, cancelled,
                   excused, bounds>>

\* Neither the look nor the write holds the session: the snapshot may be of
\* before a push.
SyncDeviceState(h) ==
    /\ snapshot[h].step = "write"
    /\ WriteBack(h, snapshot[h].plain)
    /\ snapshot' = [snapshot EXCEPT ![h] = [step |-> "none"]]
    /\ excused' = IF Synced \in snapshot[h].plain \cap device[h].plain
                     \/ Synced \notin snapshot[h].plain \cup device[h].plain
                  THEN excused \ {<<h, Synced>>} ELSE excused \cup {<<h, Synced>>}
    /\ UNCHANGED <<device, threads, session, unsent, output, deferred, cancelled, bounds>>

\* shutdown: cancel_all; without a batch it only ends the user's calls.
Shutdown ==
    /\ batching /\ ~cancelled /\ cancelled' = TRUE
    /\ UNCHANGED <<database, device, threads, session, unsent, output, deferred, snapshot,
                   excused, bounds>>

UserEdits ==
    \/ \E h \in Hosts, opts \in Values : AddPool(h, opts)
    \/ \E h \in Hosts, kind \in Plain : AddPlain(h, kind)
    \/ \E i \in Ids, opts \in Values : UpdatePool(i, opts) \/ ReplacePool(i, opts)
    \/ \E i \in Ids : DeleteRow(i)

Next ==
    \/ UserEdits
    \/ \E h \in Hosts : PushOne(h) \/ CollectConfig(h)
    \/ \E S \in SUBSET Hosts \ {{}} : PushBatch(S)
    \/ \E m \in Modes, h \in Hosts :
         \/ Collect(m, h) \/ NoSession(m, h)
         \/ Connect(m, h) \/ Command(m, h) \/ Report(m, h) \/ Mark(m, h)
    \/ \E h \in Hosts :
         SingleEnds(h) \/ Reconcile(h) \/ LookForPending(h) \/ SyncDeviceState(h)
    \/ BatchEnds
    \/ Shutdown

Spec == Init /\ [][Next]_vars

-----------------------------------------------------------------------------
(* Properties *)

\* Every variable has its type.
PushTypeOK ==
    /\ rows \in [Ids -> Row \cup {NoRow}] /\ next \in 0 .. MaxRows
    /\ \A i \in Ids : rows[i] # NoRow => i <= next
    /\ device \in [Hosts -> Device]
    /\ push \in [Modes \X Hosts -> {"idle", "queued", "waiting", "sending", "sent",
                                   "done", "ended"}]
    /\ tasks \in [Modes \X Hosts -> SUBSET Task]
    /\ unsent \in [Hosts -> SUBSET Task]
    /\ batch \subseteq Modes \X Hosts /\ batching \in BOOLEAN
    /\ session \in [Hosts -> Modes \cup {Free}]
    /\ output \in [host : Hosts \cup {Free}, ok : BOOLEAN]
    /\ deferred \in [Hosts -> Nat]
    /\ snapshot \in [Hosts -> [step : {"none"}]
                         \cup [step : {"taken", "write"}, plain : SUBSET Plain,
                              mode : {"safe", "force"}]]
    /\ cancelled \in BOOLEAN
    /\ excused \subseteq Hosts \X Kinds
    /\ edits \in 0 .. MaxEdits /\ calls \in 0 .. MaxCalls

\* A row is shown synchronized only if its device runs it as it reads, and a
\* device runs nothing that has no row, whatever the order of edits, pushes,
\* results and collected configurations; unless, for rows of that kind on that
\* host, a row that had been pushed was dropped as a draft, a second edit
\* replaced the bits of the first, a push sent rows changed since it read them,
\* the device refused a command, or a snapshot was written back after the
\* device had changed; and a fresh snapshot makes helpers true again.
SynchronizedIsTrue ==
    \A h \in Hosts, kind \in Kinds : <<h, kind>> \notin excused =>
        /\ OnDevice(h, kind) => RowsOf(h, kind) # {}
        /\ \A i \in RowsOf(h, kind) : rows[i].status = "synchronized" =>
             OnDevice(h, kind) /\ (kind = "pool" => device[h].pool = rows[i].opts)

\* What is pending stays pending until the user edits it, until a push of its
\* own host that read it succeeds on that host, or, for helpers, until device
\* state is written back: not by a push that failed, nor by the result of
\* another host in the shared file.
PendingKept ==
    [][\A h \in Hosts, kind \in Kinds : \A i \in RowsOf(h, kind) :
         rows[i].status # "synchronized"
         /\ (rows'[i] = NoRow \/ (rows'[i]).status = "synchronized") =>
            \/ edits' # edits
            \/ output = [host |-> h, ok |-> TRUE]
               /\ \E m \in Modes : push[<<m, h>>] = "sent" /\ i \in {t.id : t \in tasks[<<m, h>>]}
            \/ kind = Synced /\ (deferred'[h] # deferred[h] \/ snapshot'[h] # snapshot[h])
      ]_vars
=============================================================================
