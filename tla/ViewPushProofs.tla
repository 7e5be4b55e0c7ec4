---------------------------- MODULE ViewPushProofs ----------------------------
(***************************************************************************)
(* Proofs about ViewPush, for every set of hosts and options and every     *)
(* bound.                                                                  *)
(***************************************************************************)
EXTENDS ViewPush, FiniteSetTheorems, TLAPS

Steps == {"idle", "queued", "waiting", "sending", "sent", "done", "ended"}

\* The types of the rows, and of all other variables
RowTypes ==
    /\ rows \in [Ids -> Row \cup {NoRow}] /\ next \in 0 .. MaxRows
    /\ \A i \in Ids : rows[i] # NoRow => i <= next

OtherTypes ==
    /\ device \in [Hosts -> Device]
    /\ push \in [Modes \X Hosts -> Steps]
    /\ tasks \in [Modes \X Hosts -> SUBSET Task]
    /\ unsent \in [Hosts -> SUBSET Task]
    /\ batch \subseteq Modes \X Hosts /\ batching \in BOOLEAN
    /\ session \in [Hosts -> Modes \cup {Free}]
    /\ output \in [host : Hosts \cup {Free}, ok : BOOLEAN]
    /\ deferred \in [Hosts -> Nat]
    /\ snapshot \in [Hosts -> [step : {"none"}]
                         \cup [step : {"taken", "write"}, plain : SUBSET Plain,
                              mode : {"safe", "force"}]]
    /\ cancelled \in BOOLEAN
    /\ excused \subseteq Hosts \X Kinds
    /\ edits \in 0 .. MaxEdits /\ calls \in 0 .. MaxCalls

\* The rows a push read are still rows of its host and kind, or gone; it read a
\* row once, and one row of a plain kind.
TasksOK ==
    \A m \in Modes, h \in Hosts : \A t \in tasks[<<m, h>>] :
        /\ t.id <= next /\ t.row.host = h /\ t.row.status # "synchronized"
        /\ rows[t.id] # NoRow => (rows[t.id]).host = h /\ (rows[t.id]).kind = t.row.kind
        /\ \A u \in tasks[<<m, h>>] :
             (t.id = u.id \/ (t.row.kind = u.row.kind /\ t.row.kind \in Plain)) => t = u

\* Whoever works on a device holds its session, and sends rows of a kind by id.
SessionsOK ==
    \A m \in Modes, h \in Hosts :
        /\ session[h] = m <=> push[<<m, h>>] \in {"sending", "sent"}
        /\ push[<<m, h>>] = "sending" =>
             /\ unsent[h] \subseteq tasks[<<m, h>>]
             /\ \A u \in unsent[h], t \in tasks[<<m, h>>] \ unsent[h] :
                  t.row.kind = u.row.kind => t.id <= u.id

\* A synchronized row has nothing left to push; a plain kind has one row.
RowsOK ==
    /\ \A i \in Ids : rows[i] # NoRow /\ (rows[i]).status = "synchronized"
                      => (rows[i]).bits = Unset
    /\ \A h \in Hosts, kind \in Plain : \A i, j \in RowsOf(h, kind) : i = j

\* Without a batch no push belongs to one.
BatchOK == ~batching => \A h \in Hosts : push[<<"batch", h>>] = "idle"

BaseInv == RowTypes /\ OtherTypes /\ TasksOK /\ SessionsOK /\ BatchOK /\ RowsOK

LEMMA TypeParts == PushTypeOK <=> RowTypes /\ OtherTypes
    BY Zenon DEF PushTypeOK, RowTypes, OtherTypes, Steps

LEMMA InitBase == Init => BaseInv
<1> SUFFICES ASSUME Init PROVE BaseInv
    OBVIOUS
<1>1. \A m \in Modes, h \in Hosts : tasks[<<m, h>>] = {} /\ push[<<m, h>>] = "idle"
    BY DEF Init
<1>2. \A i \in Ids : rows[i] = NoRow
    BY DEF Init
<1>3. RowTypes /\ RowsOK
    BY <1>2, PushAssumption DEF Init, RowTypes, RowsOK, RowsOf, Ids
<1>4. {MaxEdits, MaxCalls} \subseteq Nat /\ 0 \in 0 .. MaxEdits /\ 0 \in 0 .. MaxCalls
    BY PushAssumption
<1>5. [pool |-> NoPool, plain |-> {}] \in Device
    BY DEF Device
<1>6. device \in [Hosts -> Device] /\ output \in [host : Hosts \cup {Free}, ok : BOOLEAN]
    BY <1>5 DEF Init, NoResult
<1>7. OtherTypes
    BY <1>4, <1>6 DEF Init, OtherTypes, Steps
<1>8. TasksOK /\ SessionsOK /\ BatchOK
    BY <1>1, PushAssumption DEF Init, TasksOK, SessionsOK, BatchOK, Modes
<1> QED
    BY <1>3, <1>7, <1>8 DEF BaseInv

-----------------------------------------------------------------------------
(* What may happen to the rows *)

\* Row i changes, but neither its host nor its kind does.
Changes(i) ==
    /\ rows[i] # NoRow /\ rows'[i] \in Row
    /\ (rows'[i]).host = (rows[i]).host /\ (rows'[i]).kind = (rows[i]).kind
    /\ (rows'[i]).status = "synchronized" => (rows'[i]).bits = Unset

\* Row i is new; a plain kind gets one row only.
Added(i) ==
    /\ i = next + 1 /\ next' = next + 1
    /\ rows'[i] \in Row
    /\ (rows'[i]).status = "synchronized" => (rows'[i]).bits = Unset
    /\ (rows'[i]).kind \in Plain =>
         \A j \in Ids : rows'[j] # NoRow /\ (rows'[j]).host = (rows'[i]).host
                       /\ (rows'[j]).kind = (rows'[i]).kind => j = i

RowsMove ==
    /\ next' \in {next, next + 1} /\ next' <= MaxRows
    /\ rows' \in [Ids -> Row \cup {NoRow}]
    /\ \A i \in Ids : rows'[i] \in {rows[i], NoRow} \/ Changes(i) \/ Added(i)

LEMMA MoveKeeps ==
    ASSUME BaseInv, RowsMove, tasks' \in [Modes \X Hosts -> SUBSET Task],
           \A m \in Modes, h \in Hosts : tasks'[<<m, h>>] \subseteq tasks[<<m, h>>]
    PROVE  RowTypes' /\ TasksOK' /\ RowsOK'
<1>1. next \in Int /\ next' \in Int /\ next <= next' /\ next' \in 0 .. MaxRows
    BY PushAssumption DEF RowsMove, BaseInv, RowTypes
<1>2. \A i \in Ids : i \in Int /\ (rows[i] # NoRow => i <= next)
    BY DEF BaseInv, RowTypes, Ids
<1>3. \A i \in Ids : rows'[i] # NoRow => i <= next'
    BY <1>1, <1>2 DEF RowsMove, Changes, Added
<1>4. RowTypes'
    BY <1>1, <1>3 DEF RowsMove, RowTypes
<1>5. TasksOK'
  <2> SUFFICES ASSUME NEW m \in Modes, NEW h \in Hosts, NEW t \in tasks'[<<m, h>>]
               PROVE  /\ t.id <= next' /\ t.row.host = h /\ t.row.status # "synchronized"
                      /\ rows'[t.id] # NoRow =>
                           (rows'[t.id]).host = h /\ (rows'[t.id]).kind = t.row.kind
                      /\ \A u \in tasks'[<<m, h>>] :
                           (t.id = u.id \/ (t.row.kind = u.row.kind /\ t.row.kind \in Plain))
                               => t = u
      BY Zenon DEF TasksOK
  <2>1. tasks'[<<m, h>>] \subseteq tasks[<<m, h>>] /\ t \in tasks[<<m, h>>]
    OBVIOUS
  <2>2. /\ t.id <= next /\ t.row.host = h /\ t.row.status # "synchronized"
        /\ rows[t.id] # NoRow => (rows[t.id]).host = h /\ (rows[t.id]).kind = t.row.kind
        /\ \A u \in tasks[<<m, h>>] :
             (t.id = u.id \/ (t.row.kind = u.row.kind /\ t.row.kind \in Plain)) => t = u
    BY <2>1 DEF BaseInv, TasksOK
  <2>3. t.id \in Ids /\ t.id \in Int /\ t.id # next + 1
    BY <1>1, <1>2, <2>1, <2>2 DEF BaseInv, OtherTypes, Task
  <2>4. rows'[t.id] # NoRow =>
            (rows'[t.id]).host = h /\ (rows'[t.id]).kind = t.row.kind
    BY <2>2, <2>3 DEF RowsMove, Changes, Added
  <2> QED
    BY <1>1, <2>1, <2>2, <2>3, <2>4
<1>6. \A i \in Ids : rows'[i] # NoRow /\ (rows'[i]).status = "synchronized"
                     => (rows'[i]).bits = Unset
    BY DEF RowsMove, Changes, Added, BaseInv, RowsOK
<1>7. ASSUME NEW h \in Hosts, NEW kind \in Plain, NEW i \in RowsOf(h, kind)',
             NEW j \in RowsOf(h, kind)'
      PROVE  i = j
  <2>1. /\ i \in Ids /\ rows'[i] # NoRow /\ (rows'[i]).host = h /\ (rows'[i]).kind = kind
        /\ j \in Ids /\ rows'[j] # NoRow /\ (rows'[j]).host = h /\ (rows'[j]).kind = kind
    BY DEF RowsOf
  <2>2. CASE Added(i) \/ Added(j)
    BY <2>1, <2>2 DEF Added
  <2>3. CASE ~Added(i) /\ ~Added(j)
    <3>1. i \in RowsOf(h, kind) /\ j \in RowsOf(h, kind)
      BY <2>1, <2>3 DEF RowsMove, Changes, RowsOf
    <3> QED
      BY <3>1 DEF BaseInv, RowsOK
  <2> QED
    BY <2>2, <2>3
<1>8. RowsOK'
    BY <1>6, <1>7 DEF RowsOK
<1> QED
    BY <1>4, <1>5, <1>8

\* No row is moved.
LEMMA StillMoves ==
    ASSUME BaseInv, UNCHANGED database
    PROVE  RowsMove
    BY DEF BaseInv, RowTypes, RowsMove, database

LEMMA RowParts ==
    ASSUME BaseInv, NEW i \in Ids, rows[i] # NoRow
    PROVE  /\ rows[i] \in Row
           /\ (rows[i]).host \in Hosts /\ (rows[i]).kind \in Kinds
           /\ (rows[i]).opts \in Values /\ (rows[i]).bits \in Values
           /\ (rows[i]).status \in Statuses
           /\ i \in Int /\ i <= next
    BY DEF BaseInv, RowTypes, Row, Ids

LEMMA UnsetValue == Unset \in Values
    BY DEF Unset, Values

LEMMA DraftIsRow ==
    ASSUME NEW h \in Hosts, NEW kind \in Kinds, NEW opts \in Values, NEW bits \in Values
    PROVE  LET row == Draft(h, kind, opts, bits)
           IN  /\ row \in Row /\ row # NoRow
               /\ row.host = h /\ row.kind = kind /\ row.opts = opts /\ row.bits = bits
               /\ row.status = "pending_apply"
    BY PushAssumption DEF Draft, Row, Statuses

LEMMA SettledIsRow ==
    ASSUME NEW row \in Row
    PROVE  /\ Settled(row) \in Row /\ Settled(row) # NoRow
           /\ Settled(row).host = row.host /\ Settled(row).kind = row.kind
           /\ Settled(row).opts = row.opts /\ Settled(row).bits = Unset
           /\ Settled(row).status = "synchronized"
    BY PushAssumption, UnsetValue DEF Settled, Row, Statuses

\* A deleted draft goes, another row waits for its removal.
LEMMA SoftDeleteRow ==
    ASSUME BaseInv, NEW i \in Ids, rows[i] # NoRow
    PROVE  LET row == SoftDelete(i)
           IN  \/ (rows[i]).status = "pending_apply" /\ row = NoRow
               \/ /\ (rows[i]).status # "pending_apply"
                  /\ row \in Row /\ row # NoRow
                  /\ row.host = (rows[i]).host /\ row.kind = (rows[i]).kind
                  /\ row.opts = (rows[i]).opts /\ row.bits = (rows[i]).bits
                  /\ row.status = "pending_delete"
<1>1. rows[i] \in Row
    BY RowParts
<1> QED
    BY <1>1, PushAssumption DEF SoftDelete, Row, Statuses

\* The next row is a free one.
LEMMA InsertFacts ==
    ASSUME BaseInv, NEW h, NEW kind, NEW opts, Insert(h, kind, opts)
    PROVE  /\ next \in Int /\ next + 1 \in Ids /\ next' = next + 1 /\ next' <= MaxRows
           /\ rows[next + 1] = NoRow
           /\ rows'[next + 1] = Draft(h, kind, opts, opts)
           /\ \A j \in Ids : j # next + 1 => rows'[j] = rows[j]
           /\ rows' = [rows EXCEPT ![next + 1] = Draft(h, kind, opts, opts)]
    BY PushAssumption DEF Insert, BaseInv, RowTypes, Ids

LEMMA InsertMoves ==
    ASSUME BaseInv, NEW h \in Hosts, NEW kind \in Kinds, NEW opts \in Values,
           Insert(h, kind, opts), kind \in Plain => RowsOf(h, kind) = {}
    PROVE  RowsMove
<1> DEFINE row == Draft(h, kind, opts, opts)
<1>1. row \in Row /\ row.host = h /\ row.kind = kind /\ row.status = "pending_apply"
    BY DraftIsRow
<1>2. /\ next + 1 \in Ids /\ next' = next + 1 /\ next' <= MaxRows
      /\ rows' = [rows EXCEPT ![next + 1] = row] /\ rows'[next + 1] = row
      /\ \A j \in Ids : j # next + 1 => rows'[j] = rows[j]
    BY InsertFacts
<1> HIDE DEF row
<1>3. kind \in Plain => \A j \in Ids : rows'[j] # NoRow /\ (rows'[j]).host = h
                                     /\ (rows'[j]).kind = kind => j = next + 1
    BY <1>2, PushAssumption DEF RowsOf
<1>4. Added(next + 1)
    BY <1>1, <1>2, <1>3 DEF Added
<1>5. rows' \in [Ids -> Row \cup {NoRow}]
    BY <1>1, <1>2 DEF BaseInv, RowTypes
<1> QED
    BY <1>2, <1>4, <1>5 DEF RowsMove

LEMMA EditMoves ==
    ASSUME BaseInv, UserEdits
    PROVE  RowsMove
<1>0. /\ next \in Int /\ next <= MaxRows /\ rows \in [Ids -> Row \cup {NoRow}]
    BY DEF BaseInv, RowTypes
<1>1. ASSUME NEW h \in Hosts, NEW opts \in Values, AddPool(h, opts) PROVE RowsMove
    BY <1>1, InsertMoves, PushAssumption DEF AddPool, Kinds
<1>2. ASSUME NEW h \in Hosts, NEW kind \in Plain, AddPlain(h, kind) PROVE RowsMove
  <2>1. CASE RowsOf(h, kind) = {} /\ Insert(h, kind, Unset)
    BY <2>1, InsertMoves, UnsetValue DEF Kinds
  <2>2. CASE ~ (RowsOf(h, kind) = {} /\ Insert(h, kind, Unset))
    <3>1. PICK i \in RowsOf(h, kind) : rows' = [rows EXCEPT ![i].status = "pending_apply"]
      BY <1>2, <2>2 DEF AddPlain
    <3>2. i \in Ids /\ rows[i] # NoRow /\ rows[i] \in Row
      BY <3>1, RowParts DEF RowsOf
    <3>3. LET row == [rows[i] EXCEPT !.status = "pending_apply"]
          IN  /\ row \in Row /\ row.host = (rows[i]).host /\ row.kind = (rows[i]).kind
              /\ row.status = "pending_apply"
      BY <3>2 DEF Row, Statuses
    <3>4. next' = next
      BY <1>2, <2>2 DEF AddPlain
    <3>5. Changes(i)
      BY <1>0, <3>1, <3>2, <3>3 DEF Changes
    <3> QED
      BY <1>0, <3>1, <3>2, <3>3, <3>4, <3>5 DEF RowsMove
  <2> QED
    BY <2>1, <2>2
<1>3. ASSUME NEW i \in Ids, NEW opts \in Values, UpdatePool(i, opts) PROVE RowsMove
  <2> DEFINE row == [rows[i] EXCEPT !.opts = opts, !.bits = Changed(i, opts),
                                    !.status = StatusOnUpdate(i)]
  <2>1. rows[i] # NoRow /\ rows[i] \in Row
    BY <1>3, RowParts DEF UpdatePool
  <2>2. rows' = [rows EXCEPT ![i] = row] /\ next' = next
    BY <1>0, <1>3, <2>1 DEF UpdatePool
  <2>3. Changed(i, opts) \in Values
    BY DEF Changed, Values
  <2>4. row \in Row /\ row.host = (rows[i]).host /\ row.kind = (rows[i]).kind
        /\ row.status = "pending_apply"
    BY <2>1, <2>3 DEF Row, Statuses, StatusOnUpdate
  <2> HIDE DEF row
  <2>5. Changes(i)
    BY <1>0, <2>1, <2>2, <2>4 DEF Changes
  <2> QED
    BY <1>0, <2>1, <2>2, <2>4, <2>5 DEF RowsMove
<1>4. ASSUME NEW i \in Ids, NEW opts \in Values, ReplacePool(i, opts) PROVE RowsMove
  <2> DEFINE row == Draft((rows[i]).host, "pool", opts, opts)
             old == SoftDelete(i)
  <2>1. rows[i] # NoRow /\ i <= next /\ i \in Int /\ i # next + 1
    BY <1>0, <1>4, RowParts DEF ReplacePool
  <2>2. row \in Row /\ row.kind = "pool" /\ row.status = "pending_apply"
    <3>1. "pool" \in Kinds /\ (rows[i]).host \in Hosts
      BY <2>1, RowParts DEF Kinds
    <3> QED
      BY <3>1, DraftIsRow
  <2>3. /\ rows' = [rows EXCEPT ![i] = old, ![next + 1] = row]
        /\ next' = next + 1 /\ next + 1 \in Ids /\ next' <= MaxRows
    BY <1>0, <1>4, PushAssumption DEF ReplacePool, BaseInv, RowTypes, Ids
  <2>4. \/ old = NoRow
        \/ /\ old \in Row /\ old.host = (rows[i]).host /\ old.kind = (rows[i]).kind
           /\ old.status = "pending_delete"
    BY <2>1, SoftDeleteRow
  <2> HIDE DEF row, old
  <2>5. rows'[i] = old /\ rows'[next + 1] = row
        /\ \A j \in Ids : j \notin {i, next + 1} => rows'[j] = rows[j]
    BY <1>0, <2>1, <2>3
  <2>6. Added(next + 1)
    BY <2>2, <2>3, <2>5, PushAssumption DEF Added
  <2>7. rows'[i] = NoRow \/ Changes(i)
    BY <2>1, <2>4, <2>5 DEF Changes
  <2>8. rows' \in [Ids -> Row \cup {NoRow}]
    BY <1>0, <2>2, <2>3, <2>4
  <2> QED
    BY <2>3, <2>5, <2>6, <2>7, <2>8 DEF RowsMove
<1>5. ASSUME NEW i \in Ids, DeleteRow(i) PROVE RowsMove
  <2> DEFINE old == SoftDelete(i)
  <2>1. rows[i] # NoRow
    BY <1>5 DEF DeleteRow
  <2>2. rows' = [rows EXCEPT ![i] = old] /\ next' = next
    BY <1>5 DEF DeleteRow
  <2>3. \/ old = NoRow
        \/ /\ old \in Row /\ old.host = (rows[i]).host /\ old.kind = (rows[i]).kind
           /\ old.status = "pending_delete"
    BY <2>1, SoftDeleteRow
  <2> HIDE DEF old
  <2>4. rows'[i] = NoRow \/ Changes(i)
    BY <1>0, <2>1, <2>2, <2>3 DEF Changes
  <2> QED
    BY <1>0, <2>1, <2>2, <2>3, <2>4 DEF RowsMove
<1> QED
    BY <1>1, <1>2, <1>3, <1>4, <1>5 DEF UserEdits

\* A push changes the rows it read, and removes those that were to be removed.
LEMMA MarkedRows ==
    ASSUME BaseInv, NEW T, rows' = Marked(T), NEW i \in Ids
    PROVE  /\ (\A t \in T : t.id # i) \/ rows[i] = NoRow => rows'[i] = rows[i]
           /\ rows'[i] \in {rows[i], NoRow} \/ (rows[i] # NoRow /\ rows'[i] = Settled(rows[i]))
    BY DEF Marked

LEMMA MarkedMoves ==
    ASSUME BaseInv, NEW T, rows' = Marked(T), next' = next
    PROVE  RowsMove
<1>1. ASSUME NEW i \in Ids PROVE rows'[i] \in {rows[i], NoRow} \/ Changes(i)
    BY <1>1, MarkedRows, RowParts, SettledIsRow DEF Changes
<1>2. rows' = [i \in Ids |-> rows'[i]]
    BY DEF Marked
<1>3. rows' \in [Ids -> Row \cup {NoRow}]
    BY <1>1, <1>2 DEF Changes, BaseInv, RowTypes
<1> QED
    BY <1>1, <1>3 DEF RowsMove, BaseInv, RowTypes

\* Device state replaces the helpers of one host.
LEMMA WrittenRows ==
    ASSUME BaseInv, NEW h \in Hosts, NEW plain, WriteBack(h, plain)
    PROVE  /\ next' \in {next, next + 1} /\ next' <= MaxRows
           /\ Synced \in plain => next + 1 \in Ids /\ next' = next + 1
           /\ \A i \in RowsOf(h, Synced) : rows'[i] = NoRow
           /\ \A i \in Ids : i \notin RowsOf(h, Synced) /\ i # next + 1 => rows'[i] = rows[i]
           /\ rows[next + 1] = NoRow \/ next + 1 \notin Ids
           /\ next + 1 \in Ids => next + 1 \notin RowsOf(h, Synced)
           /\ next + 1 \in Ids => rows'[next + 1] =
                IF Synced \in plain THEN Settled(Draft(h, Synced, Unset, Unset)) ELSE NoRow
<1>1. next \in 0 .. MaxRows /\ MaxRows \in Nat
    BY PushAssumption DEF BaseInv, RowTypes
<1>2. next + 1 \in Ids => rows[next + 1] = NoRow
    BY <1>1 DEF BaseInv, RowTypes
<1>3. next + 1 \in Ids => next + 1 \notin RowsOf(h, Synced)
    BY <1>2 DEF RowsOf
<1>4. \A i \in RowsOf(h, Synced) : i \in Ids
    BY DEF RowsOf
<1> QED
    BY <1>1, <1>2, <1>3, <1>4 DEF WriteBack, Written, Ids

LEMMA HelperRow ==
    ASSUME NEW h \in Hosts
    PROVE  LET row == Settled(Draft(h, Synced, Unset, Unset))
           IN  /\ row \in Row /\ row # NoRow /\ row.host = h /\ row.kind = Synced
               /\ row.bits = Unset /\ row.status = "synchronized"
<1>1. Synced \in Kinds
    BY PushAssumption DEF Kinds
<1> QED
    BY <1>1, UnsetValue, DraftIsRow, SettledIsRow

LEMMA WrittenMoves ==
    ASSUME BaseInv, NEW h \in Hosts, NEW plain, WriteBack(h, plain)
    PROVE  RowsMove
<1> DEFINE row == Settled(Draft(h, Synced, Unset, Unset))
<1>1. /\ row \in Row /\ row # NoRow /\ row.host = h /\ row.kind = Synced
      /\ row.bits = Unset /\ row.status = "synchronized"
    BY HelperRow
<1>2. next + 1 \in Ids => rows'[next + 1] = IF Synced \in plain THEN row ELSE NoRow
    BY WrittenRows
<1> HIDE DEF row
<1>3. /\ \A i \in RowsOf(h, Synced) : rows'[i] = NoRow
      /\ \A i \in Ids : i \notin RowsOf(h, Synced) /\ i # next + 1 => rows'[i] = rows[i]
      /\ Synced \in plain => next + 1 \in Ids /\ next' = next + 1
    BY WrittenRows
<1>4. Synced \in plain => Added(next + 1)
  <2> SUFFICES ASSUME Synced \in plain PROVE Added(next + 1)
      OBVIOUS
  <2>1. rows'[next + 1] = row /\ next + 1 \in Ids
    BY <1>2, <1>3
  <2>2. ASSUME NEW j \in Ids, rows'[j] # NoRow, (rows'[j]).host = h, (rows'[j]).kind = Synced
        PROVE  j = next + 1
    BY <1>3, <2>2 DEF RowsOf
  <2> QED
    BY <1>1, <1>3, <2>1, <2>2 DEF Added
<1>5. ASSUME NEW i \in Ids PROVE rows'[i] \in {rows[i], NoRow} \/ Added(i)
    BY <1>2, <1>3, <1>4
<1>6. rows' = [i \in Ids |-> rows'[i]]
    BY DEF WriteBack, Written
<1>7. rows' \in [Ids -> Row \cup {NoRow}]
    BY <1>5, <1>6 DEF Added, BaseInv, RowTypes
<1>8. next' \in {next, next + 1} /\ next' <= MaxRows
    BY WrittenRows
<1> QED
    BY <1>5, <1>7, <1>8 DEF RowsMove

-----------------------------------------------------------------------------
(* What may happen to the sessions *)

\* Neither the sessions nor what is being sent changes.
LEMMA SessionsKept ==
    ASSUME BaseInv, UNCHANGED <<session, unsent>>,
           \A m \in Modes, h \in Hosts :
               /\ push'[<<m, h>>] = "sending" <=> push[<<m, h>>] = "sending"
               /\ push'[<<m, h>>] = "sent" <=> push[<<m, h>>] = "sent"
               /\ push[<<m, h>>] = "sending" => tasks'[<<m, h>>] = tasks[<<m, h>>]
    PROVE  SessionsOK'
<1> SUFFICES ASSUME NEW m \in Modes, NEW h \in Hosts
             PROVE  /\ session'[h] = m <=> push'[<<m, h>>] \in {"sending", "sent"}
                    /\ push'[<<m, h>>] = "sending" =>
                         /\ unsent'[h] \subseteq tasks'[<<m, h>>]
                         /\ \A u \in unsent'[h], t \in tasks'[<<m, h>>] \ unsent'[h] :
                              t.row.kind = u.row.kind => t.id <= u.id
    BY Zenon DEF SessionsOK
<1>1. /\ session[h] = m <=> push[<<m, h>>] \in {"sending", "sent"}
      /\ push[<<m, h>>] = "sending" =>
           /\ unsent[h] \subseteq tasks[<<m, h>>]
           /\ \A u \in unsent[h], t \in tasks[<<m, h>>] \ unsent[h] :
                t.row.kind = u.row.kind => t.id <= u.id
    BY DEF BaseInv, SessionsOK
<1> QED
    BY <1>1

\* The steps a push takes without its device
Quiet == {"idle", "queued", "waiting", "done", "ended"}

LEMMA QuietSteps ==
    ASSUME BaseInv, UNCHANGED <<session, unsent>>, NEW m \in Modes, NEW h \in Hosts,
           push[<<m, h>>] \in Quiet,
           NEW step \in Quiet, push' = [push EXCEPT ![<<m, h>>] = step],
           NEW T, tasks' = [tasks EXCEPT ![<<m, h>>] = T]
    PROVE  SessionsOK'
<1>1. push \in [Modes \X Hosts -> Steps] /\ tasks \in [Modes \X Hosts -> SUBSET Task]
    BY DEF BaseInv, OtherTypes
<1>2. <<m, h>> \in Modes \X Hosts
    OBVIOUS
<1>3. \A n \in Modes, g \in Hosts :
          /\ <<n, g>> \in Modes \X Hosts
          /\ <<n, g>> # <<m, h>> => /\ push'[<<n, g>>] = push[<<n, g>>]
                                    /\ tasks'[<<n, g>>] = tasks[<<n, g>>]
    BY <1>1, <1>2
<1>4. push'[<<m, h>>] = step
    BY <1>1, <1>2
<1>5. \A n \in Modes, g \in Hosts :
          /\ push'[<<n, g>>] = "sending" <=> push[<<n, g>>] = "sending"
          /\ push'[<<n, g>>] = "sent" <=> push[<<n, g>>] = "sent"
          /\ push[<<n, g>>] = "sending" => tasks'[<<n, g>>] = tasks[<<n, g>>]
  <2> SUFFICES ASSUME NEW n \in Modes, NEW g \in Hosts
               PROVE  /\ push'[<<n, g>>] = "sending" <=> push[<<n, g>>] = "sending"
                      /\ push'[<<n, g>>] = "sent" <=> push[<<n, g>>] = "sent"
                      /\ push[<<n, g>>] = "sending" => tasks'[<<n, g>>] = tasks[<<n, g>>]
      OBVIOUS
  <2>1. CASE <<n, g>> = <<m, h>>
    BY <1>4, <2>1 DEF Quiet
  <2>2. CASE <<n, g>> # <<m, h>>
    BY <1>3, <2>2
  <2> QED
    BY <2>1, <2>2
<1> QED
    BY <1>5, SessionsKept

LEMMA BatchKept ==
    ASSUME BaseInv, UNCHANGED batching, NEW m \in Modes, NEW h \in Hosts,
           push[<<m, h>>] # "idle" \/ m = "single",
           NEW step, push' = [push EXCEPT ![<<m, h>>] = step]
    PROVE  BatchOK'
<1>1. push \in [Modes \X Hosts -> Steps]
    BY DEF BaseInv, OtherTypes
<1>2. \A g \in Hosts : <<"batch", g>> \in Modes \X Hosts
    BY DEF Modes
<1>3. ~batching => \A g \in Hosts : push[<<"batch", g>>] = "idle"
    BY DEF BaseInv, BatchOK
<1>4. ~batching => m = "single"
    BY <1>3 DEF Modes
<1>5. ~batching => \A g \in Hosts : push'[<<"batch", g>>] = push[<<"batch", g>>]
    BY <1>1, <1>2, <1>4
<1> QED
    BY <1>3, <1>5 DEF BatchOK

\* Every command is of the push that sends it.
LEMMA ConnectSessions ==
    ASSUME BaseInv, NEW m \in Modes, NEW h \in Hosts, Connect(m, h)
    PROVE  SessionsOK'
<1>1. /\ push \in [Modes \X Hosts -> Steps] /\ session \in [Hosts -> Modes \cup {Free}]
      /\ unsent \in [Hosts -> SUBSET Task]
    BY DEF BaseInv, OtherTypes
<1>2. /\ push' = [push EXCEPT ![<<m, h>>] = "sending"] /\ session[h] = Free
      /\ session' = [session EXCEPT ![h] = m] /\ tasks' = tasks
      /\ unsent' = [unsent EXCEPT ![h] = tasks[<<m, h>>]]
    BY DEF Connect
<1> SUFFICES ASSUME NEW n \in Modes, NEW g \in Hosts
             PROVE  /\ session'[g] = n <=> push'[<<n, g>>] \in {"sending", "sent"}
                    /\ push'[<<n, g>>] = "sending" =>
                         /\ unsent'[g] \subseteq tasks'[<<n, g>>]
                         /\ \A u \in unsent'[g], t \in tasks'[<<n, g>>] \ unsent'[g] :
                              t.row.kind = u.row.kind => t.id <= u.id
    BY Zenon DEF SessionsOK
<1>3. /\ session[g] = n <=> push[<<n, g>>] \in {"sending", "sent"}
      /\ push[<<n, g>>] = "sending" =>
           /\ unsent[g] \subseteq tasks[<<n, g>>]
           /\ \A u \in unsent[g], t \in tasks[<<n, g>>] \ unsent[g] :
                t.row.kind = u.row.kind => t.id <= u.id
    BY DEF BaseInv, SessionsOK
<1>4. <<m, h>> \in Modes \X Hosts /\ <<n, g>> \in Modes \X Hosts /\ n # Free
    BY PushAssumption
<1>5. CASE g # h
    BY <1>1, <1>2, <1>3, <1>4, <1>5
<1>6. CASE g = h /\ n = m
    BY <1>1, <1>2, <1>4, <1>6
<1>7. CASE g = h /\ n # m
    BY <1>1, <1>2, <1>3, <1>4, <1>7
<1> QED
    BY <1>5, <1>6, <1>7

\* A row of the same kind and a smaller id precedes.
LEMMA SameKind ==
    ASSUME NEW a \in Task, NEW b \in Task, a.row.kind = b.row.kind, ~ (b.id <= a.id)
    PROVE  Precedes(a, b)
<1>1. a.id \in Int /\ b.id \in Int
    BY DEF Task, Ids
<1>2. a.id < b.id
    BY <1>1
<1> QED
    BY <1>2, Zenon DEF Precedes

LEMMA CommandSessions ==
    ASSUME BaseInv, NEW m \in Modes, NEW h \in Hosts, Command(m, h)
    PROVE  SessionsOK'
<1>1. /\ push \in [Modes \X Hosts -> Steps] /\ tasks \in [Modes \X Hosts -> SUBSET Task]
      /\ unsent \in [Hosts -> SUBSET Task]
    BY DEF BaseInv, OtherTypes
<1>2. /\ push[<<m, h>>] = "sending" /\ push' = push /\ tasks' = tasks /\ session' = session
    BY DEF Command, threads
<1>3. PICK t \in unsent[h] :
          /\ \A u \in unsent[h] : ~Precedes(u, t)
          /\ unsent' = [unsent EXCEPT ![h] = @ \ {t}]
    BY Zenon DEF Command
<1> SUFFICES ASSUME NEW n \in Modes, NEW g \in Hosts
             PROVE  /\ session'[g] = n <=> push'[<<n, g>>] \in {"sending", "sent"}
                    /\ push'[<<n, g>>] = "sending" =>
                         /\ unsent'[g] \subseteq tasks'[<<n, g>>]
                         /\ \A u \in unsent'[g], v \in tasks'[<<n, g>>] \ unsent'[g] :
                              v.row.kind = u.row.kind => v.id <= u.id
    BY Zenon DEF SessionsOK
<1>4. /\ session[g] = n <=> push[<<n, g>>] \in {"sending", "sent"}
      /\ push[<<n, g>>] = "sending" =>
           /\ unsent[g] \subseteq tasks[<<n, g>>]
           /\ \A u \in unsent[g], v \in tasks[<<n, g>>] \ unsent[g] :
                v.row.kind = u.row.kind => v.id <= u.id
    BY DEF BaseInv, SessionsOK
<1>5. CASE g # h
    BY <1>1, <1>2, <1>3, <1>4, <1>5
<1>6. CASE g = h
  <2>1. unsent'[h] = unsent[h] \ {t} /\ t \in Task /\ unsent[h] \subseteq Task
    BY <1>1, <1>3
  <2>2. ASSUME NEW u \in unsent[h], t.row.kind = u.row.kind PROVE t.id <= u.id
    BY <1>3, <2>1, <2>2, SameKind
  <2> QED
    BY <1>2, <1>4, <1>6, <2>1, <2>2
<1> QED
    BY <1>5, <1>6

LEMMA ReportSessions ==
    ASSUME BaseInv, NEW m \in Modes, NEW h \in Hosts, Report(m, h)
    PROVE  SessionsOK'
<1>1. /\ push \in [Modes \X Hosts -> Steps] /\ session \in [Hosts -> Modes \cup {Free}]
      /\ unsent \in [Hosts -> SUBSET Task]
    BY DEF BaseInv, OtherTypes
<1>2. /\ push[<<m, h>>] = "sending" /\ push' = [push EXCEPT ![<<m, h>>] = "sent"]
      /\ session' = session /\ tasks' = tasks /\ unsent' = [unsent EXCEPT ![h] = {}]
    BY DEF Report
<1> SUFFICES ASSUME NEW n \in Modes, NEW g \in Hosts
             PROVE  /\ session'[g] = n <=> push'[<<n, g>>] \in {"sending", "sent"}
                    /\ push'[<<n, g>>] = "sending" =>
                         /\ unsent'[g] \subseteq tasks'[<<n, g>>]
                         /\ \A u \in unsent'[g], t \in tasks'[<<n, g>>] \ unsent'[g] :
                              t.row.kind = u.row.kind => t.id <= u.id
    BY Zenon DEF SessionsOK
<1>3. /\ session[g] = n <=> push[<<n, g>>] \in {"sending", "sent"}
      /\ push[<<n, g>>] = "sending" =>
           /\ unsent[g] \subseteq tasks[<<n, g>>]
           /\ \A u \in unsent[g], t \in tasks[<<n, g>>] \ unsent[g] :
                t.row.kind = u.row.kind => t.id <= u.id
    BY DEF BaseInv, SessionsOK
<1>4. <<m, h>> \in Modes \X Hosts /\ <<n, g>> \in Modes \X Hosts
    OBVIOUS
<1>5. CASE <<n, g>> # <<m, h>> /\ g # h
    BY <1>1, <1>2, <1>3, <1>4, <1>5
<1>6. CASE n = m /\ g = h
    BY <1>1, <1>2, <1>3, <1>4, <1>6
<1>7. CASE n # m /\ g = h
  <2>1. session[h] = m
    BY <1>2 DEF BaseInv, SessionsOK
  <2> QED
    BY <1>1, <1>2, <1>3, <1>4, <1>7, <2>1
<1> QED
    BY <1>5, <1>6, <1>7

\* Only the holder gives a session up.
LEMMA MarkSessions ==
    ASSUME BaseInv, NEW m \in Modes, NEW h \in Hosts, Mark(m, h)
    PROVE  SessionsOK'
<1>1. /\ push \in [Modes \X Hosts -> Steps] /\ session \in [Hosts -> Modes \cup {Free}]
      /\ tasks \in [Modes \X Hosts -> SUBSET Task]
    BY DEF BaseInv, OtherTypes
<1>2. PICK step \in {"done", "ended"} :
          /\ push[<<m, h>>] = "sent" /\ push' = [push EXCEPT ![<<m, h>>] = step]
          /\ session' = [session EXCEPT ![h] = Free] /\ unsent' = unsent
          /\ tasks' = [tasks EXCEPT ![<<m, h>>] = {}]
    BY DEF Mark, End
<1> SUFFICES ASSUME NEW n \in Modes, NEW g \in Hosts
             PROVE  /\ session'[g] = n <=> push'[<<n, g>>] \in {"sending", "sent"}
                    /\ push'[<<n, g>>] = "sending" =>
                         /\ unsent'[g] \subseteq tasks'[<<n, g>>]
                         /\ \A u \in unsent'[g], t \in tasks'[<<n, g>>] \ unsent'[g] :
                              t.row.kind = u.row.kind => t.id <= u.id
    BY Zenon DEF SessionsOK
<1>3. /\ session[g] = n <=> push[<<n, g>>] \in {"sending", "sent"}
      /\ push[<<n, g>>] = "sending" =>
           /\ unsent[g] \subseteq tasks[<<n, g>>]
           /\ \A u \in unsent[g], t \in tasks[<<n, g>>] \ unsent[g] :
                t.row.kind = u.row.kind => t.id <= u.id
    BY DEF BaseInv, SessionsOK
<1>4. <<m, h>> \in Modes \X Hosts /\ <<n, g>> \in Modes \X Hosts /\ n # Free
    BY PushAssumption
<1>5. CASE g # h
    BY <1>1, <1>2, <1>3, <1>4, <1>5
<1>6. CASE n = m /\ g = h
    BY <1>1, <1>2, <1>4, <1>6
<1>7. CASE n # m /\ g = h
  <2>1. session[h] = m
    BY <1>2 DEF BaseInv, SessionsOK
  <2> QED
    BY <1>1, <1>2, <1>3, <1>4, <1>7, <2>1
<1> QED
    BY <1>5, <1>6, <1>7

-----------------------------------------------------------------------------
(* The basic invariant, action by action *)

LEMMA ExcuseTypes ==
    ASSUME BaseInv, NEW h \in Hosts, NEW kinds \in SUBSET Kinds, Excuse(h, kinds)
    PROVE  excused' \subseteq Hosts \X Kinds
    BY DEF Excuse, BaseInv, OtherTypes

LEMMA EditExcuses ==
    ASSUME BaseInv, UserEdits
    PROVE  /\ excused' \subseteq Hosts \X Kinds /\ Edit
           /\ excused \subseteq excused'
<1>1. ASSUME NEW h \in Hosts, NEW opts \in Values, AddPool(h, opts)
      PROVE  Edit /\ excused' = excused
    BY <1>1 DEF AddPool
<1>2. ASSUME NEW h \in Hosts, NEW kind \in Plain, AddPlain(h, kind)
      PROVE  Edit /\ excused' = excused
    BY <1>2 DEF AddPlain
<1>3. ASSUME NEW i \in Ids, NEW opts \in Values, UpdatePool(i, opts)
      PROVE  Edit /\ (rows[i]).host \in Hosts
             /\ \E kinds \in SUBSET Kinds : Excuse((rows[i]).host, kinds)
  <2>1. PICK O : Excuse((rows[i]).host, {"pool" : o \in O})
    BY <1>3 DEF UpdatePool
  <2>2. {"pool" : o \in O} \subseteq Kinds
    BY DEF Kinds
  <2>3. rows[i] # NoRow /\ Edit
    BY <1>3 DEF UpdatePool
  <2> QED
    BY <2>1, <2>2, <2>3, RowParts
<1>4. ASSUME NEW i \in Ids, NEW opts \in Values, ReplacePool(i, opts) \/ DeleteRow(i)
      PROVE  Edit /\ (rows[i]).host \in Hosts
             /\ \E kinds \in SUBSET Kinds : Excuse((rows[i]).host, kinds)
  <2>1. rows[i] # NoRow /\ Edit /\ Excuse((rows[i]).host, DropsPushed(i))
    BY <1>4 DEF ReplacePool, DeleteRow
  <2>2. DropsPushed(i) \subseteq Kinds
    BY <2>1, RowParts DEF DropsPushed
  <2> QED
    BY <2>1, <2>2, RowParts
<1>5. excused \subseteq Hosts \X Kinds
    BY DEF BaseInv, OtherTypes
<1>6. ASSUME NEW h, NEW kinds, Excuse(h, kinds) PROVE excused \subseteq excused'
    BY <1>6 DEF Excuse
<1>7. Values # {}
    BY UnsetValue
<1> QED
    BY <1>1, <1>2, <1>3, <1>4, <1>5, <1>6, <1>7, ExcuseTypes DEF UserEdits

LEMMA EditBase ==
    ASSUME BaseInv, UserEdits
    PROVE  BaseInv' /\ edits' # edits
<1>1. Edit /\ excused' \subseteq Hosts \X Kinds
    BY EditExcuses
<1>2. /\ UNCHANGED <<device, push, tasks, batch, batching, session, unsent, output, deferred,
                     snapshot, cancelled, calls>>
      /\ edits < MaxEdits /\ edits' = edits + 1
    BY <1>1 DEF Edit, threads
<1>3. MaxEdits \in Nat /\ edits \in 0 .. MaxEdits
    BY PushAssumption DEF BaseInv, OtherTypes
<1>4. edits' \in 0 .. MaxEdits /\ edits' # edits
    BY <1>2, <1>3
<1>5. OtherTypes'
    BY <1>1, <1>2, <1>4 DEF BaseInv, OtherTypes
<1>6. RowTypes' /\ TasksOK' /\ RowsOK'
    BY <1>2, EditMoves, MoveKeeps DEF BaseInv, OtherTypes
<1>7. SessionsOK' /\ BatchOK'
    BY <1>2, SessionsKept DEF BaseInv, BatchOK
<1> QED
    BY <1>4, <1>5, <1>6, <1>7 DEF BaseInv

\* The rows and the pushes' rows are what they were.
LEMMA RowsStill ==
    ASSUME BaseInv, UNCHANGED <<database, tasks>>
    PROVE  RowTypes' /\ TasksOK' /\ RowsOK'
    BY StillMoves, MoveKeeps DEF BaseInv, OtherTypes

LEMMA PushOneBase ==
    ASSUME BaseInv, NEW h \in Hosts, PushOne(h)
    PROVE  BaseInv' /\ UNCHANGED database
<1>1. /\ UNCHANGED <<database, device, tasks, batch, batching, session, unsent, output, deferred,
                     snapshot, cancelled, excused, edits>>
      /\ calls < MaxCalls /\ calls' = calls + 1
      /\ push[<<"single", h>>] = "idle"
      /\ push' = [push EXCEPT ![<<"single", h>>] = "queued"]
    BY DEF PushOne
<1>2. calls' \in 0 .. MaxCalls
    BY <1>1, PushAssumption DEF BaseInv, OtherTypes
<1>3. push' \in [Modes \X Hosts -> Steps]
    BY <1>1 DEF BaseInv, OtherTypes, Steps
<1>4. OtherTypes'
    BY <1>1, <1>2, <1>3 DEF BaseInv, OtherTypes
<1>5. tasks' = [tasks EXCEPT ![<<"single", h>>] = tasks[<<"single", h>>]]
    BY <1>1 DEF BaseInv, OtherTypes
<1>6. "single" \in Modes /\ "idle" \in Quiet /\ "queued" \in Quiet
    BY DEF Modes, Quiet
<1>7. SessionsOK' /\ BatchOK'
    BY <1>1, <1>5, <1>6, QuietSteps, BatchKept
<1> QED
    BY <1>1, <1>4, <1>7, RowsStill DEF BaseInv

LEMMA PushBatchBase ==
    ASSUME BaseInv, NEW S \in SUBSET Hosts, PushBatch(S)
    PROVE  BaseInv' /\ UNCHANGED database
<1>1. /\ UNCHANGED <<database, device, tasks, session, unsent, output, deferred,
                     snapshot, cancelled, excused, edits>>
      /\ calls + Cardinality(S) <= MaxCalls /\ calls' = calls + Cardinality(S)
      /\ push' = [x \in Modes \X Hosts |->
                     IF x[1] = "batch" /\ x[2] \in S THEN "queued" ELSE push[x]]
      /\ batch' = {} /\ batching' = TRUE
    BY DEF PushBatch
<1>2. Cardinality(S) \in Nat
    BY PushAssumption, FS_Subset, FS_CardinalityType
<1>3. calls' \in 0 .. MaxCalls
    BY <1>1, <1>2, PushAssumption DEF BaseInv, OtherTypes
<1>4. push' \in [Modes \X Hosts -> Steps]
    BY <1>1 DEF BaseInv, OtherTypes, Steps
<1>5. OtherTypes'
    BY <1>1, <1>3, <1>4 DEF BaseInv, OtherTypes
<1>6. \A m \in Modes, h \in Hosts : <<m, h>> \in Modes \X Hosts
          /\ push'[<<m, h>>] = IF m = "batch" /\ h \in S THEN "queued" ELSE push[<<m, h>>]
    BY <1>1
<1>7. \A h \in Hosts : push[<<"batch", h>>] = "idle"
    BY DEF PushBatch, BaseInv, BatchOK
<1>8. SessionsOK' /\ BatchOK'
  <2>1. \A m \in Modes, h \in Hosts :
            /\ push'[<<m, h>>] = "sending" <=> push[<<m, h>>] = "sending"
            /\ push'[<<m, h>>] = "sent" <=> push[<<m, h>>] = "sent"
    BY <1>6, <1>7
  <2> QED
    BY <1>1, <2>1, SessionsKept DEF BatchOK
<1> QED
    BY <1>1, <1>5, <1>8, RowsStill DEF BaseInv

LEMMA CollectConfigBase ==
    ASSUME BaseInv, NEW h \in Hosts, CollectConfig(h)
    PROVE  BaseInv' /\ UNCHANGED database
<1>1. /\ UNCHANGED <<database, device, push, tasks, batch, batching, session, unsent, output,
                     deferred, cancelled, excused, edits>>
      /\ calls < MaxCalls /\ calls' = calls + 1
    BY DEF CollectConfig, threads
<1>2. PICK mode \in {"safe", "force"} :
          snapshot' = [snapshot EXCEPT
             ![h] = [step |-> "taken", plain |-> device[h].plain, mode |-> mode]]
    BY DEF CollectConfig
<1>3. calls' \in 0 .. MaxCalls
    BY <1>1, PushAssumption DEF BaseInv, OtherTypes
<1>4. device[h].plain \in SUBSET Plain
    BY DEF BaseInv, OtherTypes, Device
<1>5. [step |-> "taken", plain |-> device[h].plain, mode |-> mode]
          \in [step : {"taken", "write"}, plain : SUBSET Plain, mode : {"safe", "force"}]
    BY <1>4
<1>6. snapshot' \in [Hosts -> [step : {"none"}]
                         \cup [step : {"taken", "write"}, plain : SUBSET Plain,
                              mode : {"safe", "force"}]]
    BY <1>2, <1>5 DEF BaseInv, OtherTypes
<1>7. OtherTypes'
    BY <1>1, <1>3, <1>6 DEF BaseInv, OtherTypes
<1>8. SessionsOK' /\ BatchOK'
    BY <1>1, SessionsKept DEF BaseInv, BatchOK
<1> QED
    BY <1>1, <1>7, <1>8, RowsStill DEF BaseInv

LEMMA LookBase ==
    ASSUME BaseInv, NEW h \in Hosts, LookForPending(h)
    PROVE  BaseInv' /\ UNCHANGED database
<1>1. UNCHANGED <<database, device, push, tasks, batch, batching, session, unsent, output,
                  deferred, cancelled, excused, edits, calls>>
    BY DEF LookForPending, threads, bounds
<1>2. PICK pending \in BOOLEAN :
          snapshot' = [snapshot EXCEPT ![h] =
              IF snapshot[h].mode = "safe" /\ pending THEN [step |-> "none"]
              ELSE [snapshot[h] EXCEPT !.step = "write"]]
  <2>1. HasPending(h) \in BOOLEAN
    BY Zenon DEF HasPending
  <2> QED
    BY <2>1, Zenon DEF LookForPending
<1>3. snapshot[h] \in [step : {"taken", "write"}, plain : SUBSET Plain, mode : {"safe", "force"}]
    BY DEF LookForPending, BaseInv, OtherTypes
<1>4. [snapshot[h] EXCEPT !.step = "write"]
          \in [step : {"taken", "write"}, plain : SUBSET Plain, mode : {"safe", "force"}]
    BY <1>3
<1>5. snapshot' \in [Hosts -> [step : {"none"}]
                         \cup [step : {"taken", "write"}, plain : SUBSET Plain,
                              mode : {"safe", "force"}]]
    BY <1>2, <1>4 DEF BaseInv, OtherTypes
<1>6. OtherTypes'
    BY <1>1, <1>5 DEF BaseInv, OtherTypes
<1>7. SessionsOK' /\ BatchOK'
    BY <1>1, SessionsKept DEF BaseInv, BatchOK
<1> QED
    BY <1>1, <1>6, <1>7, RowsStill DEF BaseInv

LEMMA ShutdownBase ==
    ASSUME BaseInv, Shutdown
    PROVE  BaseInv' /\ UNCHANGED database
<1>1. /\ UNCHANGED <<database, device, push, tasks, batch, batching, session, unsent, output,
                     deferred, snapshot, excused, edits, calls>>
      /\ cancelled' = TRUE
    BY DEF Shutdown, threads, bounds
<1>2. OtherTypes'
    BY <1>1 DEF BaseInv, OtherTypes
<1>3. SessionsOK' /\ BatchOK'
    BY <1>1, SessionsKept DEF BaseInv, BatchOK
<1> QED
    BY <1>1, <1>2, <1>3, RowsStill DEF BaseInv

LEMMA SingleEndsBase ==
    ASSUME BaseInv, NEW h \in Hosts, SingleEnds(h)
    PROVE  BaseInv' /\ UNCHANGED database
<1>1. /\ UNCHANGED <<database, device, tasks, batching, session, unsent, output,
                     snapshot, cancelled, excused, edits, calls>>
      /\ push[<<"single", h>>] = "ended"
      /\ push' = [push EXCEPT ![<<"single", h>>] = "idle"]
      /\ batch' = batch \ {<<"single", h>>}
    BY DEF SingleEnds, bounds
<1>2. deferred' = [deferred EXCEPT ![h] =
                      IF <<"single", h>> \in batch THEN deferred[h] + 1 ELSE deferred[h]]
    BY Zenon DEF SingleEnds
<1>3. push' \in [Modes \X Hosts -> Steps]
    BY <1>1 DEF BaseInv, OtherTypes, Steps
<1>4. deferred' \in [Hosts -> Nat]
    BY <1>2 DEF BaseInv, OtherTypes
<1>5. OtherTypes'
    BY <1>1, <1>3, <1>4 DEF BaseInv, OtherTypes
<1>6. tasks' = [tasks EXCEPT ![<<"single", h>>] = tasks[<<"single", h>>]]
    BY <1>1 DEF BaseInv, OtherTypes
<1>7. "single" \in Modes /\ "idle" \in Quiet /\ "ended" \in Quiet
    BY DEF Modes, Quiet
<1>8. SessionsOK' /\ BatchOK'
    BY <1>1, <1>6, <1>7, QuietSteps, BatchKept
<1> QED
    BY <1>1, <1>5, <1>8, RowsStill DEF BaseInv

LEMMA BatchEndsBase ==
    ASSUME BaseInv, BatchEnds
    PROVE  BaseInv' /\ UNCHANGED database
<1>1. /\ UNCHANGED <<database, device, tasks, session, unsent, output, snapshot, cancelled,
                     excused, edits, calls>>
      /\ batching' = FALSE
      /\ \A h \in Hosts : push[<<"batch", h>>] \in {"idle", "done"}
      /\ push' = [x \in Modes \X Hosts |-> IF x[1] = "batch" THEN "idle" ELSE push[x]]
      /\ deferred' = [h \in Hosts |->
                       IF <<"batch", h>> \in batch THEN deferred[h] + 1 ELSE deferred[h]]
      /\ batch' = {x \in batch : x[1] = "single"}
    BY DEF BatchEnds, bounds
<1>2. push' \in [Modes \X Hosts -> Steps]
    BY <1>1 DEF BaseInv, OtherTypes, Steps
<1>3. deferred' \in [Hosts -> Nat]
    BY <1>1 DEF BaseInv, OtherTypes
<1>4. OtherTypes'
    BY <1>1, <1>2, <1>3 DEF BaseInv, OtherTypes
<1>5. \A m \in Modes, h \in Hosts :
          /\ push'[<<m, h>>] = "sending" <=> push[<<m, h>>] = "sending"
          /\ push'[<<m, h>>] = "sent" <=> push[<<m, h>>] = "sent"
  <2> SUFFICES ASSUME NEW m \in Modes, NEW h \in Hosts
               PROVE  /\ push'[<<m, h>>] = "sending" <=> push[<<m, h>>] = "sending"
                      /\ push'[<<m, h>>] = "sent" <=> push[<<m, h>>] = "sent"
      OBVIOUS
  <2>1. push'[<<m, h>>] = IF m = "batch" THEN "idle" ELSE push[<<m, h>>]
    BY <1>1
  <2> QED
    BY <1>1, <2>1
<1>6. SessionsOK'
    BY <1>1, <1>5, SessionsKept
<1>7. BatchOK'
  <2>1. \A h \in Hosts : <<"batch", h>> \in Modes \X Hosts /\ push'[<<"batch", h>>] = "idle"
    BY <1>1 DEF Modes
  <2> QED
    BY <2>1 DEF BatchOK
<1> QED
    BY <1>1, <1>4, <1>6, <1>7, RowsStill DEF BaseInv

LEMMA EndTypes ==
    ASSUME BaseInv, NEW m \in Modes, NEW h \in Hosts, NEW reported, End(m, h, reported)
    PROVE  /\ push' \in [Modes \X Hosts -> Steps]
           /\ tasks' \in [Modes \X Hosts -> SUBSET Task]
           /\ \A n \in Modes, g \in Hosts : tasks'[<<n, g>>] \subseteq tasks[<<n, g>>]
           /\ batch' \subseteq Modes \X Hosts
<1>1. PICK step \in {"done", "ended"} :
          /\ push' = [push EXCEPT ![<<m, h>>] = step]
          /\ tasks' = [tasks EXCEPT ![<<m, h>>] = {}]
    BY DEF End
<1>2. /\ push \in [Modes \X Hosts -> Steps] /\ tasks \in [Modes \X Hosts -> SUBSET Task]
      /\ batch \subseteq Modes \X Hosts
    BY DEF BaseInv, OtherTypes
<1>3. batch' \in {batch, batch \cup {<<m, h>>}}
    BY DEF End
<1>4. \A n \in Modes, g \in Hosts : <<n, g>> \in Modes \X Hosts
    OBVIOUS
<1>5. <<m, h>> \in Modes \X Hosts
    BY <1>4
<1>6. \A x \in Modes \X Hosts : tasks'[x] \subseteq tasks[x]
    BY <1>1, <1>2
<1> QED
    BY <1>1, <1>2, <1>3, <1>4, <1>5, <1>6 DEF Steps

\* A push ends that has not reached its device.
LEMMA EarlyEnd ==
    ASSUME BaseInv, NEW m \in Modes, NEW h \in Hosts, push[<<m, h>>] \in {"queued", "waiting"},
           End(m, h, FALSE), UNCHANGED <<database, device, session, unsent, output, excused>>,
           UNCHANGED PushRest
    PROVE  BaseInv' /\ UNCHANGED database
<1>1. UNCHANGED <<batching, deferred, snapshot, cancelled, edits, calls>>
    BY DEF PushRest, bounds
<1>2. /\ push' \in [Modes \X Hosts -> Steps]
      /\ tasks' \in [Modes \X Hosts -> SUBSET Task]
      /\ \A n \in Modes, g \in Hosts : tasks'[<<n, g>>] \subseteq tasks[<<n, g>>]
      /\ batch' \subseteq Modes \X Hosts
    BY EndTypes
<1>3. OtherTypes'
    BY <1>1, <1>2 DEF BaseInv, OtherTypes
<1>4. RowTypes' /\ TasksOK' /\ RowsOK'
    BY <1>2, StillMoves, MoveKeeps
<1>5. PICK step \in {"done", "ended"} :
          /\ push' = [push EXCEPT ![<<m, h>>] = step]
          /\ tasks' = [tasks EXCEPT ![<<m, h>>] = {}]
    BY DEF End
<1>6. push[<<m, h>>] \in Quiet /\ step \in Quiet /\ push[<<m, h>>] # "idle"
    BY DEF Quiet
<1>7. SessionsOK' /\ BatchOK'
    BY <1>1, <1>5, <1>6, QuietSteps, BatchKept
<1> QED
    BY <1>3, <1>4, <1>7 DEF BaseInv

\* What a push reads
LEMMA ReadRows ==
    ASSUME BaseInv, NEW h \in Hosts,
           NEW t \in {[id |-> i, row |-> rows[i]] : i \in Pending(h)}
    PROVE  /\ t \in Task /\ t.id \in Ids /\ t.id <= next /\ rows[t.id] # NoRow
           /\ t.row = rows[t.id] /\ t.row.host = h
           /\ t.row.status \in {"pending_apply", "pending_delete"}
           /\ t.id \in RowsOf(h, t.row.kind)
<1>1. PICK i \in Pending(h) : t = [id |-> i, row |-> rows[i]]
    OBVIOUS
<1>2. /\ i \in Ids /\ rows[i] # NoRow /\ (rows[i]).host = h
      /\ (rows[i]).status \in {"pending_apply", "pending_delete"}
    BY <1>1 DEF Pending
<1>3. rows[i] \in Row /\ i <= next
    BY <1>2, RowParts
<1> QED
    BY <1>1, <1>2, <1>3 DEF Task, RowsOf

LEMMA CollectBase ==
    ASSUME BaseInv, NEW m \in Modes, NEW h \in Hosts, Collect(m, h)
    PROVE  BaseInv' /\ UNCHANGED database
<1>0. /\ UNCHANGED <<database, device, session, unsent, output, excused>> /\ UNCHANGED PushRest
      /\ push[<<m, h>>] = "queued"
    BY DEF Collect
<1>1. CASE End(m, h, FALSE)
    BY <1>0, <1>1, EarlyEnd
<1>2. CASE ~End(m, h, FALSE)
  <2> DEFINE T == {[id |-> i, row |-> rows[i]] : i \in Pending(h)}
  <2>1. /\ push' = [push EXCEPT ![<<m, h>>] = "waiting"]
        /\ tasks' = [tasks EXCEPT ![<<m, h>>] = T] /\ batch' = batch
    BY <1>2 DEF Collect
  <2>2. ASSUME NEW t \in T
        PROVE  /\ t \in Task /\ t.id \in Ids /\ t.id <= next /\ rows[t.id] # NoRow
               /\ t.row = rows[t.id] /\ t.row.host = h /\ t.row.status # "synchronized"
               /\ t.id \in RowsOf(h, t.row.kind)
    BY <2>2, ReadRows
  <2> HIDE DEF T
  <2>3. UNCHANGED <<batching, deferred, snapshot, cancelled, edits, calls, rows, next>>
    BY <1>0 DEF PushRest, bounds, database
  <2>4. /\ push \in [Modes \X Hosts -> Steps] /\ tasks \in [Modes \X Hosts -> SUBSET Task]
    BY DEF BaseInv, OtherTypes
  <2>5. T \subseteq Task
    BY <2>2
  <2>6. tasks' \in [Modes \X Hosts -> SUBSET Task] /\ push' \in [Modes \X Hosts -> Steps]
    BY <2>1, <2>4, <2>5 DEF Steps
  <2>7. OtherTypes'
    BY <1>0, <2>1, <2>3, <2>6 DEF BaseInv, OtherTypes
  <2>8. TasksOK'
    <3> SUFFICES ASSUME NEW n \in Modes, NEW g \in Hosts, NEW t \in tasks'[<<n, g>>]
                 PROVE  /\ t.id <= next /\ t.row.host = g /\ t.row.status # "synchronized"
                        /\ rows[t.id] # NoRow =>
                             (rows[t.id]).host = g /\ (rows[t.id]).kind = t.row.kind
                        /\ \A u \in tasks'[<<n, g>>] :
                             (t.id = u.id \/ (t.row.kind = u.row.kind /\ t.row.kind \in Plain))
                                 => t = u
        BY <2>3, Zenon DEF TasksOK
    <3>1. <<n, g>> \in Modes \X Hosts /\ <<m, h>> \in Modes \X Hosts
      OBVIOUS
    <3>2. CASE <<n, g>> # <<m, h>>
      <4>1. tasks'[<<n, g>>] = tasks[<<n, g>>]
        BY <2>1, <2>4, <3>1, <3>2
      <4> QED
        BY <4>1 DEF BaseInv, TasksOK
    <3>3. CASE n = m /\ g = h
      <4>1. tasks'[<<n, g>>] = T
        BY <2>1, <2>4, <3>1, <3>3
      <4>2. ASSUME NEW u \in T, t.id = u.id \/ (t.row.kind = u.row.kind /\ t.row.kind \in Plain)
            PROVE  t = u
        <5>1. t.id = u.id
          BY <2>2, <4>1, <4>2 DEF BaseInv, RowsOK
        <5>2. t.row = u.row /\ t \in Task /\ u \in Task
          BY <2>2, <4>1, <5>1
        <5> QED
          BY <5>1, <5>2 DEF Task
      <4> QED
        BY <2>2, <3>3, <4>1, <4>2
    <3> QED
      BY <3>2, <3>3
  <2>9. RowTypes' /\ RowsOK'
    BY <2>3 DEF BaseInv, RowTypes, RowsOK, RowsOf
  <2>10. push[<<m, h>>] \in Quiet /\ "waiting" \in Quiet
    BY <1>0 DEF Quiet
  <2>11. SessionsOK' /\ BatchOK'
    BY <1>0, <2>1, <2>3, <2>10, QuietSteps, BatchKept
  <2> QED
    BY <1>0, <2>7, <2>8, <2>9, <2>11 DEF BaseInv
<1> QED
    BY <1>1, <1>2

LEMMA NoSessionBase ==
    ASSUME BaseInv, NEW m \in Modes, NEW h \in Hosts, NoSession(m, h)
    PROVE  BaseInv' /\ UNCHANGED database
<1>1. /\ push[<<m, h>>] = "waiting" /\ End(m, h, FALSE) /\ UNCHANGED PushRest
      /\ UNCHANGED <<database, device, session, unsent, output, excused>>
    BY DEF NoSession
<1> QED
    BY <1>1, EarlyEnd

LEMMA ConnectBase ==
    ASSUME BaseInv, NEW m \in Modes, NEW h \in Hosts, Connect(m, h)
    PROVE  BaseInv' /\ UNCHANGED database
<1>1. /\ UNCHANGED <<database, device, tasks, batch, output, excused, batching, deferred, snapshot,
                     cancelled, edits, calls>>
      /\ session' = [session EXCEPT ![h] = m]
      /\ unsent' = [unsent EXCEPT ![h] = tasks[<<m, h>>]]
      /\ push[<<m, h>>] = "waiting" /\ push' = [push EXCEPT ![<<m, h>>] = "sending"]
    BY DEF Connect, PushRest, bounds
<1>2. /\ push' \in [Modes \X Hosts -> Steps] /\ session' \in [Hosts -> Modes \cup {Free}]
      /\ unsent' \in [Hosts -> SUBSET Task]
    BY <1>1 DEF BaseInv, OtherTypes, Steps
<1>3. OtherTypes'
    BY <1>1, <1>2 DEF BaseInv, OtherTypes
<1> QED
    BY <1>1, <1>3, RowsStill, ConnectSessions, BatchKept DEF BaseInv

\* What a command leaves on its device
LEMMA ExecutedDevice ==
    ASSUME NEW d \in Device, NEW row \in Row
    PROVE  Executed(d, row) \in Device
<1>1. d.pool \in Values \cup {NoPool} /\ d.plain \in SUBSET Plain
      /\ row.opts \in Values /\ row.bits \in Values
    BY DEF Device, Row
<1>2. Configure(d.pool, row) \in Values
    BY <1>1 DEF Configure, Values, Unset
<1>3. CASE row.kind = "pool"
    BY <1>1, <1>2, <1>3 DEF Executed, Device
<1>4. CASE row.kind # "pool"
  <2>1. row.kind \in Plain
    BY <1>4 DEF Row, Kinds
  <2> QED
    BY <1>1, <1>4, <2>1 DEF Executed, Device
<1> QED
    BY <1>3, <1>4

\* A command is one of the unsent; it is refused or carried out.
LEMMA CommandIs ==
    ASSUME BaseInv, NEW m \in Modes, NEW h \in Hosts, Command(m, h)
    PROVE  \E t \in unsent[h], refused \in BOOLEAN :
               /\ t \in Task /\ t \in tasks[<<m, h>>]
               /\ \A u \in unsent[h] : t.row.kind = u.row.kind => t.id <= u.id
               /\ unsent' = [unsent EXCEPT ![h] = unsent[h] \ {t}]
               /\ device' = IF refused THEN device
                            ELSE [device EXCEPT ![h] = Executed(device[h], t.row)]
               /\ Excuse(h, IF refused THEN {t.row.kind} ELSE KindsOf(Stale({t})))
<1>1. PICK t \in unsent[h], refused \in BOOLEAN :
               /\ \A u \in unsent[h] : ~Precedes(u, t)
               /\ unsent' = [unsent EXCEPT ![h] = unsent[h] \ {t}]
               /\ device' = IF refused THEN device
                            ELSE [device EXCEPT ![h] = Executed(device[h], t.row)]
               /\ Excuse(h, IF refused THEN {t.row.kind} ELSE KindsOf(Stale({t})))
    BY Zenon DEF Command
<1>2. unsent[h] \subseteq Task /\ unsent[h] \subseteq tasks[<<m, h>>]
    BY DEF BaseInv, OtherTypes, SessionsOK, Command
<1>3. ASSUME NEW u \in unsent[h], t.row.kind = u.row.kind PROVE t.id <= u.id
    BY <1>1, <1>2, <1>3, SameKind
<1> QED
    BY <1>1, <1>2, <1>3, Zenon

LEMMA CommandBase ==
    ASSUME BaseInv, NEW m \in Modes, NEW h \in Hosts, Command(m, h)
    PROVE  BaseInv' /\ UNCHANGED database
<1>1. UNCHANGED <<database, push, tasks, batch, batching, session, output, deferred, snapshot,
                  cancelled, edits, calls>>
    BY DEF Command, PushRest, bounds, threads
<1>2. PICK t \in unsent[h], refused \in BOOLEAN :
               /\ t \in Task
               /\ unsent' = [unsent EXCEPT ![h] = unsent[h] \ {t}]
               /\ device' = IF refused THEN device
                            ELSE [device EXCEPT ![h] = Executed(device[h], t.row)]
               /\ Excuse(h, IF refused THEN {t.row.kind} ELSE KindsOf(Stale({t})))
    BY CommandIs
<1>3. t.row \in Row /\ t.row.kind \in Kinds
    BY <1>2 DEF Task, Row
<1>4. unsent' \in [Hosts -> SUBSET Task]
    BY <1>2 DEF BaseInv, OtherTypes
<1>5. device' \in [Hosts -> Device]
  <2>1. Executed(device[h], t.row) \in Device
    BY <1>3, ExecutedDevice DEF BaseInv, OtherTypes
  <2> QED
    BY <1>2, <2>1 DEF BaseInv, OtherTypes
<1>6. excused' \subseteq Hosts \X Kinds
  <2>1. KindsOf(Stale({t})) \subseteq {t.row.kind}
    BY DEF KindsOf, Stale
  <2> QED
    BY <1>2, <1>3, <2>1, ExcuseTypes
<1>7. OtherTypes'
    BY <1>1, <1>4, <1>5, <1>6 DEF BaseInv, OtherTypes
<1>8. BatchOK'
    BY <1>1 DEF BaseInv, BatchOK
<1> QED
    BY <1>1, <1>7, <1>8, RowsStill, CommandSessions DEF BaseInv

LEMMA ReportBase ==
    ASSUME BaseInv, NEW m \in Modes, NEW h \in Hosts, Report(m, h)
    PROVE  BaseInv' /\ UNCHANGED database
<1>1. /\ UNCHANGED <<database, device, tasks, batch, excused, session, batching, deferred,
                     snapshot, cancelled, edits, calls>>
      /\ unsent' = [unsent EXCEPT ![h] = {}]
      /\ push[<<m, h>>] = "sending" /\ push' = [push EXCEPT ![<<m, h>>] = "sent"]
    BY DEF Report, PushRest, bounds
<1>2. output' \in [host : Hosts \cup {Free}, ok : BOOLEAN]
    BY DEF Report
<1>3. push' \in [Modes \X Hosts -> Steps] /\ unsent' \in [Hosts -> SUBSET Task]
    BY <1>1 DEF BaseInv, OtherTypes, Steps
<1>4. OtherTypes'
    BY <1>1, <1>2, <1>3 DEF BaseInv, OtherTypes
<1> QED
    BY <1>1, <1>4, RowsStill, ReportSessions, BatchKept DEF BaseInv

LEMMA MarkBase ==
    ASSUME BaseInv, NEW m \in Modes, NEW h \in Hosts, Mark(m, h)
    PROVE  BaseInv'
<1>1. /\ UNCHANGED <<next, device, unsent, output, batching, deferred, snapshot, cancelled, edits,
                     calls>>
      /\ session' = [session EXCEPT ![h] = Free] /\ push[<<m, h>>] = "sent"
      /\ rows' = Marked(tasks[<<m, h>>]) \/ UNCHANGED rows
    BY DEF Mark, PushRest, bounds
<1>2. PICK reported : End(m, h, reported)
    BY DEF Mark
<1>3. excused' \subseteq Hosts \X Kinds
  <2>1. tasks[<<m, h>>] \subseteq Task
    BY DEF BaseInv, OtherTypes
  <2>2. KindsOf(Stale(tasks[<<m, h>>])) \subseteq Kinds
    BY <2>1 DEF KindsOf, Stale, Task, Row
  <2>3. excused' = excused \/ Excuse(h, KindsOf(Stale(tasks[<<m, h>>])))
    BY DEF Mark
  <2> QED
    BY <2>2, <2>3, ExcuseTypes DEF BaseInv, OtherTypes
<1>4. session' \in [Hosts -> Modes \cup {Free}]
    BY <1>1 DEF BaseInv, OtherTypes
<1>5. /\ push' \in [Modes \X Hosts -> Steps]
      /\ tasks' \in [Modes \X Hosts -> SUBSET Task]
      /\ \A n \in Modes, g \in Hosts : tasks'[<<n, g>>] \subseteq tasks[<<n, g>>]
      /\ batch' \subseteq Modes \X Hosts
    BY <1>2, EndTypes
<1>6. OtherTypes'
    BY <1>1, <1>3, <1>4, <1>5 DEF BaseInv, OtherTypes
<1>7. RowsMove
    BY <1>1, MarkedMoves, StillMoves DEF database
<1>8. RowTypes' /\ TasksOK' /\ RowsOK'
    BY <1>5, <1>7, MoveKeeps
<1>9. BatchOK'
  <2>1. PICK step : push' = [push EXCEPT ![<<m, h>>] = step]
    BY <1>2 DEF End
  <2> QED
    BY <1>1, <2>1, BatchKept
<1> QED
    BY <1>6, <1>8, <1>9, MarkSessions DEF BaseInv

LEMMA WriteBase ==
    ASSUME BaseInv, NEW h \in Hosts, Reconcile(h) \/ SyncDeviceState(h)
    PROVE  BaseInv'
<1>1. UNCHANGED <<device, push, tasks, batch, batching, session, unsent, output, cancelled, edits,
                  calls>>
    BY DEF Reconcile, SyncDeviceState, threads, bounds
<1>2. deferred' \in [Hosts -> Nat]
  <2>1. CASE Reconcile(h)
    <3>1. deferred[h] > 0 /\ deferred \in [Hosts -> Nat]
      BY <2>1 DEF Reconcile, BaseInv, OtherTypes
    <3>2. deferred' = [deferred EXCEPT ![h] = deferred[h] - 1]
      BY <2>1 DEF Reconcile
    <3> QED
      BY <3>1, <3>2
  <2>2. CASE SyncDeviceState(h)
    BY <2>2 DEF SyncDeviceState, BaseInv, OtherTypes
  <2> QED
    BY <2>1, <2>2
<1>3. snapshot' \in [Hosts -> [step : {"none"}]
                         \cup [step : {"taken", "write"}, plain : SUBSET Plain,
                              mode : {"safe", "force"}]]
    BY DEF Reconcile, SyncDeviceState, BaseInv, OtherTypes
<1>4. excused' \subseteq Hosts \X Kinds
    BY PushAssumption DEF Reconcile, SyncDeviceState, BaseInv, OtherTypes, Kinds
<1>5. OtherTypes'
    BY <1>1, <1>2, <1>3, <1>4 DEF BaseInv, OtherTypes
<1>6. RowsMove
    BY WrittenMoves, StillMoves DEF Reconcile, SyncDeviceState
<1>7. RowTypes' /\ TasksOK' /\ RowsOK'
    BY <1>1, <1>6, MoveKeeps DEF BaseInv, OtherTypes
<1>8. SessionsOK' /\ BatchOK'
    BY <1>1, SessionsKept DEF BaseInv, BatchOK
<1> QED
    BY <1>5, <1>7, <1>8 DEF BaseInv

\* The steps that are not of a push with its session
LEMMA StartBase ==
    ASSUME BaseInv,
           \/ \E h \in Hosts : \/ PushOne(h) \/ CollectConfig(h) \/ SingleEnds(h)
                               \/ LookForPending(h)
           \/ \E S \in SUBSET Hosts \ {{}} : PushBatch(S)
           \/ BatchEnds \/ Shutdown
           \/ \E m \in Modes, h \in Hosts :
                Collect(m, h) \/ NoSession(m, h) \/ Connect(m, h) \/ Command(m, h) \/ Report(m, h)
    PROVE  BaseInv' /\ UNCHANGED database
    BY PushOneBase, CollectConfigBase, SingleEndsBase, LookBase, PushBatchBase, BatchEndsBase,
       ShutdownBase, CollectBase, NoSessionBase, ConnectBase, CommandBase, ReportBase

LEMMA NextBase == BaseInv /\ [Next]_vars => BaseInv'
<1> SUFFICES ASSUME BaseInv, [Next]_vars PROVE BaseInv'
    OBVIOUS
<1>1. CASE UNCHANGED vars
  <2>1. UNCHANGED <<rows, next, device, push, tasks, batch, batching, session, unsent, output,
                    deferred, snapshot, cancelled, excused, edits, calls>>
    BY <1>1 DEF vars, database, threads, bounds
  <2>2. OtherTypes' /\ BatchOK'
    BY <2>1 DEF BaseInv, OtherTypes, BatchOK
  <2> QED
    BY <2>1, <2>2, RowsStill, SessionsKept DEF BaseInv, database
<1>2. CASE Next
    BY <1>2, EditBase, StartBase, MarkBase, WriteBase DEF Next
<1> QED
    BY <1>1, <1>2

LEMMA BaseInvariant == Spec => []BaseInv
    BY InitBase, NextBase, PTL DEF Spec

\* Every variable has its type.
THEOREM PushTypeCorrect == Spec => []PushTypeOK
<1>1. BaseInv => PushTypeOK
    BY TypeParts DEF BaseInv
<1> QED
    BY <1>1, BaseInvariant, PTL

-----------------------------------------------------------------------------
(* Pending rows *)

\* Rows that are gone or settled were read by the push whose result is marked.
LEMMA MarkKeeps ==
    ASSUME BaseInv, NEW m \in Modes, NEW g \in Hosts, Mark(m, g),
           NEW h \in Hosts, NEW i \in Ids, rows[i] # NoRow, (rows[i]).host = h,
           rows'[i] # rows[i]
    PROVE  /\ output = [host |-> h, ok |-> TRUE]
           /\ push[<<m, h>>] = "sent" /\ i \in {t.id : t \in tasks[<<m, h>>]}
<1>1. ResultIsOf(g) /\ output.ok /\ rows' = Marked(tasks[<<m, g>>]) /\ push[<<m, g>>] = "sent"
    BY DEF Mark
<1>2. PICK t \in tasks[<<m, g>>] : t.id = i
    BY <1>1 DEF Marked
<1>3. h = g
    BY <1>2 DEF BaseInv, TasksOK
<1>4. output = [host |-> g, ok |-> TRUE]
    BY <1>1 DEF ResultIsOf, BaseInv, OtherTypes
<1> QED
    BY <1>1, <1>2, <1>3, <1>4

\* Device state only replaces the helpers of its host.
LEMMA WriteKeeps ==
    ASSUME BaseInv, NEW g \in Hosts, Reconcile(g) \/ SyncDeviceState(g),
           NEW i \in Ids, rows[i] # NoRow, rows'[i] # rows[i]
    PROVE  /\ (rows[i]).host = g /\ (rows[i]).kind = Synced
           /\ deferred'[g] # deferred[g] \/ snapshot'[g] # snapshot[g]
<1>1. PICK plain : WriteBack(g, plain)
    BY DEF Reconcile, SyncDeviceState, database
<1>2. i # next + 1
    BY DEF BaseInv, RowTypes, Ids
<1>3. i \in RowsOf(g, Synced)
    BY <1>1, <1>2, WrittenRows
<1>4. CASE Reconcile(g)
  <2>1. deferred' = [deferred EXCEPT ![g] = deferred[g] - 1]
    BY <1>4 DEF Reconcile
  <2>2. deferred[g] \in Nat /\ deferred'[g] = deferred[g] - 1
    BY <2>1 DEF BaseInv, OtherTypes
  <2> QED
    BY <1>3, <2>2 DEF RowsOf
<1>5. CASE SyncDeviceState(g)
  <2>1. (snapshot'[g]).step = "none" /\ (snapshot[g]).step = "write"
    BY <1>5 DEF SyncDeviceState, BaseInv, OtherTypes
  <2> QED
    BY <1>3, <2>1 DEF RowsOf
<1> QED
    BY <1>4, <1>5

\* A row stays pending until the user edits it, until a push of its own host
\* that read it succeeded on that host, or, for helpers, until device state is
\* written back: never by a push that failed, by the push or the result of
\* another host, or by the interleaving of a single push with a batch.
THEOREM PendingIsKept == Spec => PendingKept
<1>1. BaseInv /\ [Next]_vars =>
      [\A h \in Hosts, kind \in Kinds : \A i \in RowsOf(h, kind) :
         (rows[i]).status # "synchronized"
         /\ (rows'[i] = NoRow \/ (rows'[i]).status = "synchronized") =>
            \/ edits' # edits
            \/ output = [host |-> h, ok |-> TRUE]
               /\ \E m \in Modes : push[<<m, h>>] = "sent" /\ i \in {t.id : t \in tasks[<<m, h>>]}
            \/ kind = Synced /\ (deferred'[h] # deferred[h] \/ snapshot'[h] # snapshot[h])
      ]_vars
  <2> SUFFICES ASSUME BaseInv, Next, NEW h \in Hosts, NEW kind \in Kinds,
                      NEW i \in RowsOf(h, kind), (rows[i]).status # "synchronized",
                      rows'[i] = NoRow \/ (rows'[i]).status = "synchronized"
               PROVE
            \/ edits' # edits
            \/ output = [host |-> h, ok |-> TRUE]
               /\ \E m \in Modes : push[<<m, h>>] = "sent" /\ i \in {t.id : t \in tasks[<<m, h>>]}
            \/ kind = Synced /\ (deferred'[h] # deferred[h] \/ snapshot'[h] # snapshot[h])
      OBVIOUS
  <2>1. /\ i \in Ids /\ rows[i] # NoRow /\ (rows[i]).host = h /\ (rows[i]).kind = kind
        /\ rows'[i] # rows[i]
    BY DEF RowsOf
  <2>2. CASE UserEdits
    BY <2>2, EditBase
  <2>3. ASSUME NEW m \in Modes, NEW g \in Hosts, Mark(m, g)
        PROVE  /\ output = [host |-> h, ok |-> TRUE]
               /\ push[<<m, h>>] = "sent" /\ i \in {t.id : t \in tasks[<<m, h>>]}
    BY <2>1, <2>3, MarkKeeps
  <2>4. ASSUME NEW g \in Hosts, Reconcile(g) \/ SyncDeviceState(g)
        PROVE  kind = Synced /\ (deferred'[h] # deferred[h] \/ snapshot'[h] # snapshot[h])
    BY <2>1, <2>4, WriteKeeps
  <2>5. rows' # rows
    BY <2>1
  <2> QED
    BY <2>2, <2>3, <2>4, <2>5, StartBase DEF Next, database
<1> QED
    BY <1>1, BaseInvariant, PTL DEF Spec, PendingKept

-----------------------------------------------------------------------------
(* What makes a synchronized row true *)

\* The rows of a push that its device has carried out
Done(m, h) ==
    IF push[<<m, h>>] = "sending" THEN tasks[<<m, h>>] \ unsent[h]
    ELSE IF push[<<m, h>>] = "sent" /\ output = [host |-> h, ok |-> TRUE]
    THEN tasks[<<m, h>>] ELSE {}

Applied(t) == t.row.status = "pending_apply"

\* The device has a plain row that is synchronized, and nothing without a row;
\* after a push carried a row out, it has what that row says.
PlainOK(h, kind) ==
    /\ kind \in device[h].plain => RowsOf(h, kind) # {}
    /\ \A i \in RowsOf(h, kind) :
         (rows[i]).status = "synchronized" => kind \in device[h].plain
    /\ \A m \in Modes : \A t \in Done(m, h) :
         t.row.kind = kind /\ rows[t.id] # NoRow => (kind \in device[h].plain <=> Applied(t))

Deleted(h) == {j \in RowsOf(h, "pool") : (rows[j]).status = "pending_delete"}

\* What the options of a pool are configured over
Base(pool) == IF pool = NoPool THEN Unset ELSE pool

\* One pool is shown, with those to be removed before it.  Synchronized, it is
\* the device's; else its options without a bit are those the device will have
\* once the removals are carried out.
PoolRowsOK(h) ==
    /\ device[h].pool # NoPool => RowsOf(h, "pool") # {}
    /\ \A i \in Live(h, "pool") :
         /\ \A j \in Live(h, "pool") : i = j
         /\ \A j \in Deleted(h) : j < i
         /\ (rows[i]).status = "synchronized" =>
              Deleted(h) = {} /\ device[h].pool = (rows[i]).opts
         /\ (rows[i]).status = "pending_apply" =>
              \A o \in Options : ~ (rows[i]).bits[o] =>
                  ((rows[i]).opts[o] <=> Deleted(h) = {} /\ Base(device[h].pool)[o])

PoolTasks(m, h) == {t \in tasks[<<m, h>>] : t.row.kind = "pool"}

\* A push that read a pool read the pools to be removed before it too; the
\* device has what the last row it carried out says.
PoolTasksOK(m, h) ==
    /\ \A t \in PoolTasks(m, h) : Applied(t) =>
         /\ \A u \in PoolTasks(m, h) : u = t \/ (~Applied(u) /\ u.id < t.id)
         /\ t.id \in Live(h, "pool") =>
              \A j \in Deleted(h) : \E u \in PoolTasks(m, h) : u.id = j
    /\ \A t \in PoolTasks(m, h) \cap Done(m, h) :
         \/ Applied(t) /\ device[h].pool = t.row.opts
         \/ ~Applied(t) /\ (\E u \in PoolTasks(m, h) \cap Done(m, h) : Applied(u))
         \/ ~Applied(t) /\ device[h].pool = NoPool

PoolOK(h) == PoolRowsOK(h) /\ \A m \in Modes : PoolTasksOK(m, h)

KindsOK ==
    \A h \in Hosts :
        /\ \A kind \in Plain : <<h, kind>> \notin excused => PlainOK(h, kind)
        /\ <<h, "pool">> \notin excused => PoolOK(h)

SyncInv == BaseInv /\ KindsOK

LEMMA InitKinds == Init => KindsOK
<1> SUFFICES ASSUME Init PROVE KindsOK
    OBVIOUS
<1>1. \A m \in Modes, h \in Hosts : Done(m, h) = {} /\ PoolTasks(m, h) = {}
    BY DEF Init, Done, PoolTasks
<1>2. \A h \in Hosts, kind \in Kinds : RowsOf(h, kind) = {}
    BY DEF Init, RowsOf
<1>3. \A h \in Hosts : device[h].pool = NoPool /\ device[h].plain = {}
    BY DEF Init
<1>4. ASSUME NEW h \in Hosts, NEW kind \in Plain PROVE PlainOK(h, kind)
    BY <1>1, <1>2, <1>3 DEF PlainOK, Kinds
<1>5. ASSUME NEW h \in Hosts PROVE PoolOK(h)
    BY <1>1, <1>2, <1>3 DEF PoolOK, PoolRowsOK, PoolTasksOK, Live, Kinds
<1> QED
    BY <1>4, <1>5 DEF KindsOK

LEMMA SyncImplies == SyncInv => SynchronizedIsTrue
<1> SUFFICES ASSUME SyncInv, NEW h \in Hosts, NEW kind \in Kinds, <<h, kind>> \notin excused
             PROVE  /\ OnDevice(h, kind) => RowsOf(h, kind) # {}
                    /\ \A i \in RowsOf(h, kind) : (rows[i]).status = "synchronized" =>
                         OnDevice(h, kind)
                         /\ (kind = "pool" => device[h].pool = (rows[i]).opts)
    BY DEF SynchronizedIsTrue
<1>1. CASE kind \in Plain
    BY <1>1, PushAssumption DEF SyncInv, KindsOK, PlainOK, OnDevice
<1>2. CASE kind = "pool"
  <2>1. PoolRowsOK(h)
    BY <1>2 DEF SyncInv, KindsOK, PoolOK
  <2>2. ASSUME NEW i \in RowsOf(h, "pool"), (rows[i]).status = "synchronized"
        PROVE  device[h].pool = (rows[i]).opts /\ device[h].pool # NoPool
    <3>1. i \in Live(h, "pool") /\ (rows[i]).opts \in Values
      BY <2>2, RowParts DEF Live, RowsOf, SyncInv
    <3> QED
      BY <2>1, <2>2, <3>1, PushAssumption DEF PoolRowsOK
  <2> QED
    BY <1>2, <2>1, <2>2 DEF PoolRowsOK, OnDevice
<1> QED
    BY <1>1, <1>2 DEF Kinds

-----------------------------------------------------------------------------
(* Steps that leave a kind of row as it is *)

\* A push reads nothing new and carries nothing out.
TasksStill(m, h) ==
    /\ tasks'[<<m, h>>] \in {tasks[<<m, h>>], {}}
    /\ Done(m, h)' \in {Done(m, h), {}}

\* The same of the pools it read
PoolsStill(m, h) ==
    /\ tasks'[<<m, h>>] \in {tasks[<<m, h>>], {}}
    /\ PoolTasks(m, h) \cap Done(m, h)' \in {PoolTasks(m, h) \cap Done(m, h), {}}

LEMMA TasksPools ==
    ASSUME NEW m, NEW h, TasksStill(m, h)
    PROVE  PoolsStill(m, h)
    BY DEF TasksStill, PoolsStill

LEMMA DoneIsRead ==
    ASSUME NEW m, NEW h
    PROVE  Done(m, h) \subseteq tasks[<<m, h>>]
    BY DEF Done

LEMMA PlainStill ==
    ASSUME BaseInv, NEW h \in Hosts, NEW kind \in Plain, PlainOK(h, kind),
           kind \in device'[h].plain <=> kind \in device[h].plain,
           \A i \in RowsOf(h, kind) : kind \in device[h].plain => i \in RowsOf(h, kind)',
           \A i \in RowsOf(h, kind)' : (rows'[i]).status = "synchronized" =>
               i \in RowsOf(h, kind) /\ (rows[i]).status = "synchronized",
           \A m \in Modes : \A t \in Done(m, h)' : t.row.kind = kind => t \in Done(m, h),
           \A i \in Ids : rows[i] = NoRow /\ i <= next => rows'[i] = NoRow
    PROVE  PlainOK(h, kind)'
<1>1. kind \in device'[h].plain => RowsOf(h, kind)' # {}
    BY DEF PlainOK
<1>2. \A i \in RowsOf(h, kind)' :
          (rows'[i]).status = "synchronized" => kind \in device'[h].plain
    BY DEF PlainOK
<1>3. ASSUME NEW m \in Modes, NEW t \in Done(m, h)', t.row.kind = kind, rows'[t.id] # NoRow
      PROVE  kind \in device'[h].plain <=> Applied(t)
  <2>1. t \in Done(m, h)
    BY <1>3
  <2>2. t \in tasks[<<m, h>>]
    BY <2>1, DoneIsRead
  <2>3. t.id \in Ids /\ t.id <= next
    BY <2>2 DEF BaseInv, OtherTypes, TasksOK, Task
  <2>4. rows[t.id] # NoRow
    BY <1>3, <2>3
  <2> QED
    BY <1>3, <2>1, <2>4 DEF PlainOK
<1> QED
    BY <1>1, <1>2, <1>3 DEF PlainOK, Applied

LEMMA TasksStillOK ==
    ASSUME NEW m \in Modes, NEW h \in Hosts, PoolTasksOK(m, h), PoolsStill(m, h),
           device'[h].pool = device[h].pool,
           \A t \in PoolTasks(m, h) : t.id \in Live(h, "pool")' =>
               t.id \in Live(h, "pool") /\ Deleted(h)' \subseteq Deleted(h)
    PROVE  PoolTasksOK(m, h)'
<1>1. CASE tasks'[<<m, h>>] = {}
  <2>1. PoolTasks(m, h)' = {}
    BY <1>1 DEF PoolTasks
  <2> QED
    BY <2>1 DEF PoolTasksOK
<1>2. CASE tasks'[<<m, h>>] # {}
  <2>1. PoolTasks(m, h)' = PoolTasks(m, h)
    BY <1>2 DEF PoolTasks, PoolsStill
  <2>2. ASSUME NEW t \in PoolTasks(m, h), Applied(t)
        PROVE  /\ \A u \in PoolTasks(m, h) : u = t \/ (~Applied(u) /\ u.id < t.id)
               /\ t.id \in Live(h, "pool")' =>
                    \A j \in Deleted(h)' : \E u \in PoolTasks(m, h) : u.id = j
    BY <2>2 DEF PoolTasksOK
  <2>3. ASSUME NEW t \in PoolTasks(m, h) \cap Done(m, h)'
        PROVE  \/ Applied(t) /\ device'[h].pool = t.row.opts
               \/ ~Applied(t) /\ (\E u \in PoolTasks(m, h) \cap Done(m, h)' : Applied(u))
               \/ ~Applied(t) /\ device'[h].pool = NoPool
    BY <2>3 DEF PoolTasksOK, PoolsStill
  <2> QED
    BY <2>1, <2>2, <2>3 DEF PoolTasksOK, Applied
<1> QED
    BY <1>1, <1>2

LEMMA PoolRowsStill ==
    ASSUME NEW h \in Hosts, PoolRowsOK(h), device'[h].pool = device[h].pool,
           RowsOf(h, "pool")' = RowsOf(h, "pool"),
           \A i \in RowsOf(h, "pool") : rows'[i] = rows[i]
    PROVE  /\ PoolRowsOK(h)'
           /\ Live(h, "pool")' = Live(h, "pool") /\ Deleted(h)' = Deleted(h)
<1>1. Live(h, "pool")' = Live(h, "pool") /\ Deleted(h)' = Deleted(h)
    BY DEF Live, Deleted
<1>2. \A i \in Live(h, "pool") : rows'[i] = rows[i]
    BY DEF Live
<1> QED
    BY <1>1, <1>2 DEF PoolRowsOK, Base

LEMMA PoolStill ==
    ASSUME NEW h \in Hosts, PoolOK(h), device'[h].pool = device[h].pool,
           RowsOf(h, "pool")' = RowsOf(h, "pool"),
           \A i \in RowsOf(h, "pool") : rows'[i] = rows[i],
           \A m \in Modes : PoolsStill(m, h)
    PROVE  PoolOK(h)'
<1>1. /\ PoolRowsOK(h)'
      /\ Live(h, "pool")' = Live(h, "pool") /\ Deleted(h)' = Deleted(h)
    BY PoolRowsStill DEF PoolOK
<1>2. ASSUME NEW m \in Modes PROVE PoolTasksOK(m, h)'
    BY <1>1, TasksStillOK DEF PoolOK
<1> QED
    BY <1>1, <1>2 DEF PoolOK

\* Neither rows nor devices change.
LEMMA StillKinds ==
    ASSUME SyncInv, UNCHANGED <<rows, device>>, excused \subseteq excused',
           \A m \in Modes, h \in Hosts : TasksStill(m, h)
    PROVE  KindsOK'
<1>1. ASSUME NEW h \in Hosts, NEW kind PROVE RowsOf(h, kind)' = RowsOf(h, kind)
    BY DEF RowsOf
<1>2. ASSUME NEW h \in Hosts, NEW kind \in Plain, <<h, kind>> \notin excused'
      PROVE  PlainOK(h, kind)'
    BY <1>1, <1>2, PlainStill DEF SyncInv, KindsOK, TasksStill
<1>3. ASSUME NEW h \in Hosts, <<h, "pool">> \notin excused' PROVE PoolOK(h)'
    BY <1>1, <1>3, PoolStill, TasksPools DEF SyncInv, KindsOK
<1> QED
    BY <1>2, <1>3 DEF KindsOK

-----------------------------------------------------------------------------
(* What the steps do to the rows the pushes carried out *)

LEMMA SameDone ==
    ASSUME UNCHANGED <<unsent, output>>, NEW m, NEW h,
           tasks'[<<m, h>>] = tasks[<<m, h>>],
           push'[<<m, h>>] = "sending" <=> push[<<m, h>>] = "sending",
           push'[<<m, h>>] = "sent" <=> push[<<m, h>>] = "sent"
    PROVE  TasksStill(m, h)
    BY DEF TasksStill, Done

\* No push reads rows, and none is sent.
LEMMA StillSame ==
    ASSUME UNCHANGED <<push, tasks, unsent, output>>
    PROVE  \A m \in Modes, h \in Hosts : TasksStill(m, h)
    BY SameDone

\* One push goes to a step without its device.
LEMMA StepStill ==
    ASSUME BaseInv, UNCHANGED <<unsent, output>>, NEW m \in Modes, NEW h \in Hosts,
           NEW step, step \notin {"sending", "sent"}, push' = [push EXCEPT ![<<m, h>>] = step],
           NEW T, tasks' = [tasks EXCEPT ![<<m, h>>] = T]
    PROVE  /\ Done(m, h)' = {} /\ tasks'[<<m, h>>] = T
           /\ \A n \in Modes, g \in Hosts :
                <<n, g>> # <<m, h>> \/ T = tasks[<<m, h>>] \/ T = {} => TasksStill(n, g)
<1>1. push \in [Modes \X Hosts -> Steps] /\ tasks \in [Modes \X Hosts -> SUBSET Task]
    BY DEF BaseInv, OtherTypes
<1>2. <<m, h>> \in Modes \X Hosts
    OBVIOUS
<1>3. push'[<<m, h>>] = step /\ tasks'[<<m, h>>] = T
    BY <1>1, <1>2
<1>4. Done(m, h)' = {}
    BY <1>3 DEF Done
<1>5. ASSUME NEW n \in Modes, NEW g \in Hosts, <<n, g>> # <<m, h>> PROVE TasksStill(n, g)
  <2>1. <<n, g>> \in Modes \X Hosts
    OBVIOUS
  <2>2. push'[<<n, g>>] = push[<<n, g>>] /\ tasks'[<<n, g>>] = tasks[<<n, g>>]
    BY <1>1, <1>5, <2>1
  <2> QED
    BY <2>2, SameDone
<1>6. T = tasks[<<m, h>>] \/ T = {} => TasksStill(m, h)
    BY <1>3, <1>4 DEF TasksStill
<1>7. ASSUME NEW n \in Modes, NEW g \in Hosts,
             <<n, g>> # <<m, h>> \/ T = tasks[<<m, h>>] \/ T = {}
      PROVE  TasksStill(n, g)
  <2>1. CASE <<n, g>> # <<m, h>>
    BY <1>5, <2>1
  <2>2. CASE <<n, g>> = <<m, h>>
    <3>1. n = m /\ g = h
      BY <2>2
    <3> QED
      BY <1>6, <1>7, <3>1
  <2> QED
    BY <2>1, <2>2
<1> QED
    BY <1>3, <1>4, <1>7

LEMMA EndStill ==
    ASSUME BaseInv, UNCHANGED <<unsent, output>>, NEW m \in Modes, NEW h \in Hosts,
           NEW reported, End(m, h, reported)
    PROVE  /\ \A n \in Modes, g \in Hosts : TasksStill(n, g)
           /\ tasks'[<<m, h>>] = {} /\ Done(m, h)' = {}
<1>1. PICK step \in {"done", "ended"} :
          /\ push' = [push EXCEPT ![<<m, h>>] = step]
          /\ tasks' = [tasks EXCEPT ![<<m, h>>] = {}]
    BY DEF End
<1>2. step \notin {"sending", "sent"}
    OBVIOUS
<1> QED
    BY <1>1, <1>2, StepStill

\* Whoever has no session has carried nothing out.
LEMMA NoSessionNotDone ==
    ASSUME BaseInv, NEW m \in Modes, NEW h \in Hosts, session[h] # m
    PROVE  Done(m, h) = {} /\ push[<<m, h>>] \notin {"sending", "sent"}
    BY DEF BaseInv, SessionsOK, Done

LEMMA ConnectStill ==
    ASSUME BaseInv, NEW m \in Modes, NEW h \in Hosts, Connect(m, h)
    PROVE  \A n \in Modes, g \in Hosts : TasksStill(n, g)
<1>1. /\ push' = [push EXCEPT ![<<m, h>>] = "sending"] /\ session[h] = Free
      /\ UNCHANGED <<tasks, output>>
      /\ unsent' = [unsent EXCEPT ![h] = tasks[<<m, h>>]]
    BY DEF Connect
<1>2. /\ push \in [Modes \X Hosts -> Steps] /\ unsent \in [Hosts -> SUBSET Task]
    BY DEF BaseInv, OtherTypes
<1> SUFFICES ASSUME NEW n \in Modes, NEW g \in Hosts PROVE TasksStill(n, g)
    OBVIOUS
<1>3. <<m, h>> \in Modes \X Hosts /\ <<n, g>> \in Modes \X Hosts /\ n # Free
    BY PushAssumption
<1>4. CASE g # h
  <2>1. push'[<<n, g>>] = push[<<n, g>>] /\ unsent'[g] = unsent[g]
    BY <1>1, <1>2, <1>3, <1>4
  <2> QED
    BY <1>1, <2>1 DEF TasksStill, Done
<1>5. CASE g = h /\ n = m
  <2>1. push'[<<m, h>>] = "sending" /\ unsent'[h] = tasks[<<m, h>>]
    BY <1>1, <1>2, <1>3
  <2>2. Done(m, h)' = {}
    BY <1>1, <2>1 DEF Done
  <2> QED
    BY <1>1, <1>5, <2>2 DEF TasksStill
<1>6. CASE g = h /\ n # m
  <2>1. push'[<<n, h>>] \notin {"sending", "sent"}
    BY <1>1, <1>2, <1>3, <1>6, NoSessionNotDone
  <2>2. Done(n, h)' = {}
    BY <2>1 DEF Done
  <2> QED
    BY <1>1, <1>6, <2>2 DEF TasksStill
<1> QED
    BY <1>4, <1>5, <1>6

\* A result of success is of a push that carried everything out.
LEMMA ReportStill ==
    ASSUME BaseInv, NEW m \in Modes, NEW h \in Hosts, Report(m, h)
    PROVE  \A n \in Modes, g \in Hosts : TasksStill(n, g)
<1>1. /\ push[<<m, h>>] = "sending" /\ push' = [push EXCEPT ![<<m, h>>] = "sent"]
      /\ UNCHANGED tasks /\ unsent' = [unsent EXCEPT ![h] = {}]
    BY DEF Report
<1>2. PICK ok \in BOOLEAN : (ok => unsent[h] = {}) /\ output' = [host |-> h, ok |-> ok]
    BY DEF Report
<1>3. /\ push \in [Modes \X Hosts -> Steps] /\ unsent \in [Hosts -> SUBSET Task]
    BY DEF BaseInv, OtherTypes
<1>4. session[h] = m
    BY <1>1 DEF BaseInv, SessionsOK
<1> SUFFICES ASSUME NEW n \in Modes, NEW g \in Hosts PROVE TasksStill(n, g)
    OBVIOUS
<1>5. <<m, h>> \in Modes \X Hosts /\ <<n, g>> \in Modes \X Hosts
    OBVIOUS
<1>6. CASE g # h
  <2>1. push'[<<n, g>>] = push[<<n, g>>] /\ unsent'[g] = unsent[g]
    BY <1>1, <1>3, <1>5, <1>6
  <2>2. output' # [host |-> g, ok |-> TRUE]
    BY <1>2, <1>6
  <2> QED
    BY <1>1, <2>1, <2>2 DEF TasksStill, Done
<1>7. CASE g = h /\ n = m
  <2>1. push'[<<m, h>>] = "sent"
    BY <1>1, <1>3, <1>5
  <2>2. Done(m, h) = tasks[<<m, h>>] \ unsent[h]
    BY <1>1 DEF Done
  <2>3. CASE ok
    <3>1. Done(m, h)' = tasks[<<m, h>>] /\ unsent[h] = {}
      BY <1>1, <1>2, <2>1, <2>3 DEF Done
    <3> QED
      BY <1>1, <1>7, <2>2, <3>1 DEF TasksStill
  <2>4. CASE ~ok
    <3>1. output' # [host |-> h, ok |-> TRUE]
      <4>1. output'.ok = FALSE
        BY <1>2, <2>4
      <4> QED
        BY <4>1
    <3>2. Done(m, h)' = {}
      BY <2>1, <3>1 DEF Done
    <3> QED
      BY <1>1, <1>7, <3>2 DEF TasksStill
  <2> QED
    BY <2>3, <2>4
<1>8. CASE g = h /\ n # m
  <2>1. push'[<<n, h>>] \notin {"sending", "sent"}
    BY <1>1, <1>3, <1>4, <1>5, <1>8, NoSessionNotDone
  <2>2. Done(n, h)' = {}
    BY <2>1 DEF Done
  <2> QED
    BY <1>1, <1>8, <2>2 DEF TasksStill
<1> QED
    BY <1>6, <1>7, <1>8

-----------------------------------------------------------------------------
(* KindsOK, action by action *)

LEMMA QuietKinds ==
    ASSUME SyncInv,
           \/ \E h \in Hosts : \/ PushOne(h) \/ CollectConfig(h) \/ SingleEnds(h)
                               \/ LookForPending(h)
           \/ \E S \in SUBSET Hosts \ {{}} : PushBatch(S)
           \/ BatchEnds \/ Shutdown
           \/ \E m \in Modes, h \in Hosts :
                NoSession(m, h) \/ Connect(m, h) \/ Report(m, h)
    PROVE  KindsOK'
<1>0. BaseInv
    BY DEF SyncInv
<1>1. ASSUME NEW h \in Hosts, PushOne(h)
      PROVE  /\ UNCHANGED <<rows, device, excused>>
             /\ \A n \in Modes, g \in Hosts : TasksStill(n, g)
  <2>1. /\ UNCHANGED <<rows, device, excused, tasks, unsent, output>>
        /\ push' = [push EXCEPT ![<<"single", h>>] = "queued"]
    BY <1>1 DEF PushOne, database
  <2>2. tasks' = [tasks EXCEPT ![<<"single", h>>] = tasks[<<"single", h>>]]
    BY <1>0, <2>1 DEF BaseInv, OtherTypes
  <2>3. "single" \in Modes /\ "queued" \notin {"sending", "sent"}
    BY DEF Modes
  <2> QED
    BY <1>0, <2>1, <2>2, <2>3, StepStill
<1>2. ASSUME NEW h \in Hosts, CollectConfig(h) \/ LookForPending(h)
      PROVE  /\ UNCHANGED <<rows, device, excused>>
             /\ \A n \in Modes, g \in Hosts : TasksStill(n, g)
  <2>1. UNCHANGED <<rows, device, excused, push, tasks, unsent, output>>
    BY <1>2 DEF CollectConfig, LookForPending, database, threads
  <2> QED
    BY <2>1, StillSame
<1>3. ASSUME NEW h \in Hosts, SingleEnds(h)
      PROVE  /\ UNCHANGED <<rows, device, excused>>
             /\ \A n \in Modes, g \in Hosts : TasksStill(n, g)
  <2>1. /\ UNCHANGED <<rows, device, excused, tasks, unsent, output>>
        /\ push' = [push EXCEPT ![<<"single", h>>] = "idle"]
    BY <1>3 DEF SingleEnds, database
  <2>2. tasks' = [tasks EXCEPT ![<<"single", h>>] = tasks[<<"single", h>>]]
    BY <1>0, <2>1 DEF BaseInv, OtherTypes
  <2>3. "single" \in Modes /\ "idle" \notin {"sending", "sent"}
    BY DEF Modes
  <2> QED
    BY <1>0, <2>1, <2>2, <2>3, StepStill
<1>4. ASSUME NEW S \in SUBSET Hosts, PushBatch(S)
      PROVE  /\ UNCHANGED <<rows, device, excused>>
             /\ \A n \in Modes, g \in Hosts : TasksStill(n, g)
  <2>1. /\ UNCHANGED <<rows, device, excused, tasks, unsent, output>>
        /\ push' = [x \in Modes \X Hosts |->
                     IF x[1] = "batch" /\ x[2] \in S THEN "queued" ELSE push[x]]
    BY <1>4 DEF PushBatch, database
  <2>2. \A g \in Hosts : push[<<"batch", g>>] = "idle"
    BY <1>0, <1>4 DEF PushBatch, BaseInv, BatchOK
  <2>3. \A n \in Modes, g \in Hosts : <<n, g>> \in Modes \X Hosts
          /\ push'[<<n, g>>] = IF n = "batch" /\ g \in S THEN "queued" ELSE push[<<n, g>>]
    BY <2>1
  <2>4. \A n \in Modes, g \in Hosts :
            /\ push'[<<n, g>>] = "sending" <=> push[<<n, g>>] = "sending"
            /\ push'[<<n, g>>] = "sent" <=> push[<<n, g>>] = "sent"
    BY <2>2, <2>3
  <2> QED
    BY <2>1, <2>4, SameDone
<1>5. ASSUME BatchEnds
      PROVE  /\ UNCHANGED <<rows, device, excused>>
             /\ \A n \in Modes, g \in Hosts : TasksStill(n, g)
  <2>1. /\ UNCHANGED <<rows, device, excused, tasks, unsent, output>>
        /\ \A h \in Hosts : push[<<"batch", h>>] \in {"idle", "done"}
        /\ push' = [x \in Modes \X Hosts |-> IF x[1] = "batch" THEN "idle" ELSE push[x]]
    BY <1>5 DEF BatchEnds, database
  <2>2. \A n \in Modes, g \in Hosts : <<n, g>> \in Modes \X Hosts
          /\ push'[<<n, g>>] = IF n = "batch" THEN "idle" ELSE push[<<n, g>>]
    BY <2>1
  <2>3. \A n \in Modes, g \in Hosts :
            /\ push'[<<n, g>>] = "sending" <=> push[<<n, g>>] = "sending"
            /\ push'[<<n, g>>] = "sent" <=> push[<<n, g>>] = "sent"
    BY <2>1, <2>2
  <2> QED
    BY <2>1, <2>3, SameDone
<1>6. ASSUME Shutdown
      PROVE  /\ UNCHANGED <<rows, device, excused>>
             /\ \A n \in Modes, g \in Hosts : TasksStill(n, g)
  <2>1. UNCHANGED <<rows, device, excused, push, tasks, unsent, output>>
    BY <1>6 DEF Shutdown, database, threads
  <2> QED
    BY <2>1, StillSame
<1>7. ASSUME NEW m \in Modes, NEW h \in Hosts, NoSession(m, h)
      PROVE  /\ UNCHANGED <<rows, device, excused>>
             /\ \A n \in Modes, g \in Hosts : TasksStill(n, g)
    BY <1>0, <1>7, EndStill DEF NoSession, database
<1>8. ASSUME NEW m \in Modes, NEW h \in Hosts, Connect(m, h) \/ Report(m, h)
      PROVE  /\ UNCHANGED <<rows, device, excused>>
             /\ \A n \in Modes, g \in Hosts : TasksStill(n, g)
  <2>1. UNCHANGED <<rows, device, excused>>
    BY <1>8 DEF Connect, Report, database
  <2> QED
    BY <1>0, <1>8, <2>1, ConnectStill, ReportStill
<1> QED
    BY <1>1, <1>2, <1>3, <1>4, <1>5, <1>6, <1>7, <1>8, StillKinds

\* A push reads the one pool that is shown, and all that are to be removed.
LEMMA CollectKinds ==
    ASSUME SyncInv, NEW m \in Modes, NEW h \in Hosts, Collect(m, h)
    PROVE  KindsOK'
<1>0. BaseInv /\ UNCHANGED <<rows, device, unsent, output, excused>>
    BY DEF SyncInv, Collect, database
<1>1. CASE End(m, h, FALSE)
    BY <1>0, <1>1, EndStill, StillKinds
<1>2. CASE ~End(m, h, FALSE)
  <2> DEFINE T == {[id |-> i, row |-> rows[i]] : i \in Pending(h)}
  <2>1. /\ push' = [push EXCEPT ![<<m, h>>] = "waiting"]
        /\ tasks' = [tasks EXCEPT ![<<m, h>>] = T]
    BY <1>2 DEF Collect
  <2>2. \A t \in T : /\ t \in Task /\ t.id \in Ids /\ t.row = rows[t.id]
                     /\ t.row.status \in {"pending_apply", "pending_delete"}
                     /\ t.id \in RowsOf(h, t.row.kind)
    BY <1>0, ReadRows
  <2>3. \A j \in Deleted(h) : \E u \in T : u.id = j /\ u.row.kind = "pool"
    <3> SUFFICES ASSUME NEW j \in Deleted(h)
                 PROVE  \E u \in T : u.id = j /\ u.row.kind = "pool"
        OBVIOUS
    <3>1. j \in Pending(h) /\ (rows[j]).kind = "pool"
      BY DEF Deleted, RowsOf, Pending
    <3>2. [id |-> j, row |-> rows[j]] \in T
      BY <3>1
    <3> QED
      BY <3>1, <3>2
  <2> HIDE DEF T
  <2>10. "waiting" \notin {"sending", "sent"} /\ UNCHANGED <<unsent, output>>
    BY <1>0
  <2>11. /\ Done(m, h)' = {} /\ tasks'[<<m, h>>] = T
         /\ \A n \in Modes, g \in Hosts :
              <<n, g>> # <<m, h>> \/ T = tasks[<<m, h>>] \/ T = {} => TasksStill(n, g)
    BY <1>0, <2>1, <2>10, StepStill, ZenonT(60)
  <2>4. Done(m, h)' = {} /\ tasks'[<<m, h>>] = T
    BY <2>11
  <2>5. \A n \in Modes, g \in Hosts : <<n, g>> # <<m, h>> => TasksStill(n, g)
    BY <2>11
  <2>6. \A n \in Modes, g \in Hosts : Done(n, g)' \in {Done(n, g), {}}
    <3> SUFFICES ASSUME NEW n \in Modes, NEW g \in Hosts
                 PROVE  Done(n, g)' \in {Done(n, g), {}}
        OBVIOUS
    <3>1. CASE n = m /\ g = h
      BY <2>4, <3>1
    <3>2. CASE <<n, g>> # <<m, h>>
      BY <2>5, <3>2 DEF TasksStill
    <3> QED
      BY <3>1, <3>2
  <2>7. \A g \in Hosts, kind \in Kinds : RowsOf(g, kind)' = RowsOf(g, kind)
    BY <1>0 DEF RowsOf
  <2>8. ASSUME NEW g \in Hosts, NEW kind \in Plain, <<g, kind>> \notin excused
        PROVE  PlainOK(g, kind)'
    <3>1. PlainOK(g, kind) /\ RowsOf(g, kind)' = RowsOf(g, kind)
      BY <2>7, <2>8 DEF SyncInv, KindsOK, Kinds
    <3> QED
      BY <1>0, <2>6, <3>1, PlainStill
  <2>9. ASSUME NEW g \in Hosts, <<g, "pool">> \notin excused PROVE PoolOK(g)'
    <3>1. PoolOK(g) /\ RowsOf(g, "pool")' = RowsOf(g, "pool")
      BY <2>7, <2>9 DEF SyncInv, KindsOK, Kinds
    <3>2. /\ PoolRowsOK(g)' /\ PoolRowsOK(g)
          /\ Live(g, "pool")' = Live(g, "pool") /\ Deleted(g)' = Deleted(g)
      BY <1>0, <3>1, PoolRowsStill DEF PoolOK
    <3>3. ASSUME NEW n \in Modes, <<n, g>> # <<m, h>> PROVE PoolTasksOK(n, g)'
      BY <1>0, <2>5, <3>1, <3>2, <3>3, TasksStillOK, TasksPools DEF PoolOK
    <3>4. ASSUME g = h PROVE PoolTasksOK(m, h)'
      <4>1. PoolTasks(m, h)' = {t \in T : t.row.kind = "pool"}
        BY <2>4 DEF PoolTasks
      <4>2. ASSUME NEW t \in T, t.row.kind = "pool", Applied(t)
            PROVE  \A u \in T : u.row.kind = "pool" => u = t \/ (~Applied(u) /\ u.id < t.id)
        <5> SUFFICES ASSUME NEW u \in T, u.row.kind = "pool"
                     PROVE  u = t \/ (~Applied(u) /\ u.id < t.id)
            OBVIOUS
        <5>1. t.id \in Live(h, "pool")
          BY <2>2, <4>2 DEF Live, Applied
        <5>2. CASE Applied(u)
          <6>1. u.id \in Live(h, "pool")
            BY <2>2, <5>2 DEF Live, Applied
          <6>2. u.id = t.id
            BY <3>2, <3>4, <5>1, <6>1 DEF PoolRowsOK
          <6> QED
            BY <2>2, <6>2 DEF Task
        <5>3. CASE ~Applied(u)
          <6>1. u.id \in Deleted(h)
            BY <2>2, <5>3 DEF Deleted, Applied
          <6> QED
            BY <3>2, <3>4, <5>1, <5>3, <6>1 DEF PoolRowsOK
        <5> QED
          BY <5>2, <5>3
      <4> QED
        BY <2>3, <2>4, <3>2, <3>4, <4>1, <4>2 DEF PoolTasksOK, Applied
    <3>5. ASSUME NEW n \in Modes PROVE PoolTasksOK(n, g)'
      BY <3>3, <3>4
    <3> QED
      BY <3>2, <3>5 DEF PoolOK
  <2> QED
    BY <1>0, <2>8, <2>9 DEF KindsOK
<1> QED
    BY <1>1, <1>2

-----------------------------------------------------------------------------
(* Edits *)

\* Only rows of other kinds or hosts change.
LEMMA OtherRows ==
    ASSUME NEW h, NEW kind,
           \A i \in Ids : \/ rows'[i] = rows[i]
                          \/ /\ rows[i] = NoRow \/ (rows[i]).host # h \/ (rows[i]).kind # kind
                             /\ rows'[i] = NoRow \/ (rows'[i]).host # h \/ (rows'[i]).kind # kind
    PROVE  /\ RowsOf(h, kind)' = RowsOf(h, kind)
           /\ \A i \in RowsOf(h, kind) : rows'[i] = rows[i]
<1>1. \A i \in RowsOf(h, kind) : rows'[i] = rows[i]
    BY DEF RowsOf
<1>2. \A i \in Ids : i \in RowsOf(h, kind)' <=> i \in RowsOf(h, kind)
    BY DEF RowsOf
<1>3. RowsOf(h, kind) \subseteq Ids /\ RowsOf(h, kind)' \subseteq Ids
    BY DEF RowsOf
<1> QED
    BY <1>1, <1>2, <1>3

\* A row that is dropped is not on its device, or excused.
Drops(i) ==
    rows'[i] = NoRow /\ (~OnDevice((rows[i]).host, (rows[i]).kind)
                         \/ <<(rows[i]).host, (rows[i]).kind>> \in excused')

\* An edit leaves a row pending.
Pends(i) ==
    /\ rows'[i] # NoRow /\ (rows'[i]).status # "synchronized"
    /\ (rows'[i]).host = (rows[i]).host /\ (rows'[i]).kind = (rows[i]).kind

Creates(i) == i = next + 1 /\ rows'[i] # NoRow /\ (rows'[i]).status = "pending_apply"

LEMMA DeletesRow ==
    ASSUME BaseInv, NEW i \in Ids, rows[i] # NoRow, rows'[i] = SoftDelete(i),
           Excuse((rows[i]).host, DropsPushed(i))
    PROVE  /\ Drops(i) \/ Pends(i)
           /\ <<(rows[i]).host, (rows[i]).kind>> \notin excused' =>
                \/ /\ (rows[i]).status = "pending_apply" /\ rows'[i] = NoRow
                   /\ ~OnDevice((rows[i]).host, (rows[i]).kind)
                \/ /\ (rows[i]).status # "pending_apply" /\ rows'[i] # NoRow
                   /\ (rows'[i]).status = "pending_delete"
                   /\ (rows'[i]).host = (rows[i]).host /\ (rows'[i]).kind = (rows[i]).kind
<1>1. \/ (rows[i]).status = "pending_apply" /\ rows'[i] = NoRow
      \/ /\ (rows[i]).status # "pending_apply" /\ rows'[i] # NoRow
         /\ (rows'[i]).status = "pending_delete"
         /\ (rows'[i]).host = (rows[i]).host /\ (rows'[i]).kind = (rows[i]).kind
    BY SoftDeleteRow
<1>2. CASE (rows[i]).status = "pending_apply" /\ rows'[i] = NoRow
  <2>1. OnDevice((rows[i]).host, (rows[i]).kind) =>
            <<(rows[i]).host, (rows[i]).kind>> \in excused'
    BY <1>2 DEF DropsPushed, Excuse
  <2> QED
    BY <1>2, <2>1 DEF Drops
<1>3. CASE (rows[i]).status # "pending_apply"
    BY <1>1, <1>3 DEF Pends
<1> QED
    BY <1>1, <1>2, <1>3

LEMMA EditShape ==
    ASSUME BaseInv, UserEdits, NEW j \in Ids
    PROVE  \/ rows'[j] = rows[j]
           \/ rows[j] # NoRow /\ (Drops(j) \/ Pends(j))
           \/ rows[j] = NoRow /\ Creates(j)
<1>0. next \in Int /\ rows \in [Ids -> Row \cup {NoRow}]
    BY DEF BaseInv, RowTypes
<1>1. ASSUME NEW h \in Hosts, NEW kind \in Kinds, NEW opts \in Values, Insert(h, kind, opts)
      PROVE  rows'[j] = rows[j] \/ (rows[j] = NoRow /\ Creates(j))
  <2>1. /\ rows'[next + 1] = Draft(h, kind, opts, opts) /\ rows[next + 1] = NoRow
        /\ j # next + 1 => rows'[j] = rows[j]
    BY <1>1, InsertFacts
  <2>2. /\ Draft(h, kind, opts, opts) # NoRow
        /\ Draft(h, kind, opts, opts).status = "pending_apply"
    BY DraftIsRow
  <2> QED
    BY <2>1, <2>2 DEF Creates
<1>2. ASSUME NEW h \in Hosts, NEW opts \in Values, AddPool(h, opts)
      PROVE  rows'[j] = rows[j] \/ (rows[j] = NoRow /\ Creates(j))
    BY <1>1, <1>2 DEF AddPool, Kinds
<1>3. ASSUME NEW h \in Hosts, NEW kind \in Plain, AddPlain(h, kind)
      PROVE  \/ rows'[j] = rows[j]
             \/ rows[j] # NoRow /\ (Drops(j) \/ Pends(j))
             \/ rows[j] = NoRow /\ Creates(j)
  <2>1. CASE Insert(h, kind, Unset)
    BY <1>1, <2>1, UnsetValue DEF Kinds
  <2>2. CASE ~Insert(h, kind, Unset)
    <3>1. PICK i \in RowsOf(h, kind) : rows' = [rows EXCEPT ![i].status = "pending_apply"]
      BY <1>3, <2>2 DEF AddPlain
    <3>2. i \in Ids /\ rows[i] # NoRow /\ rows[i] \in Row
      BY <3>1, RowParts DEF RowsOf
    <3>3. LET row == [rows[i] EXCEPT !.status = "pending_apply"]
          IN  /\ row \in Row /\ row.host = (rows[i]).host /\ row.kind = (rows[i]).kind
              /\ row.status = "pending_apply" /\ row # NoRow
      BY <3>2, PushAssumption DEF Row, Statuses
    <3> QED
      BY <1>0, <3>1, <3>2, <3>3 DEF Pends
  <2> QED
    BY <2>1, <2>2
<1>4. ASSUME NEW i \in Ids, NEW opts \in Values, UpdatePool(i, opts)
      PROVE  rows'[j] = rows[j] \/ (rows[j] # NoRow /\ Pends(j))
  <2> DEFINE row == [rows[i] EXCEPT !.opts = opts, !.bits = Changed(i, opts),
                                    !.status = StatusOnUpdate(i)]
  <2>1. rows[i] # NoRow /\ rows[i] \in Row
    BY <1>4, RowParts DEF UpdatePool
  <2>2. rows' = [rows EXCEPT ![i] = row]
    BY <1>0, <1>4, <2>1 DEF UpdatePool
  <2>3. Changed(i, opts) \in Values
    BY DEF Changed, Values
  <2>4. row \in Row /\ row.host = (rows[i]).host /\ row.kind = (rows[i]).kind
        /\ row.status = "pending_apply" /\ row # NoRow
    BY <2>1, <2>3, PushAssumption DEF Row, Statuses, StatusOnUpdate
  <2> HIDE DEF row
  <2> QED
    BY <1>0, <2>1, <2>2, <2>4 DEF Pends
<1>5. ASSUME NEW i \in Ids, NEW opts \in Values, ReplacePool(i, opts)
      PROVE  \/ rows'[j] = rows[j]
             \/ rows[j] # NoRow /\ (Drops(j) \/ Pends(j))
             \/ rows[j] = NoRow /\ Creates(j)
  <2> DEFINE row == Draft((rows[i]).host, "pool", opts, opts)
             old == SoftDelete(i)
  <2>1. rows[i] # NoRow /\ i <= next /\ i \in Int /\ i # next + 1
        /\ (rows[i]).host \in Hosts
    BY <1>0, <1>5, RowParts DEF ReplacePool
  <2>2. row # NoRow /\ row.status = "pending_apply"
    <3>1. "pool" \in Kinds
      BY DEF Kinds
    <3> QED
      BY <2>1, <3>1, DraftIsRow
  <2>3. /\ rows' = [rows EXCEPT ![i] = old, ![next + 1] = row] /\ next + 1 \in Ids
        /\ Excuse((rows[i]).host, DropsPushed(i))
    BY <1>0, <1>5, PushAssumption DEF ReplacePool, BaseInv, RowTypes, Ids
  <2> HIDE DEF row, old
  <2>4. /\ rows'[i] = old /\ rows'[next + 1] = row
        /\ \A k \in Ids : k \notin {i, next + 1} => rows'[k] = rows[k]
    BY <1>0, <2>1, <2>3
  <2>5. Drops(i) \/ Pends(i)
    BY <2>1, <2>3, <2>4, DeletesRow DEF old
  <2>6. rows[next + 1] = NoRow
    BY <1>0, <2>3 DEF BaseInv, RowTypes
  <2> QED
    BY <2>1, <2>2, <2>4, <2>5, <2>6 DEF Creates
<1>6. ASSUME NEW i \in Ids, DeleteRow(i)
      PROVE  rows'[j] = rows[j] \/ (rows[j] # NoRow /\ (Drops(j) \/ Pends(j)))
  <2>1. /\ rows[i] # NoRow /\ rows'[i] = SoftDelete(i)
        /\ \A k \in Ids : k # i => rows'[k] = rows[k]
        /\ Excuse((rows[i]).host, DropsPushed(i))
    BY <1>0, <1>6 DEF DeleteRow
  <2> QED
    BY <2>1, DeletesRow
<1> QED
    BY <1>2, <1>3, <1>4, <1>5, <1>6 DEF UserEdits

LEMMA EditPlain ==
    ASSUME SyncInv, UserEdits, NEW h \in Hosts, NEW kind \in Plain, <<h, kind>> \notin excused'
    PROVE  PlainOK(h, kind)'
<1>0. BaseInv /\ next \in Int
    BY DEF SyncInv, BaseInv, RowTypes
<1>1. UNCHANGED <<device, push, tasks, unsent, output>> /\ excused \subseteq excused'
    BY <1>0, EditExcuses DEF Edit, threads
<1>2. PlainOK(h, kind)
    BY <1>1 DEF SyncInv, KindsOK
<1>3. kind # "pool"
    BY PushAssumption
<1>4. ASSUME NEW i \in RowsOf(h, kind), kind \in device[h].plain
      PROVE  i \in RowsOf(h, kind)'
  <2>1. i \in Ids /\ rows[i] # NoRow /\ (rows[i]).host = h /\ (rows[i]).kind = kind
    BY DEF RowsOf
  <2>2. ~Drops(i)
    BY <1>3, <1>4, <2>1 DEF Drops, OnDevice
  <2>3. rows'[i] = rows[i] \/ Pends(i)
    BY <1>0, <2>1, <2>2, EditShape
  <2> QED
    BY <2>1, <2>3 DEF Pends, RowsOf
<1>5. ASSUME NEW i \in RowsOf(h, kind)', (rows'[i]).status = "synchronized"
      PROVE  i \in RowsOf(h, kind) /\ (rows[i]).status = "synchronized"
  <2>1. i \in Ids /\ rows'[i] # NoRow /\ (rows'[i]).host = h /\ (rows'[i]).kind = kind
    BY DEF RowsOf
  <2>2. rows'[i] = rows[i]
    BY <1>0, <1>5, <2>1, EditShape DEF Drops, Pends, Creates
  <2> QED
    BY <1>5, <2>1, <2>2 DEF RowsOf
<1>6. ASSUME NEW i \in Ids, rows[i] = NoRow, i <= next PROVE rows'[i] = NoRow
  <2>1. i \in Int /\ i # next + 1
    BY <1>0, <1>6 DEF Ids
  <2> QED
    BY <1>0, <1>6, <2>1, EditShape DEF Creates
<1>7. \A m \in Modes : Done(m, h)' = Done(m, h)
    BY <1>1 DEF Done
<1> QED
    BY <1>0, <1>1, <1>2, <1>4, <1>5, <1>6, <1>7, PlainStill

\* An edit of a pool row leaves what the pushes read.
LEMMA EditPoolTasks ==
    ASSUME BaseInv, NEW h \in Hosts, PoolOK(h), UNCHANGED <<device, push, tasks, unsent, output>>,
           PoolRowsOK(h)',
           \A i \in Live(h, "pool")' : i <= next =>
               i \in Live(h, "pool") /\ Deleted(h)' \subseteq Deleted(h)
    PROVE  PoolOK(h)'
<1>1. ASSUME NEW m \in Modes PROVE PoolTasksOK(m, h)'
  <2>1. \A t \in PoolTasks(m, h) : t.id <= next
    BY DEF BaseInv, TasksOK, PoolTasks
  <2>2. PoolsStill(m, h)
    BY StillSame, TasksPools
  <2> QED
    BY <2>1, <2>2, TasksStillOK DEF PoolOK
<1> QED
    BY <1>1 DEF PoolOK

LEMMA IsBoolean ==
    ASSUME NEW v \in Values, NEW o \in Options
    PROVE  v[o] \in BOOLEAN
    BY DEF Values

LEMMA AddPoolKeeps ==
    ASSUME BaseInv, NEW h \in Hosts, NEW opts \in Values, AddPool(h, opts), PoolRowsOK(h)
    PROVE  /\ PoolRowsOK(h)'
           /\ \A i \in Live(h, "pool")' : i <= next =>
                i \in Live(h, "pool") /\ Deleted(h)' \subseteq Deleted(h)
<1> DEFINE row == Draft(h, "pool", opts, opts)
<1>1. /\ row \in Row /\ row # NoRow /\ row.host = h /\ row.kind = "pool" /\ row.opts = opts
      /\ row.bits = opts /\ row.status = "pending_apply"
  <2>1. "pool" \in Kinds
    BY DEF Kinds
  <2> QED
    BY <2>1, DraftIsRow
<1>2. /\ next \in Int /\ next + 1 \in Ids /\ rows[next + 1] = NoRow
      /\ rows'[next + 1] = row /\ \A j \in Ids : j # next + 1 => rows'[j] = rows[j]
    BY InsertFacts DEF AddPool
<1> HIDE DEF row
<1>3. Live(h, "pool") = {} /\ device' = device
    BY DEF AddPool, Edit
<1>4. \A i \in Ids : rows[i] # NoRow => i \in Int /\ i <= next
    BY DEF BaseInv, RowTypes, Ids
<1>5. RowsOf(h, "pool")' = RowsOf(h, "pool") \cup {next + 1}
    BY <1>1, <1>2 DEF RowsOf
<1>6. Live(h, "pool")' = {next + 1}
    BY <1>1, <1>2, <1>3, <1>5 DEF Live, RowsOf
<1>7. Deleted(h)' = Deleted(h)
    BY <1>1, <1>2, <1>5 DEF Deleted, RowsOf
<1>8. \A j \in Deleted(h) : j < next + 1
    BY <1>2, <1>4 DEF Deleted, RowsOf
<1>9. Deleted(h) = {} => device[h].pool = NoPool
  <2>1. RowsOf(h, "pool") = Live(h, "pool") \cup Deleted(h)
    BY DEF Live, Deleted
  <2> QED
    BY <1>3, <2>1 DEF PoolRowsOK
<1>10. \A o \in Options : ~opts[o] => (opts[o] <=> Deleted(h) = {} /\ Base(device[h].pool)[o])
  <2> SUFFICES ASSUME NEW o \in Options, ~opts[o], Deleted(h) = {}
               PROVE  ~Base(device[h].pool)[o]
      BY IsBoolean
  <2> QED
    BY <1>9 DEF Base, Unset
<1>11. PoolRowsOK(h)'
  <2>1. device'[h].pool # NoPool => RowsOf(h, "pool")' # {}
    BY <1>5
  <2>2. \A i \in Live(h, "pool")' : i = next + 1 /\ rows'[i] = row
    BY <1>2, <1>6
  <2> QED
    BY <1>1, <1>3, <1>7, <1>8, <1>10, <2>1, <2>2 DEF PoolRowsOK, Base
<1>12. ~ (next + 1 <= next)
    BY <1>2
<1> QED
    BY <1>6, <1>11, <1>12

\* A synchronized pool is the device's, and what it is configured over.
LEMMA LivePool ==
    ASSUME BaseInv, NEW h \in Hosts, PoolRowsOK(h), NEW i \in Live(h, "pool")
    PROVE  /\ i \in Ids /\ rows[i] # NoRow /\ (rows[i]).host = h /\ (rows[i]).kind = "pool"
           /\ rows[i] \in Row /\ (rows[i]).opts \in Values /\ (rows[i]).bits \in Values
           /\ (rows[i]).status \in {"pending_apply", "synchronized"}
           /\ Live(h, "pool") = {i} /\ RowsOf(h, "pool") = {i} \cup Deleted(h)
           /\ i \notin Deleted(h)
           /\ (rows[i]).status = "synchronized" =>
                Deleted(h) = {} /\ device[h].pool = (rows[i]).opts
                /\ device[h].pool # NoPool /\ Base(device[h].pool) = (rows[i]).opts
           /\ (rows[i]).status = "pending_apply" =>
              \A o \in Options : ~ (rows[i]).bits[o] =>
                  ((rows[i]).opts[o] <=> Deleted(h) = {} /\ Base(device[h].pool)[o])
<1>1. /\ i \in Ids /\ rows[i] # NoRow /\ (rows[i]).host = h /\ (rows[i]).kind = "pool"
      /\ (rows[i]).status # "pending_delete"
    BY DEF Live, RowsOf
<1>2. rows[i] \in Row /\ (rows[i]).opts \in Values /\ (rows[i]).bits \in Values
      /\ (rows[i]).status \in {"pending_apply", "synchronized"}
    BY <1>1, RowParts DEF Statuses
<1>3. Live(h, "pool") = {i}
    BY DEF PoolRowsOK
<1>4. RowsOf(h, "pool") = {i} \cup Deleted(h) /\ i \notin Deleted(h)
    BY <1>1, <1>3 DEF Live, Deleted
<1>5. (rows[i]).status = "synchronized" =>
                Deleted(h) = {} /\ device[h].pool = (rows[i]).opts
                /\ device[h].pool # NoPool /\ Base(device[h].pool) = (rows[i]).opts
    BY <1>2, PushAssumption DEF PoolRowsOK, Base
<1>6. (rows[i]).status = "pending_apply" =>
              \A o \in Options : ~ (rows[i]).bits[o] =>
                  ((rows[i]).opts[o] <=> Deleted(h) = {} /\ Base(device[h].pool)[o])
    BY DEF PoolRowsOK
<1> QED
    BY <1>1, <1>2, <1>3, <1>4, <1>5, <1>6

LEMMA UpdatePoolKeeps ==
    ASSUME BaseInv, NEW i \in Ids, NEW opts \in Values, UpdatePool(i, opts), NEW h \in Hosts,
           (rows[i]).host = h, PoolRowsOK(h), <<h, "pool">> \notin excused'
    PROVE  /\ PoolRowsOK(h)'
           /\ \A j \in Live(h, "pool")' : j <= next =>
                j \in Live(h, "pool") /\ Deleted(h)' \subseteq Deleted(h)
<1> DEFINE bits == Changed(i, opts)
           row == [rows[i] EXCEPT !.opts = opts, !.bits = bits, !.status = StatusOnUpdate(i)]
<1>1. /\ rows[i] # NoRow /\ (rows[i]).kind = "pool" /\ (rows[i]).status # "pending_delete"
      /\ rows' = [rows EXCEPT ![i] = row] /\ device' = device
      /\ Excuse(h, {"pool" : o \in {o \in Options : (rows[i]).bits[o] /\ ~bits[o]}})
  <2>1. rows \in [Ids -> Row \cup {NoRow}]
    BY DEF BaseInv, RowTypes
  <2> QED
    BY <2>1 DEF UpdatePool, Edit
<1>2. i \in Live(h, "pool")
    BY <1>1 DEF Live, RowsOf
<1>3. \A o \in Options : (rows[i]).bits[o] => bits[o]
  <2> SUFFICES ASSUME NEW o \in Options, (rows[i]).bits[o], ~bits[o] PROVE FALSE
      OBVIOUS
  <2>1. "pool" \in {"pool" : p \in {p \in Options : (rows[i]).bits[p] /\ ~bits[p]}}
    OBVIOUS
  <2> QED
    BY <1>1, <2>1 DEF Excuse
<1>4. \A o \in Options : bits[o] <=> opts[o] # (rows[i]).opts[o]
    BY DEF Changed
<1>5. /\ row.host = h /\ row.kind = "pool" /\ row.opts = opts /\ row.bits = bits
      /\ row.status = "pending_apply" /\ row # NoRow
  <2>1. rows[i] \in Row
    BY <1>1, RowParts
  <2>2. bits \in Values
    BY DEF Changed, Values
  <2>3. row \in Row
    BY <2>1, <2>2 DEF Row, Statuses, StatusOnUpdate
  <2>4. /\ row.host = (rows[i]).host /\ row.kind = (rows[i]).kind /\ row.opts = opts
        /\ row.bits = bits /\ row.status = "pending_apply"
    BY <2>1, <2>2 DEF Row, StatusOnUpdate
  <2>5. row # NoRow
    BY <2>3, PushAssumption
  <2> QED
    BY <1>1, <2>4, <2>5
<1> HIDE DEF row, bits
<1>6. rows'[i] = row /\ \A j \in Ids : j # i => rows'[j] = rows[j]
    BY <1>1 DEF BaseInv, RowTypes
<1>7. /\ RowsOf(h, "pool")' = RowsOf(h, "pool")
      /\ Live(h, "pool")' = {i} /\ Live(h, "pool") = {i} /\ Deleted(h)' = Deleted(h)
  <2>1. RowsOf(h, "pool")' = RowsOf(h, "pool")
    BY <1>1, <1>5, <1>6 DEF RowsOf
  <2>2. \A j \in RowsOf(h, "pool") :
            (rows'[j]).status = "pending_delete" <=> (rows[j]).status = "pending_delete"
    BY <1>1, <1>5, <1>6 DEF RowsOf
  <2>3. Live(h, "pool") = {i}
    BY <1>2, LivePool
  <2> QED
    BY <2>1, <2>2, <2>3 DEF Live, Deleted
<1>8. ASSUME NEW o \in Options, ~bits[o]
      PROVE  opts[o] <=> Deleted(h) = {} /\ Base(device[h].pool)[o]
  <2>1. opts[o] = (rows[i]).opts[o] /\ ~ (rows[i]).bits[o]
    BY <1>3, <1>4, <1>8
  <2>2. CASE (rows[i]).status = "synchronized"
    BY <1>2, <2>1, <2>2, LivePool
  <2>3. CASE (rows[i]).status = "pending_apply"
    BY <1>2, <2>1, <2>3, LivePool
  <2>4. (rows[i]).status \in {"pending_apply", "synchronized"}
    BY <1>2, LivePool
  <2> QED
    BY <2>2, <2>3, <2>4
<1>9. PoolRowsOK(h)'
  <2>1. device'[h].pool # NoPool => RowsOf(h, "pool")' # {}
    BY <1>1, <1>7 DEF PoolRowsOK
  <2>2. \A j \in Live(h, "pool")' : j = i /\ rows'[j] = row
    BY <1>6, <1>7
  <2>3. \A j \in Deleted(h) : j < i
    BY <1>2 DEF PoolRowsOK
  <2>4. ASSUME NEW j \in Live(h, "pool")'
        PROVE  /\ \A k \in Live(h, "pool")' : j = k
               /\ \A k \in Deleted(h)' : k < j
               /\ (rows'[j]).status = "pending_apply"
               /\ \A o \in Options : ~ (rows'[j]).bits[o] =>
                    ((rows'[j]).opts[o] <=> Deleted(h)' = {} /\ Base(device'[h].pool)[o])
    BY <1>1, <1>5, <1>7, <1>8, <2>2, <2>3
  <2> QED
    BY <2>1, <2>4 DEF PoolRowsOK, Base
<1> QED
    BY <1>7, <1>9

LEMMA ReplacePoolKeeps ==
    ASSUME BaseInv, NEW i \in Ids, NEW opts \in Values, ReplacePool(i, opts), NEW h \in Hosts,
           (rows[i]).host = h, PoolRowsOK(h), <<h, "pool">> \notin excused'
    PROVE  /\ PoolRowsOK(h)'
           /\ \A j \in Live(h, "pool")' : j <= next =>
                j \in Live(h, "pool") /\ Deleted(h)' \subseteq Deleted(h)
<1> DEFINE row == Draft(h, "pool", opts, opts)
           old == SoftDelete(i)
<1>1. /\ rows[i] # NoRow /\ (rows[i]).kind = "pool" /\ (rows[i]).status # "pending_delete"
      /\ rows' = [rows EXCEPT ![i] = old, ![next + 1] = row] /\ device' = device
      /\ Excuse(h, DropsPushed(i)) /\ next < MaxRows
    BY DEF ReplacePool, Edit
<1>2. i \in Live(h, "pool")
    BY <1>1 DEF Live, RowsOf
<1>3. /\ row # NoRow /\ row.host = h /\ row.kind = "pool" /\ row.opts = opts
      /\ row.bits = opts /\ row.status = "pending_apply"
  <2>1. "pool" \in Kinds
    BY DEF Kinds
  <2> QED
    BY <2>1, DraftIsRow
<1>4. /\ next \in Int /\ next + 1 \in Ids /\ rows[next + 1] = NoRow /\ i # next + 1
      /\ \A j \in Ids : rows[j] # NoRow => j \in Int /\ j <= next
    BY <1>1, PushAssumption DEF BaseInv, RowTypes, Ids
<1>5. /\ rows'[i] = old /\ rows'[next + 1] = row
      /\ \A j \in Ids : j \notin {i, next + 1} => rows'[j] = rows[j]
    BY <1>1, <1>4 DEF BaseInv, RowTypes
<1>6. \/ /\ (rows[i]).status = "pending_apply" /\ rows'[i] = NoRow /\ ~OnDevice(h, "pool")
      \/ /\ (rows[i]).status # "pending_apply" /\ rows'[i] # NoRow
         /\ (rows'[i]).status = "pending_delete"
         /\ (rows'[i]).host = h /\ (rows'[i]).kind = "pool"
    BY <1>1, <1>5, DeletesRow
<1> HIDE DEF row, old
<1>7. /\ Live(h, "pool") = {i} /\ RowsOf(h, "pool") = {i} \cup Deleted(h)
      /\ (rows[i]).status = "synchronized" => Deleted(h) = {}
      /\ (rows[i]).status \in {"pending_apply", "synchronized"} /\ i \notin Deleted(h)
    BY <1>2, LivePool
<1>8. Live(h, "pool")' = {next + 1}
  <2>1. next + 1 \in Live(h, "pool")'
    BY <1>3, <1>4, <1>5 DEF Live, RowsOf
  <2>2. ASSUME NEW j \in Live(h, "pool")', j # next + 1 PROVE FALSE
    <3>1. j \in Ids /\ rows'[j] # NoRow /\ (rows'[j]).host = h /\ (rows'[j]).kind = "pool"
          /\ (rows'[j]).status # "pending_delete"
      BY DEF Live, RowsOf
    <3>2. j # i
      BY <1>6, <3>1
    <3>3. rows'[j] = rows[j]
      BY <1>5, <2>2, <3>1, <3>2
    <3>4. j \in Live(h, "pool")
      BY <3>1, <3>3 DEF Live, RowsOf
    <3> QED
      BY <1>7, <3>2, <3>4
  <2> QED
    BY <2>1, <2>2
<1>9. \A j \in Deleted(h)' : j < next + 1
  <2> SUFFICES ASSUME NEW j \in Deleted(h)' PROVE j < next + 1
      OBVIOUS
  <2>1. j \in Ids /\ rows'[j] # NoRow /\ (rows'[j]).status = "pending_delete"
    BY DEF Deleted, RowsOf
  <2>2. j # next + 1
    BY <1>3, <1>5, <2>1
  <2>3. rows[j] # NoRow
    BY <1>1, <1>5, <2>1, <2>2
  <2> QED
    BY <1>4, <2>1, <2>3
<1>10. ~ (Deleted(h)' = {} /\ device[h].pool # NoPool)
  <2>1. CASE (rows[i]).status = "pending_apply"
    BY <1>6, <2>1 DEF OnDevice
  <2>2. CASE (rows[i]).status # "pending_apply"
    <3>1. i \in Deleted(h)'
      BY <1>6, <2>2 DEF Deleted, RowsOf
    <3> QED
      BY <3>1
  <2> QED
    BY <2>1, <2>2
<1>11. ASSUME NEW o \in Options, ~opts[o]
       PROVE  opts[o] <=> Deleted(h)' = {} /\ Base(device[h].pool)[o]
  <2>1. Deleted(h)' = {} => ~Base(device[h].pool)[o]
    BY <1>10 DEF Base, Unset
  <2> QED
    BY <1>11, <2>1
<1>12. PoolRowsOK(h)'
  <2>1. RowsOf(h, "pool")' # {}
    BY <1>8 DEF Live
  <2>2. \A j \in Live(h, "pool")' : j = next + 1 /\ rows'[j] = row
    BY <1>5, <1>8
  <2>3. ASSUME NEW j \in Live(h, "pool")'
        PROVE  /\ \A k \in Live(h, "pool")' : j = k
               /\ \A k \in Deleted(h)' : k < j
               /\ (rows'[j]).status = "pending_apply"
               /\ \A o \in Options : ~ (rows'[j]).bits[o] =>
                    ((rows'[j]).opts[o] <=> Deleted(h)' = {} /\ Base(device'[h].pool)[o])
    BY <1>1, <1>3, <1>8, <1>9, <1>11, <2>2
  <2> QED
    BY <2>1, <2>3 DEF PoolRowsOK, Base
<1>13. ~ (next + 1 <= next)
    BY <1>4
<1> QED
    BY <1>8, <1>12, <1>13

LEMMA DeletePoolKeeps ==
    ASSUME BaseInv, NEW i \in Ids, DeleteRow(i), NEW h \in Hosts,
           (rows[i]).host = h, (rows[i]).kind = "pool",
           PoolRowsOK(h), <<h, "pool">> \notin excused'
    PROVE  PoolRowsOK(h)' /\ Live(h, "pool")' = {}
<1>1. /\ rows[i] # NoRow /\ (rows[i]).status # "pending_delete" /\ device' = device
      /\ rows'[i] = SoftDelete(i) /\ \A j \in Ids : j # i => rows'[j] = rows[j]
      /\ Excuse(h, DropsPushed(i))
    BY DEF DeleteRow, Edit, BaseInv, RowTypes
<1>2. i \in Live(h, "pool")
    BY <1>1 DEF Live, RowsOf
<1>3. \/ /\ (rows[i]).status = "pending_apply" /\ rows'[i] = NoRow /\ ~OnDevice(h, "pool")
      \/ /\ (rows[i]).status # "pending_apply" /\ rows'[i] # NoRow
         /\ (rows'[i]).status = "pending_delete"
         /\ (rows'[i]).host = h /\ (rows'[i]).kind = "pool"
    BY <1>1, DeletesRow
<1>4. Live(h, "pool") = {i}
    BY <1>2, LivePool
<1>5. Live(h, "pool")' = {}
  <2> SUFFICES ASSUME NEW j \in Live(h, "pool")' PROVE FALSE
      OBVIOUS
  <2>1. j \in Ids /\ rows'[j] # NoRow /\ (rows'[j]).host = h /\ (rows'[j]).kind = "pool"
        /\ (rows'[j]).status # "pending_delete"
    BY DEF Live, RowsOf
  <2>2. j # i
    BY <1>3, <2>1
  <2>3. j \in Live(h, "pool")
    BY <1>1, <2>1, <2>2 DEF Live, RowsOf
  <2> QED
    BY <1>4, <2>2, <2>3
<1>6. device'[h].pool # NoPool => RowsOf(h, "pool")' # {}
  <2>1. device[h].pool # NoPool => i \in RowsOf(h, "pool")'
    BY <1>3 DEF OnDevice, RowsOf
  <2> QED
    BY <1>1, <2>1
<1> QED
    BY <1>5, <1>6 DEF PoolRowsOK

LEMMA EditPool ==
    ASSUME SyncInv, UserEdits, NEW h \in Hosts, <<h, "pool">> \notin excused'
    PROVE  PoolOK(h)'
<1>0. BaseInv /\ rows \in [Ids -> Row \cup {NoRow}]
    BY DEF SyncInv, BaseInv, RowTypes
<1>1. UNCHANGED <<device, push, tasks, unsent, output>> /\ excused \subseteq excused'
    BY <1>0, EditExcuses DEF Edit, threads
<1>2. PoolOK(h) /\ PoolRowsOK(h)
    BY <1>1 DEF SyncInv, KindsOK, PoolOK
<1>3. ASSUME RowsOf(h, "pool")' = RowsOf(h, "pool"),
             \A i \in RowsOf(h, "pool") : rows'[i] = rows[i]
      PROVE  PoolOK(h)'
    BY <1>1, <1>2, <1>3, PoolStill, StillSame, TasksPools
<1>4. ASSUME NEW g \in Hosts, NEW kind \in Kinds, NEW opts \in Values, Insert(g, kind, opts),
             g # h \/ kind # "pool"
      PROVE  PoolOK(h)'
  <2>1. /\ rows[next + 1] = NoRow /\ rows'[next + 1] = Draft(g, kind, opts, opts)
        /\ \A j \in Ids : j # next + 1 => rows'[j] = rows[j]
    BY <1>0, <1>4, InsertFacts
  <2>2. Draft(g, kind, opts, opts).host = g /\ Draft(g, kind, opts, opts).kind = kind
    BY DraftIsRow
  <2> QED
    BY <1>3, <1>4, <2>1, <2>2, OtherRows
<1>5. ASSUME NEW g \in Hosts, NEW opts \in Values, AddPool(g, opts) PROVE PoolOK(h)'
  <2>1. CASE g = h
    BY <1>0, <1>1, <1>2, <1>5, <2>1, AddPoolKeeps, EditPoolTasks
  <2>2. CASE g # h
    BY <1>4, <1>5, <2>2 DEF AddPool, Kinds
  <2> QED
    BY <2>1, <2>2
<1>6. ASSUME NEW g \in Hosts, NEW kind \in Plain, AddPlain(g, kind) PROVE PoolOK(h)'
  <2>0. kind # "pool" /\ kind \in Kinds
    BY PushAssumption DEF Kinds
  <2>1. CASE Insert(g, kind, Unset)
    BY <1>4, <2>0, <2>1, UnsetValue
  <2>2. CASE ~Insert(g, kind, Unset)
    <3>1. PICK i \in RowsOf(g, kind) : rows' = [rows EXCEPT ![i].status = "pending_apply"]
      BY <1>6, <2>2 DEF AddPlain
    <3>2. i \in Ids /\ rows[i] \in Row /\ (rows[i]).kind = kind
      BY <1>0, <3>1, RowParts DEF RowsOf
    <3>3. [rows[i] EXCEPT !.status = "pending_apply"].kind = kind
      BY <3>2 DEF Row
    <3>4. /\ (rows'[i]).kind = kind /\ \A j \in Ids : j # i => rows'[j] = rows[j]
      BY <1>0, <3>1, <3>2, <3>3
    <3> QED
      BY <1>3, <2>0, <3>2, <3>4, OtherRows
  <2> QED
    BY <2>1, <2>2
<1>7. ASSUME NEW i \in Ids, rows[i] # NoRow, (rows[i]).host # h \/ (rows[i]).kind # "pool",
             \A j \in Ids : j # i => \/ rows'[j] = rows[j]
                                     \/ /\ rows[j] = NoRow /\ rows'[j] # NoRow
                                        /\ (rows'[j]).host # h
      PROVE  PoolOK(h)'
  <2>1. rows'[i] = NoRow \/ (rows'[i]).host # h \/ (rows'[i]).kind # "pool"
    BY <1>0, <1>7, EditShape DEF Drops, Pends
  <2> QED
    BY <1>3, <1>7, <2>1, OtherRows
<1>8. ASSUME NEW i \in Ids, NEW opts \in Values, UpdatePool(i, opts) PROVE PoolOK(h)'
  <2>1. CASE (rows[i]).host = h
    BY <1>0, <1>1, <1>2, <1>8, <2>1, UpdatePoolKeeps, EditPoolTasks
  <2>2. CASE (rows[i]).host # h
    <3>1. rows[i] # NoRow /\ \A j \in Ids : j # i => rows'[j] = rows[j]
      BY <1>0, <1>8 DEF UpdatePool
    <3> QED
      BY <1>7, <2>2, <3>1
  <2> QED
    BY <2>1, <2>2
<1>9. ASSUME NEW i \in Ids, NEW opts \in Values, ReplacePool(i, opts) PROVE PoolOK(h)'
  <2>1. CASE (rows[i]).host = h
    BY <1>0, <1>1, <1>2, <1>9, <2>1, ReplacePoolKeeps, EditPoolTasks
  <2>2. CASE (rows[i]).host # h
    <3> DEFINE row == Draft((rows[i]).host, "pool", opts, opts)
    <3>1. rows[i] # NoRow /\ (rows[i]).host \in Hosts
      BY <1>0, <1>9, RowParts DEF ReplacePool
    <3>2. row # NoRow /\ row.host = (rows[i]).host
      <4>1. "pool" \in Kinds
        BY DEF Kinds
      <4> QED
        BY <3>1, <4>1, DraftIsRow
    <3>3. rows' = [rows EXCEPT ![i] = SoftDelete(i), ![next + 1] = row]
      BY <1>9 DEF ReplacePool
    <3>4. next + 1 \in Ids => rows[next + 1] = NoRow
      BY <1>0 DEF BaseInv, RowTypes
    <3> HIDE DEF row
    <3>5. \A j \in Ids : j # i => rows'[j] = rows[j] \/ (j = next + 1 /\ rows'[j] = row)
      BY <1>0, <3>3
    <3> QED
      BY <1>7, <2>2, <3>1, <3>2, <3>4, <3>5
  <2> QED
    BY <2>1, <2>2
<1>10. ASSUME NEW i \in Ids, DeleteRow(i) PROVE PoolOK(h)'
  <2>1. CASE (rows[i]).host = h /\ (rows[i]).kind = "pool"
    BY <1>0, <1>1, <1>2, <1>10, <2>1, DeletePoolKeeps, EditPoolTasks
  <2>2. CASE (rows[i]).host # h \/ (rows[i]).kind # "pool"
    <3>1. rows[i] # NoRow /\ \A j \in Ids : j # i => rows'[j] = rows[j]
      BY <1>0, <1>10 DEF DeleteRow
    <3> QED
      BY <1>7, <2>2, <3>1
  <2> QED
    BY <2>1, <2>2
<1> QED
    BY <1>5, <1>6, <1>8, <1>9, <1>10 DEF UserEdits

LEMMA EditKinds ==
    ASSUME SyncInv, UserEdits
    PROVE  KindsOK'
    BY EditPlain, EditPool DEF KindsOK

-----------------------------------------------------------------------------
(* Commands *)

\* The command of a row that a push read, and what it changes
Carries(m, h, t) ==
    /\ t \in Task /\ t \in tasks[<<m, h>>]
    /\ \A u \in unsent[h] : t.row.kind = u.row.kind => t.id <= u.id
    /\ Done(m, h)' = Done(m, h) \cup {t} /\ t \notin Done(m, h)
    /\ Done(m, h) = tasks[<<m, h>>] \ unsent[h]
    /\ \A g \in Hosts : g # h => device'[g] = device[g]
    /\ \A kind \in Plain : kind # t.row.kind =>
         (kind \in device'[h].plain <=> kind \in device[h].plain)
    /\ "pool" # t.row.kind => device'[h].pool = device[h].pool
    /\ excused \subseteq excused'
    /\ <<h, t.row.kind>> \notin excused' =>
         /\ device'[h] = Executed(device[h], t.row)
         /\ \/ rows[t.id] = t.row
            \/ rows[t.id] = Settled(t.row) /\ t.row.status # "pending_delete"

LEMMA CommandSteps ==
    ASSUME BaseInv, NEW m \in Modes, NEW h \in Hosts, Command(m, h)
    PROVE  \E t \in unsent[h] : Carries(m, h, t)
<1>1. PICK t \in unsent[h], refused \in BOOLEAN :
               /\ t \in Task /\ t \in tasks[<<m, h>>]
               /\ \A u \in unsent[h] : t.row.kind = u.row.kind => t.id <= u.id
               /\ unsent' = [unsent EXCEPT ![h] = unsent[h] \ {t}]
               /\ device' = IF refused THEN device
                            ELSE [device EXCEPT ![h] = Executed(device[h], t.row)]
               /\ Excuse(h, IF refused THEN {t.row.kind} ELSE KindsOf(Stale({t})))
    BY CommandIs
<1>2. /\ unsent \in [Hosts -> SUBSET Task] /\ device \in [Hosts -> Device]
    BY DEF BaseInv, OtherTypes
<1>3. push[<<m, h>>] = "sending" /\ UNCHANGED <<push, tasks>>
    BY DEF Command, threads
<1>4. unsent'[h] = unsent[h] \ {t}
    BY <1>1, <1>2
<1>5. /\ Done(m, h) = tasks[<<m, h>>] \ unsent[h]
      /\ Done(m, h)' = Done(m, h) \cup {t} /\ t \notin Done(m, h)
    BY <1>1, <1>3, <1>4 DEF Done
<1>6. \A g \in Hosts : g # h => device'[g] = device[g]
    BY <1>1, <1>2
<1>7. device'[h] \in {device[h], Executed(device[h], t.row)}
    BY <1>1, <1>2
<1>8. t.row \in Row /\ device[h] \in Device
    BY <1>1, <1>2 DEF Task
<1>9. /\ \A kind \in Plain : kind # t.row.kind =>
           (kind \in Executed(device[h], t.row).plain <=> kind \in device[h].plain)
      /\ "pool" # t.row.kind => Executed(device[h], t.row).pool = device[h].pool
  <2>1. CASE t.row.kind = "pool"
    BY <1>8, <2>1 DEF Executed, Device
  <2>2. CASE t.row.kind # "pool"
    BY <1>8, <2>2 DEF Executed, Device
  <2> QED
    BY <2>1, <2>2
<1>10. excused \subseteq excused'
    BY <1>1 DEF Excuse
<1>11. ASSUME <<h, t.row.kind>> \notin excused'
       PROVE  /\ device'[h] = Executed(device[h], t.row)
              /\ \/ rows[t.id] = t.row
                 \/ rows[t.id] = Settled(t.row) /\ t.row.status # "pending_delete"
  <2>1. ~refused
    BY <1>1, <1>11 DEF Excuse
  <2>2. t.row.kind \notin KindsOf(Stale({t}))
    BY <1>1, <1>11, <2>1 DEF Excuse
  <2>3. t \notin Stale({t})
    BY <2>2 DEF KindsOf
  <2> QED
    BY <1>1, <1>2, <2>1, <2>3 DEF Stale
<1> QED
    BY <1>1, <1>5, <1>6, <1>7, <1>9, <1>10, <1>11 DEF Carries

\* The other pushes
LEMMA CommandStill ==
    ASSUME BaseInv, NEW m \in Modes, NEW h \in Hosts, Command(m, h),
           NEW n \in Modes, NEW g \in Hosts, n # m \/ g # h
    PROVE  TasksStill(n, g)
<1>1. PICK t : unsent' = [unsent EXCEPT ![h] = unsent[h] \ {t}]
    BY CommandIs
<1>2. /\ push[<<m, h>>] = "sending" /\ UNCHANGED <<push, tasks, output>>
      /\ unsent \in [Hosts -> SUBSET Task]
    BY DEF Command, threads, BaseInv, OtherTypes
<1>3. CASE g # h
  <2>1. unsent'[g] = unsent[g]
    BY <1>1, <1>2, <1>3
  <2> QED
    BY <1>2, <2>1 DEF TasksStill, Done
<1>4. CASE g = h /\ n # m
  <2>1. session[h] = m
    BY <1>2 DEF BaseInv, SessionsOK
  <2>2. push[<<n, h>>] \notin {"sending", "sent"}
    BY <1>4, <2>1, NoSessionNotDone
  <2>3. Done(n, h)' = {}
    BY <1>2, <2>2 DEF Done
  <2> QED
    BY <1>2, <1>4, <2>3 DEF TasksStill
<1> QED
    BY <1>3, <1>4

\* A pool whose row is as it was read ends up with the options of the row.
LEMMA ConfiguresRow ==
    ASSUME NEW pool \in Values \cup {NoPool}, NEW row \in Row,
           \A o \in Options : ~row.bits[o] => (row.opts[o] <=> Base(pool)[o])
    PROVE  Configure(pool, row) = row.opts
<1>1. Base(pool) \in Values
    BY UnsetValue DEF Base
<1>2. row.opts \in Values /\ row.bits \in Values
    BY DEF Row
<1>3. \A o \in Options : /\ row.opts[o] \in BOOLEAN /\ row.bits[o] \in BOOLEAN
                         /\ Base(pool)[o] \in BOOLEAN
    BY <1>1, <1>2, IsBoolean
<1>4. \A o \in Options : (IF row.bits[o] THEN row.opts[o] ELSE Base(pool)[o]) = row.opts[o]
    BY <1>3
<1>5. Configure(pool, row) = [o \in Options |-> IF row.bits[o] THEN row.opts[o] ELSE Base(pool)[o]]
    BY DEF Configure, Base
<1>6. row.opts = [o \in Options |-> row.opts[o]]
    BY <1>2 DEF Values
<1> QED
    BY <1>4, <1>5, <1>6

\* Executed, on a pool
LEMMA ExecutedPool ==
    ASSUME NEW d \in Device, NEW row \in Row, row.kind = "pool"
    PROVE  Executed(d, row).pool =
               IF row.status = "pending_delete" THEN NoPool ELSE Configure(d.pool, row)
    BY DEF Executed, Device

\* A pool that is removed is one that waits for it.
LEMMA RemovesPool ==
    ASSUME BaseInv, NEW m \in Modes, NEW h \in Hosts, PoolOK(h),
           NEW t \in PoolTasks(m, h), ~Applied(t), rows[t.id] = t.row, UNCHANGED rows,
           Done(m, h)' = Done(m, h) \cup {t}, UNCHANGED tasks,
           \A v \in PoolTasks(m, h) \cap Done(m, h) : v.id <= t.id,
           device'[h].pool = NoPool
    PROVE  PoolRowsOK(h)' /\ PoolTasksOK(m, h)'
<1>1. /\ t \in Task /\ t.row \in Row /\ t.row.kind = "pool" /\ t.row.host = h
      /\ t.row.status = "pending_delete" /\ t \in tasks[<<m, h>>]
  <2>1. t \in tasks[<<m, h>>] /\ t \in Task
    BY DEF PoolTasks, BaseInv, OtherTypes
  <2>2. t.row \in Row /\ t.row.status \in Statuses
    BY <2>1 DEF Task, Row
  <2> QED
    BY <2>1, <2>2 DEF PoolTasks, Applied, BaseInv, TasksOK, Statuses
<1>2. t.id \in Deleted(h)
    BY <1>1, PushAssumption DEF Deleted, RowsOf, Task
<1>3. /\ RowsOf(h, "pool")' = RowsOf(h, "pool") /\ Live(h, "pool")' = Live(h, "pool")
      /\ Deleted(h)' = Deleted(h)
    BY DEF RowsOf, Live, Deleted
<1>4. PoolRowsOK(h)'
  <2>1. ASSUME NEW i \in Live(h, "pool")
        PROVE  /\ \A j \in Live(h, "pool") : i = j
               /\ \A j \in Deleted(h) : j < i
               /\ (rows[i]).status # "synchronized"
               /\ (rows[i]).status = "pending_apply" =>
                    \A o \in Options : ~ (rows[i]).bits[o] =>
                        ~ (rows[i]).opts[o]
    BY <1>2, <2>1 DEF PoolOK, PoolRowsOK
  <2> QED
    BY <1>2, <1>3, <2>1 DEF PoolRowsOK
<1>5. PoolTasks(m, h)' = PoolTasks(m, h)
    BY DEF PoolTasks
<1>6. ASSUME NEW v \in PoolTasks(m, h), v \in Done(m, h) \cup {t}
      PROVE  \/ ~Applied(v) /\ (\E u \in PoolTasks(m, h) \cap Done(m, h) : Applied(u))
             \/ ~Applied(v)
  <2> SUFFICES ASSUME Applied(v) PROVE FALSE
      OBVIOUS
  <2>1. v # t /\ v \in Done(m, h)
    BY <1>6
  <2>2. t.id < v.id
    BY <2>1 DEF PoolOK, PoolTasksOK
  <2>3. v.id <= t.id
    BY <1>6, <2>1
  <2>4. v.id \in Int /\ t.id \in Int
    BY DEF PoolTasks, BaseInv, OtherTypes, Task, Ids
  <2> QED
    BY <2>2, <2>3, <2>4
<1>7. ASSUME NEW v \in PoolTasks(m, h), Applied(v)
      PROVE  /\ \A u \in PoolTasks(m, h) : u = v \/ (~Applied(u) /\ u.id < v.id)
             /\ v.id \in Live(h, "pool") =>
                  \A j \in Deleted(h) : \E u \in PoolTasks(m, h) : u.id = j
    BY <1>7 DEF PoolOK, PoolTasksOK
<1>8. PoolTasksOK(m, h)'
    BY <1>3, <1>5, <1>6, <1>7 DEF PoolTasksOK, Applied
<1> QED
    BY <1>4, <1>8

\* A pool that is configured has its row's options: what is to be removed was
\* removed first.
LEMMA ConfiguresPool ==
    ASSUME BaseInv, NEW m \in Modes, NEW h \in Hosts, PoolOK(h),
           NEW t \in PoolTasks(m, h), Applied(t), t \notin Done(m, h),
           rows[t.id] = t.row \/ rows[t.id] = Settled(t.row),
           UNCHANGED rows, Done(m, h)' = Done(m, h) \cup {t}, UNCHANGED tasks,
           \A u \in PoolTasks(m, h) : u \in Done(m, h) \/ t.id <= u.id,
           device'[h].pool = Configure(device[h].pool, t.row)
    PROVE  PoolRowsOK(h)' /\ PoolTasksOK(m, h)'
<1>0. PoolRowsOK(h) /\ PoolTasksOK(m, h)
    BY DEF PoolOK
<1>1. /\ t \in Task /\ t.id \in Ids /\ t.row \in Row /\ t.row.kind = "pool" /\ t.row.host = h
      /\ t.row.status = "pending_apply" /\ t \in tasks[<<m, h>>]
      /\ t.row.opts \in Values /\ t.row.bits \in Values
  <2>1. t \in tasks[<<m, h>>] /\ t \in Task
    BY DEF PoolTasks, BaseInv, OtherTypes
  <2>2. t.row \in Row /\ t.id \in Ids
    BY <2>1 DEF Task
  <2> QED
    BY <2>1, <2>2 DEF PoolTasks, Applied, BaseInv, TasksOK, Row
<1>2. /\ rows[t.id] # NoRow /\ (rows[t.id]).host = h /\ (rows[t.id]).kind = "pool"
      /\ (rows[t.id]).opts = t.row.opts
      /\ (rows[t.id]).status \in {"pending_apply", "synchronized"}
      /\ (rows[t.id]).status = "pending_apply" => rows[t.id] = t.row
    BY <1>1, SettledIsRow, PushAssumption
<1>3. t.id \in Live(h, "pool")
    BY <1>1, <1>2 DEF Live, RowsOf
<1>4. /\ Live(h, "pool") = {t.id}
      /\ (rows[t.id]).status = "synchronized" =>
           Deleted(h) = {} /\ Base(device[h].pool) = t.row.opts
      /\ (rows[t.id]).status = "pending_apply" =>
           \A o \in Options : ~t.row.bits[o] =>
               (t.row.opts[o] <=> Deleted(h) = {} /\ Base(device[h].pool)[o])
    BY <1>0, <1>2, <1>3, LivePool
<1>5. \A u \in PoolTasks(m, h) : u = t \/ (~Applied(u) /\ u.id < t.id /\ u \in Done(m, h))
  <2> SUFFICES ASSUME NEW u \in PoolTasks(m, h), u # t
               PROVE  ~Applied(u) /\ u.id < t.id /\ u \in Done(m, h)
      OBVIOUS
  <2>1. ~Applied(u) /\ u.id < t.id
    BY <1>0 DEF PoolTasksOK
  <2>2. u.id \in Int /\ t.id \in Int
    BY DEF PoolTasks, BaseInv, OtherTypes, Task, Ids
  <2> QED
    BY <2>1, <2>2
<1>6. Deleted(h) # {} => device[h].pool = NoPool
  <2> SUFFICES ASSUME NEW j \in Deleted(h) PROVE device[h].pool = NoPool
      OBVIOUS
  <2>1. PICK u \in PoolTasks(m, h) : u.id = j
    BY <1>0, <1>3 DEF PoolTasksOK
  <2>2. j \notin Live(h, "pool")
    BY DEF Deleted, Live
  <2>3. u # t
    BY <1>3, <2>1, <2>2
  <2>4. ~Applied(u) /\ u \in PoolTasks(m, h) \cap Done(m, h)
    BY <1>5, <2>1, <2>3
  <2>5. \A v \in PoolTasks(m, h) \cap Done(m, h) : ~Applied(v)
    BY <1>5
  <2> QED
    BY <1>0, <2>4, <2>5 DEF PoolTasksOK
<1>7. ASSUME NEW o \in Options, ~t.row.bits[o]
      PROVE  t.row.opts[o] <=> Base(device[h].pool)[o]
  <2>1. CASE (rows[t.id]).status = "synchronized"
    BY <1>4, <2>1
  <2>2. CASE (rows[t.id]).status = "pending_apply" /\ Deleted(h) = {}
    BY <1>4, <1>7, <2>2
  <2>3. CASE (rows[t.id]).status = "pending_apply" /\ Deleted(h) # {}
    <3>1. ~t.row.opts[o]
      BY <1>4, <1>7, <2>3
    <3>2. Base(device[h].pool) = Unset
      BY <1>6, <2>3 DEF Base
    <3> QED
      BY <3>1, <3>2 DEF Unset
  <2> QED
    BY <1>2, <2>1, <2>2, <2>3
<1>8. device'[h].pool = t.row.opts
  <2>1. device[h].pool \in Values \cup {NoPool}
    BY DEF BaseInv, OtherTypes, Device
  <2>2. Configure(device[h].pool, t.row) = t.row.opts
    BY <1>1, <1>7, <2>1, ConfiguresRow
  <2> QED
    BY <2>2
<1>9. /\ RowsOf(h, "pool")' = RowsOf(h, "pool") /\ Live(h, "pool")' = Live(h, "pool")
      /\ Deleted(h)' = Deleted(h)
    BY DEF RowsOf, Live, Deleted
<1>10. Base(device'[h].pool) = t.row.opts
    BY <1>1, <1>8, PushAssumption DEF Base
<1>11. PoolRowsOK(h)'
  <2>1. RowsOf(h, "pool") # {}
    BY <1>3 DEF Live
  <2>2. ASSUME NEW i \in Live(h, "pool")
        PROVE  /\ \A j \in Live(h, "pool") : i = j
               /\ \A j \in Deleted(h) : j < i
               /\ (rows[i]).status = "synchronized" =>
                    Deleted(h) = {} /\ device'[h].pool = (rows[i]).opts
               /\ (rows[i]).status = "pending_apply" =>
                    \A o \in Options : ~ (rows[i]).bits[o] =>
                        ((rows[i]).opts[o] <=> Deleted(h) = {} /\ Base(device'[h].pool)[o])
    <3>1. i = t.id
      BY <1>4, <2>2
    <3>2. \A j \in Deleted(h) : j < i
      BY <1>0, <2>2 DEF PoolRowsOK
    <3>3. ASSUME (rows[i]).status = "pending_apply", NEW o \in Options, ~ (rows[i]).bits[o]
          PROVE  (rows[i]).opts[o] <=> Deleted(h) = {} /\ Base(device'[h].pool)[o]
      <4>1. rows[i] = t.row
        BY <1>2, <3>1, <3>3
      <4>2. t.row.opts[o] => Deleted(h) = {}
        BY <1>4, <3>1, <3>3, <4>1
      <4> QED
        BY <1>10, <4>1, <4>2
    <3> QED
      BY <1>2, <1>4, <1>8, <3>1, <3>2, <3>3
  <2> QED
    BY <1>9, <2>1, <2>2 DEF PoolRowsOK, Base
<1>12. PoolTasks(m, h)' = PoolTasks(m, h)
    BY DEF PoolTasks
<1>13. ASSUME NEW v \in PoolTasks(m, h), Applied(v)
       PROVE  /\ \A u \in PoolTasks(m, h) : u = v \/ (~Applied(u) /\ u.id < v.id)
              /\ v.id \in Live(h, "pool") =>
                   \A j \in Deleted(h) : \E u \in PoolTasks(m, h) : u.id = j
    BY <1>0, <1>13 DEF PoolTasksOK
<1>14. \A v \in PoolTasks(m, h) : v = t \/ ~Applied(v)
    BY <1>5
<1>15. PoolTasksOK(m, h)'
    BY <1>8, <1>9, <1>12, <1>13, <1>14 DEF PoolTasksOK, Applied
<1> QED
    BY <1>11, <1>15

LEMMA CommandKinds ==
    ASSUME SyncInv, NEW m \in Modes, NEW h \in Hosts, Command(m, h)
    PROVE  KindsOK'
<1>0. BaseInv
    BY DEF SyncInv
<1>9. PICK t \in unsent[h] : Carries(m, h, t)
    BY <1>0, CommandSteps
<1>1. /\ t \in Task /\ t \in tasks[<<m, h>>]
      /\ \A u \in unsent[h] : t.row.kind = u.row.kind => t.id <= u.id
      /\ Done(m, h)' = Done(m, h) \cup {t} /\ t \notin Done(m, h)
      /\ Done(m, h) = tasks[<<m, h>>] \ unsent[h]
      /\ \A g \in Hosts : g # h => device'[g] = device[g]
      /\ \A kind \in Plain : kind # t.row.kind =>
           (kind \in device'[h].plain <=> kind \in device[h].plain)
      /\ "pool" # t.row.kind => device'[h].pool = device[h].pool
      /\ excused \subseteq excused'
      /\ <<h, t.row.kind>> \notin excused' =>
           /\ device'[h] = Executed(device[h], t.row)
           /\ \/ rows[t.id] = t.row
              \/ rows[t.id] = Settled(t.row) /\ t.row.status # "pending_delete"
    BY <1>9 DEF Carries
<1>2. UNCHANGED <<rows, next, push, tasks>> /\ push[<<m, h>>] = "sending"
    BY DEF Command, database, threads
<1>3. \A n \in Modes, g \in Hosts : n # m \/ g # h => TasksStill(n, g)
    BY <1>0, CommandStill
<1>4. \A g \in Hosts, kind \in Kinds : RowsOf(g, kind)' = RowsOf(g, kind)
    BY <1>2 DEF RowsOf
<1>5. /\ t.row \in Row /\ t.row.host = h /\ t.row.kind \in Kinds /\ t.id \in Ids
      /\ t.row.status \in {"pending_apply", "pending_delete"}
      /\ rows[t.id] # NoRow => (rows[t.id]).host = h /\ (rows[t.id]).kind = t.row.kind
      /\ \A u \in tasks[<<m, h>>] : t.row.kind = u.row.kind /\ t.row.kind \in Plain => t = u
  <2>1. t.row \in Row /\ t.row.kind \in Kinds /\ t.row.status \in Statuses /\ t.id \in Ids
    BY <1>1 DEF Task, Row
  <2> QED
    BY <1>0, <1>1, <2>1 DEF BaseInv, TasksOK, Statuses
<1>6. device[h] \in Device
    BY <1>0 DEF BaseInv, OtherTypes
<1>7. ASSUME NEW g \in Hosts, NEW kind \in Plain, <<g, kind>> \notin excused'
      PROVE  PlainOK(g, kind)'
  <2>0. PlainOK(g, kind) /\ RowsOf(g, kind)' = RowsOf(g, kind)
    BY <1>1, <1>4, <1>7 DEF SyncInv, KindsOK, Kinds
  <2>1. CASE g # h \/ kind # t.row.kind
    <3>1. kind \in device'[g].plain <=> kind \in device[g].plain
      BY <1>1, <2>1
    <3>2. \A n \in Modes : \A v \in Done(n, g)' : v.row.kind = kind => v \in Done(n, g)
      <4> SUFFICES ASSUME NEW n \in Modes, NEW v \in Done(n, g)', v.row.kind = kind
                   PROVE  v \in Done(n, g)
          OBVIOUS
      <4>1. CASE n = m /\ g = h
        BY <1>1, <2>1, <4>1
      <4>2. CASE n # m \/ g # h
        BY <1>3, <4>2 DEF TasksStill
      <4> QED
        BY <4>1, <4>2
    <3> QED
      BY <1>0, <1>2, <2>0, <3>1, <3>2, PlainStill
  <2>2. CASE g = h /\ kind = t.row.kind
    <3>1. /\ device'[h] = Executed(device[h], t.row)
          /\ \/ rows[t.id] = t.row
             \/ rows[t.id] = Settled(t.row) /\ t.row.status # "pending_delete"
      BY <1>1, <1>7, <2>2
    <3>2. t.row.kind # "pool"
      BY <2>2, PushAssumption
    <3>3. kind \in device'[h].plain <=> Applied(t)
      BY <1>5, <1>6, <2>2, <3>1, <3>2 DEF Executed, Device, Applied
    <3>4. rows[t.id] # NoRow
      BY <1>5, <3>1, SettledIsRow, PushAssumption
    <3>5. t.id \in RowsOf(h, kind)
      BY <1>5, <2>2, <3>4 DEF RowsOf
    <3>6. ASSUME NEW i \in RowsOf(h, kind), (rows[i]).status = "synchronized"
          PROVE  Applied(t)
      <4>1. i = t.id
        BY <1>0, <3>5 DEF BaseInv, RowsOK
      <4>2. t.row.status # "pending_delete"
        BY <1>0, <1>5, <3>1, <3>6, <4>1
      <4> QED
        BY <1>5, <4>2 DEF Applied
    <3>7. ASSUME NEW n \in Modes, NEW v \in Done(n, h)', v.row.kind = kind
          PROVE  v = t
      <4>1. n = m
        <5> SUFFICES ASSUME n # m PROVE FALSE
            OBVIOUS
        <5>1. session[h] = m
          BY <1>0, <1>2 DEF BaseInv, SessionsOK
        <5>2. Done(n, h) = {}
          BY <1>0, <5>1, NoSessionNotDone
        <5> QED
          BY <1>3, <3>7, <5>2 DEF TasksStill
      <4>2. v \in tasks[<<m, h>>]
        BY <1>1, <3>7, <4>1
      <4> QED
        BY <1>5, <2>2, <3>7, <4>2
    <3> QED
      BY <1>2, <2>0, <2>2, <3>3, <3>5, <3>6, <3>7 DEF PlainOK, Applied
  <2> QED
    BY <2>1, <2>2
<1>8. ASSUME NEW g \in Hosts, <<g, "pool">> \notin excused' PROVE PoolOK(g)'
  <2>0. PoolOK(g) /\ RowsOf(g, "pool")' = RowsOf(g, "pool")
    BY <1>1, <1>4, <1>8 DEF SyncInv, KindsOK, Kinds
  <2>1. CASE g # h \/ t.row.kind # "pool"
    <3>1. device'[g].pool = device[g].pool
      BY <1>1, <2>1
    <3>2. ASSUME NEW n \in Modes PROVE PoolsStill(n, g)
      <4>1. CASE n = m /\ g = h
        <5>1. PoolTasks(m, h) \cap Done(m, h)' = PoolTasks(m, h) \cap Done(m, h)
          BY <1>1, <2>1, <4>1 DEF PoolTasks
        <5> QED
          BY <1>2, <4>1, <5>1 DEF PoolsStill
      <4>2. CASE n # m \/ g # h
        BY <1>3, <4>2, TasksPools
      <4> QED
        BY <4>1, <4>2
    <3> QED
      BY <1>2, <2>0, <3>1, <3>2, PoolStill
  <2>2. CASE g = h /\ t.row.kind = "pool"
    <3>1. /\ device'[h] = Executed(device[h], t.row)
          /\ \/ rows[t.id] = t.row
             \/ rows[t.id] = Settled(t.row) /\ t.row.status # "pending_delete"
      BY <1>1, <1>8, <2>2
    <3>2. device'[h].pool =
              IF t.row.status = "pending_delete" THEN NoPool
              ELSE Configure(device[h].pool, t.row)
      BY <1>5, <1>6, <2>2, <3>1, ExecutedPool
    <3>3. t \in PoolTasks(m, h)
      BY <1>1, <2>2 DEF PoolTasks
    <3>4. PoolRowsOK(h)' /\ PoolTasksOK(m, h)'
      <4>1. CASE Applied(t)
        <5>1. \A u \in PoolTasks(m, h) : u \in Done(m, h) \/ t.id <= u.id
          BY <1>1, <2>2 DEF PoolTasks
        <5>2. device'[h].pool = Configure(device[h].pool, t.row)
          BY <3>2, <4>1 DEF Applied
        <5> QED
          BY <1>0, <1>1, <1>2, <2>0, <2>2, <3>1, <3>3, <4>1, <5>1, <5>2, ConfiguresPool
      <4>2. CASE ~Applied(t)
        <5>1. t.row.status = "pending_delete"
          BY <1>5, <4>2 DEF Applied
        <5>2. \A v \in PoolTasks(m, h) \cap Done(m, h) : v.id <= t.id
          <6>1. \A u \in unsent[h], v \in tasks[<<m, h>>] \ unsent[h] :
                   v.row.kind = u.row.kind => v.id <= u.id
            BY <1>0, <1>2 DEF BaseInv, SessionsOK
          <6> QED
            BY <1>1, <2>2, <6>1 DEF PoolTasks
        <5>3. device'[h].pool = NoPool /\ rows[t.id] = t.row
          BY <3>1, <3>2, <5>1
        <5> QED
          BY <1>0, <1>1, <1>2, <2>0, <2>2, <3>3, <4>2, <5>2, <5>3, RemovesPool
      <4> QED
        BY <4>1, <4>2
    <3>5. ASSUME NEW n \in Modes PROVE PoolTasksOK(n, h)'
      <4>1. CASE n = m
        BY <3>4, <4>1
      <4>2. CASE n # m
        <5>1. session[h] = m
          BY <1>0, <1>2 DEF BaseInv, SessionsOK
        <5>2. Done(n, h) = {}
          BY <1>0, <4>2, <5>1, NoSessionNotDone
        <5>3. Done(n, h)' = {} /\ PoolTasks(n, h)' = PoolTasks(n, h)
          BY <1>2, <1>3, <4>2, <5>2 DEF TasksStill, PoolTasks
        <5>4. Live(h, "pool")' = Live(h, "pool") /\ Deleted(h)' = Deleted(h)
          BY <1>2 DEF Live, Deleted, RowsOf
        <5>5. PoolTasksOK(n, h)
          BY <2>0, <2>2 DEF PoolOK
        <5> QED
          BY <5>3, <5>4, <5>5 DEF PoolTasksOK, Applied
      <4> QED
        BY <4>1, <4>2
    <3> QED
      BY <2>2, <3>4, <3>5 DEF PoolOK
  <2> QED
    BY <2>1, <2>2
<1> QED
    BY <1>7, <1>8 DEF KindsOK

-----------------------------------------------------------------------------
(* Results and device state *)

\* Every row a push read is still as it was read, or as a push settled it.
LEMMA NotStale ==
    ASSUME NEW T, NEW h, Excuse(h, KindsOf(Stale(T))),
           NEW t \in T, <<h, t.row.kind>> \notin excused'
    PROVE  \/ rows[t.id] = t.row
           \/ rows[t.id] = Settled(t.row) /\ t.row.status # "pending_delete"
<1>1. t.row.kind \notin KindsOf(Stale(T))
    BY DEF Excuse
<1>2. t \notin Stale(T)
    BY <1>1 DEF KindsOf
<1> QED
    BY <1>2 DEF Stale

\* What a success leaves of a row that it read, and of another
LEMMA MarkedIs ==
    ASSUME BaseInv, NEW m \in Modes, NEW h \in Hosts, rows' = Marked(tasks[<<m, h>>])
    PROVE  /\ \A t \in tasks[<<m, h>>] : rows[t.id] # NoRow =>
                rows'[t.id] = IF t.row.status = "pending_delete" THEN NoRow
                              ELSE Settled(rows[t.id])
           /\ \A i \in Ids : rows[i] = NoRow \/ (\A t \in tasks[<<m, h>>] : t.id # i)
                             => rows'[i] = rows[i]
<1> DEFINE T == tasks[<<m, h>>]
<1>1. ASSUME NEW t \in T, rows[t.id] # NoRow
      PROVE  rows'[t.id] = IF t.row.status = "pending_delete" THEN NoRow
                           ELSE Settled(rows[t.id])
  <2>1. t.id \in Ids /\ t \in {u \in T : u.id = t.id}
    BY <1>1 DEF BaseInv, OtherTypes, Task
  <2>2. \A u \in {u \in T : u.id = t.id} : u = t
    BY <1>1 DEF BaseInv, TasksOK
  <2>3. (CHOOSE u \in {u \in T : u.id = t.id} : TRUE) = t
    BY <2>1, <2>2
  <2>4. {u \in T : u.id = t.id} # {}
    BY <2>1
  <2> QED
    BY <1>1, <2>1, <2>3, <2>4 DEF Marked
<1>2. \A i \in Ids : rows[i] = NoRow \/ (\A t \in T : t.id # i) => rows'[i] = rows[i]
    BY DEF Marked
<1> QED
    BY <1>1, <1>2

\* Rows of other hosts, or of kinds the push did not read
LEMMA MarkedOthers ==
    ASSUME BaseInv, NEW m \in Modes, NEW h \in Hosts, rows' = Marked(tasks[<<m, h>>]),
           NEW g \in Hosts, NEW kind \in Kinds,
           g # h \/ (\A t \in tasks[<<m, h>>] : t.row.kind # kind)
    PROVE  /\ RowsOf(g, kind)' = RowsOf(g, kind)
           /\ \A i \in RowsOf(g, kind) : rows'[i] = rows[i]
<1>1. ASSUME NEW i \in Ids, rows'[i] # rows[i]
      PROVE  /\ (rows[i]).host # g \/ (rows[i]).kind # kind
             /\ rows'[i] = NoRow \/ (rows'[i]).host # g \/ (rows'[i]).kind # kind
  <2>1. PICK t \in tasks[<<m, h>>] : t.id = i /\ rows[i] # NoRow
    BY <1>1, MarkedIs
  <2>2. (rows[i]).host = h /\ (rows[i]).kind = t.row.kind
    BY <2>1 DEF BaseInv, TasksOK
  <2>3. rows'[i] = NoRow \/ rows'[i] = Settled(rows[i])
    BY <1>1, MarkedRows
  <2>4. rows[i] \in Row
    BY <2>1, RowParts
  <2> QED
    BY <2>1, <2>2, <2>3, <2>4, SettledIsRow
<1> QED
    BY <1>1, OtherRows

LEMMA MarkPlain ==
    ASSUME BaseInv, NEW m \in Modes, NEW h \in Hosts, NEW kind \in Plain, PlainOK(h, kind),
           rows' = Marked(tasks[<<m, h>>]), UNCHANGED <<next, device>>,
           Done(m, h) = tasks[<<m, h>>], \A n \in Modes : Done(n, h)' = {},
           Excuse(h, KindsOf(Stale(tasks[<<m, h>>]))), <<h, kind>> \notin excused'
    PROVE  PlainOK(h, kind)'
<1>0. kind \in Kinds
    BY DEF Kinds
<1>1. CASE \A t \in tasks[<<m, h>>] : t.row.kind # kind
  <2>1. /\ RowsOf(h, kind)' = RowsOf(h, kind)
        /\ \A i \in RowsOf(h, kind) : rows'[i] = rows[i]
    BY <1>0, <1>1, MarkedOthers
  <2> QED
    BY <2>1 DEF PlainOK
<1>2. CASE \E t \in tasks[<<m, h>>] : t.row.kind = kind
  <2>1. PICK t \in tasks[<<m, h>>] : t.row.kind = kind
    BY <1>2
  <2>2. /\ t.id \in Ids /\ t.row \in Row /\ t.row.host = h
        /\ t.row.status \in {"pending_apply", "pending_delete"}
    <3>1. t \in Task
      BY DEF BaseInv, OtherTypes
    <3>2. t.row \in Row /\ t.row.status \in Statuses /\ t.id \in Ids
      BY <3>1 DEF Task, Row
    <3> QED
      BY <3>2 DEF BaseInv, TasksOK, Statuses
  <2>3. rows[t.id] = t.row \/ rows[t.id] = Settled(t.row)
    BY <2>1, NotStale
  <2>4. /\ rows[t.id] # NoRow /\ rows[t.id] \in Row /\ (rows[t.id]).host = h
        /\ (rows[t.id]).kind = kind
    BY <2>1, <2>2, <2>3, SettledIsRow, PushAssumption
  <2>5. t.id \in RowsOf(h, kind)
    BY <2>2, <2>4 DEF RowsOf
  <2>6. kind \in device[h].plain <=> Applied(t)
    BY <2>1, <2>4 DEF PlainOK
  <2>7. rows'[t.id] = IF t.row.status = "pending_delete" THEN NoRow ELSE Settled(rows[t.id])
    BY <2>4, MarkedIs
  <2>8. \A i \in RowsOf(h, kind)' : i = t.id
    <3> SUFFICES ASSUME NEW i \in RowsOf(h, kind)', i # t.id PROVE FALSE
        OBVIOUS
    <3>1. i \in Ids /\ rows'[i] # NoRow /\ (rows'[i]).host = h /\ (rows'[i]).kind = kind
      BY DEF RowsOf
    <3>2. rows'[i] = rows[i] \/ (rows[i] # NoRow /\ rows'[i] = Settled(rows[i]))
      BY <3>1, MarkedRows
    <3>3. rows[i] \in Row
      BY <3>1, <3>2, RowParts
    <3>4. i \in RowsOf(h, kind)
      BY <3>1, <3>2, <3>3, SettledIsRow, PushAssumption DEF RowsOf
    <3> QED
      BY <2>5, <3>4 DEF BaseInv, RowsOK
  <2>9. CASE Applied(t)
    <3>1. t.id \in RowsOf(h, kind)'
      BY <2>2, <2>4, <2>7, <2>9, SettledIsRow DEF RowsOf, Applied
    <3> QED
      BY <2>6, <2>9, <3>1 DEF PlainOK
  <2>10. CASE ~Applied(t)
    <3>1. rows'[t.id] = NoRow
      BY <2>2, <2>7, <2>10 DEF Applied
    <3>2. RowsOf(h, kind)' = {}
      BY <2>8, <3>1 DEF RowsOf
    <3> QED
      BY <2>6, <2>10, <3>2 DEF PlainOK
  <2> QED
    BY <2>9, <2>10
<1> QED
    BY <1>1, <1>2

LEMMA MarkPool ==
    ASSUME BaseInv, NEW m \in Modes, NEW h \in Hosts, PoolOK(h),
           rows' = Marked(tasks[<<m, h>>]), UNCHANGED <<next, device>>,
           Done(m, h) = tasks[<<m, h>>],
           Excuse(h, KindsOf(Stale(tasks[<<m, h>>]))), <<h, "pool">> \notin excused',
           tasks'[<<m, h>>] = {}, \A n \in Modes : TasksStill(n, h)
    PROVE  PoolOK(h)'
<1>0. PoolRowsOK(h) /\ PoolTasksOK(m, h) /\ "pool" \in Kinds
    BY DEF PoolOK, Kinds
<1>1. CASE PoolTasks(m, h) = {}
  <2>1. \A t \in tasks[<<m, h>>] : t.row.kind # "pool"
    BY <1>1 DEF PoolTasks
  <2>2. /\ RowsOf(h, "pool")' = RowsOf(h, "pool")
        /\ \A i \in RowsOf(h, "pool") : rows'[i] = rows[i]
    BY <1>0, <2>1, MarkedOthers
  <2> QED
    BY <2>2, PoolStill, TasksPools
<1>2. ASSUME NEW t \in PoolTasks(m, h)
      PROVE  /\ t \in tasks[<<m, h>>] /\ t.id \in Ids /\ t.row \in Row /\ t.row.host = h
             /\ t.row.status \in {"pending_apply", "pending_delete"}
             /\ rows[t.id] # NoRow /\ rows[t.id] \in Row /\ t.id \in RowsOf(h, "pool")
             /\ (rows[t.id]).opts = t.row.opts
             /\ Applied(t) => t.id \in Live(h, "pool") /\ rows'[t.id] = Settled(rows[t.id])
             /\ ~Applied(t) => t.id \in Deleted(h) /\ rows'[t.id] = NoRow
  <2>1. t \in tasks[<<m, h>>] /\ t \in Task /\ t.row.kind = "pool"
    BY <1>2 DEF PoolTasks, BaseInv, OtherTypes
  <2>2. t.id \in Ids /\ t.row \in Row /\ t.row.status \in Statuses
    BY <2>1 DEF Task, Row
  <2>3. t.row.host = h /\ t.row.status \in {"pending_apply", "pending_delete"}
    BY <2>1, <2>2 DEF BaseInv, TasksOK, Statuses
  <2>4. \/ rows[t.id] = t.row
        \/ rows[t.id] = Settled(t.row) /\ t.row.status # "pending_delete"
    BY <2>1, NotStale
  <2>5. /\ rows[t.id] # NoRow /\ rows[t.id] \in Row /\ (rows[t.id]).host = h
        /\ (rows[t.id]).kind = "pool" /\ (rows[t.id]).opts = t.row.opts
        /\ t.row.status = "pending_delete" <=> (rows[t.id]).status = "pending_delete"
    BY <2>1, <2>2, <2>3, <2>4, SettledIsRow, PushAssumption
  <2>6. rows'[t.id] = IF t.row.status = "pending_delete" THEN NoRow ELSE Settled(rows[t.id])
    BY <2>1, <2>5, MarkedIs
  <2> QED
    BY <2>1, <2>2, <2>3, <2>5, <2>6 DEF Live, Deleted, RowsOf, Applied
<1>3. ASSUME NEW i \in Ids, rows'[i] # rows[i], (rows[i]).host = h, (rows[i]).kind = "pool"
      PROVE  \E t \in PoolTasks(m, h) : t.id = i
  <2>1. PICK t \in tasks[<<m, h>>] : t.id = i /\ rows[i] # NoRow
    BY <1>3, MarkedIs
  <2>2. t.row.kind = "pool"
    BY <1>3, <2>1 DEF BaseInv, TasksOK
  <2> QED
    BY <2>1, <2>2 DEF PoolTasks
<1>4. \A i \in RowsOf(h, "pool")' : i \in RowsOf(h, "pool")
  <2> SUFFICES ASSUME NEW i \in RowsOf(h, "pool")' PROVE i \in RowsOf(h, "pool")
      OBVIOUS
  <2>1. i \in Ids /\ rows'[i] # NoRow /\ (rows'[i]).host = h /\ (rows'[i]).kind = "pool"
    BY DEF RowsOf
  <2>2. rows'[i] = rows[i] \/ (rows[i] # NoRow /\ rows'[i] = Settled(rows[i]))
    BY <2>1, MarkedRows
  <2>3. rows[i] \in Row
    BY <2>1, <2>2, RowParts
  <2> QED
    BY <2>1, <2>2, <2>3, SettledIsRow, PushAssumption DEF RowsOf
<1>5. /\ \A i \in RowsOf(h, "pool")' : rows'[i] = rows[i] \/ rows'[i] = Settled(rows[i])
      /\ \A i \in RowsOf(h, "pool") : i \in Ids /\ rows[i] # NoRow /\ rows[i] \in Row
           /\ (rows[i]).host = h /\ (rows[i]).kind = "pool"
  <2>1. \A i \in RowsOf(h, "pool") : i \in Ids /\ rows[i] # NoRow /\ rows[i] \in Row
           /\ (rows[i]).host = h /\ (rows[i]).kind = "pool"
    BY RowParts DEF RowsOf
  <2>2. \A i \in RowsOf(h, "pool")' : i \in Ids /\ rows'[i] # NoRow
    BY DEF RowsOf
  <2> QED
    BY <2>1, <2>2, MarkedRows
<1>6. Deleted(h)' \subseteq Deleted(h)
  <2> SUFFICES ASSUME NEW i \in Deleted(h)' PROVE i \in Deleted(h)
      OBVIOUS
  <2>1. i \in RowsOf(h, "pool")' /\ (rows'[i]).status = "pending_delete"
    BY DEF Deleted
  <2>2. rows[i] \in Row
    BY <1>4, <1>5, <2>1
  <2>3. rows'[i] = rows[i]
    BY <1>5, <2>1, <2>2, SettledIsRow
  <2> QED
    BY <1>4, <2>1, <2>3 DEF Deleted
<1>7. \A i \in Live(h, "pool")' : i \in Live(h, "pool")
  <2> SUFFICES ASSUME NEW i \in Live(h, "pool")' PROVE i \in Live(h, "pool")
      OBVIOUS
  <2>1. i \in RowsOf(h, "pool")' /\ (rows'[i]).status # "pending_delete" /\ i \in Ids
        /\ rows'[i] # NoRow
    BY DEF Live, RowsOf
  <2>2. i \in RowsOf(h, "pool") /\ rows[i] # NoRow /\ (rows[i]).host = h
        /\ (rows[i]).kind = "pool"
    BY <1>4, <1>5, <2>1
  <2>3. CASE rows'[i] = rows[i]
    BY <2>1, <2>2, <2>3 DEF Live
  <2>4. CASE rows'[i] # rows[i]
    <3>1. PICK t \in PoolTasks(m, h) : t.id = i
      BY <1>3, <2>1, <2>2, <2>4
    <3> QED
      BY <1>2, <2>1, <3>1
  <2> QED
    BY <2>3, <2>4
<1>8. ASSUME NEW t \in PoolTasks(m, h), Applied(t) PROVE PoolRowsOK(h)'
  <2>1. t.id \in Live(h, "pool") /\ rows'[t.id] = Settled(rows[t.id]) /\ t.id \in Ids
        /\ rows[t.id] \in Row /\ (rows[t.id]).opts = t.row.opts /\ t.id \in RowsOf(h, "pool")
        /\ (rows[t.id]).host = h /\ (rows[t.id]).kind = "pool"
    BY <1>2, <1>5, <1>8
  <2>2. /\ rows'[t.id] # NoRow /\ (rows'[t.id]).host = h /\ (rows'[t.id]).kind = "pool"
        /\ (rows'[t.id]).opts = t.row.opts /\ (rows'[t.id]).status = "synchronized"
    BY <2>1, SettledIsRow
  <2>3. Deleted(h)' = {}
    <3> SUFFICES ASSUME NEW j \in Deleted(h)' PROVE FALSE
        OBVIOUS
    <3>1. j \in Deleted(h) /\ rows'[j] # NoRow
      BY <1>6 DEF Deleted, RowsOf
    <3>2. PICK u \in PoolTasks(m, h) : u.id = j
      BY <1>0, <1>8, <2>1, <3>1 DEF PoolTasksOK
    <3>3. j \notin Live(h, "pool")
      BY <3>1 DEF Deleted, Live
    <3> QED
      BY <1>2, <3>1, <3>2, <3>3
  <2>4. \A i \in Live(h, "pool")' : i = t.id
    BY <1>0, <1>7, <2>1 DEF PoolRowsOK
  <2>5. device[h].pool = t.row.opts
    BY <1>0, <1>8 DEF PoolTasksOK, PoolTasks
  <2>6. t.id \in RowsOf(h, "pool")'
    BY <2>1, <2>2 DEF RowsOf
  <2>7. ASSUME NEW i \in Live(h, "pool")'
        PROVE  /\ \A j \in Live(h, "pool")' : i = j
               /\ (rows'[i]).status = "synchronized" /\ device'[h].pool = (rows'[i]).opts
    BY <2>2, <2>4, <2>5
  <2> QED
    BY <2>3, <2>6, <2>7 DEF PoolRowsOK
<1>9. ASSUME NEW t \in PoolTasks(m, h), \A u \in PoolTasks(m, h) : ~Applied(u)
      PROVE  PoolRowsOK(h)'
  <2>1. device'[h].pool = NoPool
    BY <1>0, <1>9 DEF PoolTasksOK, PoolTasks
  <2>2. t.id \in Deleted(h)
    BY <1>2, <1>9
  <2>3. ASSUME NEW i \in Live(h, "pool")'
        PROVE  /\ \A j \in Live(h, "pool")' : i = j
               /\ \A j \in Deleted(h)' : j < i
               /\ (rows'[i]).status # "synchronized"
               /\ (rows'[i]).status = "pending_apply" =>
                    \A o \in Options : ~ (rows'[i]).bits[o] =>
                        ((rows'[i]).opts[o] <=> Deleted(h)' = {} /\ Base(device'[h].pool)[o])
    <3>1. i \in Live(h, "pool") /\ i \in RowsOf(h, "pool") /\ i \in Ids
      BY <1>7, <2>3 DEF Live, RowsOf
    <3>2. rows'[i] # NoRow
      BY <2>3 DEF Live, RowsOf
    <3>3. rows'[i] = rows[i]
      <4> SUFFICES ASSUME rows'[i] # rows[i] PROVE FALSE
          OBVIOUS
      <4>1. PICK u \in PoolTasks(m, h) : u.id = i
        BY <1>3, <1>5, <3>1
      <4> QED
        BY <1>2, <1>9, <3>2, <4>1
    <3>4. /\ \A j \in Live(h, "pool")' : i = j
          /\ \A j \in Deleted(h)' : j < i
      BY <1>0, <1>6, <1>7, <3>1 DEF PoolRowsOK
    <3>5. (rows[i]).status # "synchronized"
      BY <1>0, <2>2, <3>1 DEF PoolRowsOK
    <3>6. ASSUME (rows[i]).status = "pending_apply", NEW o \in Options, ~ (rows[i]).bits[o]
          PROVE  ~ (rows[i]).opts[o] /\ ~Base(device'[h].pool)[o]
      <4>1. ~ (rows[i]).opts[o]
        BY <1>0, <2>2, <3>1, <3>6 DEF PoolRowsOK
      <4>2. Base(device'[h].pool) = Unset
        BY <2>1 DEF Base
      <4> QED
        BY <4>1, <4>2 DEF Unset
    <3> QED
      BY <3>3, <3>4, <3>5, <3>6
  <2> QED
    BY <2>1, <2>3 DEF PoolRowsOK, Base
<1>10. ASSUME PoolTasks(m, h) # {} PROVE PoolOK(h)'
  <2>1. PoolRowsOK(h)'
    BY <1>8, <1>9, <1>10
  <2>2. ASSUME NEW n \in Modes PROVE PoolTasksOK(n, h)'
    BY <1>6, <1>7, TasksStillOK, TasksPools DEF PoolOK
  <2> QED
    BY <2>1, <2>2 DEF PoolOK
<1> QED
    BY <1>1, <1>10

LEMMA MarkKinds ==
    ASSUME SyncInv, NEW m \in Modes, NEW h \in Hosts, Mark(m, h)
    PROVE  KindsOK'
<1>0. BaseInv
    BY DEF SyncInv
<1>1. PICK reported : End(m, h, reported)
    BY DEF Mark
<1>2. UNCHANGED <<next, device, unsent, output>> /\ push[<<m, h>>] = "sent"
    BY DEF Mark
<1>3. /\ \A n \in Modes, g \in Hosts : TasksStill(n, g)
      /\ tasks'[<<m, h>>] = {} /\ Done(m, h)' = {}
    BY <1>0, <1>1, <1>2, EndStill
<1>4. CASE UNCHANGED <<rows, excused>>
    BY <1>2, <1>3, <1>4, StillKinds
<1>5. CASE ~UNCHANGED <<rows, excused>>
  <2>1. /\ ResultIsOf(h) /\ output.ok /\ rows' = Marked(tasks[<<m, h>>])
        /\ Excuse(h, KindsOf(Stale(tasks[<<m, h>>])))
    BY <1>5 DEF Mark
  <2>2. output = [host |-> h, ok |-> TRUE]
    BY <1>0, <2>1 DEF ResultIsOf, BaseInv, OtherTypes
  <2>3. Done(m, h) = tasks[<<m, h>>]
    BY <1>2, <2>2 DEF Done
  <2>4. session[h] = m
    BY <1>0, <1>2 DEF BaseInv, SessionsOK
  <2>5. \A n \in Modes : Done(n, h)' = {}
    <3> SUFFICES ASSUME NEW n \in Modes, n # m PROVE Done(n, h)' = {}
        BY <1>3
    <3>1. Done(n, h) = {}
      BY <1>0, <2>4, NoSessionNotDone
    <3> QED
      BY <1>3, <3>1 DEF TasksStill
  <2>6. excused \subseteq excused'
    BY <2>1 DEF Excuse
  <2>7. ASSUME NEW g \in Hosts, NEW kind \in Plain, <<g, kind>> \notin excused'
        PROVE  PlainOK(g, kind)'
    <3>1. PlainOK(g, kind) /\ kind \in Kinds
      BY <2>6, <2>7 DEF SyncInv, KindsOK, Kinds
    <3>2. CASE g = h
      BY <1>0, <1>2, <2>1, <2>3, <2>5, <2>7, <3>1, <3>2, MarkPlain
    <3>3. CASE g # h
      <4>1. /\ RowsOf(g, kind)' = RowsOf(g, kind)
            /\ \A i \in RowsOf(g, kind) : rows'[i] = rows[i]
        BY <1>0, <2>1, <3>1, <3>3, MarkedOthers
      <4>2. \A i \in Ids : rows[i] = NoRow => rows'[i] = NoRow
        BY <1>0, <2>1, MarkedIs
      <4> QED
        BY <1>0, <1>2, <1>3, <3>1, <4>1, <4>2, PlainStill DEF TasksStill
    <3> QED
      BY <3>2, <3>3
  <2>8. ASSUME NEW g \in Hosts, <<g, "pool">> \notin excused' PROVE PoolOK(g)'
    <3>1. PoolOK(g) /\ "pool" \in Kinds
      BY <2>6, <2>8 DEF SyncInv, KindsOK, Kinds
    <3>2. CASE g = h
      BY <1>0, <1>2, <1>3, <2>1, <2>3, <2>8, <3>1, <3>2, MarkPool
    <3>3. CASE g # h
      <4>1. /\ RowsOf(g, "pool")' = RowsOf(g, "pool")
            /\ \A i \in RowsOf(g, "pool") : rows'[i] = rows[i]
        BY <1>0, <2>1, <3>1, <3>3, MarkedOthers
      <4> QED
        BY <1>2, <1>3, <3>1, <4>1, PoolStill, TasksPools
    <3> QED
      BY <3>2, <3>3
  <2> QED
    BY <2>7, <2>8 DEF KindsOK
<1> QED
    BY <1>4, <1>5

\* Device state is written over the helpers of one host.
LEMMA WriteKinds ==
    ASSUME SyncInv, NEW h \in Hosts, Reconcile(h) \/ SyncDeviceState(h)
    PROVE  KindsOK'
<1>0. BaseInv /\ Synced \in Plain /\ Synced \in Kinds /\ Synced # "pool"
    BY PushAssumption DEF SyncInv, Kinds
<1>1. UNCHANGED <<device, push, tasks, unsent, output>>
    BY DEF Reconcile, SyncDeviceState, threads
<1>2. \A n \in Modes, g \in Hosts : TasksStill(n, g)
    BY <1>1, StillSame
<1>3. CASE UNCHANGED <<rows, excused>>
    BY <1>1, <1>2, <1>3, StillKinds
<1>4. ASSUME NEW plain, WriteBack(h, plain), excused \ {<<h, Synced>>} \subseteq excused',
             <<h, Synced>> \notin excused' => (Synced \in plain <=> Synced \in device[h].plain)
      PROVE  KindsOK'
  <2> DEFINE row == Settled(Draft(h, Synced, Unset, Unset))
  <2>1. row # NoRow /\ row.host = h /\ row.kind = Synced /\ row.status = "synchronized"
    BY HelperRow
  <2>2. /\ Synced \in plain => next + 1 \in Ids
        /\ \A i \in RowsOf(h, Synced) : rows'[i] = NoRow
        /\ \A i \in Ids : i \notin RowsOf(h, Synced) /\ i # next + 1 => rows'[i] = rows[i]
        /\ next + 1 \in Ids => /\ rows[next + 1] = NoRow
                               /\ rows'[next + 1] = IF Synced \in plain THEN row ELSE NoRow
    BY <1>0, <1>4, WrittenRows
  <2> HIDE DEF row
  <2>3. \A i \in Ids : rows[i] = NoRow /\ i <= next => rows'[i] = NoRow
    <3>1. next \in Int
      BY <1>0 DEF BaseInv, RowTypes
    <3>2. ~ (next + 1 <= next)
      BY <3>1
    <3> QED
      BY <2>2, <3>2
  <2>4. ASSUME NEW g \in Hosts, NEW kind \in Kinds, g # h \/ kind # Synced
        PROVE  /\ RowsOf(g, kind)' = RowsOf(g, kind)
               /\ \A i \in RowsOf(g, kind) : rows'[i] = rows[i]
    <3>1. \A i \in Ids : \/ rows'[i] = rows[i]
                         \/ /\ rows[i] = NoRow \/ (rows[i]).host # g \/ (rows[i]).kind # kind
                            /\ rows'[i] = NoRow \/ (rows'[i]).host # g \/ (rows'[i]).kind # kind
      BY <2>1, <2>2, <2>4 DEF RowsOf
    <3> QED
      BY <3>1, OtherRows
  <2>5. ASSUME NEW g \in Hosts, NEW kind \in Plain, <<g, kind>> \notin excused'
        PROVE  PlainOK(g, kind)'
    <3>1. CASE g # h \/ kind # Synced
      <4>1. PlainOK(g, kind) /\ kind \in Kinds
        BY <1>4, <2>5, <3>1 DEF SyncInv, KindsOK, Kinds
      <4>2. /\ RowsOf(g, kind)' = RowsOf(g, kind)
            /\ \A i \in RowsOf(g, kind) : rows'[i] = rows[i]
        BY <2>4, <3>1, <4>1
      <4> QED
        BY <1>0, <1>1, <1>2, <2>3, <4>1, <4>2, PlainStill DEF TasksStill
    <3>2. CASE g = h /\ kind = Synced
      <4>1. Synced \in plain <=> Synced \in device[h].plain
        BY <1>4, <2>5, <3>2
      <4>2. Synced \in device[h].plain => RowsOf(h, Synced)' # {}
        <5>1. Synced \in plain => next + 1 \in RowsOf(h, Synced)'
          BY <2>1, <2>2 DEF RowsOf
        <5> QED
          BY <4>1, <5>1
      <4>3. ASSUME NEW i \in RowsOf(h, Synced)' PROVE Synced \in device[h].plain
        <5>1. i \in Ids /\ rows'[i] # NoRow /\ (rows'[i]).host = h /\ (rows'[i]).kind = Synced
          BY <4>3 DEF RowsOf
        <5>2. i = next + 1
          BY <2>2, <5>1 DEF RowsOf
        <5> QED
          BY <2>2, <4>1, <5>1, <5>2
      <4>4. ASSUME NEW n \in Modes, NEW t \in Done(n, h)', t.row.kind = Synced
            PROVE  rows'[t.id] = NoRow
        <5>1. t \in tasks[<<n, h>>]
          BY <1>2, <4>4, DoneIsRead DEF TasksStill
        <5>2. t.id \in Ids /\ t.id <= next
              /\ (rows[t.id] # NoRow => (rows[t.id]).host = h /\ (rows[t.id]).kind = Synced)
          BY <1>0, <4>4, <5>1 DEF BaseInv, OtherTypes, TasksOK, Task
        <5>3. CASE rows[t.id] = NoRow
          BY <2>3, <5>2, <5>3
        <5>4. CASE rows[t.id] # NoRow
          BY <2>2, <5>2, <5>4 DEF RowsOf
        <5> QED
          BY <5>3, <5>4
      <4> QED
        BY <1>1, <3>2, <4>2, <4>3, <4>4 DEF PlainOK
    <3> QED
      BY <3>1, <3>2
  <2>6. ASSUME NEW g \in Hosts, <<g, "pool">> \notin excused' PROVE PoolOK(g)'
    <3>1. "pool" \in Kinds /\ <<g, "pool">> \notin excused
      BY <1>0, <1>4, <2>6 DEF Kinds
    <3>2. /\ RowsOf(g, "pool")' = RowsOf(g, "pool")
          /\ \A i \in RowsOf(g, "pool") : rows'[i] = rows[i]
      BY <1>0, <2>4, <3>1
    <3> QED
      BY <1>1, <1>2, <3>1, <3>2, PoolStill, TasksPools DEF SyncInv, KindsOK
  <2> QED
    BY <2>5, <2>6 DEF KindsOK
<1>5. CASE Reconcile(h)
  <2>1. \/ WriteBack(h, device[h].plain) /\ excused' = excused \ {<<h, Synced>>}
        \/ UNCHANGED <<rows, excused>>
    BY <1>5 DEF Reconcile, database
  <2> QED
    BY <1>3, <1>4, <2>1
<1>6. CASE SyncDeviceState(h)
  <2>1. /\ WriteBack(h, snapshot[h].plain)
        /\ excused' = IF Synced \in snapshot[h].plain \cap device[h].plain
                         \/ Synced \notin snapshot[h].plain \cup device[h].plain
                      THEN excused \ {<<h, Synced>>} ELSE excused \cup {<<h, Synced>>}
    BY <1>6 DEF SyncDeviceState
  <2>2. excused \ {<<h, Synced>>} \subseteq excused'
    BY <2>1
  <2>3. <<h, Synced>> \notin excused' =>
            (Synced \in snapshot[h].plain <=> Synced \in device[h].plain)
    BY <2>1
  <2> QED
    BY <1>4, <2>1, <2>2, <2>3
<1> QED
    BY <1>5, <1>6

LEMMA NextSync == SyncInv /\ [Next]_vars => SyncInv'
<1> SUFFICES ASSUME SyncInv, [Next]_vars PROVE SyncInv'
    OBVIOUS
<1>1. BaseInv'
    BY NextBase DEF SyncInv
<1>2. KindsOK'
  <2>1. CASE UNCHANGED vars
    <3>1. UNCHANGED <<rows, device, push, tasks, unsent, output, excused>>
      BY <2>1 DEF vars, database, threads
    <3> QED
      BY <3>1, StillSame, StillKinds
  <2>2. CASE Next
    BY <2>2, EditKinds, QuietKinds, CollectKinds, CommandKinds, MarkKinds, WriteKinds DEF Next
  <2> QED
    BY <2>1, <2>2
<1> QED
    BY <1>1, <1>2 DEF SyncInv

\* A row is shown synchronized only if its device runs it as it reads, and a
\* device runs nothing that has no row, whatever the order of edits, pushes,
\* commands, results and collected configurations, for every number of hosts,
\* rows, edits and calls; unless one of the named weaknesses was met.
THEOREM SynchronizedAlwaysTrue == Spec => []SynchronizedIsTrue
<1>1. Init => SyncInv
    BY InitBase, InitKinds DEF SyncInv
<1> QED
    BY <1>1, NextSync, SyncImplies, PTL DEF Spec

=============================================================================
