--------------------------- MODULE SftpClientProofs ---------------------------
(***************************************************************************)
(* Proofs about the SFTP client, for any servers, directories, names and   *)
(* bounds: its type invariant; that an entry goes only where the user's    *)
(* dialog named it; and that once nothing runs the panes are true and the  *)
(* transfers have ended.                                                   *)
(*                                                                         *)
(* The actions are first sorted by what they do to the three places an     *)
(* operation passes through: those of the user and of a delivered signal   *)
(* lengthen the queue (QuietQueues, AcceptQueues, DeliverQueues), those of *)
(* the worker take from it, report or finish (WorkerSteps), and a delivery *)
(* shortens the signals (Delivering).  Each part of the invariant is then  *)
(* shown once for every such shape.                                        *)
(***************************************************************************)
EXTENDS SftpClient, FiniteSetTheorems, FunctionTheorems, TLAPS

-----------------------------------------------------------------------------
(* Listings *)

\* How many of the names are not after n
Rank(S, n) == Cardinality({m \in S : m <= n})

LEMMA RankGrows ==
  ASSUME NEW S \in SUBSET Names, NEW a \in S, NEW b \in S, a < b
  PROVE  /\ Rank(S, a) \in 1..Cardinality(S) /\ Rank(S, b) \in 1..Cardinality(S)
         /\ Rank(S, a) < Rank(S, b)
  <1>. DEFINE A == {m \in S : m <= a}
              B == {m \in S : m <= b}
  <1>1. IsFiniteSet(S) /\ S \subseteq Int
    BY FS_Subset, SftpAssumption
  <1>2. A \in SUBSET B /\ B \in SUBSET S /\ A # B /\ a \in A
    <2>1. a \in A /\ b \in B /\ b \notin A /\ B \in SUBSET S
      BY <1>1
    <2>2. \A m \in S : m <= a => m <= b
      BY <1>1
    <2>. QED
      BY <2>1, <2>2
  <1>3. /\ IsFiniteSet(B) /\ Cardinality(B) <= Cardinality(S)
        /\ Cardinality(B) \in Nat /\ Cardinality(S) \in Nat
    BY <1>1, <1>2, FS_Subset, FS_CardinalityType
  <1>4. /\ IsFiniteSet(A) /\ Cardinality(A) <= Cardinality(B)
        /\ Cardinality(A) \in Nat /\ Cardinality(A) # Cardinality(B)
    BY <1>2, <1>3, FS_Subset, FS_CardinalityType
  <1>5. Cardinality(A) # 0
    BY <1>2, <1>4, FS_EmptySet
  <1>6. Rank(S, a) = Cardinality(A) /\ Rank(S, b) = Cardinality(B)
    BY DEF Rank
  <1>. HIDE DEF A, B
  <1>. QED
    BY <1>3, <1>4, <1>5, <1>6

LEMMA RankIsPosition ==
  ASSUME NEW S \in SUBSET Names
  PROVE  /\ Cardinality(S) \in Nat
         /\ \A k \in 1..Cardinality(S) : \E n \in S : Rank(S, n) = k
  <1>. DEFINE c == Cardinality(S)
              f == [n \in S |-> Rank(S, n)]
  <1>1. IsFiniteSet(S) /\ S \subseteq Int /\ c \in Nat
    BY FS_Subset, FS_CardinalityType, SftpAssumption
  <1>2. \A n \in S : Rank(S, n) \in 1..c
    <2>1. SUFFICES ASSUME NEW n \in S PROVE Rank(S, n) \in 1..c
      OBVIOUS
    <2>2. {m \in S : m <= n} \in SUBSET S /\ n \in {m \in S : m <= n}
      BY <1>1
    <2>. QED
      BY <1>1, <2>2, FS_Subset, FS_CardinalityType, FS_EmptySet DEF Rank
  <1>3. f \in Injection(S, 1..c)
    <2>1. \A a, b \in S : Rank(S, a) = Rank(S, b) => a = b
      BY <1>1, RankGrows
    <2>. QED
      BY <1>2, <2>1 DEF Injection, IsInjective
  <1>4. f \in Bijection(S, Range(f))
    BY <1>3, Fun_InjMeansBijImage
  <1>5. Cardinality(Range(f)) = c
    BY <1>1, <1>4, FS_Bijection DEF ExistsBijection
  <1>6. Range(f) \in SUBSET (1..c)
    BY <1>2 DEF Range
  <1>7. IsFiniteSet(1..c) /\ Cardinality(1..c) = c
    BY <1>1, FS_Interval
  <1>8. Range(f) = 1..c
    BY <1>5, <1>6, <1>7, FS_Subset
  <1>. QED
    BY <1>1, <1>8 DEF Range

\* A listing shows names of the directory and nothing else.
LEMMA SortedRange ==
  ASSUME NEW S \in SUBSET Names
  PROVE  /\ Cardinality(S) \in Nat
         /\ Sorted(S) \in [1..Cardinality(S) -> S]
         /\ Sorted(S) \in Seq(Names)
  <1>1. Cardinality(S) \in Nat
    BY RankIsPosition
  <1>2. \A k \in 1..Cardinality(S) :
          (CHOOSE n \in S : Rank(S, n) = k) \in S
    BY RankIsPosition
  <1>3. Sorted(S) = [k \in 1..Cardinality(S) |-> CHOOSE n \in S : Rank(S, n) = k]
    BY DEF Sorted, Rank
  <1>. QED
    BY <1>1, <1>2, <1>3

-----------------------------------------------------------------------------
(* The types, in parts *)

FilesTypes == files \in [Places -> [Dirs -> SUBSET Names]]

PathTypes ==
    /\ path \in [Sides -> Dirs]
    /\ history \in [Sides -> [list : Seq(Dirs), index : Nat]]
    /\ \A s \in Sides : history[s].index \in DOMAIN history[s].list

PaneTypes ==
    /\ model \in [Sides -> Listings]
    /\ selection \in [Sides -> SUBSET (1..Cardinality(Names))]
    /\ \A s \in Sides : selection[s] \subseteq DOMAIN model[s].rows

Dialogs == [mode : {"create", "delete", "rename"}, side : Sides, named : SUBSET Entries]

DialogTypes ==
    /\ dialog = NoDialog \/ dialog \in Dialogs
    /\ wanted = NoWish \/ wanted \in [host : Servers, dir : Dirs]

QueueType == queue \in Seq(Ops)

SignalTypes == running \in Ops \cup {NoOp} /\ posted \in Seq(Signals)

WorkerTypes ==
    /\ service \in Servers \cup {NoServer} /\ hostKey \in Servers \cup {NoServer}
    /\ known \subseteq Servers

TransferTypes ==
    /\ transfers \in [Tasks -> {"none", "Waiting", "Transferring", "Cancelling",
                                "Completed", "Cancelled", "Error"}]
    /\ cancelled \subseteq Tasks

CountTypes ==
    /\ connected \in BOOLEAN /\ hostDialog \in BOOLEAN /\ quit \in BOOLEAN
    /\ unsure \subseteq Sides
    /\ calls \in 0..MaxCalls /\ failures \in 0..MaxFailures

Types ==
    /\ FilesTypes /\ PathTypes /\ PaneTypes /\ DialogTypes /\ QueueType
    /\ SignalTypes /\ WorkerTypes /\ TransferTypes /\ CountTypes

LEMMA TypesAre == SftpTypeOK <=> Types
  BY DEF SftpTypeOK, Types, FilesTypes, PathTypes, PaneTypes, DialogTypes,
         Dialogs, QueueType, SignalTypes, WorkerTypes, TransferTypes,
         CountTypes

\* What an operation holds
LEMMA OpTypes ==
  ASSUME NEW o \in Ops
  PROVE  /\ o.kind \in {"connect", "disconnect", "list", "open", "create", "delete",
                        "rename", "transfer"}
         /\ o.kind = "connect" => o.host \in Servers /\ o.trust \in Servers \cup {NoServer}
         /\ o.kind = "list" =>
              o.side \in Sides /\ o.dir \in Dirs /\ o = List(o.side, o.dir)
         /\ o.kind = "open" => o.dir \in Dirs
         /\ o.kind \in {"create", "delete", "rename"} =>
              /\ o.side \in Sides /\ o.to \in Names /\ o.named \subseteq Entries
              /\ o.item.dir \in Dirs /\ o.item.name \in Names
         /\ o.kind = "transfer" =>
              /\ o.side \in Sides /\ o.into \in Dirs /\ o.task \in Tasks
              /\ o.moved \in BOOLEAN
              /\ o.item.dir \in Dirs /\ o.item.name \in Names
              /\ [o EXCEPT !.moved = TRUE] \in Ops
  BY DEF Ops, ItemType, List

LEMMA OpsMade ==
  /\ \A h \in Servers, k \in Servers \cup {NoServer} :
       [kind |-> "connect", host |-> h, trust |-> k] \in Ops
  /\ [kind |-> "disconnect"] \in Ops
  /\ \A s \in Sides, d \in Dirs : List(s, d) \in Ops
  /\ \A d \in Dirs : [kind |-> "open", dir |-> d] \in Ops
  BY DEF Ops, List

LEMMA SignalsMade ==
  ASSUME NEW o \in Ops, NEW outcome \in {"ok", "error", "cancelled", "progress"},
         NEW listing \in Listings
  PROVE  [op |-> o, outcome |-> outcome, listing |-> listing] \in Signals
  BY DEF Signals

LEMMA ListingTypes ==
  ASSUME NEW l \in Listings
  PROVE  /\ l.place \in Places \cup {NoServer} /\ l.dir \in Dirs
         /\ l.rows \in Seq(Names) /\ DOMAIN l.rows \subseteq 1..Cardinality(Names)
         /\ l.rows # <<>> => l.place \in Places
  <1>1. CASE l = Blank
    BY <1>1, SftpAssumption DEF Blank
  <1>2. ASSUME NEW S \in SUBSET Names, NEW p \in Places, NEW d \in Dirs,
               l = [place |-> p, dir |-> d, rows |-> Sorted(S)]
        PROVE  /\ l.place \in Places /\ l.dir \in Dirs
               /\ l.rows \in Seq(Names) /\ DOMAIN l.rows \subseteq 1..Cardinality(Names)
    <2>1. Sorted(S) \in Seq(Names) /\ DOMAIN Sorted(S) = 1..Cardinality(S)
      BY SortedRange
    <2>2. /\ Cardinality(S) \in Nat /\ Cardinality(Names) \in Nat
          /\ Cardinality(S) <= Cardinality(Names)
      BY FS_Subset, FS_CardinalityType, SftpAssumption
    <2>. QED
      BY <1>2, <2>1, <2>2
  <1>. QED
    BY <1>1, <1>2 DEF Listings

LEMMA BlankListing == Blank \in Listings /\ DOMAIN Blank.rows = {}
  BY DEF Blank, Listings

LEMMA RefreshOps ==
  ASSUME NEW s \in Sides, NEW d \in Dirs
  PROVE  Refresh(s, d) \in Seq(Ops)
  BY OpsMade DEF Refresh

LEMMA EnqueueTypes ==
  ASSUME QueueType, NEW ops \in Seq(Ops), Enqueue(ops)
  PROVE  QueueType'
  BY DEF QueueType, Enqueue

LEMMA PushTypes ==
  ASSUME NEW h \in [list : Seq(Dirs), index : Nat], h.index \in DOMAIN h.list,
         NEW d \in Dirs
  PROVE  /\ Push(h, d) \in [list : Seq(Dirs), index : Nat]
         /\ Push(h, d).index \in DOMAIN Push(h, d).list
  <1>1. CASE h.list[h.index] = d
    BY <1>1 DEF Push
  <1>2. CASE h.list[h.index] # d
    <2>. DEFINE kept == SubSeq(h.list, 1, h.index)
    <2>1. kept \in Seq(Dirs) /\ Len(kept) = h.index
      OBVIOUS
    <2>2. /\ Append(kept, d) \in Seq(Dirs)
          /\ Len(Append(kept, d)) = h.index + 1 /\ h.index + 1 \in Nat
      BY <2>1
    <2>3. Push(h, d) = [list |-> Append(kept, d), index |-> h.index + 1]
      BY <1>2 DEF Push
    <2>. HIDE DEF kept
    <2>. QED
      BY <2>2, <2>3
  <1>. QED
    BY <1>1, <1>2

LEMMA SetPathTypes ==
  ASSUME PathTypes, NEW s \in Sides, NEW d \in Dirs, SetPath(s, d)
  PROVE  PathTypes'
  <1>1. /\ Push(history[s], d) \in [list : Seq(Dirs), index : Nat]
        /\ Push(history[s], d).index \in DOMAIN Push(history[s], d).list
    BY PushTypes DEF PathTypes
  <1>. QED
    BY <1>1 DEF PathTypes, SetPath

LEMMA SetItemsTypes ==
  ASSUME PaneTypes, NEW s \in Sides, NEW l \in Listings, SetItems(s, l)
  PROVE  PaneTypes'
  BY DEF PaneTypes, SetItems

LEMMA PostTypes ==
  ASSUME SignalTypes, running # NoOp, NEW outcome \in {"ok", "error", "cancelled"},
         NEW l \in Listings, Post(outcome, l)
  PROVE  SignalTypes'
  <1>1. [op |-> running, outcome |-> outcome, listing |-> l] \in Signals
    BY SignalsMade DEF SignalTypes
  <1>. QED
    BY <1>1 DEF SignalTypes, Post

LEMMA SucceedsTypes ==
  ASSUME SignalTypes, CountTypes, running # NoOp, Succeeds
  PROVE  SignalTypes' /\ failures' \in 0..MaxFailures
  BY PostTypes, BlankListing DEF Succeeds, CountTypes

LEMMA FailsTypes ==
  ASSUME SignalTypes, CountTypes, running # NoOp, NEW must \in BOOLEAN, Fails(must)
  PROVE  SignalTypes' /\ failures' \in 0..MaxFailures
  <1>1. Post("error", Blank)
    BY DEF Fails
  <1>2. failures' \in 0..MaxFailures
    BY SftpAssumption DEF Fails, CountTypes
  <1>. QED
    BY <1>1, <1>2, PostTypes, BlankListing

LEMMA DeliveredTypes ==
  ASSUME SignalTypes, posted # <<>>
  PROVE  /\ op \in Ops /\ Head(posted) \in Signals
         /\ Head(posted).listing \in Listings /\ Tail(posted) \in Seq(Signals)
  <1>1. Head(posted) \in Signals /\ Tail(posted) \in Seq(Signals)
    BY DEF SignalTypes
  <1>. QED
    BY <1>1 DEF Signals, op

\* The entries of a pane are entries of its place.
LEMMA ItemsTypes ==
  ASSUME PaneTypes, NEW s \in Sides, NEW rows
  PROVE  /\ \A item \in Items(s, rows) :
              /\ item \in ItemType /\ item.dir = model[s].dir
              /\ model[s].place \in Places
         /\ Named(s, rows) \subseteq Entries
  <1>1. /\ model[s].place \in Places \cup {NoServer} /\ model[s].dir \in Dirs
        /\ model[s].rows \in Seq(Names)
        /\ model[s].rows # <<>> => model[s].place \in Places
    BY ListingTypes DEF PaneTypes
  <1>2. ASSUME NEW i \in rows \cap DOMAIN model[s].rows
        PROVE  model[s].rows[i] \in Names /\ model[s].place \in Places
    BY <1>1
  <1>3. \A item \in Items(s, rows) :
           /\ item \in ItemType /\ item.dir = model[s].dir /\ model[s].place \in Places
    BY <1>1, <1>2 DEF Items, ItemType
  <1>4. Named(s, rows) \subseteq Entries
    BY <1>3 DEF Named, Entries, ItemType
  <1>. QED
    BY <1>3, <1>4

LEMMA AcceptedOps ==
  ASSUME PaneTypes, dialog \in Dialogs, NEW to \in Names
  PROVE  LET names == {item.name : item \in Items(dialog.side, selection[dialog.side])} IN
         /\ Change([dir |-> Home, name |-> to], to) \in Ops
         /\ [k \in 1..Cardinality(names) |->
               Change([dir |-> model[dialog.side].dir, name |-> Sorted(names)[k]], to)]
              \in Seq(Ops)
  <1>. DEFINE side == dialog.side
              names == {item.name : item \in Items(side, selection[side])}
              made(k) == Change([dir |-> model[side].dir, name |-> Sorted(names)[k]], to)
  <1>1. /\ dialog.mode \in {"create", "delete", "rename"} /\ side \in Sides
        /\ dialog.named \subseteq Entries
    BY DEF Dialogs
  <1>2. model[side].dir \in Dirs
    BY <1>1, ListingTypes DEF PaneTypes
  <1>3. names \in SUBSET Names
    BY <1>1, ItemsTypes DEF ItemType
  <1>4. Cardinality(names) \in Nat /\ Sorted(names) \in [1..Cardinality(names) -> names]
    BY <1>3, SortedRange
  <1>5. \A d \in Dirs, n \in Names : Change([dir |-> d, name |-> n], to) \in Ops
    BY <1>1 DEF Change, Ops, ItemType
  <1>. HIDE DEF names
  <1>6. \A k \in 1..Cardinality(names) : made(k) \in Ops
    BY <1>2, <1>3, <1>4, <1>5
  <1>. HIDE DEF made
  <1>7. [k \in 1..Cardinality(names) |-> made(k)] \in Seq(Ops)
    BY <1>4, <1>6
  <1>8. Change([dir |-> Home, name |-> to], to) \in Ops
    BY <1>5, SftpAssumption
  <1>. QED
    BY <1>7, <1>8 DEF names, made

-----------------------------------------------------------------------------
(* What is queued *)

\* An operation on the session
OfServer(o) ==
    \/ o.kind \in {"disconnect", "open", "transfer"}
    \/ o.kind \in {"list", "create", "delete", "rename"} /\ o.side = "remote"

\* Operations that may always be queued
Calm(ops) ==
    \A k \in DOMAIN ops :
        ops[k].kind # "connect" /\ (OfServer(ops[k]) => connected)

Harmless(ops) == \A k \in DOMAIN ops : ops[k].kind \notin {"delete", "rename"}

\* The user's actions that neither connect nor answer a dialog
Quiet ==
    \/ Disconnect \/ RejectDialog
    \/ \E side \in Sides :
         \/ RefreshPane(side)
         \/ \E dir \in Dirs : OpenDirectory(side, dir)
         \/ \E delta \in {-1, 1} : Navigate(side, delta)
         \/ \E mode \in {"create", "rename", "delete"},
               rows \in SUBSET DOMAIN model[side].rows : OpenDialog(side, mode, rows)
         \/ \E row \in DOMAIN model[side].rows : QueueTransfer(side, row)
    \/ \E t \in Tasks : CancelTransfer(t)

LEMMA RefreshQueues ==
  ASSUME NEW s \in Sides, NEW d \in Dirs
  PROVE  Refresh(s, d) \in Seq(Ops) /\ Calm(Refresh(s, d)) /\ Harmless(Refresh(s, d))
  <1>1. CASE s = "local" \/ connected
    <2>1. Refresh(s, d) = <<List(s, d)>>
      BY <1>1 DEF Refresh
    <2>2. <<List(s, d)>> \in Seq(Ops) /\ DOMAIN <<List(s, d)>> = {1}
      BY OpsMade
    <2>. QED
      BY <1>1, <2>1, <2>2 DEF Calm, Harmless, OfServer, List
  <1>2. CASE ~(s = "local" \/ connected)
    BY <1>2 DEF Refresh, Calm, Harmless
  <1>. QED
    BY <1>1, <1>2

LEMMA OneQueues ==
  ASSUME NEW o \in Ops, o.kind \notin {"connect", "delete", "rename"},
         OfServer(o) => connected
  PROVE  <<o>> \in Seq(Ops) /\ Calm(<<o>>) /\ Harmless(<<o>>)
  BY DEF Calm, Harmless

LEMMA QuietQueues ==
  ASSUME Types, Quiet
  PROVE  \E ops \in Seq(Ops) : Enqueue(ops) /\ Calm(ops) /\ Harmless(ops)
  <1>0. ASSUME UNCHANGED queue
        PROVE  \E ops \in Seq(Ops) : Enqueue(ops) /\ Calm(ops) /\ Harmless(ops)
    <2>1. <<>> \in Seq(Ops) /\ Enqueue(<<>>)
      BY <1>0 DEF Types, QueueType, Enqueue
    <2>2. Calm(<<>>) /\ Harmless(<<>>)
      BY DEF Calm, Harmless
    <2>. QED
      BY <2>1, <2>2
  <1>1. CASE Disconnect
    <2>1. [kind |-> "disconnect"] \in Ops
      BY OpsMade
    <2>. QED
      BY <1>1, <2>1, OneQueues DEF Disconnect
  <1>2. CASE RejectDialog
    BY <1>0, <1>2 DEF RejectDialog
  <1>3. ASSUME NEW side \in Sides, RefreshPane(side)
        PROVE  \E ops \in Seq(Ops) : Enqueue(ops) /\ Calm(ops) /\ Harmless(ops)
    BY <1>3, RefreshQueues DEF RefreshPane, Types, PathTypes
  <1>4. ASSUME NEW side \in Sides, NEW dir \in Dirs, OpenDirectory(side, dir)
        PROVE  \E ops \in Seq(Ops) : Enqueue(ops) /\ Calm(ops) /\ Harmless(ops)
    <2>1. CASE side = "local"
      BY <1>4, <2>1, RefreshQueues DEF OpenDirectory
    <2>2. CASE side = "remote"
      <3>1. [kind |-> "open", dir |-> dir] \in Ops
        BY OpsMade
      <3>2. connected /\ Enqueue(<<[kind |-> "open", dir |-> dir]>>)
        BY <1>4, <2>2 DEF OpenDirectory
      <3>. QED
        BY <3>1, <3>2, OneQueues
    <2>. QED
      BY <2>1, <2>2 DEF Sides
  <1>5. ASSUME NEW side \in Sides, NEW delta \in {-1, 1}, Navigate(side, delta)
        PROVE  \E ops \in Seq(Ops) : Enqueue(ops) /\ Calm(ops) /\ Harmless(ops)
    <2>. DEFINE dir == history[side].list[history[side].index + delta]
    <2>1. history[side].list \in Seq(Dirs)
      BY <1>5 DEF Types, PathTypes
    <2>2. dir \in Dirs /\ Enqueue(Refresh(side, dir))
      BY <1>5, <2>1 DEF Navigate
    <2>. HIDE DEF dir
    <2>. QED
      BY <1>5, <2>2, RefreshQueues
  <1>6. ASSUME NEW side \in Sides, NEW mode \in {"create", "rename", "delete"},
               NEW rows \in SUBSET DOMAIN model[side].rows, OpenDialog(side, mode, rows)
        PROVE  \E ops \in Seq(Ops) : Enqueue(ops) /\ Calm(ops) /\ Harmless(ops)
    BY <1>0, <1>6 DEF OpenDialog
  <1>7. ASSUME NEW side \in Sides, NEW row \in DOMAIN model[side].rows,
               QueueTransfer(side, row)
        PROVE  \E ops \in Seq(Ops) : Enqueue(ops) /\ Calm(ops) /\ Harmless(ops)
    <2>1. PICK item \in Items(side, {row}), t \in Tasks :
             Enqueue(<<[kind |-> "transfer", side |-> side, item |-> item,
                        into |-> path[Other(side)], task |-> t, moved |-> FALSE]>>)
      BY <1>7 DEF QueueTransfer
    <2>. DEFINE o == [kind |-> "transfer", side |-> side, item |-> item,
                      into |-> path[Other(side)], task |-> t, moved |-> FALSE]
    <2>2. item \in ItemType /\ path[Other(side)] \in Dirs
      BY ItemsTypes DEF Types, PathTypes, Other, Sides
    <2>3. o \in Ops /\ o.kind = "transfer"
      BY <1>7, <2>2 DEF Ops
    <2>4. connected /\ Enqueue(<<o>>)
      BY <1>7, <2>1 DEF QueueTransfer
    <2>. HIDE DEF o
    <2>. QED
      BY <2>3, <2>4, OneQueues
  <1>8. ASSUME NEW t \in Tasks, CancelTransfer(t)
        PROVE  \E ops \in Seq(Ops) : Enqueue(ops) /\ Calm(ops) /\ Harmless(ops)
    BY <1>0, <1>8 DEF CancelTransfer
  <1>. QED
    BY <1>1, <1>2, <1>3, <1>4, <1>5, <1>6, <1>7, <1>8 DEF Quiet

\* What the accepted dialog queues
LEMMA AcceptQueues ==
  ASSUME Types, NEW to \in Names, AcceptDialog(to)
  PROVE  \E ops \in Seq(Ops) :
            /\ Enqueue(ops)
            /\ \A k \in DOMAIN ops :
                 /\ ops[k].kind = dialog.mode /\ ops[k].side = dialog.side
                 /\ ops[k].named = dialog.named
                 /\ IF dialog.mode = "create" THEN dialog.side = "local" \/ connected
                    ELSE ops[k].item \in Items(dialog.side, selection[dialog.side])
  <1>. DEFINE side == dialog.side
              names == {item.name : item \in Items(side, selection[side])}
              created == Change([dir |-> Home, name |-> to], to)
              made(n) == Change([dir |-> model[side].dir, name |-> n], to)
              ops == [k \in 1..Cardinality(names) |-> made(Sorted(names)[k])]
              Good(o) == /\ o.kind = dialog.mode /\ o.side = dialog.side
                         /\ o.named = dialog.named
                         /\ IF dialog.mode = "create" THEN dialog.side = "local" \/ connected
                            ELSE o.item \in Items(dialog.side, selection[dialog.side])
  <1>1. dialog \in Dialogs /\ side \in Sides
    BY DEF AcceptDialog, Types, DialogTypes, Dialogs
  <1>2. /\ created \in Ops /\ ops \in Seq(Ops)
    BY <1>1, AcceptedOps DEF Types
  <1>3. \A n \in names : dialog.mode # "create" => Good(made(n))
    <2>1. \A item \in Items(side, selection[side]) :
            item = [dir |-> model[side].dir, name |-> item.name]
      BY DEF Items
    <2>. QED
      BY <2>1 DEF Change
  <1>4. CASE dialog.mode = "create"
    <2>1. CASE side = "local" \/ connected
      <3>1. Enqueue(<<created>>) /\ Good(created)
        BY <1>4, <2>1 DEF AcceptDialog, Change
      <3>. HIDE DEF created, Good
      <3>2. <<created>> \in Seq(Ops) /\ \A k \in DOMAIN <<created>> : Good(<<created>>[k])
        BY <1>2, <3>1
      <3>. QED
        BY <3>1, <3>2 DEF Good
    <2>2. CASE ~(side = "local" \/ connected)
      <3>1. Enqueue(<<>>) /\ <<>> \in Seq(Ops) /\ DOMAIN <<>> = {}
        BY <1>4, <2>2 DEF AcceptDialog
      <3>. QED
        BY <3>1
    <2>. QED
      BY <2>1, <2>2
  <1>5. CASE dialog.mode # "create"
    <2>1. Enqueue(ops)
      BY <1>5 DEF AcceptDialog
    <2>2. names \in SUBSET Names
      BY <1>1, ItemsTypes DEF ItemType, Types
    <2>3. /\ Cardinality(names) \in Nat
          /\ \A k \in 1..Cardinality(names) : Sorted(names)[k] \in names
      <3>. HIDE DEF names
      <3>. QED
        BY <2>2, SortedRange
    <2>. HIDE DEF names, made, Good
    <2>4. \A k \in DOMAIN ops : Good(ops[k])
      BY <1>3, <1>5, <2>3
    <2>. HIDE DEF ops
    <2>. QED
      BY <1>2, <2>1, <2>4 DEF Good
  <1>. QED
    BY <1>4, <1>5

LEMMA TypesUser ==
  ASSUME Types, User
  PROVE  Types'
  <1>1. ASSUME NEW host \in Servers, NEW dir \in Dirs, NEW local \in Dirs,
               Connect(host, dir, local) PROVE Types'
    <2>1. PathTypes'
      <3>1. SetPath("local", local) \/ UNCHANGED <<path, history>>
        BY <1>1 DEF Connect
      <3>2. CASE SetPath("local", local)
        BY <1>1, <3>2, SetPathTypes DEF Types, Sides
      <3>3. CASE UNCHANGED <<path, history>>
        BY <3>3 DEF Types, PathTypes
      <3>. QED
        BY <3>1, <3>2, <3>3
    <2>2. DialogTypes'
      BY <1>1 DEF Types, DialogTypes, Connect, dialogs
    <2>3. QueueType'
      <3>. DEFINE connect == [kind |-> "connect", host |-> host, trust |-> NoServer]
      <3>1. <<connect>> \in Seq(Ops) /\ <<List("local", local), connect>> \in Seq(Ops)
        BY <1>1, OpsMade DEF Sides
      <3>2. Enqueue(<<connect>>) \/ Enqueue(<<List("local", local), connect>>)
        BY <1>1 DEF Connect
      <3>. QED
        BY <3>1, <3>2, EnqueueTypes DEF Types
    <2>4. CountTypes'
      BY <1>1, SftpAssumption
      DEF Types, CountTypes, Connect, Called, Free, dialogs
    <2>5. FilesTypes' /\ PaneTypes' /\ SignalTypes' /\ WorkerTypes' /\ TransferTypes'
      BY <1>1
      DEF Types, FilesTypes, PaneTypes, SignalTypes, WorkerTypes,
          TransferTypes, Connect, Called, Free, panes, worker, tasks
    <2>. QED
      BY <2>1, <2>2, <2>3, <2>4, <2>5 DEF Types
  <1>2. ASSUME Disconnect PROVE Types'
    <2>1. QueueType'
      <3>1. Quiet
        BY <1>2 DEF Quiet
      <3>. QED
        BY <3>1, QuietQueues, EnqueueTypes DEF Types
    <2>2. CountTypes'
      BY <1>2, SftpAssumption
      DEF Types, CountTypes, Disconnect, Called, Free, dialogs
    <2>3. FilesTypes' /\ PathTypes' /\ PaneTypes' /\ DialogTypes' /\ SignalTypes' /\ WorkerTypes' /\ TransferTypes'
      BY <1>2
      DEF Types, FilesTypes, PathTypes, PaneTypes, DialogTypes, SignalTypes,
          WorkerTypes, TransferTypes, Disconnect, Called, Free, panes,
          dialogs, pool, worker, tasks
    <2>. QED
      BY <2>1, <2>2, <2>3 DEF Types
  <1>3. ASSUME NEW accepted \in BOOLEAN,
               AnswerHostKey(accepted) PROVE Types'
    <2>1. DialogTypes'
      BY <1>3 DEF Types, DialogTypes, AnswerHostKey, tasks
    <2>2. QueueType'
      <3>1. CASE accepted /\ hostKey # NoServer /\ wanted # NoWish
        <4>1. <<[kind |-> "connect", host |-> wanted.host, trust |-> hostKey]>> \in Seq(Ops)
          BY <3>1, OpsMade DEF Types, DialogTypes, WorkerTypes
        <4>. QED
          BY <1>3, <3>1, <4>1, EnqueueTypes DEF AnswerHostKey, Types
      <3>2. CASE ~(accepted /\ hostKey # NoServer /\ wanted # NoWish)
        BY <1>3, <3>2 DEF AnswerHostKey, Types, QueueType
      <3>. QED
        BY <3>1, <3>2
    <2>3. CountTypes'
      BY <1>3 DEF Types, CountTypes, AnswerHostKey, tasks
    <2>4. FilesTypes' /\ PathTypes' /\ PaneTypes' /\ SignalTypes' /\ WorkerTypes' /\ TransferTypes'
      BY <1>3
      DEF Types, FilesTypes, PathTypes, PaneTypes, SignalTypes, WorkerTypes,
          TransferTypes, AnswerHostKey, panes, dialogs, pool, worker, tasks
    <2>. QED
      BY <2>1, <2>2, <2>3, <2>4 DEF Types
  <1>4. ASSUME NEW side \in Sides,
               RefreshPane(side) PROVE Types'
    <2>1. PaneTypes'
      BY <1>4 DEF Types, PaneTypes, RefreshPane
    <2>2. QueueType'
      <3>1. Quiet
        BY <1>4 DEF Quiet
      <3>. QED
        BY <3>1, QuietQueues, EnqueueTypes DEF Types
    <2>3. CountTypes'
      BY <1>4, SftpAssumption
      DEF Types, CountTypes, RefreshPane, Called, Free, dialogs
    <2>4. FilesTypes' /\ PathTypes' /\ DialogTypes' /\ SignalTypes' /\ WorkerTypes' /\ TransferTypes'
      BY <1>4
      DEF Types, FilesTypes, PathTypes, DialogTypes, SignalTypes, WorkerTypes,
          TransferTypes, RefreshPane, Called, Free, panes, dialogs, pool,
          worker, tasks
    <2>. QED
      BY <2>1, <2>2, <2>3, <2>4 DEF Types
  <1>5. ASSUME NEW side \in Sides, NEW dir \in Dirs,
               OpenDirectory(side, dir) PROVE Types'
    <2>1. PathTypes'
      BY <1>5, SetPathTypes DEF Types, PathTypes, OpenDirectory
    <2>2. PaneTypes'
      BY <1>5 DEF Types, PaneTypes, OpenDirectory
    <2>3. QueueType'
      <3>1. Quiet
        BY <1>5 DEF Quiet
      <3>. QED
        BY <3>1, QuietQueues, EnqueueTypes DEF Types
    <2>4. CountTypes'
      BY <1>5, SftpAssumption
      DEF Types, CountTypes, OpenDirectory, Called, Free, dialogs
    <2>5. FilesTypes' /\ DialogTypes' /\ SignalTypes' /\ WorkerTypes' /\ TransferTypes'
      BY <1>5
      DEF Types, FilesTypes, DialogTypes, SignalTypes, WorkerTypes,
          TransferTypes, OpenDirectory, Called, Free, panes, dialogs, pool,
          worker, tasks
    <2>. QED
      BY <2>1, <2>2, <2>3, <2>4, <2>5 DEF Types
  <1>6. ASSUME NEW side \in Sides, NEW delta \in {-1, 1},
               Navigate(side, delta) PROVE Types'
    <2>1. PathTypes'
      <3>. DEFINE index == history[side].index + delta
      <3>1. /\ index \in DOMAIN history[side].list /\ history[side].list \in Seq(Dirs)
            /\ history[side].index \in Nat
        BY <1>6 DEF Navigate, Types, PathTypes
      <3>2. index \in Nat /\ history[side].list[index] \in Dirs
        BY <3>1
      <3>3. /\ path' = [path EXCEPT ![side] = history[side].list[index]]
            /\ history' = [history EXCEPT ![side].index = index]
        BY <1>6 DEF Navigate
      <3>. HIDE DEF index
      <3>. QED
        BY <3>1, <3>3 DEF Types, PathTypes
    <2>2. PaneTypes'
      BY <1>6 DEF Types, PaneTypes, Navigate
    <2>3. QueueType'
      <3>1. Quiet
        BY <1>6 DEF Quiet
      <3>. QED
        BY <3>1, QuietQueues, EnqueueTypes DEF Types
    <2>4. CountTypes'
      BY <1>6, SftpAssumption
      DEF Types, CountTypes, Navigate, Called, Free, dialogs
    <2>5. FilesTypes' /\ DialogTypes' /\ SignalTypes' /\ WorkerTypes' /\ TransferTypes'
      BY <1>6
      DEF Types, FilesTypes, DialogTypes, SignalTypes, WorkerTypes,
          TransferTypes, Navigate, Called, Free, panes, dialogs, pool, worker,
          tasks
    <2>. QED
      BY <2>1, <2>2, <2>3, <2>4, <2>5 DEF Types
  <1>7. ASSUME NEW side \in Sides, NEW mode \in {"create", "rename", "delete"},
               NEW rows \in SUBSET DOMAIN model[side].rows,
               OpenDialog(side, mode, rows) PROVE Types'
    <2>1. PaneTypes'
      BY <1>7, ListingTypes DEF Types, PaneTypes, OpenDialog
    <2>2. DialogTypes'
      BY <1>7, ItemsTypes DEF Types, DialogTypes, OpenDialog, Dialogs
    <2>3. CountTypes'
      BY <1>7, SftpAssumption
      DEF Types, CountTypes, OpenDialog, Called, Free, panes, dialogs, pool,
          tasks
    <2>4. FilesTypes' /\ PathTypes' /\ QueueType' /\ SignalTypes' /\ WorkerTypes' /\ TransferTypes'
      BY <1>7
      DEF Types, FilesTypes, PathTypes, QueueType, SignalTypes, WorkerTypes,
          TransferTypes, OpenDialog, Called, Free, panes, dialogs, pool,
          worker, tasks
    <2>. QED
      BY <2>1, <2>2, <2>3, <2>4 DEF Types
  <1>8. ASSUME NEW side \in Sides, NEW row \in DOMAIN model[side].rows,
               QueueTransfer(side, row) PROVE Types'
    <2>1. QueueType'
      <3>1. Quiet
        BY <1>8 DEF Quiet
      <3>. QED
        BY <3>1, QuietQueues, EnqueueTypes DEF Types
    <2>2. TransferTypes'
      BY <1>8 DEF Types, TransferTypes, QueueTransfer
    <2>3. CountTypes'
      BY <1>8, SftpAssumption
      DEF Types, CountTypes, QueueTransfer, Called, Free, dialogs
    <2>4. FilesTypes' /\ PathTypes' /\ PaneTypes' /\ DialogTypes' /\ SignalTypes' /\ WorkerTypes'
      BY <1>8
      DEF Types, FilesTypes, PathTypes, PaneTypes, DialogTypes, SignalTypes,
          WorkerTypes, QueueTransfer, Called, Free, panes, dialogs, pool,
          worker, tasks
    <2>. QED
      BY <2>1, <2>2, <2>3, <2>4 DEF Types
  <1>9. ASSUME NEW to \in Names,
               AcceptDialog(to) PROVE Types'
    <2>1. PaneTypes'
      BY <1>9 DEF Types, PaneTypes, AcceptDialog
    <2>2. DialogTypes'
      BY <1>9 DEF Types, DialogTypes, AcceptDialog
    <2>3. QueueType'
      BY <1>9, AcceptQueues, EnqueueTypes DEF Types
    <2>4. CountTypes'
      BY <1>9
      DEF Types, CountTypes, AcceptDialog, Called, panes, dialogs, pool, tasks
    <2>5. FilesTypes' /\ PathTypes' /\ SignalTypes' /\ WorkerTypes' /\ TransferTypes'
      BY <1>9
      DEF Types, FilesTypes, PathTypes, SignalTypes, WorkerTypes,
          TransferTypes, AcceptDialog, Called, panes, dialogs, pool, worker,
          tasks
    <2>. QED
      BY <2>1, <2>2, <2>3, <2>4, <2>5 DEF Types
  <1>10. ASSUME RejectDialog PROVE Types'
    <2>1. DialogTypes'
      BY <1>10 DEF Types, DialogTypes, RejectDialog
    <2>2. CountTypes'
      BY <1>10 DEF Types, CountTypes, RejectDialog, Called, panes
    <2>3. FilesTypes' /\ PathTypes' /\ PaneTypes' /\ QueueType' /\ SignalTypes' /\ WorkerTypes' /\ TransferTypes'
      BY <1>10
      DEF Types, FilesTypes, PathTypes, PaneTypes, QueueType, SignalTypes,
          WorkerTypes, TransferTypes, RejectDialog, Called, panes, dialogs,
          pool, worker, tasks
    <2>. QED
      BY <2>1, <2>2, <2>3 DEF Types
  <1>11. ASSUME NEW t \in Tasks,
               CancelTransfer(t) PROVE Types'
    <2>1. TransferTypes'
      BY <1>11 DEF Types, TransferTypes, CancelTransfer
    <2>2. CountTypes'
      BY <1>11, SftpAssumption
      DEF Types, CountTypes, CancelTransfer, Called, Free, dialogs
    <2>3. FilesTypes' /\ PathTypes' /\ PaneTypes' /\ DialogTypes' /\ QueueType' /\ SignalTypes' /\ WorkerTypes'
      BY <1>11
      DEF Types, FilesTypes, PathTypes, PaneTypes, DialogTypes, QueueType,
          SignalTypes, WorkerTypes, CancelTransfer, Called, Free, panes,
          dialogs, pool, worker, tasks
    <2>. QED
      BY <2>1, <2>2, <2>3 DEF Types
  <1>. QED
    BY <1>1, <1>2, <1>3, <1>4, <1>5, <1>6, <1>7, <1>8, <1>9, <1>10, <1>11
    DEF User

LEMMA TypesWorker ==
  ASSUME Types, Worker
  PROVE  Types'
  <1>1. ASSUME Take PROVE Types'
    <2>1. QueueType'
      BY <1>1 DEF Types, QueueType, Take
    <2>2. SignalTypes'
      <3>1. Head(queue) \in Ops
        BY <1>1 DEF Take, Types, QueueType
      <3>2. [op |-> Head(queue), outcome |-> "cancelled", listing |-> Blank] \in Signals
        BY <3>1, SignalsMade, BlankListing
      <3>3. \/ posted' = Append(posted, [op |-> Head(queue), outcome |-> "cancelled",
                                         listing |-> Blank])
               /\ running' = running
            \/ running' = Head(queue) /\ posted' = posted
        BY <1>1 DEF Take
      <3>. QED
        BY <3>1, <3>2, <3>3 DEF Types, SignalTypes
    <2>3. CountTypes'
      BY <1>1 DEF Types, CountTypes, Take, Gui, dialogs
    <2>4. FilesTypes' /\ PathTypes' /\ PaneTypes' /\ DialogTypes' /\ WorkerTypes' /\ TransferTypes'
      BY <1>1
      DEF Types, FilesTypes, PathTypes, PaneTypes, DialogTypes, WorkerTypes,
          TransferTypes, Take, Gui, panes, dialogs, pool, worker, tasks
    <2>. QED
      BY <2>1, <2>2, <2>3, <2>4 DEF Types
  <1>2. ASSUME DoConnect PROVE Types'
    <2>1. SignalTypes'
      BY <1>2, SucceedsTypes, FailsTypes DEF Types, DoConnect, Does
    <2>2. WorkerTypes'
      BY <1>2, OpTypes DEF Types, WorkerTypes, DoConnect, Does, SignalTypes
    <2>3. CountTypes'
      BY <1>2, SucceedsTypes, FailsTypes
      DEF Types, CountTypes, DoConnect, Does, Gui, dialogs
    <2>4. FilesTypes' /\ PathTypes' /\ PaneTypes' /\ DialogTypes' /\ QueueType' /\ TransferTypes'
      BY <1>2
      DEF Types, FilesTypes, PathTypes, PaneTypes, DialogTypes, QueueType,
          TransferTypes, DoConnect, Does, Gui, panes, dialogs, pool, worker,
          tasks
    <2>. QED
      BY <2>1, <2>2, <2>3, <2>4 DEF Types
  <1>3. ASSUME DoDisconnect PROVE Types'
    <2>1. SignalTypes'
      BY <1>3, SucceedsTypes, FailsTypes DEF Types, DoDisconnect, Does
    <2>2. WorkerTypes'
      BY <1>3 DEF Types, WorkerTypes, DoDisconnect
    <2>3. CountTypes'
      BY <1>3, SucceedsTypes, FailsTypes
      DEF Types, CountTypes, DoDisconnect, Does, Gui, dialogs
    <2>4. FilesTypes' /\ PathTypes' /\ PaneTypes' /\ DialogTypes' /\ QueueType' /\ TransferTypes'
      BY <1>3
      DEF Types, FilesTypes, PathTypes, PaneTypes, DialogTypes, QueueType,
          TransferTypes, DoDisconnect, Does, Gui, panes, dialogs, pool,
          worker, tasks
    <2>. QED
      BY <2>1, <2>2, <2>3, <2>4 DEF Types
  <1>4. ASSUME DoList PROVE Types'
    <2>1. SignalTypes'
      <3>. DEFINE listing == [place |-> Place(running.side), dir |-> running.dir,
                                rows |-> Rows(Place(running.side), running.dir)]
      <3>1. running # NoOp /\ running.side \in Sides /\ running.dir \in Dirs
        BY <1>4, OpTypes DEF DoList, Does, Types, SignalTypes
      <3>2. CASE Place(running.side) # NoServer /\ Post("ok", listing)
        <4>1. Place(running.side) \in Places
          BY <3>2 DEF Types, WorkerTypes, Place, Places
        <4>2. listing \in Listings
          BY <3>1, <4>1 DEF Types, FilesTypes, Rows, Listings
        <4>. HIDE DEF listing
        <4>. QED
          BY <3>1, <3>2, <4>2, PostTypes DEF Types
      <3>3. CASE Fails(Place(running.side) = NoServer)
        BY <3>1, <3>3, FailsTypes DEF Types
      <3>. QED
        BY <1>4, <3>2, <3>3 DEF DoList
    <2>2. CountTypes'
      BY <1>4, FailsTypes DEF Types, CountTypes, DoList, Does, Gui, dialogs
    <2>3. FilesTypes' /\ PathTypes' /\ PaneTypes' /\ DialogTypes' /\ QueueType' /\ WorkerTypes' /\ TransferTypes'
      BY <1>4
      DEF Types, FilesTypes, PathTypes, PaneTypes, DialogTypes, QueueType,
          WorkerTypes, TransferTypes, DoList, Does, Gui, panes, dialogs, pool,
          worker, tasks
    <2>. QED
      BY <2>1, <2>2, <2>3 DEF Types
  <1>5. ASSUME DoOpen PROVE Types'
    <2>1. SignalTypes'
      BY <1>5, SucceedsTypes, FailsTypes DEF Types, DoOpen, Does
    <2>2. CountTypes'
      BY <1>5, SucceedsTypes, FailsTypes
      DEF Types, CountTypes, DoOpen, Does, Gui, dialogs
    <2>3. FilesTypes' /\ PathTypes' /\ PaneTypes' /\ DialogTypes' /\ QueueType' /\ WorkerTypes' /\ TransferTypes'
      BY <1>5
      DEF Types, FilesTypes, PathTypes, PaneTypes, DialogTypes, QueueType,
          WorkerTypes, TransferTypes, DoOpen, Does, Gui, panes, dialogs, pool,
          worker, tasks
    <2>. QED
      BY <2>1, <2>2, <2>3 DEF Types
  <1>6. ASSUME DoChange PROVE Types'
    <2>1. FilesTypes'
      <3>1. /\ running \in Ops /\ running.kind \in {"create", "delete", "rename"}
            /\ running.side \in Sides /\ running.to \in Names /\ ChangedDir \in Dirs
        BY <1>6, OpTypes
        DEF DoChange, Does, Types, SignalTypes, PathTypes, ChangedDir
      <3>2. ASSUME Place(running.side) # NoServer
            PROVE  /\ Place(running.side) \in Places
                   /\ Changed(files[Place(running.side)][ChangedDir]) \subseteq Names
        BY <3>1, <3>2
        DEF Place, Places, Types, FilesTypes, WorkerTypes, Changed
      <3>3. \/ files' = files
            \/ /\ Place(running.side) # NoServer
               /\ files' = [files EXCEPT ![Place(running.side)][ChangedDir] = Changed(@)]
        BY <1>6 DEF DoChange
      <3>. QED
        BY <3>1, <3>2, <3>3 DEF Types, FilesTypes
    <2>2. SignalTypes'
      BY <1>6, SucceedsTypes, FailsTypes DEF Types, DoChange, Does
    <2>3. CountTypes'
      BY <1>6, SucceedsTypes, FailsTypes
      DEF Types, CountTypes, DoChange, Does, Gui, dialogs
    <2>4. PathTypes' /\ PaneTypes' /\ DialogTypes' /\ QueueType' /\ WorkerTypes' /\ TransferTypes'
      BY <1>6
      DEF Types, PathTypes, PaneTypes, DialogTypes, QueueType, WorkerTypes,
          TransferTypes, DoChange, Does, Gui, panes, dialogs, pool, worker,
          tasks
    <2>. QED
      BY <2>1, <2>2, <2>3, <2>4 DEF Types
  <1>7. ASSUME Progress PROVE Types'
    <2>1. SignalTypes'
      <3>1. running \in Ops /\ running.kind = "transfer"
        BY <1>7 DEF Progress, Does, Types, SignalTypes
      <3>2. /\ [running EXCEPT !.moved = TRUE] \in Ops
            /\ [op |-> running, outcome |-> "progress", listing |-> Blank] \in Signals
        BY <3>1, OpTypes, SignalsMade, BlankListing
      <3>. QED
        BY <1>7, <3>2 DEF Progress, Types, SignalTypes
    <2>2. CountTypes'
      BY <1>7 DEF Types, CountTypes, Progress, Does, Gui, dialogs
    <2>3. FilesTypes' /\ PathTypes' /\ PaneTypes' /\ DialogTypes' /\ QueueType' /\ WorkerTypes' /\ TransferTypes'
      BY <1>7
      DEF Types, FilesTypes, PathTypes, PaneTypes, DialogTypes, QueueType,
          WorkerTypes, TransferTypes, Progress, Does, Gui, panes, dialogs,
          pool, worker, tasks
    <2>. QED
      BY <2>1, <2>2, <2>3 DEF Types
  <1>8. ASSUME DoTransfer PROVE Types'
    <2>1. FilesTypes'
      <3>. DEFINE to == Place(Other(running.side))
      <3>1. /\ running \in Ops /\ running.kind = "transfer" /\ running.side \in Sides
            /\ running.into \in Dirs /\ running.item.name \in Names
        BY <1>8, OpTypes DEF DoTransfer, Does, Types, SignalTypes
      <3>2. service # NoServer => to \in Places
        BY DEF Place, Places, Types, WorkerTypes
      <3>3. \/ files' = files
            \/ /\ service # NoServer
               /\ files' = [files EXCEPT ![to][running.into] = @ \cup {running.item.name}]
        BY <1>8 DEF DoTransfer
      <3>. QED
        BY <3>1, <3>2, <3>3 DEF Types, FilesTypes
    <2>2. SignalTypes'
      <3>1. running # NoOp
        BY <1>8 DEF DoTransfer, Does
      <3>2. Succeeds \/ Fails(FALSE) \/ Fails(TRUE) \/ Post("cancelled", Blank)
        BY <1>8 DEF DoTransfer
      <3>. QED
        BY <3>1, <3>2, SucceedsTypes, FailsTypes, PostTypes, BlankListing
        DEF Types
    <2>3. CountTypes'
      BY <1>8, SucceedsTypes, FailsTypes
      DEF Types, CountTypes, DoTransfer, Does, Gui, dialogs
    <2>4. PathTypes' /\ PaneTypes' /\ DialogTypes' /\ QueueType' /\ WorkerTypes' /\ TransferTypes'
      BY <1>8
      DEF Types, PathTypes, PaneTypes, DialogTypes, QueueType, WorkerTypes,
          TransferTypes, DoTransfer, Does, Gui, panes, dialogs, pool, worker,
          tasks
    <2>. QED
      BY <2>1, <2>2, <2>3, <2>4 DEF Types
  <1>. QED
    BY <1>1, <1>2, <1>3, <1>4, <1>5, <1>6, <1>7, <1>8 DEF Worker

LEMMA TypesDeliver ==
  ASSUME Types, Deliver
  PROVE  Types'
  <1>1. ASSUME Connected PROVE Types'
    <2>1. PathTypes'
      <3>1. Home \in Dirs /\ <<Home>> \in Seq(Dirs) /\ DOMAIN <<Home>> = 1..1
        BY SftpAssumption
      <3>2. /\ path' = [path EXCEPT !["remote"] = Home]
            /\ history' = [history EXCEPT !["remote"] = [list |-> <<Home>>, index |-> 1]]
        BY <1>1 DEF Connected
      <3>. QED
        BY <3>1, <3>2 DEF Types, PathTypes, Sides
    <2>2. DialogTypes'
      BY <1>1
      DEF Types, DialogTypes, Connected, Delivers, panes, dialogs, pool,
          worker, tasks
    <2>3. QueueType'
      <3>1. <<List("remote", Home)>> \in Seq(Ops)
        BY OpsMade, SftpAssumption DEF Sides
      <3>2. wanted # NoWish => <<[kind |-> "open", dir |-> wanted.dir]>> \in Seq(Ops)
        BY OpsMade DEF Types, DialogTypes
      <3>3. \/ Enqueue(<<List("remote", Home)>>)
            \/ wanted # NoWish /\ Enqueue(<<[kind |-> "open", dir |-> wanted.dir]>>)
        BY <1>1 DEF Connected
      <3>. QED
        BY <3>1, <3>2, <3>3, EnqueueTypes DEF Types
    <2>4. SignalTypes'
      BY <1>1 DEF Types, SignalTypes, Connected, Delivers
    <2>5. CountTypes'
      BY <1>1
      DEF Types, CountTypes, Connected, Delivers, panes, dialogs, pool,
          worker, tasks
    <2>6. FilesTypes' /\ PaneTypes' /\ WorkerTypes' /\ TransferTypes'
      BY <1>1
      DEF Types, FilesTypes, PaneTypes, WorkerTypes, TransferTypes, Connected,
          Delivers, panes, dialogs, pool, worker, tasks
    <2>. QED
      BY <2>1, <2>2, <2>3, <2>4, <2>5, <2>6 DEF Types
  <1>2. ASSUME ConnectFailed PROVE Types'
    <2>1. PaneTypes'
      BY <1>2, SetItemsTypes, BlankListing DEF Types, ConnectFailed, Sides
    <2>2. DialogTypes'
      BY <1>2
      DEF Types, DialogTypes, ConnectFailed, Delivers, panes, dialogs, pool,
          worker, tasks
    <2>3. SignalTypes'
      BY <1>2 DEF Types, SignalTypes, ConnectFailed, Delivers
    <2>4. CountTypes'
      BY <1>2
      DEF Types, CountTypes, ConnectFailed, Delivers, panes, dialogs, pool,
          worker, tasks
    <2>5. FilesTypes' /\ PathTypes' /\ QueueType' /\ WorkerTypes' /\ TransferTypes'
      BY <1>2
      DEF Types, FilesTypes, PathTypes, QueueType, WorkerTypes, TransferTypes,
          ConnectFailed, Delivers, panes, dialogs, pool, worker, tasks
    <2>. QED
      BY <2>1, <2>2, <2>3, <2>4, <2>5 DEF Types
  <1>3. ASSUME Disconnected PROVE Types'
    <2>1. PaneTypes'
      BY <1>3, SetItemsTypes, BlankListing DEF Types, Disconnected, Sides
    <2>2. SignalTypes'
      BY <1>3 DEF Types, SignalTypes, Disconnected, Delivers
    <2>3. CountTypes'
      BY <1>3
      DEF Types, CountTypes, Disconnected, Delivers, panes, dialogs, pool,
          worker, tasks
    <2>4. FilesTypes' /\ PathTypes' /\ DialogTypes' /\ QueueType' /\ WorkerTypes' /\ TransferTypes'
      BY <1>3
      DEF Types, FilesTypes, PathTypes, DialogTypes, QueueType, WorkerTypes,
          TransferTypes, Disconnected, Delivers, panes, dialogs, pool, worker,
          tasks
    <2>. QED
      BY <2>1, <2>2, <2>3, <2>4 DEF Types
  <1>4. ASSUME Listed PROVE Types'
    <2>1. PaneTypes'
      BY <1>4, SetItemsTypes, OpTypes, DeliveredTypes
      DEF Types, PaneTypes, Listed, Delivers, panes, dialogs, pool, worker,
          tasks
    <2>2. SignalTypes'
      BY <1>4 DEF Types, SignalTypes, Listed, Delivers
    <2>3. CountTypes'
      BY <1>4
      DEF Types, CountTypes, Listed, Delivers, panes, dialogs, pool, worker,
          tasks
    <2>4. FilesTypes' /\ PathTypes' /\ DialogTypes' /\ QueueType' /\ WorkerTypes' /\ TransferTypes'
      BY <1>4
      DEF Types, FilesTypes, PathTypes, DialogTypes, QueueType, WorkerTypes,
          TransferTypes, Listed, Delivers, panes, dialogs, pool, worker, tasks
    <2>. QED
      BY <2>1, <2>2, <2>3, <2>4 DEF Types
  <1>5. ASSUME Opened PROVE Types'
    <2>1. PathTypes'
      BY <1>5, SetPathTypes, OpTypes, DeliveredTypes
      DEF Types, Opened, Delivers, Sides, tasks
    <2>2. QueueType'
      BY <1>5, RefreshOps, EnqueueTypes, OpTypes, DeliveredTypes
      DEF Types, Opened, Delivers, Sides, worker, tasks
    <2>3. SignalTypes'
      BY <1>5 DEF Types, SignalTypes, Opened, Delivers
    <2>4. CountTypes'
      BY <1>5
      DEF Types, CountTypes, Opened, Delivers, panes, dialogs, pool, worker,
          tasks
    <2>5. FilesTypes' /\ PaneTypes' /\ DialogTypes' /\ WorkerTypes' /\ TransferTypes'
      BY <1>5
      DEF Types, FilesTypes, PaneTypes, DialogTypes, WorkerTypes,
          TransferTypes, Opened, Delivers, panes, dialogs, pool, worker, tasks
    <2>. QED
      BY <2>1, <2>2, <2>3, <2>4, <2>5 DEF Types
  <1>6. ASSUME Mutated PROVE Types'
    <2>1. QueueType'
      BY <1>6, RefreshOps, EnqueueTypes, OpTypes, DeliveredTypes
      DEF Types, QueueType, Mutated, Delivers, Sides, PathTypes, RefreshAfter,
          pool, worker
    <2>2. SignalTypes'
      BY <1>6 DEF Types, SignalTypes, Mutated, Delivers
    <2>3. CountTypes'
      BY <1>6 DEF Types, CountTypes, Mutated, Delivers, panes
    <2>4. FilesTypes' /\ PathTypes' /\ PaneTypes' /\ DialogTypes' /\ WorkerTypes' /\ TransferTypes'
      BY <1>6
      DEF Types, FilesTypes, PathTypes, PaneTypes, DialogTypes, WorkerTypes,
          TransferTypes, Mutated, Delivers, panes, dialogs, pool, worker,
          tasks
    <2>. QED
      BY <2>1, <2>2, <2>3, <2>4 DEF Types
  <1>7. ASSUME Transferred PROVE Types'
    <2>1. QueueType'
      <3>1. /\ Refresh("local", path["local"]) \in Seq(Ops)
            /\ Refresh("remote", path["remote"]) \in Seq(Ops)
        BY RefreshOps DEF Types, PathTypes, Sides
      <3>2. Refresh("local", path["local"]) \o Refresh("remote", path["remote"]) \in Seq(Ops)
        BY <3>1
      <3>. QED
        BY <1>7, <3>2, EnqueueTypes DEF Transferred, Types
    <2>2. SignalTypes'
      BY <1>7 DEF Types, SignalTypes, Transferred, Delivers
    <2>3. TransferTypes'
      BY <1>7 DEF Types, TransferTypes, Transferred, Delivers
    <2>4. CountTypes'
      BY <1>7 DEF Types, CountTypes, Transferred, Delivers, panes
    <2>5. FilesTypes' /\ PathTypes' /\ PaneTypes' /\ DialogTypes' /\ WorkerTypes'
      BY <1>7
      DEF Types, FilesTypes, PathTypes, PaneTypes, DialogTypes, WorkerTypes,
          Transferred, Delivers, panes, dialogs, pool, worker, tasks
    <2>. QED
      BY <2>1, <2>2, <2>3, <2>4, <2>5 DEF Types
  <1>8. ASSUME Progressed PROVE Types'
    <2>1. SignalTypes'
      BY <1>8 DEF Types, SignalTypes, Progressed, Delivers
    <2>2. TransferTypes'
      BY <1>8 DEF Types, TransferTypes, Progressed, Delivers
    <2>3. CountTypes'
      BY <1>8 DEF Types, CountTypes, Progressed, Delivers, panes
    <2>4. FilesTypes' /\ PathTypes' /\ PaneTypes' /\ DialogTypes' /\ QueueType' /\ WorkerTypes'
      BY <1>8
      DEF Types, FilesTypes, PathTypes, PaneTypes, DialogTypes, QueueType,
          WorkerTypes, Progressed, Delivers, panes, dialogs, pool, worker,
          tasks
    <2>. QED
      BY <2>1, <2>2, <2>3, <2>4 DEF Types
  <1>9. ASSUME TransferFailed PROVE Types'
    <2>1. SignalTypes'
      BY <1>9 DEF Types, SignalTypes, TransferFailed, Delivers
    <2>2. TransferTypes'
      BY <1>9 DEF Types, TransferTypes, TransferFailed, Delivers
    <2>3. CountTypes'
      BY <1>9 DEF Types, CountTypes, TransferFailed, Delivers, Other, Sides
    <2>4. FilesTypes' /\ PathTypes' /\ PaneTypes' /\ DialogTypes' /\ QueueType' /\ WorkerTypes'
      BY <1>9
      DEF Types, FilesTypes, PathTypes, PaneTypes, DialogTypes, QueueType,
          WorkerTypes, TransferFailed, Delivers, panes, dialogs, pool, worker,
          tasks
    <2>. QED
      BY <2>1, <2>2, <2>3, <2>4 DEF Types
  <1>10. ASSUME Failed PROVE Types'
    <2>1. SignalTypes'
      BY <1>10 DEF Types, SignalTypes, Failed, Delivers
    <2>2. CountTypes'
      BY <1>10, OpTypes, DeliveredTypes
      DEF Types, CountTypes, Failed, Delivers, Sides, panes
    <2>3. FilesTypes' /\ PathTypes' /\ PaneTypes' /\ DialogTypes' /\ QueueType' /\ WorkerTypes' /\ TransferTypes'
      BY <1>10
      DEF Types, FilesTypes, PathTypes, PaneTypes, DialogTypes, QueueType,
          WorkerTypes, TransferTypes, Failed, Delivers, panes, dialogs, pool,
          worker, tasks
    <2>. QED
      BY <2>1, <2>2, <2>3 DEF Types
  <1>. QED
    BY <1>1, <1>2, <1>3, <1>4, <1>5, <1>6, <1>7, <1>8, <1>9, <1>10 DEF Deliver

LEMMA TypesShutdown ==
  ASSUME Types, Shutdown
  PROVE  Types'
  <1>1. QueueType'
    BY DEF QueueType, Shutdown
  <1>2. SignalTypes'
    BY DEF Types, SignalTypes, Shutdown, panes
  <1>3. WorkerTypes'
    BY DEF Types, WorkerTypes, Shutdown, panes
  <1>4. TransferTypes'
    BY DEF Types, TransferTypes, Shutdown, panes
  <1>5. CountTypes'
    <2>1. calls' \in 0..MaxCalls
      BY SftpAssumption DEF Shutdown, Types, CountTypes
    <2>. QED
      BY <2>1 DEF Shutdown, Types, CountTypes, dialogs
  <1>6. FilesTypes' /\ PathTypes' /\ PaneTypes' /\ DialogTypes'
    BY DEF Types, FilesTypes, PathTypes, PaneTypes, DialogTypes, Shutdown,
           panes, dialogs, pool, worker, tasks
  <1>. QED
    BY <1>1, <1>2, <1>3, <1>4, <1>5, <1>6 DEF Types

LEMMA TypesInit == Init => Types
  <1>. SUFFICES ASSUME Init PROVE Types
    OBVIOUS
  <1>1. QueueType
    BY OpsMade, SftpAssumption DEF Init, QueueType, Sides
  <1>2. FilesTypes /\ PathTypes /\ SignalTypes
    BY SftpAssumption DEF Init, FilesTypes, PathTypes, SignalTypes
  <1>3. PaneTypes
    BY BlankListing DEF Init, PaneTypes
  <1>4. DialogTypes /\ WorkerTypes /\ TransferTypes
    BY DEF Init, DialogTypes, WorkerTypes, TransferTypes
  <1>5. CountTypes
    <2>1. MaxCalls \in Nat /\ MaxFailures \in Nat
      BY SftpAssumption
    <2>2. connected \in BOOLEAN /\ hostDialog \in BOOLEAN /\ quit \in BOOLEAN
      BY DEF Init
    <2>3. unsure \subseteq Sides
      BY DEF Init
    <2>4. calls \in 0..MaxCalls /\ failures \in 0..MaxFailures
      BY <2>1 DEF Init
    <2>. QED
      BY <2>2, <2>3, <2>4 DEF CountTypes
  <1>. QED
    BY <1>1, <1>2, <1>3, <1>4, <1>5 DEF Types

LEMMA TypesNext == Types /\ [Next]_vars => Types'
  <1>. SUFFICES ASSUME Types, [Next]_vars PROVE Types'
    OBVIOUS
  <1>1. CASE UNCHANGED vars
    BY <1>1
    DEF Types, FilesTypes, PathTypes, PaneTypes, DialogTypes, QueueType,
        SignalTypes, WorkerTypes, TransferTypes, CountTypes, vars, panes,
        dialogs, pool, worker, tasks
  <1>2. CASE Next
    BY <1>2, TypesUser, TypesWorker, TypesDeliver, TypesShutdown DEF Next
  <1>. QED
    BY <1>1, <1>2

LEMMA TypesAlways == Spec => []Types
  BY TypesInit, TypesNext, PTL DEF Spec

\* Every variable of the client keeps its type: what the pool and the signals
\* hold are operations with all their fields, listings are the names of one
\* directory in order, and selections are rows that are shown.
THEOREM SftpTypeCorrect == Spec => []SftpTypeOK
  BY TypesAlways, TypesAre, PTL

-----------------------------------------------------------------------------
(* Connections *)

\* A listing that will be looked at
IsListing(m) == m.op.kind = "list" /\ m.outcome = "ok"

RemoteListing(m) == IsListing(m) /\ m.op.side = "remote"

\* A connection is being made.
Connecting ==
    \/ hostDialog
    \/ \E i \in DOMAIN queue : queue[i].kind = "connect"
    \/ running # NoOp /\ running.kind = "connect"
    \/ \E i \in DOMAIN posted : posted[i].op.kind = "connect"

\* One connection at a time, and the host key dialog is about one that failed.
OneConnect ==
    ~quit =>
      /\ \A i, j \in DOMAIN queue :
            queue[i].kind = "connect" /\ queue[j].kind = "connect" => i = j
      /\ \A i, j \in DOMAIN posted :
            posted[i].op.kind = "connect" /\ posted[j].op.kind = "connect" => i = j
      /\ \A i \in DOMAIN queue, j \in DOMAIN posted :
            ~(queue[i].kind = "connect" /\ posted[j].op.kind = "connect")
      /\ running # NoOp /\ running.kind = "connect" =>
            /\ \A i \in DOMAIN queue : queue[i].kind # "connect"
            /\ \A i \in DOMAIN posted : posted[i].op.kind # "connect"
      /\ hostDialog =>
            /\ running # NoOp => running.kind # "connect"
            /\ \A i \in DOMAIN queue : queue[i].kind # "connect"
            /\ \A i \in DOMAIN posted : posted[i].op.kind # "connect"

\* While a session is opened, or open and not shown, nothing of a server waits.
NothingOfServer ==
    ~quit /\ (Connecting \/ (~connected /\ service # NoServer)) =>
      /\ ~connected
      /\ \A i \in DOMAIN queue : ~OfServer(queue[i])
      /\ running # NoOp => ~OfServer(running)
      /\ \A i \in DOMAIN posted : ~OfServer(posted[i].op)

ShutDown == quit => queue = <<>>

\* The rows of a pane are of the session, those of the remote pane only while
\* it is shown as connected.
ModelPlaces ==
    ~quit =>
      /\ model["local"] = Blank \/ model["local"].place = Local
      /\ ~connected => model["remote"] = Blank
      /\ model["remote"] # Blank => /\ model["remote"].place \in Servers
                                    /\ service \in {NoServer, model["remote"].place}

\* A signal on its way is of the session.
SignalOk(m) ==
    /\ IsListing(m) =>
         /\ m.listing.dir = m.op.dir
         /\ IF m.op.side = "remote"
            THEN /\ connected
                 /\ m.listing.place \in Servers
                 /\ service \in {NoServer, m.listing.place}
            ELSE m.listing.place = Local
    /\ m.op.kind = "connect" /\ m.outcome = "ok" => service # NoServer
    /\ m.op.kind = "disconnect" => service = NoServer

\* Nothing of a server is listed after the end of its session; and a session
\* that ended under the pane is being reported, or was.
SignalOrder ==
    ~quit =>
      /\ \A i, j \in DOMAIN posted :
            i < j /\ posted[i].op.kind = "disconnect" => ~RemoteListing(posted[j])
      /\ \A i \in DOMAIN posted :
            RemoteListing(posted[i]) /\ service = NoServer =>
              \E j \in DOMAIN posted : j > i /\ posted[j].op.kind = "disconnect"
      /\ connected /\ service = NoServer =>
            "remote" \in unsure
            \/ \E j \in DOMAIN posted : posted[j].op.kind = "disconnect"

Sessions ==
    /\ ModelPlaces
    /\ ~quit => \A i \in DOMAIN posted : SignalOk(posted[i])
    /\ SignalOrder

\* A deletion or a renaming is of what its dialog named.
NamedOk(o) ==
    o.kind \in {"delete", "rename"} =>
      LET place == IF o.side = "local" THEN Local ELSE service IN
      place # NoServer => <<place, o.item.dir, o.item.name>> \in o.named

-----------------------------------------------------------------------------
(* Steps of the pool *)

LEMMA Concatenated ==
  ASSUME NEW S, NEW s \in Seq(S), NEW t \in Seq(S)
  PROVE  /\ \A i \in DOMAIN (s \o t) :
              \/ i \in DOMAIN s /\ (s \o t)[i] = s[i]
              \/ \E k \in DOMAIN t : i = Len(s) + k /\ (s \o t)[i] = t[k]
         /\ \A i \in DOMAIN s : i \in DOMAIN (s \o t) /\ (s \o t)[i] = s[i]
         /\ \A k \in DOMAIN t : Len(s) + k \in DOMAIN (s \o t) /\ (s \o t)[Len(s) + k] = t[k]
         /\ DOMAIN s = 1..Len(s) /\ DOMAIN t = 1..Len(t)
  OBVIOUS

LEMMA Appended ==
  ASSUME NEW S, NEW s \in Seq(S), NEW e \in S
  PROVE  /\ DOMAIN Append(s, e) = DOMAIN s \cup {Len(s) + 1}
         /\ \A i \in DOMAIN s : Append(s, e)[i] = s[i] /\ i < Len(s) + 1 /\ i \in Nat
         /\ Append(s, e)[Len(s) + 1] = e /\ Len(s) \in Nat
  OBVIOUS

LEMMA Shortened ==
  ASSUME NEW S, NEW s \in Seq(S), s # <<>>
  PROVE  /\ 1 \in DOMAIN s /\ Head(s) = s[1]
         /\ \A i \in DOMAIN Tail(s) : i + 1 \in DOMAIN s /\ Tail(s)[i] = s[i + 1] /\ i \in Nat
         /\ \A i \in DOMAIN s : i \in Nat /\ (i = 1 \/ (i - 1 \in DOMAIN Tail(s)
                                                        /\ Tail(s)[i - 1] = s[i]))
  OBVIOUS

ConnectInv == OneConnect /\ NothingOfServer

LEMMA QueueConnect ==
  ASSUME Types, ConnectInv, NEW ops \in Seq(Ops), Calm(ops), Enqueue(ops),
         UNCHANGED <<running, posted, hostDialog, connected, service, quit>>
  PROVE  ConnectInv'
  <1>1. /\ \A i \in DOMAIN queue' :
             \/ i \in DOMAIN queue /\ queue'[i] = queue[i]
             \/ \E k \in DOMAIN ops : queue'[i] = ops[k]
    BY Concatenated DEF Types, QueueType, Enqueue
  <1>2. OneConnect'
    BY <1>1 DEF ConnectInv, OneConnect, Calm
  <1>3. NothingOfServer'
    BY <1>1 DEF ConnectInv, NothingOfServer, Connecting, Calm
  <1>. QED
    BY <1>2, <1>3 DEF ConnectInv

LEMMA TakeConnect ==
  ASSUME Types, ConnectInv, queue # <<>>, running = NoOp, queue' = Tail(queue),
         \/ running' = Head(queue) /\ posted' = posted
         \/ /\ running' = running
            /\ Head(queue).kind # "connect"
            /\ \E m \in Signals : posted' = Append(posted, m) /\ m.op = Head(queue),
         UNCHANGED <<hostDialog, connected, service, quit>>
  PROVE  ConnectInv'
  <1>1. /\ 1 \in DOMAIN queue /\ Head(queue) = queue[1]
        /\ \A i \in DOMAIN queue' : /\ i + 1 \in DOMAIN queue /\ queue'[i] = queue[i + 1]
                                    /\ i + 1 # 1 /\ i \in Nat
    BY Shortened DEF Types, QueueType
  <1>2. CASE running' = Head(queue) /\ posted' = posted
    <2>1. OneConnect'
      BY <1>1, <1>2 DEF ConnectInv, OneConnect
    <2>2. NothingOfServer'
      BY <1>1, <1>2 DEF ConnectInv, NothingOfServer, Connecting
    <2>. QED
      BY <2>1, <2>2 DEF ConnectInv
  <1>3. ASSUME NEW m \in Signals, posted' = Append(posted, m), m.op = Head(queue),
               Head(queue).kind # "connect", running' = running
        PROVE  ConnectInv'
    <2>1. /\ DOMAIN posted' = DOMAIN posted \cup {Len(posted) + 1}
          /\ \A i \in DOMAIN posted : posted'[i] = posted[i]
          /\ posted'[Len(posted) + 1] = m
      BY <1>3, Appended DEF Types, SignalTypes
    <2>2. OneConnect'
      BY <1>1, <1>3, <2>1 DEF ConnectInv, OneConnect
    <2>3. NothingOfServer'
      BY <1>1, <2>1 DEF ConnectInv, NothingOfServer, Connecting
    <2>. QED
      BY <2>2, <2>3 DEF ConnectInv
  <1>. QED
    BY <1>2, <1>3

LEMMA FinishConnect ==
  ASSUME Types, ConnectInv, running # NoOp,
         NEW m \in Signals, posted' = Append(posted, m), m.op = running,
         running' = NoOp \/ (running'.kind = running.kind /\ running.kind = "transfer"),
         service' \in {service, NoServer} \/ running.kind = "connect",
         UNCHANGED <<queue, hostDialog, connected, quit>>
  PROVE  ConnectInv'
  <1>1. /\ DOMAIN posted' = DOMAIN posted \cup {Len(posted) + 1}
        /\ \A i \in DOMAIN posted : posted'[i] = posted[i]
        /\ Len(posted) + 1 \notin DOMAIN posted
        /\ posted'[Len(posted) + 1] = m
    BY Appended DEF Types, SignalTypes
  <1>2. OneConnect'
    BY <1>1 DEF ConnectInv, OneConnect
  <1>3. NothingOfServer'
    BY <1>1 DEF ConnectInv, NothingOfServer, Connecting, OfServer
  <1>. QED
    BY <1>2, <1>3 DEF ConnectInv

LEMMA DeliverConnect ==
  ASSUME Types, ConnectInv, posted # <<>>, posted' = Tail(posted),
         NEW ops \in Seq(Ops), Calm(ops), Enqueue(ops),
         UNCHANGED <<running, hostDialog, service, quit>>,
         connected' = connected
           \/ (~connected' /\ service = NoServer /\ posted[1].op.kind = "disconnect")
  PROVE  ConnectInv'
  <1>1. /\ \A i \in DOMAIN queue' :
             \/ i \in DOMAIN queue /\ queue'[i] = queue[i]
             \/ \E k \in DOMAIN ops : queue'[i] = ops[k]
    BY Concatenated DEF Types, QueueType, Enqueue
  <1>2. /\ 1 \in DOMAIN posted
        /\ \A i \in DOMAIN posted' : i + 1 \in DOMAIN posted /\ posted'[i] = posted[i + 1]
                                     /\ i \in Nat
    BY Shortened DEF Types, SignalTypes
  <1>3. OneConnect'
    BY <1>1, <1>2 DEF ConnectInv, OneConnect, Calm
  <1>4. NothingOfServer'
    BY <1>1, <1>2 DEF ConnectInv, NothingOfServer, Connecting, Calm
  <1>. QED
    BY <1>3, <1>4 DEF ConnectInv

LEMMA UserKeeps ==
  ASSUME User
  PROVE  UNCHANGED <<files, connected, model, running, posted, service, quit, unsure>>
  BY DEF User, Connect, Disconnect, AnswerHostKey, RefreshPane, OpenDirectory,
         Navigate, OpenDialog, QueueTransfer, AcceptDialog, RejectDialog,
         CancelTransfer, Called, Free, panes, dialogs, pool, worker

LEMMA FinishSessions ==
  ASSUME Types, Sessions, ConnectInv, NEW m \in Signals, posted' = Append(posted, m),
         UNCHANGED <<model, connected, unsure, quit>>,
         ~quit => SignalOk(m)',
         RemoteListing(m) => service # NoServer,
         \/ service' = service /\ m.op.kind # "disconnect"
         \/ service' = NoServer /\ m.op.kind = "disconnect"
         \/ Connecting /\ m.op.kind = "connect",
         ~quit /\ m.op.kind \in {"connect", "disconnect"} =>
            \A i \in DOMAIN posted : posted[i].op.kind # "connect"
  PROVE  Sessions'
  <1>1. /\ DOMAIN posted' = DOMAIN posted \cup {Len(posted) + 1}
        /\ \A i \in DOMAIN posted : posted'[i] = posted[i] /\ i < Len(posted) + 1 /\ i \in Nat
        /\ posted'[Len(posted) + 1] = m /\ Len(posted) \in Nat
    BY Appended DEF Types, SignalTypes
  <1>2. ~quit /\ Connecting => /\ ~connected
                               /\ \A i \in DOMAIN posted : ~OfServer(posted[i].op)
    BY DEF ConnectInv, NothingOfServer
  <1>3. ModelPlaces'
    BY <1>2 DEF Sessions, ModelPlaces
  <1>4. ~quit => \A i \in DOMAIN posted : SignalOk(posted[i])'
    <2>1. SUFFICES ASSUME ~quit, NEW i \in DOMAIN posted PROVE SignalOk(posted[i])'
      OBVIOUS
    <2>2. SignalOk(posted[i]) /\ posted'[i] = posted[i]
      BY <1>1, <2>1 DEF Sessions
    <2>3. CASE Connecting /\ m.op.kind = "connect"
      BY <1>2, <2>1, <2>2 DEF SignalOk, OfServer
    <2>4. CASE service' = NoServer /\ m.op.kind = "disconnect"
      BY <2>1, <2>2, <2>4 DEF SignalOk, IsListing
    <2>5. CASE service' = service
      BY <2>1, <2>2, <2>5 DEF SignalOk, IsListing
    <2>. QED
      BY <2>3, <2>4, <2>5
  <1>5. SignalOrder'
    <2>1. ~quit => \A i \in DOMAIN posted : RemoteListing(posted[i]) => connected
      BY DEF Sessions, SignalOk, RemoteListing
    <2>. QED
      BY <1>2 DEF Sessions, SignalOk, SignalOrder, RemoteListing, IsListing
  <1>. QED
    BY <1>1, <1>3, <1>4, <1>5 DEF Sessions

LEMMA DeliverSessions ==
  ASSUME Types, Sessions, ~quit, posted # <<>>, posted' = Tail(posted),
         UNCHANGED <<service, quit>>, ModelPlaces',
         \/ connected' <=> connected
         \/ ~connected' /\ posted[1].op.kind = "disconnect"
         \/ connected' /\ service # NoServer
              /\ \A i \in DOMAIN posted : ~OfServer(posted[i].op),
         "remote" \in unsure /\ "remote" \notin unsure' =>
              ~connected' \/ RemoteListing(posted[1]),
         posted[1].op.kind = "disconnect" => ~connected' \/ "remote" \in unsure'
  PROVE  Sessions'
  <1>1. /\ 1 \in DOMAIN posted
        /\ \A i \in DOMAIN posted' : i + 1 \in DOMAIN posted /\ posted'[i] = posted[i + 1]
                                     /\ i \in Nat
        /\ \A i \in DOMAIN posted : i \in Nat /\ (i = 1 \/ (i - 1 \in DOMAIN posted'
                                                           /\ posted'[i - 1] = posted[i]))
    BY Shortened DEF Types, SignalTypes
  <1>2. ~connected' /\ posted[1].op.kind = "disconnect" =>
          \A i \in DOMAIN posted' : ~RemoteListing(posted'[i])
    BY <1>1 DEF Sessions, SignalOrder
  <1>3. \A i \in DOMAIN posted' : SignalOk(posted[i])'
    <2>1. SUFFICES ASSUME NEW i \in DOMAIN posted' PROVE SignalOk(posted[i])'
      OBVIOUS
    <2>2. SignalOk(posted[i + 1]) /\ posted'[i] = posted[i + 1] /\ i + 1 \in DOMAIN posted
      BY <1>1, <2>1 DEF Sessions
    <2>3. RemoteListing(posted[i + 1]) => connected'
      <3>1. CASE ~connected' /\ posted[1].op.kind = "disconnect"
        BY <1>2, <2>1, <2>2, <3>1
      <3>2. CASE \A k \in DOMAIN posted : ~OfServer(posted[k].op)
        BY <2>2, <3>2 DEF RemoteListing, IsListing, OfServer
      <3>3. CASE connected' <=> connected
        BY <2>2, <3>3 DEF SignalOk, RemoteListing, IsListing
      <3>. QED
        BY <3>1, <3>2, <3>3
    <2>. QED
      BY <2>2, <2>3 DEF SignalOk, IsListing, RemoteListing
  <1>4. SignalOrder'
    <2>1. \A i, j \in DOMAIN posted' :
            i < j /\ posted'[i].op.kind = "disconnect" => ~RemoteListing(posted'[j])
      BY <1>1 DEF Sessions, SignalOrder
    <2>2. \A i \in DOMAIN posted' : RemoteListing(posted'[i]) /\ service = NoServer =>
            \E j \in DOMAIN posted' : j > i /\ posted'[j].op.kind = "disconnect"
      <3>1. SUFFICES ASSUME NEW i \in DOMAIN posted', RemoteListing(posted'[i]),
                            service = NoServer
                     PROVE  \E j \in DOMAIN posted' : j > i /\ posted'[j].op.kind = "disconnect"
        OBVIOUS
      <3>2. i + 1 \in DOMAIN posted /\ RemoteListing(posted[i + 1]) /\ i \in Nat
        BY <1>1, <3>1
      <3>3. PICK j \in DOMAIN posted : j > i + 1 /\ posted[j].op.kind = "disconnect"
        BY <3>1, <3>2 DEF Sessions, SignalOrder
      <3>4. j - 1 \in DOMAIN posted' /\ posted'[j - 1] = posted[j] /\ j - 1 > i
        BY <1>1, <3>2, <3>3
      <3>. QED
        BY <3>3, <3>4
    <2>3. connected' /\ service = NoServer =>
            "remote" \in unsure' \/ \E j \in DOMAIN posted' : posted'[j].op.kind = "disconnect"
      <3>1. SUFFICES ASSUME connected', service = NoServer, "remote" \notin unsure'
                     PROVE  \E j \in DOMAIN posted : j # 1 /\ posted[j].op.kind = "disconnect"
        BY <1>1
      <3>2. connected /\ posted[1].op.kind # "disconnect"
        BY <3>1
      <3>3. CASE "remote" \in unsure
        BY <1>1, <3>1, <3>3 DEF Sessions, SignalOrder
      <3>4. CASE "remote" \notin unsure
        BY <3>1, <3>2, <3>4 DEF Sessions, SignalOrder
      <3>. QED
        BY <3>3, <3>4
    <2>. QED
      BY <2>1, <2>2, <2>3 DEF SignalOrder
  <1>. QED
    BY <1>3, <1>4 DEF Sessions

-----------------------------------------------------------------------------
(* What the worker does *)

Finishes(m) ==
    /\ running # NoOp /\ running' = NoOp
    /\ m.op = running /\ m.outcome \in {"ok", "error", "cancelled"}
    /\ posted' = Append(posted, m)
    /\ UNCHANGED <<queue, Gui>>

\* The effect of a finished operation on the session and the files
Effect(m) ==
    /\ m.op.kind \notin {"connect", "disconnect"} => service' = service
    /\ m.op.kind = "disconnect" => service' = NoServer
    /\ m.op.kind = "connect" /\ m.outcome = "ok" => service' # NoServer
    /\ IsListing(m) =>
         /\ Place(m.op.side) # NoServer
         /\ m.listing = [place |-> Place(m.op.side), dir |-> m.op.dir,
                         rows |-> Rows(Place(m.op.side), m.op.dir)]
    /\ \/ files' = files
       \/ /\ m.op.kind \in {"create", "delete", "rename"} /\ m.outcome = "ok"
          /\ Place(m.op.side) # NoServer
          /\ files' = [files EXCEPT ![Place(m.op.side)][ChangedDir] = Changed(@)]
       \/ /\ m.op.kind = "transfer" /\ service # NoServer
          /\ files' = [files EXCEPT ![Place(Other(m.op.side))][m.op.into] =
                                       @ \cup {m.op.item.name}]

LEMMA Posted ==
  ASSUME Types, running # NoOp, running' = NoOp, UNCHANGED <<queue, Gui>>,
         NEW outcome \in {"ok", "error", "cancelled"}, NEW l \in Listings, Post(outcome, l),
         running.kind # "list" \/ outcome # "ok"
           \/ (/\ Place(running.side) # NoServer
               /\ l = [place |-> Place(running.side), dir |-> running.dir,
                       rows |-> Rows(Place(running.side), running.dir)])
  PROVE  \E m \in Signals :
            /\ Finishes(m) /\ m.outcome = outcome
            /\ IsListing(m) =>
                 /\ Place(m.op.side) # NoServer
                 /\ m.listing = [place |-> Place(m.op.side), dir |-> m.op.dir,
                                 rows |-> Rows(Place(m.op.side), m.op.dir)]
  <1>. DEFINE m == [op |-> running, outcome |-> outcome, listing |-> l]
  <1>1. m \in Signals
    BY SignalsMade DEF Types, SignalTypes
  <1>2. Finishes(m) /\ m.outcome = outcome
    BY DEF Finishes, Post
  <1>3. IsListing(m) =>
          /\ Place(m.op.side) # NoServer
          /\ m.listing = [place |-> Place(m.op.side), dir |-> m.op.dir,
                          rows |-> Rows(Place(m.op.side), m.op.dir)]
    BY DEF IsListing
  <1>. QED
    BY <1>1, <1>2, <1>3

LEMMA WorkFinishes ==
  ASSUME Types,
         DoConnect \/ DoDisconnect \/ DoList \/ DoOpen \/ DoChange \/ DoTransfer
  PROVE  \E m \in Signals : Finishes(m) /\ Effect(m)
  <1>1. CASE DoConnect
    <2>1. /\ running # NoOp /\ running.kind = "connect" /\ UNCHANGED <<queue, Gui, files>>
          /\ running.host # NoServer
      BY <1>1, OpTypes, SftpAssumption DEF DoConnect, Does, Types, SignalTypes
    <2>2. \/ Post("ok", Blank) /\ service' # NoServer
          \/ Post("error", Blank)
      BY <1>1, <2>1 DEF DoConnect, Succeeds, Fails
    <2>3. running' = NoOp
      BY <2>2 DEF Post
    <2>4. CASE Post("ok", Blank) /\ service' # NoServer
      <3>1. PICK m \in Signals : Finishes(m) /\ m.outcome = "ok"
        BY <2>1, <2>3, <2>4, Posted, BlankListing
      <3>. QED
        BY <2>1, <2>4, <3>1 DEF Effect, Finishes, IsListing
    <2>5. CASE Post("error", Blank)
      <3>1. PICK m \in Signals : Finishes(m) /\ m.outcome = "error"
        BY <2>1, <2>3, <2>5, Posted, BlankListing
      <3>. QED
        BY <2>1, <3>1 DEF Effect, Finishes, IsListing
    <2>. QED
      BY <2>2, <2>4, <2>5
  <1>2. CASE DoDisconnect
    <2>1. /\ running # NoOp /\ running.kind = "disconnect" /\ UNCHANGED <<queue, Gui, files>>
          /\ service' = NoServer
      BY <1>2 DEF DoDisconnect, Does
    <2>2. PICK outcome \in {"ok", "error"} : Post(outcome, Blank)
      BY <1>2 DEF DoDisconnect, Succeeds, Fails
    <2>3. PICK m \in Signals : Finishes(m) /\ m.outcome = outcome
      BY <2>1, <2>2, Posted, BlankListing DEF Post
    <2>. QED
      BY <2>1, <2>3 DEF Effect, Finishes, IsListing
  <1>3. CASE DoList
    <2>. DEFINE l == [place |-> Place(running.side), dir |-> running.dir,
                      rows |-> Rows(Place(running.side), running.dir)]
    <2>1. /\ running # NoOp /\ running.kind = "list" /\ running \in Ops
          /\ UNCHANGED <<queue, Gui, files, service>>
      BY <1>3 DEF DoList, Does, Types, SignalTypes, worker
    <2>2. CASE Place(running.side) # NoServer /\ Post("ok", l)
      <3>1. l \in Listings
        <4>1. running.side \in Sides /\ running.dir \in Dirs
          BY <2>1, OpTypes
        <4>2. Place(running.side) \in Places
          BY <2>2 DEF Types, WorkerTypes, Place, Places
        <4>. QED
          BY <4>1, <4>2 DEF Types, FilesTypes, Rows, Listings
      <3>2. running' = NoOp
        BY <2>2 DEF Post
      <3>3. l = [place |-> Place(running.side), dir |-> running.dir,
                 rows |-> Rows(Place(running.side), running.dir)]
        OBVIOUS
      <3>. HIDE DEF l
      <3>4. PICK m \in Signals :
               /\ Finishes(m) /\ m.outcome = "ok"
               /\ IsListing(m) =>
                    /\ Place(m.op.side) # NoServer
                    /\ m.listing = [place |-> Place(m.op.side), dir |-> m.op.dir,
                                    rows |-> Rows(Place(m.op.side), m.op.dir)]
        BY <2>1, <2>2, <3>1, <3>2, <3>3, Posted
      <3>. QED
        BY <2>1, <3>4 DEF Effect, Finishes
    <2>3. CASE Post("error", Blank)
      <3>1. PICK m \in Signals : Finishes(m) /\ m.outcome = "error"
        BY <2>1, <2>3, Posted, BlankListing DEF Post
      <3>. QED
        BY <2>1, <3>1 DEF Effect, Finishes, IsListing
    <2>. QED
      BY <1>3, <2>2, <2>3 DEF DoList, Fails
  <1>4. CASE DoOpen
    <2>1. /\ running # NoOp /\ running.kind = "open"
          /\ UNCHANGED <<queue, Gui, files, service>>
      BY <1>4 DEF DoOpen, Does, worker
    <2>2. PICK outcome \in {"ok", "error"} : Post(outcome, Blank)
      BY <1>4 DEF DoOpen, Succeeds, Fails
    <2>3. PICK m \in Signals : Finishes(m) /\ m.outcome = outcome
      BY <2>1, <2>2, Posted, BlankListing DEF Post
    <2>. QED
      BY <2>1, <2>3 DEF Effect, Finishes, IsListing
  <1>5. CASE DoChange
    <2>1. /\ running # NoOp /\ running.kind \in {"create", "delete", "rename"}
          /\ UNCHANGED <<queue, Gui, service>>
      BY <1>5 DEF DoChange, Does
    <2>2. \/ /\ Post("ok", Blank) /\ Place(running.side) # NoServer
             /\ files' = [files EXCEPT ![Place(running.side)][ChangedDir] = Changed(@)]
          \/ Post("error", Blank) /\ files' = files
      BY <1>5 DEF DoChange, Succeeds, Fails
    <2>3. PICK outcome \in {"ok", "error"} : Post(outcome, Blank) /\
             (\/ /\ outcome = "ok" /\ Place(running.side) # NoServer
                 /\ files' = [files EXCEPT ![Place(running.side)][ChangedDir] = Changed(@)]
              \/ files' = files)
      BY <2>2
    <2>4. PICK m \in Signals : Finishes(m) /\ m.outcome = outcome
      BY <2>1, <2>3, Posted, BlankListing DEF Post
    <2>. QED
      BY <2>1, <2>3, <2>4 DEF Effect, Finishes, IsListing
  <1>6. CASE DoTransfer
    <2>1. /\ running # NoOp /\ running.kind = "transfer"
          /\ UNCHANGED <<queue, Gui, service>>
      BY <1>6 DEF DoTransfer, Does
    <2>2. \/ files' = files
          \/ /\ service # NoServer
             /\ files' = [files EXCEPT ![Place(Other(running.side))][running.into] =
                                          @ \cup {running.item.name}]
      BY <1>6 DEF DoTransfer
    <2>3. PICK outcome \in {"ok", "error", "cancelled"} : Post(outcome, Blank)
      BY <1>6 DEF DoTransfer, Succeeds, Fails
    <2>4. PICK m \in Signals : Finishes(m) /\ m.outcome = outcome
      BY <2>1, <2>3, Posted, BlankListing DEF Post
    <2>. QED
      BY <2>1, <2>2, <2>4 DEF Effect, Finishes, IsListing
  <1>. QED
    BY <1>1, <1>2, <1>3, <1>4, <1>5, <1>6

\* A step of the worker takes an operation, reports progress or finishes.
TakesOne ==
    /\ running = NoOp /\ queue # <<>> /\ queue' = Tail(queue)
    /\ \/ running' = Head(queue) /\ posted' = posted
       \/ /\ running' = running
          /\ Head(queue).kind = "transfer"
          /\ \E m \in Signals :
               /\ posted' = Append(posted, m)
               /\ m.op = Head(queue) /\ m.outcome = "cancelled"
    /\ UNCHANGED <<worker, Gui>>

Reports(m) ==
    /\ running # NoOp /\ running.kind = "transfer"
    /\ running' = [running EXCEPT !.moved = TRUE]
    /\ m.op = running /\ m.outcome = "progress"
    /\ posted' = Append(posted, m)
    /\ UNCHANGED <<queue, worker, Gui>>

LEMMA WorkerSteps ==
  ASSUME Types, Worker
  PROVE  \/ TakesOne
         \/ \E m \in Signals : Reports(m)
         \/ \E m \in Signals : Finishes(m) /\ Effect(m)
  <1>1. CASE Take
    <2>1. Head(queue) \in Ops
      BY <1>1 DEF Take, Types, QueueType
    <2>2. [op |-> Head(queue), outcome |-> "cancelled", listing |-> Blank] \in Signals
      BY <2>1, SignalsMade, BlankListing
    <2>. QED
      BY <1>1, <2>2 DEF Take, TakesOne
  <1>2. CASE Progress
    <2>1. running \in Ops /\ running # NoOp /\ running.kind = "transfer"
      BY <1>2 DEF Progress, Does, Types, SignalTypes
    <2>2. [op |-> running, outcome |-> "progress", listing |-> Blank] \in Signals
      BY <2>1, SignalsMade, BlankListing
    <2>. QED
      BY <1>2, <2>2 DEF Progress, Does, Reports
  <1>. QED
    BY <1>1, <1>2, WorkFinishes DEF Worker

-----------------------------------------------------------------------------
(* Delivered signals *)

Delivered ==
    /\ posted # <<>> /\ ~quit
    /\ posted' = Tail(posted)
    /\ posted[1] \in Signals /\ op = posted[1].op /\ Head(posted) = posted[1]
    /\ UNCHANGED <<dialog, running, worker, cancelled, quit>>

LEMMA Delivering ==
  ASSUME Types, Deliver
  PROVE  Delivered
  <1>1. posted # <<>> /\ ~quit /\ posted' = Tail(posted)
        /\ UNCHANGED <<dialog, running, worker, cancelled, quit>>
    BY DEF Deliver, Connected, ConnectFailed, Disconnected, Listed, Opened,
           Mutated, Transferred, Progressed, TransferFailed, Failed, Delivers
  <1>2. posted[1] \in Signals /\ Head(posted) = posted[1]
    BY <1>1, Shortened DEF Types, SignalTypes
  <1>. QED
    BY <1>1, <1>2 DEF Delivered, op

LEMMA DeliverQueues ==
  ASSUME Types,
         ConnectFailed \/ Disconnected \/ Listed \/ Opened \/ Mutated \/ Transferred
         \/ Progressed \/ TransferFailed \/ Failed
  PROVE  \E ops \in Seq(Ops) : Enqueue(ops) /\ Calm(ops) /\ Harmless(ops)
  <1>0. Delivered
    BY Delivering DEF Deliver
  <1>1. CASE UNCHANGED queue
    <2>1. <<>> \in Seq(Ops) /\ Enqueue(<<>>)
      BY <1>1 DEF Types, QueueType, Enqueue
    <2>2. Calm(<<>>) /\ Harmless(<<>>)
      BY DEF Calm, Harmless
    <2>. QED
      BY <2>1, <2>2
  <1>2. CASE Opened
    <2>1. op.dir \in Dirs
      BY <1>2, DeliveredTypes, OpTypes DEF Opened, Delivers, Types
    <2>. QED
      BY <1>2, <2>1, RefreshQueues DEF Opened, Sides
  <1>3. CASE Mutated
    <2>1. op.side \in Sides
      BY <1>3, DeliveredTypes, OpTypes DEF Mutated, Delivers, Types
    <2>. QED
      BY <1>3, <2>1, RefreshQueues DEF Mutated, RefreshAfter, Types, PathTypes
  <1>4. CASE Transferred
    <2>. DEFINE a == Refresh("local", path["local"])
                b == Refresh("remote", path["remote"])
    <2>1. /\ a \in Seq(Ops) /\ Calm(a) /\ Harmless(a)
          /\ b \in Seq(Ops) /\ Calm(b) /\ Harmless(b)
      BY RefreshQueues DEF Types, PathTypes, Sides
    <2>2. Enqueue(a \o b)
      BY <1>4 DEF Transferred
    <2>. HIDE DEF a, b
    <2>3. a \o b \in Seq(Ops)
      BY <2>1
    <2>4. \A i \in DOMAIN (a \o b) :
             (\E k \in DOMAIN a : (a \o b)[i] = a[k]) \/ (\E k \in DOMAIN b : (a \o b)[i] = b[k])
      BY <2>1, Concatenated
    <2>5. Calm(a \o b) /\ Harmless(a \o b)
      BY <2>1, <2>4 DEF Calm, Harmless
    <2>. QED
      BY <2>2, <2>3, <2>5
  <1>. QED
    BY <1>1, <1>2, <1>3, <1>4
    DEF ConnectFailed, Disconnected, Listed, Progressed, TransferFailed,
        Failed

\* Connected: the pane is listed, or the profile's directory is opened first.
LEMMA ConnectedQueues ==
  ASSUME Types, Connected
  PROVE  \E o \in Ops : /\ Enqueue(<<o>>)
                        /\ o = List("remote", Home) \/ o.kind = "open"
  <1>1. List("remote", Home) \in Ops
    BY OpsMade, SftpAssumption DEF Sides
  <1>2. wanted # NoWish => [kind |-> "open", dir |-> wanted.dir] \in Ops
    BY OpsMade DEF Types, DialogTypes
  <1>. QED
    BY <1>1, <1>2 DEF Connected

LEMMA AcceptCalm ==
  ASSUME Types, ModelPlaces, ~quit, NEW ops \in Seq(Ops),
         \A k \in DOMAIN ops :
            /\ ops[k].kind = dialog.mode /\ ops[k].side = dialog.side
            /\ IF dialog.mode = "create" THEN dialog.side = "local" \/ connected
               ELSE ops[k].item \in Items(dialog.side, selection[dialog.side]),
         dialog \in Dialogs
  PROVE  Calm(ops)
  <1>1. SUFFICES ASSUME NEW k \in DOMAIN ops, OfServer(ops[k]), dialog.mode # "create"
                 PROVE  connected
    BY DEF Calm, Dialogs, OfServer
  <1>2. dialog.side = "remote"
    BY <1>1 DEF OfServer, Dialogs
  <1>3. Items("remote", selection["remote"]) # {}
    BY <1>1, <1>2
  <1>4. model["remote"] # Blank
    BY <1>3 DEF Items, Blank
  <1>. QED
    BY <1>4 DEF ModelPlaces

LEMMA ConnectNext ==
  ASSUME Types, Sessions, ConnectInv, Next
  PROVE  ConnectInv'
  <1>1. CASE Quiet
    <2>1. UNCHANGED <<running, posted, hostDialog, connected, service, quit>>
      BY <1>1
      DEF Quiet, Disconnect, RefreshPane, OpenDirectory, Navigate, OpenDialog,
          QueueTransfer, RejectDialog, CancelTransfer, Called, Free, dialogs,
          worker
    <2>. QED
      BY <1>1, <2>1, QuietQueues, QueueConnect
  <1>2. ASSUME NEW to \in Names, AcceptDialog(to) PROVE ConnectInv'
    <2>1. /\ UNCHANGED <<running, posted, hostDialog, connected, service, quit>>
          /\ ~quit /\ dialog \in Dialogs
      BY <1>2 DEF AcceptDialog, Called, worker, Types, DialogTypes
    <2>2. PICK ops \in Seq(Ops) :
             /\ Enqueue(ops)
             /\ \A k \in DOMAIN ops :
                  /\ ops[k].kind = dialog.mode /\ ops[k].side = dialog.side
                  /\ IF dialog.mode = "create" THEN dialog.side = "local" \/ connected
                     ELSE ops[k].item \in Items(dialog.side, selection[dialog.side])
      BY <1>2, AcceptQueues
    <2>3. Calm(ops)
      BY <2>1, <2>2, AcceptCalm DEF Sessions
    <2>. QED
      BY <2>1, <2>2, <2>3, QueueConnect
  <1>3. ASSUME NEW host \in Servers, NEW dir \in Dirs, NEW local \in Dirs,
               Connect(host, dir, local)
        PROVE  ConnectInv'
    <2>. DEFINE connect == [kind |-> "connect", host |-> host, trust |-> NoServer]
    <2>1. /\ queue = <<>> /\ running = NoOp /\ posted = <<>> /\ ~hostDialog /\ ~connected
          /\ UNCHANGED <<running, posted, hostDialog, connected, service, quit>>
      BY <1>3 DEF Connect, Free, Called, Busy, dialogs, worker
    <2>2. queue' = <<connect>> \/ queue' = <<List("local", local), connect>>
      BY <1>3, <2>1 DEF Connect, Enqueue
    <2>3. \A i \in DOMAIN queue' : \/ queue'[i] = connect /\ i = Len(queue')
                                   \/ queue'[i] = List("local", local)
      <3>. DEFINE list == List("local", local)
      <3>1. queue' = <<connect>> \/ queue' = <<list, connect>>
        BY <2>2
      <3>. HIDE DEF connect, list
      <3>2. \A i \in DOMAIN queue' : (queue'[i] = connect /\ i = Len(queue')) \/ queue'[i] = list
        <4>1. CASE queue' = <<connect>>
          BY <4>1
        <4>2. CASE queue' = <<list, connect>>
          <5>1. Len(queue') = 2 /\ DOMAIN queue' = {1, 2}
            BY <4>2
          <5>2. queue'[1] = list /\ queue'[2] = connect
            BY <4>2
          <5>. QED
            BY <5>1, <5>2
        <4>. QED
          BY <3>1, <4>1, <4>2
      <3>. QED
        BY <3>2 DEF list
    <2>4. OneConnect'
      BY <2>1, <2>3 DEF OneConnect, List
    <2>5. NothingOfServer'
      BY <2>1, <2>3 DEF NothingOfServer, OfServer, List
    <2>. QED
      BY <2>4, <2>5 DEF ConnectInv
  <1>4. ASSUME NEW accepted \in BOOLEAN, AnswerHostKey(accepted) PROVE ConnectInv'
    <2>1. /\ ~quit /\ hostDialog /\ ~hostDialog'
          /\ UNCHANGED <<running, posted, connected, service, quit>>
      BY <1>4 DEF AnswerHostKey, worker
    <2>2. CASE queue' = queue
      <3>1. OneConnect'
        BY <2>1, <2>2 DEF ConnectInv, OneConnect
      <3>2. NothingOfServer'
        BY <2>1, <2>2 DEF ConnectInv, NothingOfServer, Connecting
      <3>. QED
        BY <3>1, <3>2 DEF ConnectInv
    <2>3. CASE wanted # NoWish /\
               queue' = queue \o <<[kind |-> "connect", host |-> wanted.host,
                                    trust |-> hostKey]>>
      <3>. DEFINE o == [kind |-> "connect", host |-> wanted.host, trust |-> hostKey]
      <3>1. o \in Ops /\ o.kind = "connect"
        BY <2>3, OpsMade DEF Types, DialogTypes, WorkerTypes
      <3>. HIDE DEF o
      <3>2. <<o>> \in Seq(Ops) /\ DOMAIN <<o>> = {1}
        BY <3>1
      <3>3. \A i \in DOMAIN queue' : \/ i \in DOMAIN queue /\ queue'[i] = queue[i]
                                     \/ i = Len(queue) + 1 /\ queue'[i] = o
        BY <2>3 DEF o
      <3>4. OneConnect'
        BY <2>1, <3>1, <3>3 DEF ConnectInv, OneConnect
      <3>5. NothingOfServer'
        BY <2>1, <3>1, <3>3
        DEF ConnectInv, NothingOfServer, Connecting, OfServer
      <3>. QED
        BY <3>4, <3>5 DEF ConnectInv
    <2>. QED
      BY <1>4, <2>2, <2>3 DEF AnswerHostKey, Enqueue
  <1>5. CASE Worker
    <2>1. CASE TakesOne
      BY <2>1, TakeConnect DEF TakesOne, Gui, worker, dialogs
    <2>2. ASSUME NEW m \in Signals, Reports(m) PROVE ConnectInv'
      <3>1. running'.kind = "transfer"
        BY <2>2 DEF Reports
      <3>. QED
        BY <2>2, FinishConnect DEF Reports, Gui, worker, dialogs
    <2>3. ASSUME NEW m \in Signals, Finishes(m), Effect(m) PROVE ConnectInv'
      BY <2>3, FinishConnect DEF Finishes, Effect, Gui, dialogs
    <2>. QED
      BY <1>5, <2>1, <2>2, <2>3, WorkerSteps
  <1>6. CASE Connected
    <2>1. /\ posted # <<>> /\ ~quit /\ posted' = Tail(posted) /\ connected'
          /\ posted[1].op.kind = "connect" /\ posted[1].outcome = "ok"
          /\ UNCHANGED <<running, hostDialog, service, quit>>
      BY <1>6, Delivering DEF Deliver, Delivered, Connected, Delivers, worker
    <2>2. PICK o \in Ops : /\ Enqueue(<<o>>)
                           /\ o = List("remote", Home) \/ o.kind = "open"
      BY <1>6, ConnectedQueues
    <2>3. \A i \in DOMAIN queue' : \/ i \in DOMAIN queue /\ queue'[i] = queue[i]
                                   \/ queue'[i] = o
      BY <2>2, Concatenated DEF Types, QueueType, Enqueue
    <2>4. o.kind # "connect"
      BY <2>2 DEF List
    <2>5. /\ 1 \in DOMAIN posted
          /\ \A i \in DOMAIN posted' : i + 1 \in DOMAIN posted /\ posted'[i] = posted[i + 1]
                                       /\ i + 1 # 1
      BY <2>1, Shortened DEF Types, SignalTypes
    <2>6. OneConnect' /\ ~Connecting'
      BY <2>1, <2>3, <2>4, <2>5 DEF ConnectInv, OneConnect, Connecting
    <2>. QED
      BY <2>1, <2>6 DEF ConnectInv, NothingOfServer
  <1>7. CASE ConnectFailed
    <2>1. /\ posted # <<>> /\ ~quit /\ posted' = Tail(posted)
          /\ ~connected' /\ posted[1].op.kind = "connect"
          /\ UNCHANGED <<running, service, quit, queue>>
      BY <1>7, Delivering
      DEF Deliver, Delivered, ConnectFailed, Delivers, worker
    <2>2. /\ 1 \in DOMAIN posted
          /\ \A i \in DOMAIN posted' : i + 1 \in DOMAIN posted /\ posted'[i] = posted[i + 1]
                                       /\ i + 1 # 1
      BY <2>1, Shortened DEF Types, SignalTypes
    <2>3. OneConnect'
      BY <2>1, <2>2 DEF ConnectInv, OneConnect
    <2>4. NothingOfServer'
      BY <2>1 DEF ConnectInv, NothingOfServer, Connecting, OfServer
    <2>. QED
      BY <2>3, <2>4 DEF ConnectInv
  <1>8. CASE Disconnected
    <2>1. /\ Delivered /\ ~connected' /\ posted[1].op.kind = "disconnect"
          /\ UNCHANGED hostDialog
      BY <1>8, Delivering DEF Deliver, Delivered, Disconnected, Delivers
    <2>2. service = NoServer
      BY <2>1 DEF Sessions, SignalOk, Delivered, Types, SignalTypes
    <2>. QED
      BY <1>8, <2>1, <2>2, DeliverQueues, DeliverConnect DEF Delivered, worker
  <1>9. CASE Listed \/ Opened \/ Mutated \/ Transferred \/ Progressed \/ TransferFailed
             \/ Failed
    <2>1. Delivered /\ UNCHANGED <<connected, hostDialog>>
      BY <1>9, Delivering
      DEF Deliver, Listed, Opened, Mutated, Transferred, Progressed,
          TransferFailed, Failed
    <2>. QED
      BY <1>9, <2>1, DeliverQueues, DeliverConnect DEF Delivered, worker
  <1>10. CASE Shutdown
    BY <1>10 DEF Shutdown, ConnectInv, OneConnect, NothingOfServer
  <1>. QED
    BY <1>1, <1>2, <1>3, <1>4, <1>5, <1>6, <1>7, <1>8, <1>9, <1>10
    DEF Next, User, Quiet, Deliver

LEMMA SessionsNext ==
  ASSUME Types, Sessions, ConnectInv, Next
  PROVE  Sessions'
  <1>1. CASE User
    BY <1>1, UserKeeps DEF Sessions, ModelPlaces, SignalOk, SignalOrder
  <1>2. CASE Worker
    <2>1. ASSUME NEW m \in Signals, posted' = Append(posted, m), m.op.kind = "transfer",
                 UNCHANGED <<worker, Gui>>
          PROVE  Sessions'
      <3>1. SignalOk(m)' /\ ~RemoteListing(m)
        BY <2>1 DEF SignalOk, RemoteListing, IsListing
      <3>2. UNCHANGED <<model, connected, unsure, quit, service>>
        BY <2>1 DEF Gui, worker, panes
      <3>. QED
        BY <2>1, <3>1, <3>2, FinishSessions
    <2>2. CASE TakesOne
      <3>1. CASE posted' = posted
        BY <2>2, <3>1
        DEF TakesOne, Gui, worker, panes, Sessions, ModelPlaces, SignalOk,
            SignalOrder
      <3>. QED
        BY <2>1, <2>2, <3>1 DEF TakesOne
    <2>3. ASSUME NEW m \in Signals, Reports(m) PROVE Sessions'
      BY <2>1, <2>3 DEF Reports
    <2>4. ASSUME NEW m \in Signals, Finishes(m), Effect(m) PROVE Sessions'
      <3>1. /\ running # NoOp /\ running \in Ops /\ m.op = running
            /\ posted' = Append(posted, m)
            /\ UNCHANGED <<model, connected, unsure, quit>>
        BY <2>4 DEF Finishes, Gui, panes, Types, SignalTypes
      <3>2. IsListing(m) => m.op.kind = "list" /\ m.op.side \in Sides
        BY <3>1, OpTypes DEF IsListing
      <3>3. RemoteListing(m) => service # NoServer /\ service' = service
        BY <2>4 DEF RemoteListing, IsListing, Effect, Place
      <3>4. ~quit /\ RemoteListing(m) => connected
        BY <3>1, <3>3
        DEF ConnectInv, NothingOfServer, RemoteListing, IsListing, OfServer
      <3>5. ~quit /\ m.op.kind \in {"connect", "disconnect"} =>
              \A i \in DOMAIN posted : posted[i].op.kind # "connect"
        BY <3>1
        DEF ConnectInv, OneConnect, NothingOfServer, Connecting, OfServer
      <3>6. ~quit => SignalOk(m)'
        <4>1. m.op.kind = "connect" /\ m.outcome = "ok" => service' # NoServer
          BY <2>4 DEF Effect
        <4>2. m.op.kind = "disconnect" => service' = NoServer
          BY <2>4 DEF Effect
        <4>3. IsListing(m) => /\ m.listing.dir = m.op.dir
                              /\ m.op.side = "local" => m.listing.place = Local
                              /\ m.op.side = "remote" => m.listing.place = service
          BY <2>4 DEF Effect, Place
        <4>4. service \in Servers \cup {NoServer}
          BY DEF Types, WorkerTypes
        <4>. QED
          BY <3>1, <3>2, <3>3, <3>4, <4>1, <4>2, <4>3, <4>4
          DEF SignalOk, RemoteListing, Sides
      <3>7. \/ service' = service /\ m.op.kind # "disconnect"
            \/ service' = NoServer /\ m.op.kind = "disconnect"
            \/ Connecting /\ m.op.kind = "connect"
        BY <2>4, <3>1 DEF Effect, Connecting
      <3>. QED
        BY <3>1, <3>3, <3>5, <3>6, <3>7, FinishSessions
    <2>. QED
      BY <1>2, <2>2, <2>3, <2>4, WorkerSteps
  <1>3. CASE Deliver
    <2>1. Delivered /\ UNCHANGED service /\ 1 \in DOMAIN posted /\ ~quit
      BY <1>3, Delivering DEF Delivered, worker
    <2>2. SignalOk(posted[1])
      BY <2>1 DEF Sessions
    <2>3. CASE Connected
      <3>1. connected' /\ UNCHANGED <<model, unsure>> /\ op.kind = "connect"
            /\ posted[1].outcome = "ok"
        BY <2>1, <2>3 DEF Connected, Delivers, Delivered
      <3>2. service # NoServer /\ ~connected /\ \A i \in DOMAIN posted : ~OfServer(posted[i].op)
        BY <2>1, <2>2, <3>1
        DEF SignalOk, Delivered, ConnectInv, NothingOfServer, Connecting
      <3>3. ModelPlaces'
        BY <2>1, <3>1 DEF Sessions, ModelPlaces
      <3>. QED
        BY <2>1, <3>1, <3>2, <3>3, DeliverSessions DEF Delivered
    <2>4. CASE ConnectFailed
      <3>1. ~connected' /\ SetItems("remote", Blank) /\ op.kind = "connect"
        BY <2>4 DEF ConnectFailed, Delivers
      <3>2. ~connected
        BY <2>1, <3>1 DEF Delivered, ConnectInv, NothingOfServer, Connecting
      <3>3. ModelPlaces'
        BY <2>1, <3>1
        DEF Sessions, ModelPlaces, SetItems, Types, PaneTypes, Sides
      <3>. QED
        BY <2>1, <3>1, <3>2, <3>3, DeliverSessions DEF Delivered
    <2>5. CASE Disconnected
      <3>1. ~connected' /\ SetItems("remote", Blank) /\ op.kind = "disconnect"
        BY <2>5 DEF Disconnected, Delivers
      <3>2. ModelPlaces'
        BY <2>1, <3>1
        DEF Sessions, ModelPlaces, SetItems, Types, PaneTypes, Sides
      <3>. QED
        BY <2>1, <3>1, <3>2, DeliverSessions DEF Delivered
    <2>6. CASE Listed
      <3>. DEFINE listing == Head(posted).listing
      <3>1. /\ UNCHANGED connected /\ op.kind = "list" /\ IsListing(posted[1])
            /\ \/ SetItems(op.side, listing) /\ unsure' = unsure \ {op.side}
               \/ UNCHANGED <<model, unsure>>
        BY <2>1, <2>6 DEF Listed, Delivers, Delivered, IsListing
      <3>2. op.side \in Sides
        BY <2>1, <3>1, DeliveredTypes, OpTypes DEF Delivered, Types
      <3>3. IF op.side = "remote" THEN /\ connected /\ listing.place \in Servers
                                       /\ service \in {NoServer, listing.place}
            ELSE listing.place = Local
        BY <2>1, <2>2, <3>1 DEF SignalOk, Delivered
      <3>4. ModelPlaces'
        BY <2>1, <3>1, <3>3
        DEF Sessions, ModelPlaces, SetItems, Types, PaneTypes, Sides
      <3>5. "remote" \in unsure /\ "remote" \notin unsure' => RemoteListing(posted[1])
        BY <2>1, <3>1 DEF RemoteListing, Delivered
      <3>. QED
        BY <2>1, <3>1, <3>4, <3>5, DeliverSessions DEF Delivered
    <2>7. CASE Failed
      <3>1. /\ UNCHANGED <<connected, model>> /\ unsure \subseteq unsure'
            /\ op.kind = "disconnect" => "remote" \in unsure'
        BY <2>7 DEF Failed, panes
      <3>2. ModelPlaces'
        BY <2>1, <3>1 DEF Sessions, ModelPlaces, Delivered
      <3>3. /\ connected' = connected
            /\ ~("remote" \in unsure /\ "remote" \notin unsure')
            /\ posted[1].op.kind = "disconnect" => "remote" \in unsure'
        BY <2>1, <3>1 DEF Delivered
      <3>4. posted # <<>> /\ posted' = Tail(posted) /\ UNCHANGED <<service, quit>> /\ ~quit
        BY <2>1 DEF Delivered
      <3>. QED
        BY <3>2, <3>3, <3>4, DeliverSessions
    <2>8. CASE Opened \/ Mutated \/ Transferred \/ Progressed \/ TransferFailed
      <3>1. /\ UNCHANGED <<connected, model>> /\ unsure \subseteq unsure'
            /\ op.kind # "disconnect"
        BY <2>8
        DEF Opened, Mutated, Transferred, Progressed, TransferFailed,
            Delivers, panes
      <3>2. ModelPlaces'
        BY <2>1, <3>1 DEF Sessions, ModelPlaces, Delivered
      <3>. QED
        BY <2>1, <3>1, <3>2, DeliverSessions DEF Delivered
    <2>. QED
      BY <1>3, <2>3, <2>4, <2>5, <2>6, <2>7, <2>8 DEF Deliver
  <1>4. CASE Shutdown
    BY <1>4 DEF Shutdown, Sessions, ModelPlaces, SignalOrder
  <1>. QED
    BY <1>1, <1>2, <1>3, <1>4 DEF Next

-----------------------------------------------------------------------------
(* What dialogs name *)

LEMMA ShutDownNext ==
  ASSUME Types, ShutDown, Next
  PROVE  ShutDown'
  <1>1. CASE User
    BY <1>1
    DEF ShutDown, User, Connect, Disconnect, AnswerHostKey, RefreshPane,
        OpenDirectory, Navigate, OpenDialog, QueueTransfer, AcceptDialog,
        RejectDialog, CancelTransfer, Called, Free
  <1>2. CASE Worker
    <2>1. CASE TakesOne
      BY <2>1 DEF TakesOne, ShutDown, Gui
    <2>2. ASSUME NEW m, Reports(m) \/ Finishes(m) PROVE ShutDown'
      BY <2>2 DEF Reports, Finishes, ShutDown, Gui
    <2>. QED
      BY <1>2, <2>1, <2>2, WorkerSteps
  <1>3. CASE Deliver
    BY <1>3, Delivering DEF Delivered, ShutDown
  <1>4. CASE Shutdown
    BY <1>4 DEF Shutdown, ShutDown
  <1>. QED
    BY <1>1, <1>2, <1>3, <1>4 DEF Next

DialogNamed ==
    dialog # NoDialog =>
      Named(dialog.side, selection[dialog.side]) \subseteq dialog.named

OpsNamed ==
    /\ \A i \in DOMAIN queue : NamedOk(queue[i])
    /\ running # NoOp => NamedOk(running)

LEMMA DialogNext ==
  ASSUME Types, DialogNamed, Next
  PROVE  DialogNamed'
  <1>1. CASE User
    <2>1. CASE dialog' = NoDialog
      BY <2>1 DEF DialogNamed
    <2>2. ASSUME NEW side \in Sides, NEW mode, NEW rows, OpenDialog(side, mode, rows)
          PROVE  DialogNamed'
      BY <2>2 DEF OpenDialog, DialogNamed, Types, PaneTypes, Named, Items
    <2>3. ASSUME NEW accepted, AnswerHostKey(accepted) PROVE DialogNamed'
      BY <2>3 DEF AnswerHostKey, DialogNamed, Named, Items, panes
    <2>. QED
      BY <1>1, <2>1, <2>2, <2>3
      DEF User, Connect, Disconnect, RefreshPane, OpenDirectory, Navigate,
          QueueTransfer, AcceptDialog, RejectDialog, CancelTransfer, Free,
          dialogs
  <1>2. CASE Worker
    <2>1. UNCHANGED <<dialog, model, selection>>
      BY <1>2, WorkerSteps
      DEF TakesOne, Reports, Finishes, Gui, panes, dialogs
    <2>. QED
      BY <2>1 DEF DialogNamed, Named, Items
  <1>3. CASE Deliver
    <2>1. dialog' = dialog
      BY <1>3, Delivering DEF Delivered
    <2>2. CASE UNCHANGED <<model, selection>>
      BY <2>1, <2>2 DEF DialogNamed, Named, Items
    <2>3. ASSUME NEW side \in Sides, NEW listing, SetItems(side, listing)
          PROVE  DialogNamed'
      <3>1. CASE dialog # NoDialog /\ dialog.side = side
        <4>1. selection'[dialog.side] = {}
          BY <2>3, <3>1 DEF SetItems, Types, PaneTypes
        <4>. QED
          BY <2>1, <4>1 DEF DialogNamed, Named, Items
      <3>2. CASE dialog # NoDialog /\ dialog.side # side
        <4>1. /\ model'[dialog.side] = model[dialog.side]
              /\ selection'[dialog.side] = selection[dialog.side]
          BY <2>3, <3>2 DEF SetItems
        <4>. QED
          BY <2>1, <4>1 DEF DialogNamed, Named, Items
      <3>. QED
        BY <2>1, <3>1, <3>2 DEF DialogNamed
    <2>4. CASE ConnectFailed \/ Disconnected
      BY <2>3, <2>4 DEF ConnectFailed, Disconnected, Sides
    <2>5. CASE Listed
      <3>1. op.side \in Sides
        BY <2>5, DeliveredTypes, OpTypes DEF Listed, Delivers, Types
      <3>. QED
        BY <2>2, <2>3, <2>5, <3>1 DEF Listed
    <2>. QED
      BY <1>3, <2>2, <2>4, <2>5
      DEF Deliver, Connected, Opened, Mutated, Transferred, Progressed,
          TransferFailed, Failed, panes
  <1>4. CASE Shutdown
    BY <1>4 DEF Shutdown, DialogNamed, Named, Items, panes, dialogs
  <1>. QED
    BY <1>1, <1>2, <1>3, <1>4 DEF Next

LEMMA QueueNamed ==
  ASSUME Types, OpsNamed, NEW ops \in Seq(Ops), Enqueue(ops),
         \A k \in DOMAIN ops : NamedOk(ops[k]), UNCHANGED <<running, service>>
  PROVE  OpsNamed'
  <1>1. \A i \in DOMAIN queue' :
           \/ i \in DOMAIN queue /\ queue'[i] = queue[i]
           \/ \E k \in DOMAIN ops : queue'[i] = ops[k]
    BY Concatenated DEF Types, QueueType, Enqueue
  <1>. QED
    BY <1>1 DEF OpsNamed, NamedOk

LEMMA AcceptNamed ==
  ASSUME Types, Sessions, DialogNamed, NEW to \in Names, AcceptDialog(to)
  PROVE  \E ops \in Seq(Ops) : Enqueue(ops) /\ \A k \in DOMAIN ops : NamedOk(ops[k])
  <1>1. PICK ops \in Seq(Ops) :
           /\ Enqueue(ops)
           /\ \A k \in DOMAIN ops :
                /\ ops[k].kind = dialog.mode /\ ops[k].side = dialog.side
                /\ ops[k].named = dialog.named
                /\ IF dialog.mode = "create" THEN dialog.side = "local" \/ connected
                   ELSE ops[k].item \in Items(dialog.side, selection[dialog.side])
    BY AcceptQueues
  <1>2. SUFFICES ASSUME NEW k \in DOMAIN ops, ops[k].kind \in {"delete", "rename"}
                 PROVE  NamedOk(ops[k])
    BY <1>1 DEF NamedOk
  <1>. DEFINE o == ops[k]
              side == dialog.side
  <1>3. /\ ~quit /\ side \in Sides
        /\ Named(side, selection[side]) \subseteq dialog.named
    BY DEF AcceptDialog, Called, DialogNamed, Types, DialogTypes, Dialogs
  <1>4. o.side = side /\ o.named = dialog.named /\ o.item \in Items(side, selection[side])
    BY <1>1, <1>2
  <1>5. <<model[side].place, o.item.dir, o.item.name>> \in o.named
    BY <1>3, <1>4 DEF Named
  <1>6. model[side] # Blank
    BY <1>4 DEF Items, Blank
  <1>7. IF side = "local" THEN model[side].place = Local
        ELSE service \in {NoServer, model[side].place}
    BY <1>3, <1>6 DEF Sessions, ModelPlaces, Sides
  <1>. QED
    BY <1>3, <1>4, <1>5, <1>7 DEF NamedOk

LEMMA OpsNamedNext ==
  ASSUME Types, Sessions, ConnectInv, ShutDown, DialogNamed, OpsNamed, Next
  PROVE  OpsNamed'
  <1>0. ASSUME NEW ops \in Seq(Ops), Harmless(ops), Enqueue(ops), UNCHANGED <<running, service>>
        PROVE  OpsNamed'
    BY <1>0, QueueNamed DEF Harmless, NamedOk
  <1>1. CASE User
    <2>1. UNCHANGED <<running, service>>
      BY <1>1, UserKeeps
    <2>2. CASE Quiet
      BY <1>0, <2>1, <2>2, QuietQueues
    <2>3. ASSUME NEW to \in Names, AcceptDialog(to) PROVE OpsNamed'
      BY <2>1, <2>3, AcceptNamed, QueueNamed
    <2>4. ASSUME NEW host \in Servers, NEW dir \in Dirs, NEW local \in Dirs,
                 Connect(host, dir, local)
          PROVE  OpsNamed'
      <3>. DEFINE connect == [kind |-> "connect", host |-> host, trust |-> NoServer]
                  list == List("local", local)
      <3>1. connect \in Ops /\ list \in Ops
        BY <2>4, OpsMade DEF Sides
      <3>2. Enqueue(<<connect>>) \/ Enqueue(<<list, connect>>)
        BY <2>4 DEF Connect
      <3>3. connect.kind = "connect" /\ list.kind = "list"
        BY DEF List
      <3>. HIDE DEF connect, list
      <3>4. <<connect>> \in Seq(Ops) /\ Harmless(<<connect>>)
        BY <3>1, <3>3 DEF Harmless
      <3>5. <<list, connect>> \in Seq(Ops) /\ Harmless(<<list, connect>>)
        BY <3>1, <3>3 DEF Harmless
      <3>. QED
        BY <1>0, <2>1, <3>2, <3>4, <3>5
    <2>5. ASSUME NEW accepted \in BOOLEAN, AnswerHostKey(accepted) PROVE OpsNamed'
      <3>1. CASE queue' = queue
        BY <2>1, <3>1 DEF OpsNamed, NamedOk
      <3>2. CASE wanted # NoWish /\
                 Enqueue(<<[kind |-> "connect", host |-> wanted.host, trust |-> hostKey]>>)
        <4>. DEFINE o == [kind |-> "connect", host |-> wanted.host, trust |-> hostKey]
        <4>1. o \in Ops /\ o.kind = "connect" /\ Enqueue(<<o>>)
          BY <3>2, OpsMade DEF Types, DialogTypes, WorkerTypes
        <4>. HIDE DEF o
        <4>2. <<o>> \in Seq(Ops) /\ Harmless(<<o>>)
          BY <4>1 DEF Harmless
        <4>. QED
          BY <1>0, <2>1, <4>1, <4>2
      <3>. QED
        BY <2>5, <3>1, <3>2 DEF AnswerHostKey
    <2>. QED
      BY <1>1, <2>2, <2>3, <2>4, <2>5 DEF User, Quiet
  <1>2. CASE Worker
    <2>1. CASE TakesOne
      <3>1. /\ \A i \in DOMAIN queue' : i + 1 \in DOMAIN queue /\ queue'[i] = queue[i + 1]
            /\ Head(queue) = queue[1] /\ 1 \in DOMAIN queue /\ service' = service
            /\ running' \in {running, Head(queue)}
        BY <2>1 DEF TakesOne, Types, worker
      <3>. QED
        BY <3>1 DEF OpsNamed, NamedOk
    <2>2. ASSUME NEW m \in Signals, Reports(m) PROVE OpsNamed'
      <3>1. running'.kind = "transfer" /\ UNCHANGED <<queue, service>>
        BY <2>2 DEF Reports, worker
      <3>. QED
        BY <3>1 DEF OpsNamed, NamedOk
    <2>3. ASSUME NEW m \in Signals, Finishes(m), Effect(m) PROVE OpsNamed'
      <3>1. UNCHANGED queue /\ running' = NoOp /\ m.op = running /\ running # NoOp
        BY <2>3 DEF Finishes
      <3>2. CASE service' \in {service, NoServer}
        BY <3>1, <3>2 DEF OpsNamed, NamedOk
      <3>3. CASE running.kind = "connect"
        <4>1. \A i \in DOMAIN queue : ~OfServer(queue[i])
          BY <3>1, <3>3 DEF ConnectInv, NothingOfServer, Connecting, ShutDown
        <4>2. \A i \in DOMAIN queue : queue[i].kind \in {"delete", "rename"} =>
                                         queue[i].side = "local"
          <5>1. \A i \in DOMAIN queue : queue[i] \in Ops
            BY DEF Types, QueueType
          <5>. QED
            BY <4>1, <5>1, OpTypes DEF OfServer, Sides
        <4>. QED
          BY <3>1, <4>2 DEF OpsNamed, NamedOk
      <3>. QED
        BY <2>3, <3>1, <3>2, <3>3 DEF Effect
    <2>. QED
      BY <1>2, <2>1, <2>2, <2>3, WorkerSteps
  <1>3. CASE Deliver
    <2>1. UNCHANGED <<running, service>>
      BY <1>3, Delivering DEF Delivered, worker
    <2>2. CASE Connected
      <3>1. PICK o \in Ops : Enqueue(<<o>>) /\ (o = List("remote", Home) \/ o.kind = "open")
        BY <2>2, ConnectedQueues
      <3>2. <<o>> \in Seq(Ops) /\ Harmless(<<o>>)
        BY <3>1 DEF Harmless, List
      <3>. QED
        BY <1>0, <2>1, <3>1, <3>2
    <2>. QED
      BY <1>0, <1>3, <2>1, <2>2, DeliverQueues DEF Deliver
  <1>4. CASE Shutdown
    BY <1>4 DEF Shutdown, OpsNamed, NamedOk
  <1>. QED
    BY <1>1, <1>2, <1>3, <1>4 DEF Next

-----------------------------------------------------------------------------
(* Nothing else is deleted *)

SessionInv ==
    Types /\ ConnectInv /\ ShutDown /\ Sessions /\ DialogNamed /\ OpsNamed

LEMMA SessionInvInit == Init => SessionInv
  <1>. SUFFICES ASSUME Init PROVE SessionInv
    OBVIOUS
  <1>1. Types
    BY TypesInit
  <1>2. ConnectInv /\ ShutDown
    <2>1. /\ queue = <<List("local", Home)>> /\ running = NoOp /\ posted = <<>>
          /\ ~hostDialog /\ ~connected /\ service = NoServer /\ ~quit
      BY DEF Init
    <2>2. /\ \A i \in DOMAIN queue : i = 1 /\ queue[i].kind = "list" /\ queue[i].side = "local"
          /\ DOMAIN posted = {}
      BY <2>1 DEF List
    <2>3. ~Connecting
      BY <2>1, <2>2 DEF Connecting
    <2>4. OneConnect
      BY <2>1, <2>2 DEF OneConnect
    <2>. QED
      BY <2>1, <2>3, <2>4 DEF ConnectInv, NothingOfServer, ShutDown
  <1>3. Sessions
    BY DEF Init, Sessions, ModelPlaces, SignalOrder, Sides
  <1>4. DialogNamed /\ OpsNamed
    BY DEF Init, DialogNamed, OpsNamed, NamedOk, List
  <1>. QED
    BY <1>1, <1>2, <1>3, <1>4 DEF SessionInv

LEMMA SessionInvNext == SessionInv /\ [Next]_vars => SessionInv'
  <1>. SUFFICES ASSUME SessionInv, [Next]_vars PROVE SessionInv'
    OBVIOUS
  <1>1. CASE UNCHANGED vars
    <2>1. Types'
      BY TypesNext DEF SessionInv
    <2>2. UNCHANGED <<connected, path, history, model, selection, dialog, hostDialog, queue,
                      running, posted, service, quit, unsure>>
      BY <1>1 DEF vars, panes, dialogs, pool, worker
    <2>3. ConnectInv' /\ ShutDown'
      BY <2>2
      DEF SessionInv, ConnectInv, OneConnect, NothingOfServer, Connecting,
          ShutDown
    <2>4. Sessions'
      BY <2>2 DEF SessionInv, Sessions, ModelPlaces, SignalOk, SignalOrder
    <2>5. DialogNamed' /\ OpsNamed'
      BY <2>2 DEF SessionInv, DialogNamed, OpsNamed, NamedOk, Named, Items
    <2>. QED
      BY <2>1, <2>3, <2>4, <2>5 DEF SessionInv
  <1>2. CASE Next
    BY <1>2, TypesNext, ConnectNext, ShutDownNext, SessionsNext, DialogNext,
       OpsNamedNext
    DEF SessionInv
  <1>. QED
    BY <1>1, <1>2

LEMMA SessionInvAlways == Spec => []SessionInv
  BY SessionInvInit, SessionInvNext, PTL DEF Spec

LEMMA RemovedIsNamed ==
  ASSUME SessionInv, Next, NEW place \in Places, NEW dir \in Dirs,
         NEW name \in files[place][dir] \ files'[place][dir]
  PROVE  <<place, dir, name>> \in running.named
  <1>0. Types
    BY DEF SessionInv
  <1>1. files' # files
    OBVIOUS
  <1>2. CASE Worker
    <2>1. PICK m \in Signals : Finishes(m) /\ Effect(m)
      BY <1>0, <1>2, WorkerSteps DEF TakesOne, Reports, worker
    <2>2. running # NoOp /\ running \in Ops /\ m.op = running
      BY <1>0, <2>1 DEF Finishes, Types, SignalTypes
    <2>3. CASE /\ running.kind \in {"create", "delete", "rename"}
               /\ Place(running.side) # NoServer
               /\ files' = [files EXCEPT ![Place(running.side)][ChangedDir] = Changed(@)]
      <3>1. /\ place = Place(running.side) /\ dir = ChangedDir
            /\ name \in files[place][dir] /\ name \notin Changed(files[place][dir])
        BY <1>0, <2>3 DEF Types, FilesTypes
      <3>2. running.kind \in {"delete", "rename"} /\ name = running.item.name
        BY <2>3, <3>1 DEF Changed
      <3>3. dir = running.item.dir
        BY <3>1, <3>2 DEF ChangedDir
      <3>. QED
        BY <2>2, <2>3, <3>2, <3>3 DEF SessionInv, OpsNamed, NamedOk, Place
    <2>4. CASE \E p, d, n : files' = [files EXCEPT ![p][d] = @ \cup {n}]
      BY <1>0, <2>4 DEF Types, FilesTypes
    <2>5. \/ files' = files
          \/ /\ m.op.kind \in {"create", "delete", "rename"}
             /\ Place(m.op.side) # NoServer
             /\ files' = [files EXCEPT ![Place(m.op.side)][ChangedDir] = Changed(@)]
          \/ files' = [files EXCEPT ![Place(Other(m.op.side))][m.op.into] =
                                       @ \cup {m.op.item.name}]
      BY <2>1 DEF Effect
    <2>. QED
      BY <1>1, <2>2, <2>3, <2>4, <2>5
  <1>3. CASE User \/ Deliver \/ Shutdown
    BY <1>0, <1>3, UserKeeps, Delivering DEF Delivered, worker, Shutdown
  <1>. QED
    BY <1>2, <1>3 DEF Next

\* An entry is deleted or renamed only if the user's dialog named it, on that
\* server and in that directory: whatever was listed, moved, disconnected or
\* connected between the selection, the answer and the operation.
THEOREM OnlyNamedIsRemoved == Spec => ActsOnNamed
  <1>. DEFINE Acts == \A place \in Places, dir \in Dirs :
                        \A name \in files[place][dir] \ files'[place][dir] :
                           <<place, dir, name>> \in running.named
  <1>1. SessionInv /\ [Next]_vars => [Acts]_vars
    BY RemovedIsNamed
  <1>. QED
    BY <1>1, SessionInvAlways, PTL DEF Spec, ActsOnNamed

-----------------------------------------------------------------------------
(* What the user queues for the panes *)

\* A pane that moves is listed where it moves to.
MovesListed ==
    \A s \in Sides : s = "local" \/ connected =>
      path'[s] = path[s] \/ \E i \in DOMAIN queue' : queue'[i] = List(s, path'[s])

Grows == \A i \in DOMAIN queue : i \in DOMAIN queue' /\ queue'[i] = queue[i]

LEMMA QueueGrows ==
  ASSUME Types, NEW ops \in Seq(Ops), Enqueue(ops)
  PROVE  Grows /\ \A k \in DOMAIN ops : \E i \in DOMAIN queue' : queue'[i] = ops[k]
  <1>1. /\ \A i \in DOMAIN queue : i \in DOMAIN queue' /\ queue'[i] = queue[i]
        /\ \A k \in DOMAIN ops : /\ Len(queue) + k \in DOMAIN queue'
                                /\ queue'[Len(queue) + k] = ops[k]
    BY Concatenated DEF Types, QueueType, Enqueue
  <1>. QED
    BY <1>1 DEF Grows

LEMMA QueueOne ==
  ASSUME Types, NEW o \in Ops, Enqueue(<<o>>)
  PROVE  Grows /\ \E i \in DOMAIN queue' : queue'[i] = o
  <1>1. <<o>> \in Seq(Ops) /\ 1 \in DOMAIN <<o>> /\ <<o>>[1] = o
    OBVIOUS
  <1>. QED
    BY <1>1, QueueGrows

LEMMA QueueSame ==
  ASSUME UNCHANGED queue
  PROVE  Grows
  BY DEF Grows

LEMMA QueueRefresh ==
  ASSUME Types, NEW s \in Sides, NEW d \in Dirs, Enqueue(Refresh(s, d))
  PROVE  /\ Grows
         /\ s = "local" \/ connected => \E i \in DOMAIN queue' : queue'[i] = List(s, d)
  <1>1. CASE s = "local" \/ connected
    <2>. DEFINE o == List(s, d)
    <2>1. o \in Ops /\ Enqueue(<<o>>)
      BY <1>1, OpsMade DEF Refresh
    <2>. HIDE DEF o
    <2>2. Grows /\ \E i \in DOMAIN queue' : queue'[i] = o
      BY <2>1, QueueOne
    <2>. QED
      BY <2>2 DEF o
  <1>2. CASE ~(s = "local" \/ connected)
    BY <1>2, QueueGrows, RefreshQueues
  <1>. QED
    BY <1>1, <1>2

LEMMA UserMoves ==
  ASSUME Types, User
  PROVE  Grows /\ MovesListed
  <1>1. ASSUME UNCHANGED path, \E ops \in Seq(Ops) : Enqueue(ops)
        PROVE  Grows /\ MovesListed
    BY <1>1, QueueGrows DEF MovesListed
  <1>2. CASE \/ Disconnect \/ RejectDialog
             \/ \E s \in Sides :
                  \/ RefreshPane(s)
                  \/ \E mode \in {"create", "rename", "delete"},
                        rows \in SUBSET DOMAIN model[s].rows : OpenDialog(s, mode, rows)
                  \/ \E row \in DOMAIN model[s].rows : QueueTransfer(s, row)
             \/ \E t \in Tasks : CancelTransfer(t)
    <2>1. UNCHANGED path
      BY <1>2
      DEF Disconnect, RejectDialog, RefreshPane, OpenDialog, QueueTransfer,
          CancelTransfer, panes
    <2>2. Quiet
      BY <1>2 DEF Quiet
    <2>. QED
      BY <1>1, <2>1, <2>2, QuietQueues
  <1>3. ASSUME NEW to \in Names, AcceptDialog(to) PROVE Grows /\ MovesListed
    <2>1. UNCHANGED path
      BY <1>3 DEF AcceptDialog
    <2>. QED
      BY <1>1, <1>3, <2>1, AcceptQueues
  <1>4. ASSUME NEW accepted \in BOOLEAN, AnswerHostKey(accepted) PROVE Grows /\ MovesListed
    <2>1. UNCHANGED path
      BY <1>4 DEF AnswerHostKey, panes
    <2>2. CASE UNCHANGED queue
      BY <2>1, <2>2, QueueSame DEF MovesListed
    <2>3. CASE wanted # NoWish /\
               Enqueue(<<[kind |-> "connect", host |-> wanted.host, trust |-> hostKey]>>)
      <3>. DEFINE o == [kind |-> "connect", host |-> wanted.host, trust |-> hostKey]
      <3>1. o \in Ops /\ Enqueue(<<o>>)
        BY <2>3, OpsMade DEF Types, DialogTypes, WorkerTypes
      <3>. HIDE DEF o
      <3>. QED
        BY <2>1, <3>1, QueueOne DEF MovesListed
    <2>. QED
      BY <1>4, <2>2, <2>3 DEF AnswerHostKey
  <1>5. ASSUME NEW host \in Servers, NEW dir \in Dirs, NEW local \in Dirs,
               Connect(host, dir, local)
        PROVE  Grows /\ MovesListed
    <2>. DEFINE connect == [kind |-> "connect", host |-> host, trust |-> NoServer]
                list == List("local", local)
    <2>1. connect \in Ops /\ list \in Ops
      BY OpsMade DEF Sides
    <2>2. \/ Enqueue(<<connect>>) /\ UNCHANGED path
          \/ Enqueue(<<list, connect>>) /\ path' = [path EXCEPT !["local"] = local]
      BY <1>5 DEF Connect, SetPath
    <2>3. ~connected
      BY <1>5 DEF Connect
    <2>. HIDE DEF connect
    <2>4. CASE Enqueue(<<connect>>) /\ UNCHANGED path
      BY <2>1, <2>4, QueueOne DEF MovesListed
    <2>5. CASE Enqueue(<<list, connect>>) /\ path' = [path EXCEPT !["local"] = local]
      <3>1. path'["local"] = local
        BY <2>5 DEF Types, PathTypes, Sides
      <3>. HIDE DEF list
      <3>2. <<list, connect>> \in Seq(Ops) /\ 1 \in DOMAIN <<list, connect>>
            /\ <<list, connect>>[1] = list
        BY <2>1
      <3>3. Grows /\ \E i \in DOMAIN queue' : queue'[i] = list
        BY <2>5, <3>2, QueueGrows
      <3>. QED
        BY <2>3, <3>1, <3>3 DEF MovesListed, list
    <2>. QED
      BY <2>2, <2>4, <2>5
  <1>6. ASSUME NEW s \in Sides, NEW d \in Dirs, path' = [path EXCEPT ![s] = d],
               Enqueue(Refresh(s, d))
        PROVE  Grows /\ MovesListed
    <2>1. path'[s] = d /\ \A r \in Sides : r # s => path'[r] = path[r]
      BY <1>6 DEF Types, PathTypes
    <2>. QED
      BY <1>6, <2>1, QueueRefresh DEF MovesListed
  <1>7. ASSUME NEW s \in Sides, NEW d \in Dirs, OpenDirectory(s, d)
        PROVE  Grows /\ MovesListed
    <2>1. CASE s = "local"
      BY <1>6, <1>7, <2>1 DEF OpenDirectory, SetPath
    <2>2. CASE s # "local"
      <3>. DEFINE o == [kind |-> "open", dir |-> d]
      <3>1. o \in Ops /\ Enqueue(<<o>>) /\ UNCHANGED path
        BY <1>7, <2>2, OpsMade DEF OpenDirectory
      <3>. HIDE DEF o
      <3>. QED
        BY <3>1, QueueOne DEF MovesListed
    <2>. QED
      BY <2>1, <2>2
  <1>8. ASSUME NEW s \in Sides, NEW delta \in {-1, 1}, Navigate(s, delta)
        PROVE  Grows /\ MovesListed
    <2>. DEFINE d == history[s].list[history[s].index + delta]
    <2>1. d \in Dirs
      BY <1>8 DEF Navigate, Types, PathTypes
    <2>2. path' = [path EXCEPT ![s] = d] /\ Enqueue(Refresh(s, d))
      BY <1>8 DEF Navigate
    <2>. HIDE DEF d
    <2>. QED
      BY <1>6, <2>1, <2>2
  <1>. QED
    BY <1>2, <1>3, <1>4, <1>5, <1>7, <1>8 DEF User

-----------------------------------------------------------------------------
(* Panes *)

Truth(s) ==
    [place |-> Place(s), dir |-> path[s], rows |-> Rows(Place(s), path[s])]

\* The signal is a listing that the pane will show.
Matches(m, s) == IsListing(m) /\ m.op.side = s /\ m.op.dir = path[s]

\* The signal will have the pane listed again, or leaves it unsure.
Triggers(m, s) ==
    \/ m.op.kind \in {"create", "delete", "rename"} /\ m.op.side = s /\ m.outcome = "ok"
    \/ m.op.kind = "transfer" /\ m.outcome = "ok"
    \/ m.op.kind = "transfer" /\ m.outcome \in {"error", "cancelled"} /\ Other(m.op.side) = s
    \/ m.op.kind = "list" /\ m.op.side = s /\ m.outcome # "ok"
    \/ Matches(m, s)

\* A listing of the pane waits or runs.
ListingDue(s) ==
    \/ \E i \in DOMAIN queue : queue[i] = List(s, path[s])
    \/ running = List(s, path[s])

\* The directory of the profile is to be opened first.
OpeningDue ==
    \/ \E i \in DOMAIN queue : queue[i].kind = "open"
    \/ running # NoOp /\ running.kind = "open"
    \/ \E i \in DOMAIN posted : posted[i].op.kind = "open"

Later(s, k) ==
    \/ ListingDue(s)
    \/ \E j \in DOMAIN posted : j > k /\ Triggers(posted[j], s)

Live(s) == ~quit /\ (s = "remote" => connected /\ service # NoServer)

Shown(s) ==
    s \notin unsure =>
      \/ model[s] = Truth(s)
      \/ Later(s, 0)
      \/ s = "remote" /\ model[s] = Blank /\ OpeningDue

Coming(s) ==
    \A k \in DOMAIN posted : Matches(posted[k], s) =>
       posted[k].listing = Truth(s) \/ Later(s, k)

PaneInv(s) == Live(s) => Shown(s) /\ Coming(s)

PanesInv == \A s \in Sides : PaneInv(s)

LEMMA PanesUser ==
  ASSUME Types, PanesInv, User
  PROVE  PanesInv'
  <1>1. Grows /\ MovesListed
    BY UserMoves
  <1>2. UNCHANGED <<files, connected, model, running, posted, service, quit, unsure>>
    BY UserKeeps
  <1>3. SUFFICES ASSUME NEW s \in Sides, Live(s)' PROVE Shown(s)' /\ Coming(s)'
    BY DEF PanesInv, PaneInv
  <1>4. Live(s) /\ Shown(s) /\ Coming(s) /\ (s = "local" \/ connected)
    BY <1>2, <1>3 DEF Live, PanesInv, PaneInv, Sides
  <1>5. CASE ListingDue(s)'
    BY <1>5 DEF Shown, Coming, Later
  <1>6. CASE path'[s] = path[s]
    <2>1. Truth(s)' = Truth(s)
      BY <1>2, <1>6 DEF Truth, Place, Rows
    <2>2. ListingDue(s) => ListingDue(s)'
      BY <1>1, <1>2, <1>6 DEF ListingDue, Grows
    <2>3. OpeningDue => OpeningDue'
      BY <1>1, <1>2 DEF OpeningDue, Grows
    <2>4. \A m : (Matches(m, s)' <=> Matches(m, s)) /\ (Triggers(m, s)' <=> Triggers(m, s))
      BY <1>6 DEF Matches, Triggers
    <2>5. \A k : Later(s, k) => Later(s, k)'
      BY <1>2, <2>2, <2>4 DEF Later
    <2>. QED
      BY <1>2, <1>4, <2>1, <2>3, <2>4, <2>5 DEF Shown, Coming
  <1>. QED
    BY <1>1, <1>4, <1>5, <1>6 DEF MovesListed, ListingDue

\* What the worker posts about a pane
LEMMA PostedLast ==
  ASSUME Types, NEW m \in Signals, posted' = Append(posted, m)
  PROVE  /\ \A i \in DOMAIN posted : i \in DOMAIN posted' /\ posted'[i] = posted[i]
         /\ Len(posted) + 1 \in DOMAIN posted' /\ posted'[Len(posted) + 1] = m
         /\ \A i \in DOMAIN posted' : i \in Nat /\ (i \in DOMAIN posted \/ i = Len(posted) + 1)
         /\ \A i \in DOMAIN posted : i \in Nat /\ i < Len(posted) + 1
         /\ 0 < Len(posted) + 1
  <1>1. posted \in Seq(Signals)
    BY DEF Types, SignalTypes
  <1>. QED
    BY <1>1, Appended

LEMMA AppendPane ==
  ASSUME Types, NEW m \in Signals, posted' = Append(posted, m), NEW s \in Sides,
         Shown(s), Coming(s), UNCHANGED <<path, model, unsure>>,
         Matches(m, s) => m.listing = Truth(s)',
         \/ Triggers(m, s)
         \/ /\ Truth(s)' = Truth(s)
            /\ ListingDue(s) => ListingDue(s)'
            /\ s = "remote" /\ OpeningDue => OpeningDue'
  PROVE  Shown(s)' /\ Coming(s)'
  <1>1. /\ \A i \in DOMAIN posted : i \in DOMAIN posted' /\ posted'[i] = posted[i]
        /\ Len(posted) + 1 \in DOMAIN posted' /\ posted'[Len(posted) + 1] = m
        /\ \A i \in DOMAIN posted' : i \in Nat /\ (i \in DOMAIN posted \/ i = Len(posted) + 1)
        /\ \A i \in DOMAIN posted : i \in Nat /\ i < Len(posted) + 1
        /\ 0 < Len(posted) + 1
    BY PostedLast
  <1>2. \A q : (Matches(q, s)' <=> Matches(q, s)) /\ (Triggers(q, s)' <=> Triggers(q, s))
    BY DEF Matches, Triggers
  <1>3. CASE Triggers(m, s)
    <2>1. Later(s, 0)' /\ \A i \in DOMAIN posted : Later(s, i)'
      BY <1>1, <1>2, <1>3 DEF Later
    <2>. QED
      BY <1>1, <1>2, <2>1 DEF Shown, Coming
  <1>4. CASE /\ Truth(s)' = Truth(s)
             /\ ListingDue(s) => ListingDue(s)'
             /\ s = "remote" /\ OpeningDue => OpeningDue'
    <2>1. \A k : Later(s, k) => Later(s, k)'
      BY <1>1, <1>2, <1>4 DEF Later
    <2>. QED
      BY <1>2, <1>4, <2>1 DEF Shown, Coming
  <1>. QED
    BY <1>3, <1>4

LEMMA PanesTake ==
  ASSUME Types, PanesInv, TakesOne
  PROVE  PanesInv'
  <1>1. SUFFICES ASSUME NEW s \in Sides, Live(s)' PROVE Shown(s)' /\ Coming(s)'
    BY DEF PanesInv, PaneInv
  <1>2. UNCHANGED <<files, path, model, connected, service, quit, unsure>>
    BY DEF TakesOne, Gui, worker, panes
  <1>3. Live(s) /\ Shown(s) /\ Coming(s)
    BY <1>1, <1>2 DEF Live, PanesInv, PaneInv
  <1>4. Truth(s)' = Truth(s)
    BY <1>2 DEF Truth, Place, Rows
  <1>5. /\ 1 \in DOMAIN queue /\ Head(queue) = queue[1] /\ Head(queue) \in Ops
        /\ \A i \in DOMAIN queue : \/ i = 1
                                   \/ i - 1 \in DOMAIN queue' /\ queue'[i - 1] = queue[i]
    <2>1. queue \in Seq(Ops)
      BY DEF Types, QueueType
    <2>. QED
      BY <2>1, Shortened DEF TakesOne
  <1>6. running = NoOp /\ List(s, path[s]) # NoOp
    BY OpsMade, NoOpAssumption DEF TakesOne, Types, PathTypes
  <1>7. CASE running' = Head(queue) /\ posted' = posted
    <2>1. running' # NoOp
      BY <1>5, <1>7, NoOpAssumption
    <2>2. ListingDue(s) => ListingDue(s)'
      BY <1>2, <1>5, <1>6, <1>7 DEF ListingDue
    <2>3. OpeningDue => OpeningDue'
      BY <1>5, <1>6, <1>7, <2>1 DEF OpeningDue
    <2>4. \A q : (Matches(q, s)' <=> Matches(q, s)) /\ (Triggers(q, s)' <=> Triggers(q, s))
      BY <1>2 DEF Matches, Triggers
    <2>5. \A k : Later(s, k) => Later(s, k)'
      BY <1>7, <2>2, <2>4 DEF Later
    <2>. QED
      BY <1>2, <1>3, <1>4, <1>7, <2>3, <2>4, <2>5 DEF Shown, Coming
  <1>8. CASE running' = running /\ posted' # posted
    <2>1. PICK m \in Signals : /\ posted' = Append(posted, m) /\ m.op = Head(queue)
                               /\ Head(queue).kind = "transfer" /\ m.outcome = "cancelled"
      BY <1>8 DEF TakesOne
    <2>2. ListingDue(s) => ListingDue(s)'
      BY <1>2, <1>5, <1>8, <2>1 DEF ListingDue, List
    <2>3. OpeningDue => OpeningDue'
      <3>1. \A i \in DOMAIN posted : i \in DOMAIN posted' /\ posted'[i] = posted[i]
        BY <2>1, PostedLast
      <3>. QED
        BY <1>5, <1>6, <2>1, <3>1 DEF OpeningDue
    <2>4. ~Matches(m, s)
      BY <2>1 DEF Matches, IsListing
    <2>. QED
      BY <1>2, <1>3, <1>4, <2>1, <2>2, <2>3, <2>4, AppendPane
  <1>. QED
    BY <1>7, <1>8 DEF TakesOne

LEMMA PanesReport ==
  ASSUME Types, PanesInv, NEW m \in Signals, Reports(m)
  PROVE  PanesInv'
  <1>1. SUFFICES ASSUME NEW s \in Sides, Live(s)' PROVE Shown(s)' /\ Coming(s)'
    BY DEF PanesInv, PaneInv
  <1>2. UNCHANGED <<files, path, model, connected, service, quit, unsure, queue>>
        /\ posted' = Append(posted, m)
    BY DEF Reports, Gui, worker, panes
  <1>3. Live(s) /\ Shown(s) /\ Coming(s)
    BY <1>1, <1>2 DEF Live, PanesInv, PaneInv
  <1>4. Truth(s)' = Truth(s)
    BY <1>2 DEF Truth, Place, Rows
  <1>5. running.kind = "transfer" /\ m.outcome = "progress"
    BY DEF Reports
  <1>6. ListingDue(s) => ListingDue(s)'
    BY <1>2, <1>5 DEF ListingDue, List
  <1>7. OpeningDue => OpeningDue'
    <2>1. \A i \in DOMAIN posted : i \in DOMAIN posted' /\ posted'[i] = posted[i]
      BY <1>2, PostedLast
    <2>. QED
      BY <1>2, <1>5, <2>1 DEF OpeningDue
  <1>8. ~Matches(m, s)
    BY <1>5 DEF Matches, IsListing
  <1>. QED
    BY <1>2, <1>3, <1>4, <1>6, <1>7, <1>8, AppendPane

\* A finished operation has the pane listed again if it changed its directory.
LEMMA PanesFinish ==
  ASSUME Types, ConnectInv, PanesInv, NEW m \in Signals, Finishes(m), Effect(m)
  PROVE  PanesInv'
  <1>1. SUFFICES ASSUME NEW s \in Sides, Live(s)' PROVE Shown(s)' /\ Coming(s)'
    BY DEF PanesInv, PaneInv
  <1>2. /\ UNCHANGED <<path, model, connected, quit, unsure, queue>>
        /\ posted' = Append(posted, m) /\ running' = NoOp /\ running # NoOp
        /\ running \in Ops /\ m.op = running
        /\ m.outcome \in {"ok", "error", "cancelled"}
    BY DEF Finishes, Gui, panes, Types, SignalTypes
  <1>3. s = "remote" => service' = service
    <2>1. running.kind = "connect" => quit \/ ~connected
      BY <1>2 DEF ConnectInv, NothingOfServer, Connecting
    <2>. QED
      BY <1>1, <1>2, <2>1 DEF Effect, Live
  <1>4. Live(s) /\ Shown(s) /\ Coming(s)
    BY <1>1, <1>2, <1>3 DEF Live, PanesInv, PaneInv
  <1>5. Place(s)' = Place(s)
    BY <1>3 DEF Place, Sides
  <1>6. Place(s) # NoServer /\ \A r \in Sides : r # s => Place(r) # Place(s)
    BY <1>4, SftpAssumption DEF Place, Sides, Live, Types, WorkerTypes
  <1>7. Triggers(m, s) \/ files'[Place(s)] = files[Place(s)]
    <2>1. \/ files' = files
          \/ /\ m.op.kind \in {"create", "delete", "rename"} /\ m.outcome = "ok"
             /\ files' = [files EXCEPT ![Place(m.op.side)][ChangedDir] = Changed(@)]
          \/ /\ m.op.kind = "transfer"
             /\ files' = [files EXCEPT ![Place(Other(m.op.side))][m.op.into] =
                                          @ \cup {m.op.item.name}]
      BY DEF Effect
    <2>2. CASE files' = files
      BY <2>2
    <2>3. CASE /\ m.op.kind \in {"create", "delete", "rename"} /\ m.outcome = "ok"
               /\ files' = [files EXCEPT ![Place(m.op.side)][ChangedDir] = Changed(@)]
      <3>1. m.op.side \in Sides
        BY <1>2, <2>3, OpTypes
      <3>2. CASE m.op.side = s
        BY <2>3, <3>2 DEF Triggers
      <3>3. CASE m.op.side # s
        BY <1>6, <2>3, <3>1, <3>3
      <3>. QED
        BY <3>2, <3>3
    <2>4. CASE /\ m.op.kind = "transfer"
               /\ files' = [files EXCEPT ![Place(Other(m.op.side))][m.op.into] =
                                            @ \cup {m.op.item.name}]
      <3>1. Other(m.op.side) \in Sides
        BY DEF Other, Sides
      <3>2. CASE Other(m.op.side) = s
        BY <1>2, <2>4, <3>2 DEF Triggers
      <3>3. CASE Other(m.op.side) # s
        BY <1>6, <2>4, <3>1, <3>3
      <3>. QED
        BY <3>2, <3>3
    <2>. QED
      BY <2>1, <2>2, <2>3, <2>4
  <1>8. files'[Place(s)] = files[Place(s)] => Truth(s)' = Truth(s)
    BY <1>2, <1>5 DEF Truth, Rows
  <1>9. Matches(m, s) => m.listing = Truth(s)'
    <2>1. SUFFICES ASSUME Matches(m, s) PROVE m.listing = Truth(s)'
      OBVIOUS
    <2>2. /\ m.op.kind = "list" /\ m.op.side = s /\ m.op.dir = path[s]
          /\ m.listing = Truth(s)
      BY <2>1 DEF Effect, Matches, IsListing, Truth
    <2>3. files' = files
      BY <2>2 DEF Effect
    <2>. QED
      BY <1>8, <2>2, <2>3
  <1>10. \/ Triggers(m, s)
         \/ /\ ListingDue(s) => ListingDue(s)'
            /\ s = "remote" /\ OpeningDue => OpeningDue'
    <2>1. CASE running = List(s, path[s])
      <3>1. m.op.kind = "list" /\ m.op.side = s /\ m.op.dir = path[s]
        BY <1>2, <2>1 DEF List
      <3>. QED
        BY <3>1 DEF Triggers, Matches, IsListing
    <2>2. CASE running # List(s, path[s])
      <3>1. ListingDue(s) => ListingDue(s)'
        BY <1>2, <2>2 DEF ListingDue
      <3>2. OpeningDue => OpeningDue'
        BY <1>2, PostedLast DEF OpeningDue
      <3>. QED
        BY <3>1, <3>2
    <2>. QED
      BY <2>1, <2>2
  <1>. QED
    BY <1>2, <1>4, <1>7, <1>8, <1>9, <1>10, AppendPane

LEMMA PostedFirst ==
  ASSUME Types, posted # <<>>, posted' = Tail(posted)
  PROVE  /\ 1 \in DOMAIN posted /\ \A i \in DOMAIN posted : i \in Nat
         /\ \A i \in DOMAIN posted : i # 1 => /\ i - 1 \in DOMAIN posted'
                                              /\ posted'[i - 1] = posted[i]
         /\ \A i \in DOMAIN posted' : /\ i \in Nat /\ i + 1 \in DOMAIN posted
                                      /\ posted'[i] = posted[i + 1]
         /\ \A i \in DOMAIN posted' : i > 0
  <1>1. posted \in Seq(Signals)
    BY DEF Types, SignalTypes
  <1>2. \A i \in DOMAIN posted : i \in Nat /\ i >= 1
    BY <1>1
  <1>3. Tail(posted) \in Seq(Signals) /\ \A i \in DOMAIN Tail(posted) : i \in Nat /\ i > 0
    BY <1>1
  <1>. QED
    BY <1>1, <1>2, <1>3, Shortened

\* Once a signal is delivered, what comes is still to come.
LEMMA DeliverComing ==
  ASSUME Types, Delivered, Grows, NEW s \in Sides, Coming(s), UNCHANGED files,
         path'[s] = path[s]
  PROVE  /\ Truth(s)' = Truth(s)
         /\ Coming(s)'
         /\ Later(s, 1) => Later(s, 0)'
         /\ ~Triggers(posted[1], s) /\ Later(s, 0) => Later(s, 0)'
         /\ posted[1].op.kind # "open" /\ OpeningDue => OpeningDue'
  <1>1. UNCHANGED <<running, service>> /\ posted # <<>> /\ posted' = Tail(posted)
    BY DEF Delivered, worker
  <1>2. Truth(s)' = Truth(s)
    BY <1>1 DEF Truth, Place, Rows
  <1>3. ListingDue(s) => ListingDue(s)'
    BY <1>1 DEF ListingDue, Grows
  <1>5. /\ 1 \in DOMAIN posted /\ \A i \in DOMAIN posted : i \in Nat
        /\ \A i \in DOMAIN posted : i # 1 => /\ i - 1 \in DOMAIN posted'
                                             /\ posted'[i - 1] = posted[i]
        /\ \A i \in DOMAIN posted' : /\ i \in Nat /\ i + 1 \in DOMAIN posted
                                     /\ posted'[i] = posted[i + 1]
        /\ \A i \in DOMAIN posted' : i > 0
    BY <1>1, PostedFirst
  <1>6. ASSUME NEW k \in Nat, Later(s, k + 1) PROVE Later(s, k)'
    <2>1. CASE ListingDue(s)
      BY <1>3, <2>1 DEF Later
    <2>2. ASSUME NEW j \in DOMAIN posted, j > k + 1, Triggers(posted[j], s)
          PROVE  Later(s, k)'
      <3>1. j \in Nat /\ j # 1 /\ j - 1 > k
        BY <1>5, <2>2
      <3>2. j - 1 \in DOMAIN posted' /\ posted'[j - 1] = posted[j]
        BY <1>5, <3>1
      <3>3. Triggers(posted[j - 1], s)'
        BY <2>2, <3>2 DEF Triggers, Matches, IsListing
      <3>. QED
        BY <3>1, <3>2, <3>3 DEF Later
    <2>. QED
      BY <1>6, <2>1, <2>2 DEF Later
  <1>7. Later(s, 1) => Later(s, 0)'
    <2>1. 0 + 1 = 1 /\ 0 \in Nat
      OBVIOUS
    <2>. QED
      BY <1>6, <2>1
  <1>8. ~Triggers(posted[1], s) /\ Later(s, 0) => Later(s, 1)
    <2>1. \A j \in DOMAIN posted : j > 0 => j = 1 \/ j > 1
      BY <1>5
    <2>. QED
      BY <2>1 DEF Later
  <1>9. Coming(s)'
    <2>1. SUFFICES ASSUME NEW k \in DOMAIN posted', Matches(posted[k], s)'
                   PROVE  posted'[k].listing = Truth(s)' \/ Later(s, k)'
      BY DEF Coming
    <2>2. k \in Nat /\ k + 1 \in DOMAIN posted /\ posted'[k] = posted[k + 1]
      BY <1>5
    <2>3. posted[k + 1].listing = Truth(s) \/ Later(s, k + 1)
      BY <2>1, <2>2 DEF Coming, Matches, IsListing
    <2>. QED
      BY <1>2, <1>6, <2>2, <2>3
  <1>10. posted[1].op.kind # "open" /\ OpeningDue => OpeningDue'
    BY <1>1, <1>5 DEF OpeningDue, Grows
  <1>. QED
    BY <1>2, <1>7, <1>8, <1>9, <1>10

\* Most signals neither list the pane nor change what it shows.
LEMMA DeliverOther ==
  ASSUME Types, Delivered, Grows, NEW s \in Sides, Shown(s), Coming(s), UNCHANGED files,
         path'[s] = path[s], model'[s] = model[s],
         \/ s \in unsure'
         \/ /\ s \notin unsure /\ ~Triggers(posted[1], s)
            /\ s = "remote" /\ model[s] = Blank => posted[1].op.kind # "open"
  PROVE  Shown(s)' /\ Coming(s)'
  BY DeliverComing DEF Shown

LEMMA DeliverGrows ==
  ASSUME Types, Deliver
  PROVE  Grows
  <1>1. CASE Connected
    BY <1>1, ConnectedQueues, QueueOne
  <1>. QED
    BY <1>1, DeliverQueues, QueueGrows DEF Deliver

LEMMA PanesDeliver ==
  ASSUME Types, Sessions, ConnectInv, PanesInv, Deliver
  PROVE  PanesInv'
  <1>1. SUFFICES ASSUME NEW s \in Sides, Live(s)' PROVE Shown(s)' /\ Coming(s)'
    BY DEF PanesInv, PaneInv
  <1>2. /\ Delivered /\ Grows /\ UNCHANGED <<files, service, running, quit>> /\ ~quit
        /\ op = posted[1].op /\ op \in Ops /\ posted[1] \in Signals
    BY Delivering, DeliverGrows, DeliveredTypes DEF Delivered, worker, Types
  <1>3. 1 \in DOMAIN posted
    BY <1>2, PostedFirst DEF Delivered
  <1>4. Live(s) => Shown(s) /\ Coming(s)
    BY DEF PanesInv, PaneInv
  <1>5. ASSUME ListingDue(s)' PROVE Shown(s)' /\ Coming(s)'
    BY <1>5 DEF Shown, Coming, Later
  <1>6. CASE Connected
    <2>1. /\ UNCHANGED <<model, unsure>> /\ op.kind = "connect"
          /\ path' = [path EXCEPT !["remote"] = Home]
      BY <1>6 DEF Connected, Delivers
    <2>2. CASE s = "local"
      <3>1. path'[s] = path[s] /\ Live(s)
        BY <1>2, <2>1, <2>2 DEF Live
      <3>2. ~Triggers(posted[1], s)
        BY <1>2, <2>1 DEF Triggers, Matches, IsListing
      <3>. QED
        BY <1>2, <1>4, <2>1, <3>1, <3>2, DeliverOther
    <2>3. CASE s = "remote"
      <3>1. path'[s] = Home
        BY <2>1, <2>3 DEF Types, PathTypes
      <3>2. PICK o \in Ops : Enqueue(<<o>>) /\ (o = List("remote", Home) \/ o.kind = "open")
        BY <1>6, ConnectedQueues
      <3>3. PICK i \in DOMAIN queue' : queue'[i] = o
        BY <3>2, QueueOne
      <3>4. CASE o = List("remote", Home)
        BY <1>5, <2>3, <3>1, <3>3, <3>4 DEF ListingDue
      <3>5. CASE o.kind = "open"
        <4>1. ~connected /\ \A j \in DOMAIN posted : ~OfServer(posted[j].op)
          BY <1>2, <1>3, <2>1 DEF ConnectInv, NothingOfServer, Connecting
        <4>2. model'[s] = Blank /\ OpeningDue'
          BY <1>2, <2>1, <2>3, <3>3, <3>5, <4>1
          DEF Sessions, ModelPlaces, OpeningDue
        <4>3. Shown(s)'
          BY <2>3, <4>2 DEF Shown
        <4>4. \A k \in DOMAIN posted' : ~Matches(posted[k], s)'
          <5>1. \A k \in DOMAIN posted' : k + 1 \in DOMAIN posted /\ posted'[k] = posted[k + 1]
            BY <1>2, PostedFirst DEF Delivered
          <5>2. \A k \in DOMAIN posted' : ~OfServer(posted'[k].op)
            BY <4>1, <5>1
          <5>. QED
            BY <2>3, <5>2 DEF Matches, IsListing, OfServer
        <4>. QED
          BY <4>3, <4>4 DEF Coming
      <3>. QED
        BY <3>2, <3>4, <3>5
    <2>. QED
      BY <2>2, <2>3 DEF Sides
  <1>7. CASE ConnectFailed \/ Disconnected
    <2>1. /\ connected' = FALSE /\ SetItems("remote", Blank) /\ UNCHANGED path
          /\ unsure' = unsure \ {"remote"} /\ op.kind \in {"connect", "disconnect"}
      BY <1>7 DEF ConnectFailed, Disconnected, Delivers
    <2>2. s = "local"
      BY <1>1, <2>1 DEF Live, Sides
    <2>3. model'[s] = model[s] /\ Live(s) /\ (s \in unsure <=> s \in unsure')
      BY <1>2, <2>1, <2>2 DEF SetItems, Live
    <2>4. ~Triggers(posted[1], s)
      BY <1>2, <2>1 DEF Triggers, Matches, IsListing
    <2>. QED
      BY <1>2, <1>4, <2>1, <2>3, <2>4, DeliverOther
  <1>8. ASSUME UNCHANGED connected PROVE Live(s)
    BY <1>1, <1>2, <1>8 DEF Live
  <1>9. CASE Listed
    <2>. DEFINE listing == Head(posted).listing
    <2>1. /\ UNCHANGED <<connected, path>> /\ op.kind = "list" /\ IsListing(posted[1])
          /\ listing = posted[1].listing /\ op.side \in Sides
      BY <1>2, <1>9, OpTypes DEF Listed, Delivers, Delivered, IsListing
    <2>2. listing.dir = op.dir
      BY <1>2, <1>3, <2>1 DEF Sessions, SignalOk
    <2>3. Live(s) /\ Shown(s) /\ Coming(s)
      BY <1>4, <1>8, <2>1
    <2>4. CASE op.side = s /\ op.dir = path[s]
      <3>1. Matches(posted[1], s)
        BY <1>2, <2>1, <2>4 DEF Matches
      <3>2. listing = Truth(s) \/ Later(s, 1)
        BY <1>3, <2>1, <2>3, <3>1 DEF Coming
      <3>3. model'[s] = listing
        BY <1>9, <2>2, <2>4 DEF Listed, SetItems, Types, PaneTypes
      <3>4. path'[s] = path[s]
        BY <2>1
      <3>5. /\ Truth(s)' = Truth(s) /\ Coming(s)'
            /\ Later(s, 1) => Later(s, 0)'
        BY <1>2, <2>3, <3>4, DeliverComing
      <3>. QED
        BY <3>2, <3>3, <3>5 DEF Shown
    <2>5. CASE op.side = s /\ op.dir # path[s]
      <3>1. UNCHANGED <<model, unsure>>
        BY <1>9, <2>2, <2>5 DEF Listed
      <3>2. ~Triggers(posted[1], s)
        BY <1>2, <2>1, <2>5 DEF Triggers, Matches, IsListing
      <3>. QED
        BY <1>2, <2>1, <2>3, <3>1, <3>2, DeliverOther
    <2>6. CASE op.side # s
      <3>1. model'[s] = model[s] /\ (s \in unsure <=> s \in unsure')
        BY <1>9, <2>6 DEF Listed, SetItems, Types, PaneTypes
      <3>2. ~Triggers(posted[1], s)
        BY <1>2, <2>1, <2>6 DEF Triggers, Matches
      <3>. QED
        BY <1>2, <2>1, <2>3, <3>1, <3>2, DeliverOther
    <2>. QED
      BY <2>4, <2>5, <2>6
  <1>10. CASE Opened
    <2>1. /\ UNCHANGED <<connected, model, unsure>> /\ op.kind = "open" /\ op.dir \in Dirs
          /\ path' = [path EXCEPT !["remote"] = op.dir]
          /\ Enqueue(Refresh("remote", op.dir))
      BY <1>2, <1>10, OpTypes DEF Opened, Delivers, SetPath
    <2>2. Live(s) /\ Shown(s) /\ Coming(s)
      BY <1>4, <1>8, <2>1
    <2>3. CASE s = "local"
      <3>1. path'[s] = path[s]
        BY <2>1, <2>3 DEF Types, PathTypes, Sides
      <3>2. ~Triggers(posted[1], s)
        BY <1>2, <2>1 DEF Triggers, Matches, IsListing
      <3>. QED
        BY <1>2, <2>1, <2>2, <2>3, <3>2, DeliverOther
    <2>4. CASE s = "remote"
      <3>1. path'[s] = op.dir
        BY <2>1, <2>4 DEF Types, PathTypes
      <3>2. connected
        BY <2>2, <2>4 DEF Live
      <3>3. \E i \in DOMAIN queue' : queue'[i] = List("remote", op.dir)
        BY <2>1, <2>4, <3>2, QueueRefresh
      <3>. QED
        BY <1>5, <2>4, <3>1, <3>3 DEF ListingDue
    <2>. QED
      BY <2>3, <2>4 DEF Sides
  <1>11. CASE Mutated
    <2>1. /\ UNCHANGED <<connected, path, model, unsure>>
          /\ op.kind \in {"create", "delete", "rename"} /\ op.side \in Sides
          /\ Enqueue(Refresh(op.side, path[op.side]))
      BY <1>2, <1>11, OpTypes DEF Mutated, Delivers, RefreshAfter, panes
    <2>2. Live(s) /\ Shown(s) /\ Coming(s)
      BY <1>4, <1>8, <2>1
    <2>3. CASE op.side = s
      <3>1. s = "local" \/ connected
        BY <2>2 DEF Live, Sides
      <3>2. \E i \in DOMAIN queue' : queue'[i] = List(s, path[s])
        <4>1. path[s] \in Dirs
          BY DEF Types, PathTypes
        <4>. QED
          BY <2>1, <2>3, <3>1, <4>1, QueueRefresh
      <3>. QED
        BY <1>5, <2>1, <3>2 DEF ListingDue
    <2>4. CASE op.side # s
      <3>1. ~Triggers(posted[1], s) /\ op.kind # "open"
        BY <1>2, <2>1, <2>4 DEF Triggers, Matches
      <3>. QED
        BY <1>2, <2>1, <2>2, <3>1, DeliverOther
    <2>. QED
      BY <2>3, <2>4
  <1>12. CASE Transferred
    <2>. DEFINE a == Refresh("local", path["local"])
                b == Refresh("remote", path["remote"])
    <2>1. UNCHANGED <<connected, path>> /\ Enqueue(a \o b)
      BY <1>12 DEF Transferred, panes
    <2>2. Live(s)
      BY <1>8, <2>1
    <2>3. a \in Seq(Ops) /\ b \in Seq(Ops) /\ List(s, path[s]) \in Ops
      BY RefreshQueues, OpsMade DEF Types, PathTypes, Sides
    <2>4. \/ s = "local" /\ a = <<List(s, path[s])>>
          \/ s = "remote" /\ b = <<List(s, path[s])>>
      BY <2>2 DEF Live, Refresh, Sides
    <2>. HIDE DEF a, b
    <2>5. \E k \in DOMAIN (a \o b) : (a \o b)[k] = List(s, path[s])
      <3>. DEFINE o == List(s, path[s])
      <3>1. o \in Ops /\ (a = <<o>> \/ b = <<o>>)
        BY <2>3, <2>4
      <3>. HIDE DEF o
      <3>2. (1 \in DOMAIN a /\ a[1] = o) \/ (1 \in DOMAIN b /\ b[1] = o)
        BY <3>1
      <3>3. \E k \in DOMAIN (a \o b) : (a \o b)[k] = o
        <4>1. /\ \A k \in DOMAIN a : k \in DOMAIN (a \o b) /\ (a \o b)[k] = a[k]
              /\ \A k \in DOMAIN b : /\ Len(a) + k \in DOMAIN (a \o b)
                                    /\ (a \o b)[Len(a) + k] = b[k]
          BY <2>3, Concatenated
        <4>. QED
          BY <3>2, <4>1
      <3>. QED
        BY <3>3 DEF o
    <2>6. a \o b \in Seq(Ops)
      BY <2>3
    <2>7. \E i \in DOMAIN queue' : queue'[i] = List(s, path[s])
      BY <2>1, <2>5, <2>6, QueueGrows
    <2>. QED
      BY <1>5, <2>1, <2>7 DEF ListingDue
  <1>13. CASE Progressed
    <2>1. /\ UNCHANGED <<connected, path, model, unsure>>
          /\ op.kind = "transfer" /\ posted[1].outcome = "progress"
      BY <1>13 DEF Progressed, Delivers, panes
    <2>2. ~Triggers(posted[1], s)
      BY <1>2, <2>1 DEF Triggers, Matches, IsListing
    <2>. QED
      BY <1>2, <1>4, <1>8, <2>1, <2>2, DeliverOther
  <1>14. CASE TransferFailed
    <2>1. /\ UNCHANGED <<connected, path, model>>
          /\ op.kind = "transfer" /\ posted[1].outcome \in {"error", "cancelled"}
          /\ unsure' = unsure \cup {Other(op.side)}
      BY <1>14 DEF TransferFailed, Delivers, panes
    <2>2. ~Triggers(posted[1], s) \/ s \in unsure'
      BY <1>2, <2>1 DEF Triggers, Matches, IsListing
    <2>. QED
      BY <1>2, <1>4, <1>8, <2>1, <2>2, DeliverOther
  <1>15. CASE Failed
    <2>1. /\ UNCHANGED <<connected, path, model>> /\ posted[1].outcome = "error"
          /\ op.kind \in {"list", "open", "create", "delete", "rename", "disconnect"}
          /\ unsure \subseteq unsure'
          /\ op.kind = "list" => op.side \in unsure'
          /\ op.kind = "open" /\ model["remote"] = Blank => "remote" \in unsure'
      BY <1>15 DEF Failed, Delivers, panes
    <2>2. \/ s \in unsure'
          \/ /\ s \notin unsure /\ ~Triggers(posted[1], s)
             /\ s = "remote" /\ model[s] = Blank => posted[1].op.kind # "open"
      BY <1>2, <2>1 DEF Triggers, Matches, IsListing
    <2>. QED
      BY <1>2, <1>4, <1>8, <2>1, <2>2, DeliverOther
  <1>. QED
    BY <1>6, <1>7, <1>9, <1>10, <1>11, <1>12, <1>13, <1>14, <1>15 DEF Deliver

-----------------------------------------------------------------------------
(* Transfers *)

Moves(o, t) == o.kind = "transfer" /\ o.task = t

Ends(m, t) == Moves(m.op, t) /\ m.outcome # "progress"

\* A transfer that is under way ends.
TransfersInv ==
    ~quit =>
      /\ \A t \in Tasks : transfers[t] \in {"Waiting", "Transferring", "Cancelling"} =>
            \/ \E i \in DOMAIN queue : Moves(queue[i], t)
            \/ running # NoOp /\ Moves(running, t)
            \/ \E i \in DOMAIN posted : Ends(posted[i], t)
      /\ \A i \in DOMAIN posted :
            posted[i].op.kind = "transfer" /\ posted[i].outcome = "progress" =>
              \/ running # NoOp /\ Moves(running, posted[i].op.task)
              \/ \E j \in DOMAIN posted : j > i /\ Ends(posted[j], posted[i].op.task)

Active == {"Waiting", "Transferring", "Cancelling"}

LEMMA TransfersUser ==
  ASSUME Types, TransfersInv, User
  PROVE  TransfersInv'
  <1>1. Grows
    BY UserMoves
  <1>2. UNCHANGED <<running, posted, quit>>
    BY UserKeeps
  <1>3. \A t \in Tasks : transfers'[t] \in Active =>
           \/ transfers[t] \in Active
           \/ \E i \in DOMAIN queue' : Moves(queue'[i], t)
    <2>1. CASE UNCHANGED transfers
      BY <2>1
    <2>2. ASSUME NEW side \in Sides, NEW row \in DOMAIN model[side].rows,
                 QueueTransfer(side, row)
          PROVE  \A t \in Tasks : transfers'[t] \in Active =>
                    transfers[t] \in Active \/ \E i \in DOMAIN queue' : Moves(queue'[i], t)
      <3>. DEFINE n == Cardinality({k \in Tasks : transfers[k] # "none"}) + 1
                  o(item) == [kind |-> "transfer", side |-> side, item |-> item,
                              into |-> path[Other(side)], task |-> n, moved |-> FALSE]
      <3>1. PICK item \in Items(side, {row}) : Enqueue(<<o(item)>>)
        BY <2>2 DEF QueueTransfer
      <3>2. n \in Tasks /\ transfers' = [transfers EXCEPT ![n] = "Waiting"]
        BY <2>2 DEF QueueTransfer
      <3>3. item \in ItemType /\ path[Other(side)] \in Dirs
        BY ItemsTypes DEF Types, PathTypes, Other, Sides
      <3>4. o(item) \in Ops /\ Moves(o(item), n)
        BY <3>2, <3>3 DEF Ops, Moves
      <3>. HIDE DEF n, o
      <3>5. \E i \in DOMAIN queue' : queue'[i] = o(item)
        BY <3>1, <3>4, QueueOne
      <3>. QED
        BY <3>2, <3>4, <3>5 DEF Types, TransferTypes
    <2>3. ASSUME NEW n \in Tasks, CancelTransfer(n)
          PROVE  \A t \in Tasks : transfers'[t] \in Active => transfers[t] \in Active
      BY <2>3 DEF CancelTransfer, Active, Types, TransferTypes
    <2>. QED
      BY <2>2, <2>3
      DEF User, Connect, Disconnect, AnswerHostKey, RefreshPane,
          OpenDirectory, Navigate, OpenDialog, AcceptDialog, RejectDialog,
          tasks
  <1>. QED
    BY <1>1, <1>2, <1>3 DEF TransfersInv, Grows, Active

LEMMA TransfersPosted ==
  ASSUME Types, TransfersInv, NEW m \in Signals, posted' = Append(posted, m),
         UNCHANGED <<transfers, quit>>,
         m.op.kind = "transfer" /\ m.outcome = "progress" =>
            running' # NoOp /\ Moves(running', m.op.task),
         \A t \in Tasks : (\E i \in DOMAIN queue : Moves(queue[i], t)) =>
            (\E i \in DOMAIN queue' : Moves(queue'[i], t)) \/ Ends(m, t)
            \/ (running' # NoOp /\ Moves(running', t)),
         \A t : running # NoOp /\ Moves(running, t) =>
            Ends(m, t) \/ (running' # NoOp /\ Moves(running', t))
  PROVE  TransfersInv'
  <1>1. /\ \A i \in DOMAIN posted : i \in DOMAIN posted' /\ posted'[i] = posted[i]
        /\ Len(posted) + 1 \in DOMAIN posted' /\ posted'[Len(posted) + 1] = m
        /\ \A i \in DOMAIN posted' : i \in Nat /\ (i \in DOMAIN posted \/ i = Len(posted) + 1)
        /\ \A i \in DOMAIN posted : i \in Nat /\ i < Len(posted) + 1
    BY PostedLast
  <1>2. SUFFICES ASSUME ~quit PROVE TransfersInv'
    BY DEF TransfersInv
  <1>3. ASSUME NEW t \in Tasks, transfers'[t] \in Active
        PROVE  \/ \E i \in DOMAIN queue' : Moves(queue'[i], t)
               \/ running' # NoOp /\ Moves(running', t)
               \/ \E i \in DOMAIN posted' : Ends(posted'[i], t)
    BY <1>1, <1>2, <1>3 DEF TransfersInv, Active
  <1>4. ASSUME NEW i \in DOMAIN posted', posted'[i].op.kind = "transfer",
               posted'[i].outcome = "progress"
        PROVE  \/ running' # NoOp /\ Moves(running', posted'[i].op.task)
               \/ \E j \in DOMAIN posted' : j > i /\ Ends(posted'[j], posted'[i].op.task)
    BY <1>1, <1>2, <1>4 DEF TransfersInv
  <1>. QED
    BY <1>3, <1>4 DEF TransfersInv, Active

LEMMA TransfersWorker ==
  ASSUME Types, TransfersInv, Worker
  PROVE  TransfersInv'
  <1>1. CASE TakesOne
    <2>1. UNCHANGED <<transfers, quit>> /\ running = NoOp
      BY <1>1 DEF TakesOne, Gui, tasks
    <2>2. /\ Head(queue) = queue[1] /\ Head(queue) \in Ops
          /\ \A i \in DOMAIN queue : \/ i = 1
                                     \/ i - 1 \in DOMAIN queue' /\ queue'[i - 1] = queue[i]
      <3>1. queue \in Seq(Ops)
        BY DEF Types, QueueType
      <3>. QED
        BY <1>1, <3>1, Shortened DEF TakesOne
    <2>3. CASE running' = Head(queue) /\ posted' = posted
      BY <2>1, <2>2, <2>3, NoOpAssumption DEF TransfersInv
    <2>4. CASE running' # Head(queue) \/ posted' # posted
      <3>1. PICK m \in Signals : /\ posted' = Append(posted, m) /\ m.op = Head(queue)
                                 /\ m.outcome = "cancelled"
        BY <1>1, <2>4 DEF TakesOne
      <3>2. \A t : Moves(queue[1], t) => Ends(m, t)
        BY <2>2, <3>1 DEF Ends
      <3>. QED
        BY <2>1, <2>2, <3>1, <3>2, TransfersPosted
    <2>. QED
      BY <2>3, <2>4
  <1>2. ASSUME NEW m \in Signals, Reports(m) PROVE TransfersInv'
    <2>1. /\ UNCHANGED <<transfers, quit, queue>> /\ posted' = Append(posted, m)
          /\ running # NoOp /\ running \in Ops /\ running.kind = "transfer"
          /\ running' = [running EXCEPT !.moved = TRUE] /\ m.op = running
      BY <1>2 DEF Reports, Gui, tasks, Types, SignalTypes
    <2>2. running' # NoOp
      BY <2>1, OpTypes, NoOpAssumption
    <2>3. \A t : Moves(running, t) => Moves(running', t)
      BY <2>1 DEF Moves, Ops
    <2>4. m.op.kind = "transfer" => Moves(running', m.op.task)
      BY <2>1, <2>3 DEF Moves
    <2>. QED
      BY <2>1, <2>2, <2>3, <2>4, TransfersPosted
  <1>3. ASSUME NEW m \in Signals, Finishes(m) PROVE TransfersInv'
    <2>1. /\ UNCHANGED <<transfers, quit, queue>> /\ posted' = Append(posted, m)
          /\ m.op = running /\ m.outcome # "progress"
      BY <1>3 DEF Finishes, Gui, tasks
    <2>. QED
      BY <2>1, TransfersPosted DEF Ends
  <1>. QED
    BY <1>1, <1>2, <1>3, WorkerSteps

LEMMA TransfersDeliver ==
  ASSUME Types, TransfersInv, Deliver
  PROVE  TransfersInv'
  <1>1. /\ Delivered /\ Grows /\ UNCHANGED <<running, quit>> /\ ~quit
        /\ posted # <<>> /\ posted' = Tail(posted)
        /\ op = posted[1].op /\ op \in Ops
    BY Delivering, DeliverGrows, DeliveredTypes DEF Delivered, Types
  <1>2. /\ 1 \in DOMAIN posted /\ \A i \in DOMAIN posted : i \in Nat
        /\ \A i \in DOMAIN posted : i # 1 => /\ i - 1 \in DOMAIN posted'
                                             /\ posted'[i - 1] = posted[i]
        /\ \A i \in DOMAIN posted' : /\ i \in Nat /\ i + 1 \in DOMAIN posted
                                     /\ posted'[i] = posted[i + 1]
        /\ \A i \in DOMAIN posted' : i > 0
    BY <1>1, PostedFirst
  <1>3. ASSUME NEW i \in DOMAIN posted', posted'[i].op.kind = "transfer",
               posted'[i].outcome = "progress"
        PROVE  \/ running' # NoOp /\ Moves(running', posted'[i].op.task)
               \/ \E j \in DOMAIN posted' : j > i /\ Ends(posted'[j], posted'[i].op.task)
    <2>1. CASE running # NoOp /\ Moves(running, posted[i + 1].op.task)
      BY <1>1, <1>2, <2>1
    <2>2. CASE \E j \in DOMAIN posted : j > i + 1 /\ Ends(posted[j], posted[i + 1].op.task)
      <3>1. PICK j \in DOMAIN posted : j > i + 1 /\ Ends(posted[j], posted[i + 1].op.task)
        BY <2>2
      <3>2. j # 1 /\ j - 1 > i /\ posted'[i] = posted[i + 1] /\ i \in Nat /\ j \in Nat
        BY <1>2, <3>1
      <3>3. j - 1 \in DOMAIN posted' /\ posted'[j - 1] = posted[j]
        BY <1>2, <3>2
      <3>. QED
        BY <3>1, <3>2, <3>3
    <2>. QED
      BY <1>1, <1>2, <1>3, <2>2 DEF TransfersInv
  <1>4. ASSUME NEW t \in Tasks, transfers'[t] \in Active
        PROVE  \/ \E i \in DOMAIN queue' : Moves(queue'[i], t)
               \/ running' # NoOp /\ Moves(running', t)
               \/ \E i \in DOMAIN posted' : Ends(posted'[i], t)
    <2>1. ASSUME NEW j \in DOMAIN posted, j # 1, Ends(posted[j], t)
          PROVE  \E i \in DOMAIN posted' : Ends(posted'[i], t)
      BY <1>2, <2>1
    <2>2. ASSUME transfers[t] \in Active, ~Ends(posted[1], t)
          PROVE  \/ \E i \in DOMAIN queue' : Moves(queue'[i], t)
                 \/ running' # NoOp /\ Moves(running', t)
                 \/ \E i \in DOMAIN posted' : Ends(posted'[i], t)
      BY <1>1, <2>1, <2>2 DEF TransfersInv, Active, Grows
    <2>3. CASE Transferred \/ TransferFailed
      <3>1. /\ op.kind = "transfer" /\ posted[1].outcome # "progress"
            /\ \E status \in {"Completed", "Error", "Cancelled"} :
                  transfers' = [transfers EXCEPT ![op.task] = status]
        BY <2>3 DEF Transferred, TransferFailed, Delivers
      <3>2. t # op.task /\ transfers'[t] = transfers[t]
        BY <1>4, <3>1 DEF Active, Types, TransferTypes
      <3>3. ~Ends(posted[1], t)
        BY <1>1, <3>2 DEF Ends, Moves
      <3>. QED
        BY <1>4, <2>2, <3>2, <3>3
    <2>4. CASE Progressed
      <3>1. /\ op.kind = "transfer" /\ posted[1].outcome = "progress"
            /\ transfers' = [transfers EXCEPT ![op.task] = "Transferring"]
        BY <1>1, <2>4 DEF Progressed, Delivers, Delivered
      <3>2. CASE t = op.task
        <4>1. \/ running # NoOp /\ Moves(running, t)
              \/ \E j \in DOMAIN posted : j > 1 /\ Ends(posted[j], t)
          BY <1>1, <1>2, <3>1, <3>2 DEF TransfersInv
        <4>. QED
          BY <1>1, <1>2, <2>1, <4>1
      <3>3. CASE t # op.task
        <4>1. transfers[t] \in Active
          BY <1>4, <3>1, <3>3 DEF Types, TransferTypes
        <4>. QED
          BY <2>2, <3>1, <4>1 DEF Ends
      <3>. QED
        BY <3>2, <3>3
    <2>5. CASE /\ UNCHANGED transfers
               /\ op.kind # "transfer"
      BY <1>1, <1>4, <2>2, <2>5 DEF Ends, Moves
    <2>. QED
      BY <2>3, <2>4, <2>5
      DEF Deliver, Connected, ConnectFailed, Disconnected, Listed, Opened,
          Mutated, Failed, Delivers
  <1>. QED
    BY <1>3, <1>4 DEF TransfersInv, Active

-----------------------------------------------------------------------------
(* Panes and transfers, once nothing runs *)

SftpInv == SessionInv /\ PanesInv /\ TransfersInv

LEMMA SftpInvInit == Init => SftpInv
  <1>. SUFFICES ASSUME Init PROVE SftpInv
    OBVIOUS
  <1>1. SessionInv
    BY SessionInvInit
  <1>2. /\ queue = <<List("local", Home)>> /\ posted = <<>> /\ ~connected
        /\ path["local"] = Home /\ \A t \in Tasks : transfers[t] = "none"
    BY DEF Init, Sides
  <1>3. PanesInv
    <2>1. ListingDue("local") /\ DOMAIN posted = {}
      BY <1>2 DEF ListingDue
    <2>. QED
      BY <1>2, <2>1 DEF PanesInv, PaneInv, Live, Shown, Coming, Later, Sides
  <1>4. TransfersInv
    BY <1>2 DEF TransfersInv
  <1>. QED
    BY <1>1, <1>3, <1>4 DEF SftpInv

LEMMA SftpInvNext == SftpInv /\ [Next]_vars => SftpInv'
  <1>. SUFFICES ASSUME SftpInv, [Next]_vars PROVE SftpInv'
    OBVIOUS
  <1>1. SessionInv'
    BY SessionInvNext DEF SftpInv
  <1>2. Types /\ Sessions /\ ConnectInv /\ PanesInv /\ TransfersInv
    BY DEF SftpInv, SessionInv
  <1>3. CASE User
    BY <1>1, <1>2, <1>3, PanesUser, TransfersUser DEF SftpInv
  <1>4. CASE Worker
    <2>1. PanesInv'
      BY <1>2, <1>4, WorkerSteps, PanesTake, PanesReport, PanesFinish
    <2>. QED
      BY <1>1, <1>2, <1>4, <2>1, TransfersWorker DEF SftpInv
  <1>5. CASE Deliver
    BY <1>1, <1>2, <1>5, PanesDeliver, TransfersDeliver DEF SftpInv
  <1>6. CASE Shutdown
    BY <1>1, <1>6 DEF Shutdown, SftpInv, PanesInv, PaneInv, Live, TransfersInv
  <1>7. CASE UNCHANGED vars
    <2>1. UNCHANGED <<files, connected, path, model, queue, running, posted, service,
                      transfers, quit, unsure>>
      BY <1>7 DEF vars, panes, pool, worker, tasks
    <2>2. PanesInv'
      BY <1>2, <2>1
      DEF PanesInv, PaneInv, Live, Shown, Coming, Later, ListingDue,
          OpeningDue, Triggers, Matches, IsListing, Truth, Place, Rows
    <2>3. TransfersInv'
      BY <1>2, <2>1 DEF TransfersInv, Ends, Moves
    <2>. QED
      BY <1>1, <2>2, <2>3 DEF SftpInv
  <1>. QED
    BY <1>3, <1>4, <1>5, <1>6, <1>7 DEF Next

\* Once nothing runs, each pane shows what is in the directory it names, of
\* the server it is connected to, and every transfer has ended.
THEOREM PanesBecomeTrue == Spec => []PanesAreTrue
  <1>1. SftpInv => PanesAreTrue
    <2>. SUFFICES ASSUME SftpInv, ~Busy, ~quit PROVE PanesAreTrue
      BY DEF PanesAreTrue
    <2>1. queue = <<>> /\ running = NoOp /\ posted = <<>>
      BY DEF Busy
    <2>2. Types /\ Sessions /\ PanesInv /\ TransfersInv
      BY DEF SftpInv, SessionInv
    <2>3. DOMAIN queue = {} /\ DOMAIN posted = {}
      BY <2>1
    <2>4. ASSUME NEW s \in Sides \ unsure, s = "remote" /\ ~connected
          PROVE  model[s] = Blank
      BY <2>2, <2>4 DEF Sessions, ModelPlaces
    <2>5. ASSUME NEW s \in Sides \ unsure, ~(s = "remote" /\ ~connected)
          PROVE  Place(s) # NoServer /\ model[s] = Truth(s)
      <3>1. Live(s)
        BY <2>2, <2>3, <2>5 DEF Live, Sessions, SignalOrder
      <3>2. Place(s) # NoServer
        BY <3>1, SftpAssumption DEF Live, Place, Sides
      <3>3. List(s, path[s]) # NoOp
        BY <2>2, OpsMade, NoOpAssumption DEF Types, PathTypes
      <3>4. ~Later(s, 0) /\ ~OpeningDue
        BY <2>1, <3>3 DEF Later, ListingDue, OpeningDue
      <3>. QED
        BY <2>2, <3>1, <3>2, <3>4 DEF PanesInv, PaneInv, Shown
    <2>6. \A t \in Tasks : transfers[t] \notin {"Waiting", "Transferring", "Cancelling"}
      BY <2>1, <2>2, <2>3 DEF TransfersInv
    <2>. QED
      BY <2>4, <2>5, <2>6 DEF PanesAreTrue, Truth
  <1>. QED
    BY <1>1, SftpInvInit, SftpInvNext, PTL DEF Spec
=============================================================================
