------------------------------ MODULE SftpClient ------------------------------
(***************************************************************************)
(* features/sftp with its panes in UI/qml/sftp: the controller queues every*)
(* listing, change and transfer on a pool of one thread and takes results  *)
(* back on the GUI thread in the order they were posted.  A user action,   *)
(* a step of the worker and the delivery of a result are one action each.  *)
(***************************************************************************)
EXTENDS Integers, Sequences, FiniteSets

CONSTANTS
    Servers,
    NoServer, NoOp,
    Dirs, Home,    \* directories; Home is where a connection starts
    Names,         \* names of entries, in the order a listing shows them
    Contents,      \* entries each directory starts with, on every place
    MaxCalls,      \* bound: actions of the user
    MaxTransfers,  \* bound: transfers queued
    MaxFailures    \* bound: operations that fail by themselves

Local == "local"
Places == Servers \cup {Local}
Sides == {"local", "remote"}
Tasks == 1..MaxTransfers

ASSUME SftpAssumption ==
    /\ {Local, NoServer} \cap Servers = {} /\ NoServer # Local
    /\ Home \in Dirs /\ Names \subseteq Int /\ IsFiniteSet(Names)
    /\ Contents \in [Dirs -> SUBSET Names]
    /\ {MaxCalls, MaxTransfers, MaxFailures} \subseteq Nat

VARIABLES
    files,       \* entries of each directory of each place
    connected,   \* shown by the GUI
    path,        \* _local_path, _remote_path
    history,     \* the paths of a pane and the index among them
    model,       \* the rows a pane shows and where they were listed
    selection,   \* rows selected in a pane
    dialog,      \* the entry dialog of a pane, with the entries it named
    hostDialog,  \* the host key dialog is open
    wanted,      \* _pending_connection and its initial remote path
    queue,       \* operations waiting in the pool
    running,     \* the operation of the worker
    posted,      \* signals of the worker not yet delivered
    service,     \* server of the worker's SFTP session
    hostKey,     \* server whose unknown key the worker met
    known,       \* known_hosts
    transfers,   \* status of each transfer
    cancelled,   \* transfers whose cancel event is set
    quit,        \* _shutting_down
    unsure,      \* ghost: panes that a failed operation left as they were
    calls, failures

panes == <<path, history, model, selection>>
dialogs == <<dialog, hostDialog>>
pool == <<queue, running, posted>>
worker == <<files, service, hostKey, known>>
tasks == <<transfers, cancelled>>
vars == <<connected, panes, dialogs, wanted, pool, worker, tasks, quit, unsure,
          calls, failures>>

NoDialog == [mode |-> "none"]
NoWish == [host |-> NoServer]
Blank == [place |-> NoServer, dir |-> Home, rows |-> <<>>]

List(side, dir) == [kind |-> "list", side |-> side, dir |-> dir]

Init ==
    /\ files = [p \in Places |-> Contents]
    /\ connected = FALSE
    /\ path = [s \in Sides |-> Home]
    /\ history = [s \in Sides |-> [list |-> <<Home>>, index |-> 1]]
    /\ model = [s \in Sides |-> Blank]
    /\ selection = [s \in Sides |-> {}]
    /\ dialog = NoDialog /\ hostDialog = FALSE
    /\ wanted = NoWish
    /\ queue = <<List("local", Home)>> /\ running = NoOp /\ posted = <<>>
    /\ service = NoServer /\ hostKey = NoServer
    /\ known \in {{}, Servers}
    /\ transfers = [t \in Tasks |-> "none"] /\ cancelled = {}
    /\ quit = FALSE
    /\ unsure = {}
    /\ calls = 0 /\ failures = 0

Busy == queue # <<>> \/ running # NoOp \/ posted # <<>>

-----------------------------------------------------------------------------
(* Helpers of the controller *)

\* _start
Enqueue(ops) == queue' = queue \o ops

Refresh(side, dir) ==
    IF side = "local" \/ connected THEN <<List(side, dir)>> ELSE <<>>

\* Fault: the index is the length the list will have, as if from one.
PushPastEnd(h, dir) ==
    [list |-> Append(SubSeq(h.list, 1, h.index), dir), index |-> h.index + 2]

\* _push_history
Push(h, dir) ==
    IF h.list[h.index] = dir THEN h
    ELSE [list |-> Append(SubSeq(h.list, 1, h.index), dir), index |-> h.index + 1]

\* _set_local_path, _set_remote_path with record_history
SetPath(side, dir) ==
    /\ path' = [path EXCEPT ![side] = dir]
    /\ history' = [history EXCEPT ![side] = IF path[side] = dir THEN @ ELSE Push(@, dir)]

\* Fault: the selection outlives the rows it was made on.
ResetKeepsSelection(side, listing) ==
    model' = [model EXCEPT ![side] = listing] /\ UNCHANGED selection

\* FileListModel.set_items; the pane drops its selection on a model reset.
SetItems(side, listing) ==
    /\ model' = [model EXCEPT ![side] = listing]
    /\ selection' = [selection EXCEPT ![side] = {}]

-----------------------------------------------------------------------------
(* The user *)

\* The dialogs are modal; answering one is not counted.
Called ==
    /\ ~quit /\ ~hostDialog
    /\ UNCHANGED <<connected, worker, running, posted, quit, unsure, failures>>

Free ==
    /\ Called /\ dialog = NoDialog
    /\ calls < MaxCalls /\ calls' = calls + 1

\* Connect is offered while nothing runs.  The directories to open are those
\* of a saved profile; without one the local pane is left alone.
Connect(host, dir, local) ==
    LET connect == [kind |-> "connect", host |-> host, trust |-> NoServer] IN
    /\ Free /\ ~Busy /\ ~connected
    /\ wanted' = [host |-> host, dir |-> dir]
    /\ \/ Enqueue(<<connect>>) /\ UNCHANGED <<path, history>>
       \/ SetPath("local", local) /\ Enqueue(<<List("local", local), connect>>)
    /\ UNCHANGED <<model, selection, dialogs, tasks>>

\* disconnectServer, also while other operations wait
Disconnect ==
    /\ Free /\ connected
    /\ Enqueue(<<[kind |-> "disconnect"]>>)
    /\ UNCHANGED <<panes, dialogs, wanted, tasks>>

\* confirmHostKey
AnswerHostKey(accepted) ==
    /\ ~quit /\ hostDialog /\ hostDialog' = FALSE
    /\ IF accepted /\ hostKey # NoServer /\ wanted # NoWish
       THEN /\ Enqueue(<<[kind |-> "connect", host |-> wanted.host, trust |-> hostKey]>>)
            /\ UNCHANGED wanted
       ELSE wanted' = NoWish /\ UNCHANGED queue
    /\ UNCHANGED <<connected, panes, dialog, running, posted, worker, tasks, quit,
                   unsure, calls, failures>>

RefreshPane(side) ==
    /\ Free /\ (side = "remote" => connected)
    /\ Enqueue(Refresh(side, path[side]))
    /\ selection' = [selection EXCEPT ![side] = {}]
    /\ UNCHANGED <<path, history, model, dialogs, wanted, tasks>>

\* openLocalDirectory moves at once, openRemoteDirectory when the server has
\* named the directory; up is one of these.
OpenDirectory(side, dir) ==
    /\ Free /\ (side = "remote" => connected)
    /\ IF side = "local"
       THEN SetPath(side, dir) /\ Enqueue(Refresh(side, dir))
       ELSE Enqueue(<<[kind |-> "open", dir |-> dir]>>) /\ UNCHANGED <<path, history>>
    /\ selection' = [selection EXCEPT ![side] = {}]
    /\ UNCHANGED <<model, dialogs, wanted, tasks>>

\* _navigate_history
Navigate(side, delta) ==
    LET index == history[side].index + delta
        dir == history[side].list[index] IN
    /\ Free /\ (side = "remote" => connected)
    /\ index \in DOMAIN history[side].list
    /\ history' = [history EXCEPT ![side].index = index]
    /\ path' = [path EXCEPT ![side] = dir]
    /\ Enqueue(Refresh(side, dir))
    /\ selection' = [selection EXCEPT ![side] = {}]
    /\ UNCHANGED <<model, dialogs, wanted, tasks>>

\* Names in the order of a listing: each at its rank
Sorted(names) ==
    [k \in 1..Cardinality(names) |->
        CHOOSE n \in names : Cardinality({m \in names : m <= n}) = k]

\* The entries of some rows of a pane, and what they are on their place
Items(side, rows) ==
    {[dir |-> model[side].dir, name |-> model[side].rows[i]] :
        i \in rows \cap DOMAIN model[side].rows}

Named(side, rows) ==
    {<<model[side].place, item.dir, item.name>> : item \in Items(side, rows)}

\* beginEdit, requestDelete, for the rows the user has selected
OpenDialog(side, mode, rows) ==
    /\ Free /\ (side = "remote" => connected)
    /\ mode = "rename" => Cardinality(rows) = 1
    /\ mode = "delete" => rows # {}
    /\ mode = "create" => rows = selection[side]
    /\ selection' = [selection EXCEPT ![side] = rows]
    /\ dialog' = [mode |-> mode, side |-> side, named |-> Named(side, rows)]
    /\ UNCHANGED <<path, history, model, hostDialog, wanted, queue, tasks>>

Change(item, to) ==
    [kind |-> dialog.mode, side |-> dialog.side, item |-> item, named |-> dialog.named,
     to |-> IF dialog.mode = "delete" THEN item.name ELSE to]

\* deleteEntries, renameEntry and createDirectory when the dialog is accepted,
\* for the rows selected now
AcceptDialog(to) ==
    LET side == dialog.side
        names == {item.name : item \in Items(side, selection[side])} IN
    /\ Called /\ dialog # NoDialog /\ dialog' = NoDialog
    /\ IF dialog.mode = "create"
       THEN Enqueue(IF side = "local" \/ connected
                    THEN <<Change([dir |-> Home, name |-> to], to)>> ELSE <<>>)
       ELSE Enqueue([k \in 1..Cardinality(names) |->
                Change([dir |-> model[side].dir, name |-> Sorted(names)[k]], to)])
    /\ selection' = IF dialog.mode = "delete" THEN [selection EXCEPT ![side] = {}]
                    ELSE selection
    /\ UNCHANGED <<path, history, model, hostDialog, wanted, tasks, calls>>

RejectDialog ==
    /\ Called /\ dialog # NoDialog /\ dialog' = NoDialog
    /\ UNCHANGED <<panes, hostDialog, wanted, queue, tasks, calls>>

Other(side) == IF side = "local" THEN "remote" ELSE "local"

\* uploadFile, downloadFile: the destination is the directory shown now.
QueueTransfer(side, row) ==
    LET t == Cardinality({k \in Tasks : transfers[k] # "none"}) + 1 IN
    /\ Free /\ connected
    /\ t \in Tasks
    /\ \E item \in Items(side, {row}) :
         Enqueue(<<[kind |-> "transfer", side |-> side, item |-> item,
                    into |-> path[Other(side)], task |-> t, moved |-> FALSE]>>)
    /\ transfers' = [transfers EXCEPT ![t] = "Waiting"]
    /\ UNCHANGED <<panes, dialogs, wanted, cancelled>>

CancelTransfer(t) ==
    /\ Free
    /\ transfers[t] \in {"Waiting", "Transferring"}
    /\ cancelled' = cancelled \cup {t}
    /\ transfers' = [transfers EXCEPT ![t] = "Cancelling"]
    /\ UNCHANGED <<panes, dialogs, wanted, queue>>

\* shutdown: what waits in the pool is dropped, the session closed under the
\* worker, and no result is looked at any more, so that those on their way
\* are dropped here.
Shutdown ==
    /\ ~quit /\ quit' = TRUE
    /\ calls < MaxCalls /\ calls' = calls + 1
    /\ cancelled' = {t \in Tasks : transfers[t] \in {"Waiting", "Transferring", "Cancelling"}}
    /\ queue' = <<>> /\ posted' = <<>>
    /\ service' = NoServer
    /\ connected' = FALSE
    /\ UNCHANGED <<panes, dialogs, wanted, running, files, hostKey, known,
                   transfers, unsure, failures>>

-----------------------------------------------------------------------------
(* The worker *)

Gui == <<connected, panes, dialogs, wanted, tasks, quit, unsure, calls>>

Place(side) == IF side = "local" THEN Local ELSE service

Post(outcome, listing) ==
    /\ posted' = Append(posted, [op |-> running, outcome |-> outcome, listing |-> listing])
    /\ running' = NoOp

Succeeds == Post("ok", Blank) /\ UNCHANGED failures

\* An operation fails because it must, or by itself.
Fails(mustFail) ==
    /\ Post("error", Blank)
    /\ \/ mustFail /\ UNCHANGED failures
       \/ ~mustFail /\ failures < MaxFailures /\ failures' = failures + 1

\* A transfer cancelled before it starts is not begun.
Take ==
    LET next == Head(queue) IN
    /\ running = NoOp /\ queue # <<>>
    /\ queue' = Tail(queue)
    /\ IF next.kind = "transfer" /\ next.task \in cancelled
       THEN /\ posted' = Append(posted, [op |-> next, outcome |-> "cancelled",
                                         listing |-> Blank])
            /\ UNCHANGED running
       ELSE running' = next /\ UNCHANGED posted
    /\ UNCHANGED <<worker, failures, Gui>>

Does(kind) == running # NoOp /\ running.kind = kind /\ UNCHANGED <<queue, Gui>>

\* SftpService.connect; the directory is asked for last, so that a session
\* may stay open although the operation failed.
DoConnect ==
    LET host == running.host
        unknown == host \notin known /\ running.trust = NoServer
        changed == host \notin known /\ running.trust \notin {NoServer, host} IN
    /\ Does("connect")
    /\ hostKey' = IF unknown THEN host ELSE NoServer
    /\ \/ /\ ~unknown /\ ~changed /\ Succeeds
          /\ service' = host /\ known' = known \cup {host}
       \/ /\ unknown \/ changed
          /\ Fails(TRUE)
          /\ service' = NoServer /\ UNCHANGED known
       \/ /\ ~unknown /\ ~changed /\ Fails(FALSE)
          /\ service' \in {NoServer, host}
          /\ known' \in {known, known \cup {host}}
    /\ UNCHANGED files

DoDisconnect ==
    /\ Does("disconnect")
    /\ service' = NoServer
    /\ Succeeds \/ Fails(FALSE)
    /\ UNCHANGED <<files, hostKey, known>>

Rows(place, dir) == Sorted(files[place][dir])

DoList ==
    LET place == Place(running.side) IN
    /\ Does("list")
    /\ \/ /\ place # NoServer
          /\ Post("ok", [place |-> place, dir |-> running.dir,
                         rows |-> Rows(place, running.dir)])
          /\ UNCHANGED failures
       \/ Fails(place = NoServer)
    /\ UNCHANGED worker

DoOpen ==
    /\ Does("open")
    /\ (service # NoServer /\ Succeeds) \/ Fails(service = NoServer)
    /\ UNCHANGED worker

\* Where a change is made: createDirectory looks up the pane's path only now.
ChangedDir == IF running.kind = "create" THEN path[running.side] ELSE running.item.dir

Changed(names) ==
    CASE running.kind = "create" -> names \cup {running.to}
      [] running.kind = "delete" -> names \ {running.item.name}
      [] running.kind = "rename" -> (names \ {running.item.name}) \cup {running.to}

\* What is already there, or no longer, is refused; a local rename replaces.
Possible(names) ==
    CASE running.kind = "create" -> running.to \notin names
      [] running.kind = "delete" -> running.item.name \in names
      [] running.kind = "rename" ->
            running.item.name \in names /\ (running.side = "local" \/ running.to \notin names)

DoChange ==
    LET place == Place(running.side)
        possible == place # NoServer /\ Possible(files[place][ChangedDir]) IN
    /\ \E kind \in {"create", "delete", "rename"} : Does(kind)
    /\ \/ /\ possible /\ Succeeds
          /\ files' = [files EXCEPT ![place][ChangedDir] = Changed(@)]
       \/ Fails(~possible) /\ UNCHANGED files
    /\ UNCHANGED <<service, hostKey, known>>

\* The progress callback, once per transfer
Progress ==
    /\ Does("transfer")
    /\ ~running.moved /\ running.task \notin cancelled
    /\ running' = [running EXCEPT !.moved = TRUE]
    /\ posted' = Append(posted, [op |-> running, outcome |-> "progress", listing |-> Blank])
    /\ UNCHANGED <<worker, failures>>

\* A transfer that fails or is cancelled on its way may leave part of a file.
DoTransfer ==
    LET from == Place(running.side)
        to == Place(Other(running.side))
        possible == /\ service # NoServer
                    /\ running.item.name \in files[from][running.item.dir]
        written == [files EXCEPT ![to][running.into] = @ \cup {running.item.name}] IN
    /\ Does("transfer")
    /\ \/ possible /\ Succeeds /\ files' = written
       \/ possible /\ Fails(FALSE) /\ files' \in {files, written}
       \/ ~possible /\ Fails(TRUE) /\ UNCHANGED files
       \/ /\ possible /\ running.task \in cancelled
          /\ Post("cancelled", Blank)
          /\ files' \in {files, written}
          /\ UNCHANGED failures
    /\ UNCHANGED <<service, hostKey, known>>

Worker ==
    Take \/ DoConnect \/ DoDisconnect \/ DoList \/ DoOpen \/ DoChange \/ Progress
    \/ DoTransfer

-----------------------------------------------------------------------------
(* _operation_completed and _operation_failed *)

op == Head(posted).op

\* The next signal is one of these, and the controller is not shutting down.
Delivers(kinds, outcomes) ==
    /\ posted # <<>> /\ ~quit
    /\ op.kind \in kinds /\ Head(posted).outcome \in outcomes
    /\ posted' = Tail(posted)
    /\ UNCHANGED <<dialog, running, worker, cancelled, quit, calls, failures>>

\* Connected: the directory of the profile is opened, or home listed.
Connected ==
    /\ Delivers({"connect"}, {"ok"})
    /\ connected' = TRUE
    /\ wanted' = NoWish
    /\ path' = [path EXCEPT !["remote"] = Home]
    /\ history' = [history EXCEPT !["remote"] = [list |-> <<Home>>, index |-> 1]]
    /\ Enqueue(IF wanted # NoWish /\ wanted.dir # Home
               THEN <<[kind |-> "open", dir |-> wanted.dir]>> ELSE <<List("remote", Home)>>)
    /\ UNCHANGED <<model, selection, hostDialog, transfers, unsure>>

ConnectFailed ==
    /\ Delivers({"connect"}, {"error"})
    /\ connected' = FALSE
    /\ SetItems("remote", Blank)
    /\ IF hostKey # NoServer /\ wanted # NoWish
       THEN hostDialog' = TRUE /\ UNCHANGED wanted
       ELSE wanted' = NoWish /\ UNCHANGED hostDialog
    /\ unsure' = unsure \ {"remote"}
    /\ UNCHANGED <<path, history, queue, transfers>>

Disconnected ==
    /\ Delivers({"disconnect"}, {"ok"})
    /\ connected' = FALSE
    /\ SetItems("remote", Blank)
    /\ unsure' = unsure \ {"remote"}
    /\ UNCHANGED <<path, history, hostDialog, wanted, queue, transfers>>

\* Only a listing of the directory the pane shows is shown.
Listed ==
    LET listing == Head(posted).listing IN
    /\ Delivers({"list"}, {"ok"})
    /\ IF listing.dir = path[op.side]
       THEN SetItems(op.side, listing) /\ unsure' = unsure \ {op.side}
       ELSE UNCHANGED <<model, selection, unsure>>
    /\ UNCHANGED <<connected, path, history, hostDialog, wanted, queue, transfers>>

Opened ==
    /\ Delivers({"open"}, {"ok"})
    /\ SetPath("remote", op.dir)
    /\ Enqueue(Refresh("remote", op.dir))
    /\ UNCHANGED <<connected, model, selection, hostDialog, wanted, transfers, unsure>>

\* Fault: a pane is not listed again after a change.
NoRefreshAfter == <<>>

RefreshAfter == Refresh(op.side, path[op.side])

Mutated ==
    /\ Delivers({"create", "delete", "rename"}, {"ok"})
    /\ Enqueue(RefreshAfter)
    /\ UNCHANGED <<connected, panes, hostDialog, wanted, transfers, unsure>>

Transferred ==
    /\ Delivers({"transfer"}, {"ok"})
    /\ transfers' = [transfers EXCEPT ![op.task] = "Completed"]
    /\ Enqueue(Refresh("local", path["local"]) \o Refresh("remote", path["remote"]))
    /\ UNCHANGED <<connected, panes, hostDialog, wanted, unsure>>

\* A progress signal still on its way overwrites "Cancelling".
Progressed ==
    /\ Delivers({"transfer"}, {"progress"})
    /\ transfers' = [transfers EXCEPT ![op.task] = "Transferring"]
    /\ UNCHANGED <<connected, panes, hostDialog, wanted, queue, unsure>>

\* Nothing is listed again after a failure.
TransferFailed ==
    /\ Delivers({"transfer"}, {"error", "cancelled"})
    /\ transfers' = [transfers EXCEPT
           ![op.task] = IF Head(posted).outcome = "error" THEN "Error" ELSE "Cancelled"]
    /\ unsure' = unsure \cup {Other(op.side)}
    /\ UNCHANGED <<connected, panes, hostDialog, wanted, queue>>

\* The other failures are only reported.
Failed ==
    /\ Delivers({"list", "open", "create", "delete", "rename", "disconnect"}, {"error"})
    /\ unsure' = unsure \cup
           (CASE op.kind = "list" -> {op.side}
              [] op.kind = "open" -> IF model["remote"] = Blank THEN {"remote"} ELSE {}
              [] op.kind = "disconnect" -> {"remote"}
              [] OTHER -> {})
    /\ UNCHANGED <<connected, panes, hostDialog, wanted, queue, transfers>>

Deliver ==
    Connected \/ ConnectFailed \/ Disconnected \/ Listed \/ Opened \/ Mutated
    \/ Transferred \/ Progressed \/ TransferFailed \/ Failed

User ==
    \/ \E host \in Servers, dir, local \in Dirs : Connect(host, dir, local)
    \/ Disconnect
    \/ \E accepted \in BOOLEAN : AnswerHostKey(accepted)
    \/ \E side \in Sides :
         \/ RefreshPane(side)
         \/ \E dir \in Dirs : OpenDirectory(side, dir)
         \/ \E delta \in {-1, 1} : Navigate(side, delta)
         \/ \E mode \in {"create", "rename", "delete"},
               rows \in SUBSET DOMAIN model[side].rows : OpenDialog(side, mode, rows)
         \/ \E row \in DOMAIN model[side].rows : QueueTransfer(side, row)
    \/ \E to \in Names : AcceptDialog(to)
    \/ RejectDialog
    \/ \E t \in Tasks : CancelTransfer(t)

Next == User \/ Worker \/ Deliver \/ Shutdown

Spec == Init /\ [][Next]_vars

-----------------------------------------------------------------------------
(* Properties *)

Entries == Places \X Dirs \X Names
ItemType == [dir : Dirs, name : Names]

\* The operations of the pool and the signals of the worker
Ops ==
    [kind : {"connect"}, host : Servers, trust : Servers \cup {NoServer}]
    \cup [kind : {"disconnect"}]
    \cup [kind : {"list"}, side : Sides, dir : Dirs]
    \cup [kind : {"open"}, dir : Dirs]
    \cup [kind : {"create", "delete", "rename"}, side : Sides, item : ItemType,
          named : SUBSET Entries, to : Names]
    \cup [kind : {"transfer"}, side : Sides, item : ItemType, into : Dirs,
          task : Tasks, moved : BOOLEAN]

ASSUME NoOpAssumption == NoOp \notin Ops

Listings ==
    [place : Places, dir : Dirs, rows : {Sorted(names) : names \in SUBSET Names}]
    \cup {Blank}

Signals ==
    [op : Ops, outcome : {"ok", "error", "cancelled", "progress"}, listing : Listings]

\* Every variable has its type.
SftpTypeOK ==
    /\ files \in [Places -> [Dirs -> SUBSET Names]]
    /\ {connected, hostDialog, quit} \subseteq BOOLEAN
    /\ path \in [Sides -> Dirs]
    /\ history \in [Sides -> [list : Seq(Dirs), index : Nat]]
    /\ \A s \in Sides : history[s].index \in DOMAIN history[s].list
    /\ model \in [Sides -> Listings]
    /\ selection \in [Sides -> SUBSET (1..Cardinality(Names))]
    /\ \A s \in Sides : selection[s] \subseteq DOMAIN model[s].rows
    /\ dialog = NoDialog
       \/ dialog \in [mode : {"create", "delete", "rename"}, side : Sides,
                      named : SUBSET Entries]
    /\ wanted = NoWish \/ wanted \in [host : Servers, dir : Dirs]
    /\ queue \in Seq(Ops) /\ running \in Ops \cup {NoOp} /\ posted \in Seq(Signals)
    /\ {service, hostKey} \subseteq Servers \cup {NoServer}
    /\ known \subseteq Servers
    /\ transfers \in [Tasks -> {"none", "Waiting", "Transferring", "Cancelling",
                                "Completed", "Cancelled", "Error"}]
    /\ cancelled \subseteq Tasks /\ unsure \subseteq Sides
    /\ calls \in 0..MaxCalls /\ failures \in 0..MaxFailures

\* Once nothing runs, each pane shows what is in the directory it names, of
\* the server it is connected to and of no other, and every transfer has
\* ended: whatever was changed, opened, cancelled or disconnected while
\* results were on their way; unless the last listing or a transfer into the
\* pane failed, which lists nothing again.
PanesAreTrue ==
    ~Busy /\ ~quit =>
        /\ \A side \in Sides \ unsure :
             IF side = "remote" /\ ~connected THEN model[side] = Blank
             ELSE /\ Place(side) # NoServer
                  /\ model[side] = [place |-> Place(side), dir |-> path[side],
                                    rows |-> Rows(Place(side), path[side])]
        /\ \A t \in Tasks : transfers[t] \notin {"Waiting", "Transferring", "Cancelling"}

\* An entry goes only where the user's dialog named it, on that server and in
\* that directory: not because the rows were listed anew, the pane moved or
\* another server was connected between the selection and the deletion.
ActsOnNamed ==
    [][\A place \in Places, dir \in Dirs :
         \A name \in files[place][dir] \ files'[place][dir] :
            <<place, dir, name>> \in running.named]_vars
=============================================================================
