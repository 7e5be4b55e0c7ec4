---------------------------- MODULE WorkspaceStore ----------------------------
(***************************************************************************)
(* infrastructure/workspace: a project lives in one .ntp package and is    *)
(* edited in an extracted working directory.  A save stages an image of    *)
(* that directory, may add a snapshot to its history, writes and verifies  *)
(* <project>.ntp.tmp and renames it over the package; a rollback keeps a   *)
(* safety snapshot, restores an old one in place and saves.  All of it     *)
(* runs under the session's io_lock, while other threads edit the working  *)
(* directory, other tools may replace the package, I/O may fail and the    *)
(* process may die.                                                        *)
(*                                                                         *)
(* Contents are version numbers, one for each write.  Snapshots are        *)
(* numbered in order of creation, so an index (newest first) is a set.     *)
(***************************************************************************)
EXTENDS Integers, FiniteSets

CONSTANTS
    AutomaticLimit,  \* DEFAULT_AUTOMATIC_LIMIT
    FailAt,          \* steps that may raise OSError
    NoFile,          \* content of a path where there is no file
    Fragment,        \* a file whose writing was cut short
    MaxWrites,       \* bound: edits of the workspace and outside replacements
    MaxSnapshots,    \* bound: snapshots ever made
    MaxFailures,     \* bound: steps that fail
    MaxSessions      \* bound: times the project is opened

FailureSteps == {"stage", "commit", "rmtree", "index", "restore", "write",
                 "verify", "replace", "finish"}

ASSUME FailAtAssumption == FailAt \subseteq FailureSteps
ASSUME LimitAssumption == AutomaticLimit \in Nat
ASSUME StoreBoundAssumption ==
    /\ {MaxWrites, MaxSnapshots, MaxFailures} \subseteq Nat
    /\ MaxSessions \in Nat \ {0}

Parts == {"device_network", "info_collected", "backup"}
Versions == 0 .. MaxWrites
Snapshots == 1 .. MaxSnapshots
Reasons == {"manual", "automatic", "before-rollback"}

Contents == [Parts -> Versions]
Images == [content : Contents, dirs : SUBSET Snapshots, index : SUBSET Snapshots]
Ops == [rollback : BOOLEAN, keep : Reasons \cup {"none"}, goal : Snapshots \cup {0},
        touched : BOOLEAN, origin : Contents, since : Versions, old : Versions,
        staged : Images]

ASSUME FileAssumption == NoFile # Fragment /\ {NoFile, Fragment} \cap Images = {}

VARIABLES
    work,      \* the working directory: contents, snapshot folders and index
    target,    \* the package at the project path
    tmp,       \* <project>.ntp.tmp
    history,   \* every snapshot made: its reason and content
    made,      \* number of the last write
    dirty,     \* the content signature differs from saved_content_signature
    open,      \* a WorkspaceSession is open
    known,     \* session.package_fingerprint
    pc,        \* next step of the running save or rollback
    op,        \* its arguments and locals, and its staging directory
    outside,   \* the package on disk comes from an outside tool, unopened
    failures,
    sessions

session == <<open, known, dirty>>
run == <<pc, op>>
bounds == <<failures, sessions>>
vars == <<work, target, tmp, history, made, session, run, outside, bounds>>

Idle == "idle"
StageSteps == Parts
SnapshotSteps == {"commit", "retain", "index"}
RestoreSteps == {"select", "restore_backup", "restore_device_network",
                 "restore_info_collected"}
PackSteps == {"check", "written", "verify", "replace", "finish"}

Blank == [content |-> [p \in Parts |-> 0], dirs |-> {}, index |-> {}]

NoOp == [rollback |-> FALSE, keep |-> "none", goal |-> 0, touched |-> FALSE,
         origin |-> Blank.content, since |-> 0, old |-> 0, staged |-> Blank]

\* create_project has packed the first image and keeps the session open.
Init ==
    /\ work = Blank
    /\ target = Blank
    /\ tmp = NoFile
    /\ history = [s \in Snapshots |-> [reason |-> "none", content |-> Blank.content]]
    /\ made = 0
    /\ open = TRUE /\ known = Blank /\ dirty = FALSE
    /\ pc = Idle /\ op = NoOp
    /\ outside = FALSE
    /\ failures = 0 /\ sessions = 1

-----------------------------------------------------------------------------
(* Around the operations *)

\* Another thread writes a database or a backup.
Edit(p) ==
    /\ open
    /\ made < MaxWrites
    /\ made' = made + 1
    /\ work' = [work EXCEPT !.content[p] = made']
    /\ dirty' = TRUE
    /\ op' = [op EXCEPT !.touched = (pc # Idle)]
    /\ UNCHANGED <<target, tmp, history, open, known, pc, outside, bounds>>

\* A tool other than CAMS replaces the package.
Replaced ==
    /\ made < MaxWrites
    /\ made' = made + 1
    /\ target' = [Blank EXCEPT !.content = [p \in Parts |-> made']]
    /\ outside' = TRUE
    /\ UNCHANGED <<work, tmp, history, session, run, bounds>>

\* The project is closed, or the process dies: the working directory is lost.
Leave ==
    /\ open
    /\ open' = FALSE /\ known' = Blank /\ dirty' = FALSE
    /\ pc' = Idle /\ op' = NoOp
    /\ work' = Blank
    /\ UNCHANGED <<target, tmp, history, made, outside, bounds>>

\* validate_snapshots: the index names exactly the snapshot folders.
Opens(image) == image.index = image.dirs

Open ==
    /\ ~open
    /\ sessions < MaxSessions
    /\ Opens(target)
    /\ sessions' = sessions + 1
    /\ open' = TRUE
    /\ work' = target
    /\ known' = target
    /\ dirty' = FALSE
    /\ outside' = FALSE
    /\ UNCHANGED <<target, tmp, history, made, run, failures>>

-----------------------------------------------------------------------------
(* Steps of the operations *)

Goto(next) == pc' = next

Fails(step) ==
    /\ step \in FailAt
    /\ failures < MaxFailures
    /\ failures' = failures + 1
    /\ Goto(Idle)
    /\ op' = NoOp

\* A conflict, or a request that cannot be served: the operation raises.
Refused == Goto(Idle) /\ op' = NoOp /\ UNCHANGED failures

Continues == UNCHANGED <<op, failures>>

Begin(rollback, keep, goal) ==
    /\ open
    /\ pc = Idle
    /\ op' = [NoOp EXCEPT !.rollback = rollback, !.keep = keep, !.goal = goal,
                          !.origin = work.content, !.since = made]
    /\ Goto("device_network")
    /\ UNCHANGED <<work, target, tmp, history, made, session, outside, bounds>>

\* save_project; without force it is skipped while the signature is unchanged.
Save(force, keep) ==
    /\ force \/ dirty
    /\ Begin(FALSE, keep, 0)

\* rollback_project, with an id from a list shown earlier
Rollback(s) ==
    /\ history[s].reason # "none"
    /\ Begin(TRUE, "before-rollback", s)

AfterPart == [device_network |-> "info_collected", info_collected |-> "backup"]

\* _stage_workspace: one consistent copy of each database, then the trees.
Stage(p) ==
    /\ pc = p
    /\ \/ /\ op' = [op EXCEPT !.staged = [work EXCEPT
                 !.content = [op.staged.content EXCEPT ![p] = work.content[p]]]]
          /\ Goto(IF p # "backup" THEN AfterPart[p]
                  ELSE IF op.keep = "none" THEN "check" ELSE "commit")
          /\ UNCHANGED failures
       \/ Fails("stage")
    /\ UNCHANGED <<work, target, tmp, history, made, session, outside, sessions>>

-----------------------------------------------------------------------------
(* create_from_staged_workspace *)

NewSnapshot == Cardinality({s \in Snapshots : history[s].reason # "none"})

\* The snapshot folder is built aside, validated and renamed into place.
CommitSnapshot ==
    /\ pc = "commit"
    /\ \/ /\ Continues
          /\ NewSnapshot < MaxSnapshots
          /\ history' = [history EXCEPT ![NewSnapshot + 1] =
                            [reason |-> op.keep, content |-> op.staged.content]]
          /\ work' = [work EXCEPT !.dirs = @ \cup {NewSnapshot + 1}]
          /\ Goto("retain")
       \/ Fails("commit") /\ UNCHANGED <<work, history>>
    /\ UNCHANGED <<target, tmp, made, session, outside, sessions>>

Automatic(s) == history[s].reason = "automatic"

Newer(s, set) == {n \in set : n > s}

\* Fault: the limit counts every snapshot.
ExpiredOfAnyReason ==
    {s \in work.index \cup {NewSnapshot} :
        Cardinality(Newer(s, work.index \cup {NewSnapshot})) >= AutomaticLimit}

\* Automatic snapshots after the AutomaticLimit newest ones.  (None is pinned.)
Expired ==
    LET records == work.index \cup {NewSnapshot}
    IN  {s \in records :
            /\ Automatic(s)
            /\ Cardinality({n \in Newer(s, records) : Automatic(n)}) >= AutomaticLimit}

\* _apply_retention: rmtree(ignore_errors=True), before the index is written.
Retain ==
    /\ pc = "retain"
    /\ \/ /\ work' = [work EXCEPT !.dirs = @ \ Expired]
          /\ UNCHANGED failures
       \/ /\ "rmtree" \in FailAt /\ failures < MaxFailures /\ Expired # {}
          /\ failures' = failures + 1
          /\ UNCHANGED work
    /\ Goto("index")
    /\ UNCHANGED <<target, tmp, history, made, session, op, outside, sessions>>

\* Fault: expired snapshots stay in the staged copy.
WriteIndexKeepsExpired ==
    /\ pc = "index"
    /\ LET records == (work.index \cup {NewSnapshot}) \ Expired
       IN  /\ work' = [work EXCEPT !.index = records]
           /\ op' = [op EXCEPT !.staged.dirs = @ \cup {NewSnapshot},
                               !.staged.index = records]
           /\ Goto(IF op.rollback THEN "select" ELSE "check")
    /\ UNCHANGED <<target, tmp, history, made, session, outside, sessions, failures>>

\* Fault: the safety snapshot of a rollback is not entered in the index.
WriteIndexSafetyForgotten ==
    /\ pc = "index"
    /\ IF op.rollback THEN Goto("select") /\ UNCHANGED work
       ELSE /\ Goto("check")
            /\ work' = [work EXCEPT !.index = (@ \cup {NewSnapshot}) \ Expired]
    /\ UNCHANGED <<target, tmp, history, made, session, op, outside, sessions, failures>>

\* The live index, then the folders and the index of the staged copy; the
\* failing step may be any of them.
WriteIndex ==
    /\ pc = "index"
    /\ LET records == (work.index \cup {NewSnapshot}) \ Expired
       IN  \/ /\ work' = [work EXCEPT !.index = records]
              /\ op' = [op EXCEPT !.staged = [content |-> @.content,
                                     dirs |-> (@.dirs \cup {NewSnapshot}) \cap records,
                                     index |-> records]]
              /\ UNCHANGED failures
              /\ Goto(IF op.rollback THEN "select" ELSE "check")
           \/ /\ Fails("index")
              /\ \/ UNCHANGED work
                 \/ work' = [work EXCEPT !.index = records]
    /\ UNCHANGED <<target, tmp, history, made, session, outside, sessions>>

-----------------------------------------------------------------------------
(* restore_snapshot *)

Select ==
    /\ pc = "select"
    /\ IF op.goal \in work.index \cap work.dirs
       THEN Goto("restore_backup") /\ Continues
       ELSE Refused
    /\ UNCHANGED <<work, target, tmp, history, made, session, outside, sessions>>

RestorePart(p, next) ==
    /\ work' = [work EXCEPT !.content[p] = history[op.goal].content[p]]
    /\ dirty' = TRUE
    /\ Goto(next)
    /\ UNCHANGED failures

\* Fault: the databases are left as the failed rollback made them.
RecoverBackupOnly(old) ==
    /\ Fails("restore")
    /\ work' = [work EXCEPT !.content.backup = old]
    /\ dirty' = TRUE

\* The old backup tree comes back, the databases from the staged copy even if
\* they were not replaced yet.
Recover(old) ==
    /\ Fails("restore")
    /\ work' = [work EXCEPT !.content = [op.staged.content EXCEPT !.backup = old]]
    /\ dirty' = TRUE

RestoreBackup ==
    /\ pc = "restore_backup"
    /\ \/ /\ RestorePart("backup", "restore_device_network")
          /\ op' = [op EXCEPT !.old = work.content.backup]
       \/ Recover(work.content.backup)
    /\ UNCHANGED <<target, tmp, history, made, open, known, outside, sessions>>

RestoreDatabase ==
    /\ \/ /\ pc = "restore_device_network"
          /\ RestorePart("device_network", "restore_info_collected")
          /\ UNCHANGED op
       \/ /\ pc = "restore_info_collected"
          /\ RestorePart("info_collected", "device_network")
          /\ op' = [op EXCEPT !.keep = "none", !.touched = FALSE]
       \/ /\ pc \in {"restore_device_network", "restore_info_collected"}
          /\ Recover(op.old)
    /\ UNCHANGED <<target, tmp, history, made, open, known, outside, sessions>>

-----------------------------------------------------------------------------
(* pack *)

Whole(file) == file \notin {NoFile, Fragment}

\* Fault: a recovery package left behind is thrown away.
CheckDiscardsTmp ==
    /\ pc = "check"
    /\ IF target # known
       THEN Refused /\ UNCHANGED tmp
       ELSE Goto("written") /\ Continues /\ tmp' = Fragment
    /\ UNCHANGED <<work, target, history, made, session, outside, sessions>>

\* Fault: the package is written in place.
CheckWritesInPlace ==
    /\ pc = "check"
    /\ IF target # known \/ Whole(tmp)
       THEN Refused /\ UNCHANGED target
       ELSE Goto("written") /\ Continues /\ target' = Fragment
    /\ UNCHANGED <<work, tmp, history, made, session, outside, sessions>>

\* The package must be the known one and no whole recovery package may be
\* there; a fragment is moved aside.  Then the writing begins.
Check ==
    /\ pc = "check"
    /\ IF target # known \/ Whole(tmp)
       THEN Refused /\ UNCHANGED tmp
       ELSE Goto("written") /\ Continues /\ tmp' = Fragment
    /\ UNCHANGED <<work, target, history, made, session, outside, sessions>>

\* Fault: the history is left out of the package.
WrittenContentOnly ==
    /\ pc = "written"
    /\ tmp' = [content |-> op.staged.content]
    /\ Goto("verify")
    /\ Continues
    /\ UNCHANGED <<work, target, history, made, session, outside, sessions>>

Written ==
    /\ pc = "written"
    /\ \/ tmp' = op.staged /\ Goto("verify") /\ Continues
       \/ tmp' = NoFile /\ Fails("write")
    /\ UNCHANGED <<work, target, history, made, session, outside, sessions>>

\* A package replaced meanwhile is a conflict: tmp stays as recovery package.
Verify ==
    /\ pc = "verify"
    /\ \/ /\ UNCHANGED tmp
          /\ IF target = known THEN Goto("replace") /\ Continues ELSE Refused
       \/ tmp' = NoFile /\ Fails("verify")
    /\ UNCHANGED <<work, target, history, made, session, outside, sessions>>

Replace ==
    /\ pc = "replace"
    /\ \/ /\ target' = tmp /\ tmp' = NoFile /\ outside' = FALSE
          /\ Goto("finish") /\ Continues
       \/ UNCHANGED <<target, tmp, outside>> /\ Fails("replace")
    /\ UNCHANGED <<work, history, made, session, sessions>>

\* Fault: what was written while the save ran counts as saved.
FinishTrustsAfter ==
    /\ pc = "finish"
    /\ known' = target
    /\ dirty' = FALSE
    /\ Refused
    /\ UNCHANGED <<work, target, tmp, history, made, open, outside, sessions>>

\* The fingerprint is read from the path again.  The new saved signature is the
\* one from before staging, whether or not the content changed since.  If
\* reading the fingerprint fails every later save is a conflict.
Finish ==
    /\ pc = "finish"
    /\ \/ /\ known' = target
          /\ dirty' = op.touched
          /\ Refused
       \/ /\ known' \in {known, target}
          /\ UNCHANGED dirty
          /\ Fails("finish")
    /\ UNCHANGED <<work, target, tmp, history, made, open, outside, sessions>>

-----------------------------------------------------------------------------

SaveSteps ==
    \/ \E p \in Parts : Stage(p)
    \/ CommitSnapshot \/ Retain \/ WriteIndex
    \/ Check \/ Written \/ Verify \/ Replace \/ Finish

RollbackSteps == Select \/ RestoreBackup \/ RestoreDatabase

Next ==
    \/ \E p \in Parts : Edit(p)
    \/ Replaced \/ Leave \/ Open
    \/ \E force \in BOOLEAN, keep \in {"none", "manual", "automatic"} : Save(force, keep)
    \/ \E s \in Snapshots : Rollback(s)
    \/ SaveSteps \/ RollbackSteps

Spec == Init /\ [][Next]_vars

-----------------------------------------------------------------------------
(* Properties *)

StoreTypeOK ==
    /\ work \in Images
    /\ tmp \in Images \cup {NoFile, Fragment}
    /\ target \in Images \cup {Fragment} /\ known \in Images
    /\ history \in [Snapshots -> [reason : Reasons \cup {"none"}, content : Contents]]
    /\ made \in Versions
    /\ open \in BOOLEAN /\ dirty \in BOOLEAN /\ outside \in BOOLEAN
    /\ pc \in {Idle} \cup StageSteps \cup SnapshotSteps \cup RestoreSteps \cup PackSteps
    /\ op \in Ops
    /\ failures \in 0 .. MaxFailures /\ sessions \in 0 .. MaxSessions

\* Whenever the process dies, the project file is a whole package.
TargetWhole == Whole(target)

\* The project can always be opened: the history index of its package names
\* exactly the snapshot folders in it.
PackageOpens == Opens(target)

\* As long as no step has failed it can, whatever crashed and in which state.
OpensUnlessFailed == failures = 0 => Opens(target)

\* An automatic or shutdown save is skipped only if the package already holds
\* what the working directory holds, whatever was edited during the last save
\* and whatever failed since.
SkipIsSafe ==
    open /\ pc = Idle /\ ~dirty /\ ~outside => target.content = work.content

\* A whole recovery package that an earlier save left is never overwritten or
\* removed: it only goes away by becoming the project file.
RecoveryKept ==
    [][Whole(tmp) /\ pc # "verify" /\ tmp' # tmp => target' = tmp]_vars

\* Since op began, part p was left alone (content c) or edited by others.
LeftOrEdited(p, content, c) == content[p] = c[p] \/ content[p] > op.since

\* A rollback that ends restored every part or none: with any one step failing,
\* a part shows the old snapshot only if all of them do, edits by others apart.
RollbackAllOrNothing ==
    [][op.rollback /\ pc' = Idle /\ open' =>
          \/ \A p \in Parts : LeftOrEdited(p, work.content', op.origin)
          \/ \A p \in Parts : LeftOrEdited(p, work.content', history[op.goal].content)]_vars

\* Nothing is restored before the state it replaces is in the history.
SafetyPoint ==
    op.rollback /\ pc \in {"restore_device_network", "restore_info_collected"} =>
        \E s \in work.index \cap work.dirs :
            /\ history[s].reason = "before-rollback"
            /\ \A p \in Parts : LeftOrEdited(p, history[s].content, op.origin)

\* Retention takes automatic snapshots only, and only old ones: manual and
\* safety snapshots stay in the history of the session.
HistoryKept ==
    [][open /\ open' =>
          \A s \in work.index \ work'.index :
              /\ Automatic(s)
              /\ Cardinality({n \in work'.index : Automatic(n)'}) = AutomaticLimit]_vars

\* A save never goes on when an outside tool had replaced the package before
\* the save looked at it.
OutsideRefused == [][pc = "check" /\ outside => pc' # "written"]_vars
=============================================================================
