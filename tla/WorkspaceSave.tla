---------------------------- MODULE WorkspaceSave ----------------------------
(***************************************************************************)
(* core/workspace_save.py: the controller that saves the open workspace in *)
(* the background.  The GUI thread takes requests, timers and file-change  *)
(* notices and keeps one running and one pending request; the only worker  *)
(* thread performs the running one (infrastructure/workspace, in detail in *)
(* WorkspaceStore).  Other threads edit the workspace at any time.         *)
(***************************************************************************)
EXTENDS Integers

CONSTANTS
    NoRequest,
    MaxEdits,     \* bound: writes to the workspace
    MaxRequests,  \* bound: requests of the user
    MaxFailures,  \* bound: operations that raise
    MaxProjects   \* bound: projects opened one after the other

UserKinds == {"manual", "snapshot", "rollback", "close"}
Kinds == UserKinds \cup {"automatic"}

ASSUME RequestAssumption == NoRequest \notin Kinds
ASSUME SaveBoundAssumption ==
    {MaxEdits, MaxRequests, MaxFailures, MaxProjects} \subseteq Nat /\ MaxProjects # 0

VARIABLES
    project,     \* "open", or "none": welcome.active_session() is None
    version,     \* number of the last write to the working directory
    packaged,    \* the write up to which the package is complete
    signature,   \* saved_content_signature, as the write it was read after
    notices,     \* file-change signals of the watcher not yet delivered
    noticed,     \* ghost: the last write a delivered signal told of
    generation, savedGeneration,
    active,      \* _active_request: kind, or NoRequest when not _busy
    since,       \* _active_request.generation
    pending,     \* _pending_request
    idleTimer,   \* the single-shot autosave timer runs
    label,       \* state shown by QML
    step,        \* next step of the worker
    before,      \* worker: signature read before staging
    image,       \* worker: write up to which the staged image is complete
    result,      \* worker: "none", "skipped", "saved", "changed" or "error"
    closing,     \* ghost: last write when the user asked for the running close
    quitting,    \* _shutting_down
    requests, failures, projects

files == <<version, packaged, signature, notices, noticed>>
queue == <<active, since, pending>>
worker == <<step, before, image, result>>
bounds == <<requests, failures, projects>>
vars == <<project, files, generation, savedGeneration, queue, idleTimer, label,
          worker, closing, quitting, bounds>>

Busy == active # NoRequest
Dirty == generation > savedGeneration
Steps == {"none", "prepare", "begin", "stage", "pack", "compare", "finished"}

Init ==
    /\ project = "open"
    /\ version = 0 /\ packaged = 0 /\ signature = 0 /\ notices = 0 /\ noticed = 0
    /\ generation = 0 /\ savedGeneration = 0
    /\ active = NoRequest /\ since = 0 /\ pending = NoRequest
    /\ idleTimer = FALSE
    /\ label = "saved"
    /\ step = "none" /\ before = 0 /\ image = 0 /\ result = "none"
    /\ closing = 0
    /\ quitting = FALSE
    /\ requests = 0 /\ failures = 0 /\ projects = 1

-----------------------------------------------------------------------------
(* Workspace *)

\* A write; the watcher sees those that touch a path it watches.
Edit ==
    /\ project = "open"
    /\ version < MaxEdits
    /\ version' = version + 1
    /\ \/ notices' = version'
       \/ UNCHANGED notices
    /\ UNCHANGED <<project, packaged, signature, noticed, generation,
                   savedGeneration, queue, idleTimer, label, worker, closing,
                   quitting, bounds>>

\* _workspace_file_changed -> markDirty
MarkDirty ==
    /\ project = "open" /\ ~quitting
    /\ notices > noticed
    /\ noticed' = notices
    /\ generation' = generation + 1
    /\ idleTimer' = TRUE
    /\ label' = IF Busy THEN label ELSE "unsaved"
    /\ UNCHANGED <<project, version, packaged, signature, notices,
                   savedGeneration, queue, worker, closing, quitting, bounds>>

\* _workspace_changed, for a project opened after the last one was closed
OpenProject ==
    /\ project = "none" /\ ~quitting
    /\ projects < MaxProjects
    /\ projects' = projects + 1
    /\ project' = "open"
    /\ packaged' = version /\ signature' = version
    /\ notices' = version /\ noticed' = version
    /\ generation' = 0 /\ savedGeneration' = 0
    /\ pending' = NoRequest
    /\ idleTimer' = FALSE
    /\ label' = "saved"
    /\ UNCHANGED <<version, active, since, worker, closing, quitting, requests,
                   failures>>

-----------------------------------------------------------------------------
(* Requests *)

Rank == [automatic |-> 1, manual |-> 2, snapshot |-> 3, rollback |-> 4, close |-> 5]

\* Fault: the last request wins.
MergeLast(current, incoming) == incoming

Merge(current, incoming) ==
    IF current = NoRequest \/ Rank[incoming] >= Rank[current] THEN incoming ELSE current

\* _start: the request carries the generation of now.
Start(kind) ==
    /\ active' = kind
    /\ since' = generation'
    /\ idleTimer' = FALSE
    /\ label' = "saving"
    /\ step' = IF kind = "close" THEN "prepare" ELSE "begin"
    /\ result' = "none" /\ before' = 0 /\ image' = 0

Enqueue(kind) ==
    /\ project = "open" /\ ~quitting
    /\ IF Busy
       THEN /\ pending' = Merge(pending, kind)
            /\ UNCHANGED <<active, since, idleTimer, label, worker>>
       ELSE Start(kind) /\ UNCHANGED pending

Request(kind) ==
    /\ requests < MaxRequests
    /\ requests' = requests + 1
    /\ UNCHANGED <<project, files, generation, savedGeneration, quitting,
                   failures, projects>>
    /\ closing' = IF kind = "close" /\ active # "close" THEN version ELSE closing
    /\ Enqueue(kind)

\* The idle timer fires once (its QTimer is then inactive), the other one for
\* ever.
AutoSave ==
    /\ UNCHANGED <<project, files, generation, savedGeneration, closing,
                   quitting, bounds>>
    /\ Enqueue("automatic")

IdleTimer ==
    /\ idleTimer
    /\ Busy
    /\ project = "open" /\ ~quitting
    /\ idleTimer' = FALSE
    /\ pending' = Merge(pending, "automatic")
    /\ UNCHANGED <<project, files, generation, savedGeneration, active, since,
                   label, worker, closing, quitting, bounds>>

-----------------------------------------------------------------------------
(* The worker: _WorkspaceOperation.run *)

Work(from, to) ==
    /\ step = from
    /\ step' = to
    /\ UNCHANGED <<project, notices, noticed, generation, savedGeneration,
                   queue, idleTimer, label, closing, quitting, requests, projects>>

MayWrite == version' \in {version, version + 1} \cap 0 .. MaxEdits

\* close: the preparer disconnects the devices and writes their state.
Prepare ==
    /\ Work("prepare", "begin")
    /\ MayWrite
    /\ UNCHANGED <<packaged, signature, before, image, result, failures>>

\* save_project begins; a rollback has restored the snapshot before, which is
\* a write of its own if it changes anything.
BeginSave ==
    /\ \/ /\ Work("begin", "stage")
          /\ active = "automatic" => version # signature
          /\ IF active = "rollback" THEN MayWrite ELSE UNCHANGED version
          /\ before' = version'
          /\ UNCHANGED result
       \/ /\ Work("begin", "finished")
          /\ active = "automatic" /\ version = signature
          /\ result' = "skipped"
          /\ UNCHANGED <<version, before>>
    /\ UNCHANGED <<packaged, signature, image, failures>>

StageImage ==
    /\ Work("stage", "pack")
    /\ image' = version
    /\ UNCHANGED <<version, packaged, signature, before, result, failures>>

Pack ==
    /\ Work("pack", "compare")
    /\ packaged' = image
    /\ UNCHANGED <<version, signature, before, image, result, failures>>

\* Fault: an edit made while the image was packed counts as saved.
CompareTrustsAfter ==
    /\ Work("compare", "finished")
    /\ result' = "saved"
    /\ signature' = version
    /\ UNCHANGED <<version, packaged, before, image, failures>>

\* changed_during_save; the signature kept is the one from before.
Compare ==
    /\ Work("compare", "finished")
    /\ result' = IF version # before THEN "changed" ELSE "saved"
    /\ signature' = before
    /\ UNCHANGED <<version, packaged, before, image, failures>>

\* Any step raises; the package is replaced last.
Raise ==
    /\ \E s \in {"prepare", "begin", "stage", "pack"} : Work(s, "finished")
    /\ failures < MaxFailures
    /\ failures' = failures + 1
    /\ result' = "error"
    /\ UNCHANGED <<version, packaged, signature, before, image>>

Worker == Prepare \/ BeginSave \/ StageImage \/ Pack \/ Compare \/ Raise

-----------------------------------------------------------------------------
(* _operation_finished, and shutdown *)

Higher(a, b) == IF a > b THEN a ELSE b

\* Fault: the project is closed whether or not the save went well.
ClosesNowAnyway == active = "close"

ClosesNow == active = "close" /\ result # "error"

\* Fault: the generation of now is marked saved.
SavedUpToNow == generation

SavedUpTo == Higher(savedGeneration, since)

\* The next request: the pending one, an automatic one merged in if the
\* workspace changed under the save.
NextRequest == IF result = "changed" THEN Merge(pending, "automatic") ELSE pending

NextGeneration == IF result = "changed" THEN Higher(generation, since + 1) ELSE generation

\* No operation runs.
Idle == step' = "none" /\ result' = "none" /\ before' = 0 /\ image' = 0

\* A successful close: closeProject() and _workspace_changed.
FinishClose ==
    /\ project' = "none"
    /\ generation' = 0 /\ savedGeneration' = 0
    /\ active' = NoRequest /\ since' = 0 /\ pending' = NoRequest
    /\ idleTimer' = FALSE
    /\ label' = "no_workspace"
    /\ Idle

\* Fault: the label is what the save returned.
ShownResult == result

Shown ==
    IF result = "error" THEN "failed"
    ELSE IF NextGeneration > SavedUpTo THEN "unsaved" ELSE "saved"

\* The pending request starts at once.
FinishAndGoOn ==
    /\ generation' = NextGeneration
    /\ savedGeneration' = IF result = "error" THEN savedGeneration ELSE SavedUpTo
    /\ pending' = NoRequest
    /\ \/ /\ NextRequest = NoRequest
          /\ active' = NoRequest /\ since' = 0
          /\ label' = Shown
          /\ Idle
          /\ UNCHANGED idleTimer
       \/ NextRequest # NoRequest /\ Start(NextRequest)
    /\ UNCHANGED project

Finished ==
    /\ step = "finished" /\ ~quitting
    /\ IF ClosesNow THEN FinishClose ELSE FinishAndGoOn
    /\ UNCHANGED <<files, closing, quitting, bounds>>

\* The application quits: no more requests; the GUI thread waits.
Quit ==
    /\ ~quitting
    /\ quitting' = TRUE
    /\ idleTimer' = FALSE
    /\ pending' = NoRequest
    /\ UNCHANGED <<project, files, generation, savedGeneration, active, since,
                   label, worker, closing, bounds>>

\* Fault: the pool is not waited for.
WorkerDoneAssumed == TRUE

WorkerDone == step \in {"none", "finished"}

\* shutdown's last save, of what the signature says is not saved; it may fail.
LastSave ==
    /\ quitting /\ project = "open"
    /\ WorkerDone
    /\ \/ /\ packaged' = IF version # signature THEN version ELSE packaged
          /\ UNCHANGED failures
       \/ /\ failures < MaxFailures /\ version # signature
          /\ failures' = failures + 1
          /\ UNCHANGED packaged
    /\ project' = "none"
    /\ generation' = 0 /\ savedGeneration' = 0
    /\ label' = "no_workspace"
    /\ UNCHANGED <<version, signature, notices, noticed, queue, idleTimer,
                   worker, closing, quitting, requests, projects>>

-----------------------------------------------------------------------------

Next ==
    \/ Edit \/ MarkDirty \/ OpenProject
    \/ \E kind \in UserKinds : Request(kind)
    \/ AutoSave \/ IdleTimer
    \/ Worker
    \/ Finished \/ Quit \/ LastSave

Spec == Init /\ [][Next]_vars

(* The worker thread runs, signals are delivered, the three-minute timer     *)
(* goes on for ever.  The user need not ask for anything.                    *)
FairSpec ==
    /\ Spec
    /\ WF_vars(Worker) /\ WF_vars(Finished) /\ WF_vars(LastSave)
    /\ WF_vars(MarkDirty) /\ WF_vars(AutoSave) /\ WF_vars(IdleTimer)

-----------------------------------------------------------------------------
(* Properties *)

SaveTypeOK ==
    /\ project \in {"open", "none"}
    /\ {version, packaged, signature, notices, noticed, before, image, closing}
          \subseteq 0 .. MaxEdits
    /\ {generation, savedGeneration, since} \subseteq 0 .. 2 * MaxEdits + 1
    /\ active \in Kinds \cup {NoRequest} /\ pending \in Kinds \cup {NoRequest}
    /\ label \in {"saved", "unsaved", "saving", "failed", "no_workspace"}
    /\ step \in Steps
    /\ result \in {"none", "skipped", "saved", "changed", "error"}
    /\ {idleTimer, quitting} \subseteq BOOLEAN
    /\ requests \in 0 .. MaxRequests /\ failures \in 0 .. MaxFailures
    /\ projects \in 1 .. MaxProjects

\* "Saved" is never shown while a write the controller was told of is missing
\* in the package, whatever arrived during the save.
SavedShownIsSaved == label = "saved" => noticed <= packaged

\* The extracted directory is never given up under a running operation.
OperationKeepsProject == step \notin {"none", "finished"} => project = "open"

\* Closing a workspace never loses what was written before the user asked for
\* it, also when the request waited for a save or one of its tries failed.
CloseKeepsEdits ==
    [][project = "open" /\ project' = "none" /\ ~quitting => packaged >= closing]_vars

\* Every write ends in the package, unless the project is closed first: no
\* edit made during a save, unseen by the watcher or left by a failed save is
\* forgotten.
EditsReachPackage ==
    \A v \in 1 .. MaxEdits :
        project = "open" /\ version >= v ~> packaged >= v \/ project = "none"

\* An accepted close is carried out or reported as failed: no other request
\* takes its place.
CloseServed ==
    active = "close" \/ pending = "close" ~> project = "none" \/ label = "failed"
        \/ result = "error"
=============================================================================
