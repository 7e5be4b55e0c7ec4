------------------------- MODULE WorkspaceStoreProofs -------------------------
(***************************************************************************)
(* Proofs about WorkspaceStore, for every bound and every set of steps     *)
(* that may fail.                                                          *)
(***************************************************************************)
EXTENDS WorkspaceStore, FiniteSetTheorems, TLAPS

Made == \E s \in Snapshots : history[s].reason # "none"

\* What each step of an operation may count on.
StepOK ==
    /\ pc # Idle => open
    /\ pc = "commit" => op.keep # "none"
    /\ pc \in {"retain", "index"} => Made
    /\ pc \in RestoreSteps \ {"select"} => op.goal \in Snapshots
    /\ pc = "written" => tmp = Fragment
    /\ pc \in {"verify", "replace"} => tmp = op.staged
    /\ target \in Images

StoreInv == StoreTypeOK /\ StepOK

LEMMA NewSnapshotRange ==
    ASSUME StoreTypeOK
    PROVE  NewSnapshot \in 0 .. MaxSnapshots /\ (Made => NewSnapshot \in Snapshots)
<1> DEFINE S == {s \in Snapshots : history[s].reason # "none"}
<1>1. MaxSnapshots \in Nat
    BY StoreBoundAssumption
<1>2. IsFiniteSet(Snapshots) /\ Cardinality(Snapshots) = MaxSnapshots
    BY <1>1, FS_Interval DEF Snapshots
<1>3. IsFiniteSet(S) /\ Cardinality(S) <= MaxSnapshots
    BY <1>2, FS_Subset
<1>4. Cardinality(S) \in Nat
    BY <1>3, FS_CardinalityType
<1>5. Made => Cardinality(S) # 0
    BY <1>3, FS_EmptySet DEF Made
<1> QED
    BY <1>1, <1>3, <1>4, <1>5 DEF NewSnapshot, Snapshots

LEMMA BlankImage == Blank \in Images /\ NoOp \in Ops /\ Blank.content \in Contents
    BY StoreBoundAssumption DEF Blank, NoOp, Images, Ops, Contents, Versions, Reasons

LEMMA InitStoreInv == Init => StoreInv
<1> SUFFICES ASSUME Init PROVE StoreInv
    OBVIOUS
<1>1. history \in [Snapshots -> [reason : Reasons \cup {"none"}, content : Contents]]
    BY BlankImage DEF Init
<1>2. made \in Versions /\ failures \in 0 .. MaxFailures /\ sessions \in 0 .. MaxSessions
    BY StoreBoundAssumption DEF Init, Versions
<1>3. StoreTypeOK
    BY <1>1, <1>2, BlankImage DEF Init, StoreTypeOK
<1>4. StepOK
    BY BlankImage DEF Init, StepOK, Idle, RestoreSteps
<1> QED
    BY <1>3, <1>4 DEF StoreInv

\* A content with one part replaced is a content.
LEMMA PartReplaced ==
    ASSUME NEW c \in Contents, NEW p \in Parts, NEW v \in Versions
    PROVE  [c EXCEPT ![p] = v] \in Contents
    BY DEF Contents

LEMMA EditInv ==
    ASSUME StoreInv, NEW p \in Parts, Edit(p)
    PROVE  StoreInv'
<1> USE DEF StoreInv
<1>1. made' \in Versions
    BY StoreBoundAssumption DEF Edit, StoreTypeOK, Versions
<1>2. work.content \in Contents /\ [work.content EXCEPT ![p] = made'] \in Contents
    BY <1>1, PartReplaced DEF StoreTypeOK, Images
<1>3. work' = [work EXCEPT !.content = [work.content EXCEPT ![p] = made']]
    BY DEF Edit, StoreTypeOK, Images
<1>4. work' \in Images
    BY <1>2, <1>3 DEF StoreTypeOK, Images
<1>5. op' \in Ops /\ op'.keep = op.keep /\ op'.goal = op.goal /\ op'.staged = op.staged
    BY DEF Edit, StoreTypeOK, Ops
<1>6. StoreTypeOK'
    BY <1>1, <1>4, <1>5 DEF Edit, StoreTypeOK, bounds
<1>7. StepOK'
    BY <1>5 DEF Edit, StepOK, Made, RestoreSteps
<1> QED
    BY <1>6, <1>7

LEMMA ReplacedInv == StoreInv /\ Replaced => StoreInv'
<1> SUFFICES ASSUME StoreInv, Replaced PROVE StoreInv'
    OBVIOUS
<1> USE DEF StoreInv
<1>1. made' \in Versions
    BY StoreBoundAssumption DEF Replaced, StoreTypeOK, Versions
<1>2. [p \in Parts |-> made'] \in Contents
    BY <1>1 DEF Contents
<1>3. target' \in Images
    BY <1>2, BlankImage DEF Replaced, Images
<1>4. StoreTypeOK'
    BY <1>1, <1>3 DEF Replaced, StoreTypeOK, session, run, bounds
<1>5. StepOK'
    BY <1>3 DEF Replaced, StepOK, Made, RestoreSteps, session, run
<1> QED
    BY <1>4, <1>5

LEMMA LeaveInv == StoreInv /\ Leave => StoreInv'
<1> SUFFICES ASSUME StoreInv, Leave PROVE StoreInv'
    OBVIOUS
<1>1. StoreTypeOK'
    BY BlankImage DEF StoreInv, Leave, StoreTypeOK, bounds
<1>2. StepOK'
    BY DEF StoreInv, Leave, StepOK, Idle, RestoreSteps
<1> QED
    BY <1>1, <1>2 DEF StoreInv

LEMMA OpenInv == StoreInv /\ Open => StoreInv'
<1> SUFFICES ASSUME StoreInv, Open PROVE StoreInv'
    OBVIOUS
<1>1. sessions' \in 0 .. MaxSessions
    BY StoreBoundAssumption DEF StoreInv, StoreTypeOK, Open
<1>2. StoreTypeOK'
    BY <1>1 DEF StoreInv, Open, StoreTypeOK, StepOK, run
<1>3. StepOK'
    BY DEF StoreInv, Open, StepOK, Made, RestoreSteps, run
<1> QED
    BY <1>2, <1>3 DEF StoreInv

LEMMA BeginInv ==
    ASSUME StoreInv, NEW rollback \in BOOLEAN, NEW keep \in Reasons \cup {"none"},
           NEW goal \in Snapshots \cup {0}, Begin(rollback, keep, goal)
    PROVE  StoreInv'
<1>1. op' \in Ops
    BY BlankImage DEF StoreInv, StoreTypeOK, Begin, Ops, Images, NoOp
<1>2. StoreTypeOK'
    BY <1>1 DEF StoreInv, Begin, Goto, StoreTypeOK, session, bounds, StageSteps, Parts
<1>3. StepOK'
    BY DEF StoreInv, Begin, Goto, StepOK, Idle, RestoreSteps, session
<1> QED
    BY <1>2, <1>3 DEF StoreInv

-----------------------------------------------------------------------------

\* A step that raises leaves the operation.
LEMMA FailsOp ==
    ASSUME StoreInv, NEW step, Fails(step)
    PROVE  pc' = Idle /\ op' = NoOp /\ failures' \in 0 .. MaxFailures
    BY StoreBoundAssumption DEF StoreInv, StoreTypeOK, Fails, Goto

LEMMA StageInv ==
    ASSUME StoreInv, NEW p \in Parts, Stage(p)
    PROVE  StoreInv'
<1> USE DEF StoreInv
<1>1. CASE Fails("stage")
  <2>1. StoreTypeOK'
    BY <1>1, FailsOp, BlankImage DEF Stage, StoreTypeOK, session
  <2>2. StepOK'
    BY <1>1, FailsOp DEF Stage, StepOK, Idle, RestoreSteps
  <2> QED
    BY <2>1, <2>2
<1>2. CASE ~Fails("stage")
  <2> DEFINE c == [op.staged.content EXCEPT ![p] = work.content[p]]
  <2>1. /\ op.staged \in Images /\ op.staged.content \in Contents
        /\ work.content \in Contents /\ work.content[p] \in Versions
    BY DEF StoreTypeOK, Ops, Images, Contents
  <2>2. c \in Contents
    BY <2>1, PartReplaced
  <2> DEFINE image == [work EXCEPT !.content = c]
  <2>3. image \in Images
    BY <2>2 DEF StoreTypeOK, Images
  <2>4. op' = [op EXCEPT !.staged = image]
    BY <1>2 DEF Stage
  <2>5. op' \in Ops /\ op'.keep = op.keep /\ op'.goal = op.goal
    BY <2>3, <2>4 DEF StoreTypeOK, Ops
  <2>6. pc' \in {"info_collected", "backup", "check"} \/ (pc' = "commit" /\ op.keep # "none")
    BY <1>2 DEF Stage, Goto, AfterPart, Parts
  <2>7. pc' \in StageSteps \cup SnapshotSteps \cup PackSteps
    BY <2>6 DEF StageSteps, SnapshotSteps, PackSteps, Parts
  <2>8. StoreTypeOK'
    BY <1>2, <2>5, <2>7 DEF Stage, StoreTypeOK, session
  <2>9. StepOK'
    BY <1>2, <2>5, <2>6 DEF Stage, StepOK, Idle, RestoreSteps, session, Parts
  <2> QED
    BY <2>8, <2>9
<1> QED
    BY <1>1, <1>2

-----------------------------------------------------------------------------

LEMMA CommitSnapshotInv == StoreInv /\ CommitSnapshot => StoreInv'
<1> SUFFICES ASSUME StoreInv, CommitSnapshot PROVE StoreInv'
    OBVIOUS
<1> USE DEF StoreInv
<1>1. CASE Fails("commit") /\ UNCHANGED <<work, history>>
  <2>1. StoreTypeOK'
    BY <1>1, FailsOp, BlankImage DEF CommitSnapshot, StoreTypeOK, session
  <2>2. StepOK'
    BY <1>1, FailsOp DEF CommitSnapshot, StepOK, Idle, RestoreSteps
  <2> QED
    BY <2>1, <2>2
<1>2. CASE ~(Fails("commit") /\ UNCHANGED <<work, history>>)
  <2> DEFINE new == NewSnapshot + 1
             entry == [reason |-> op.keep, content |-> op.staged.content]
  <2>1. new \in Snapshots
    BY <1>2, NewSnapshotRange, StoreBoundAssumption DEF CommitSnapshot, Snapshots
  <2>2. entry \in [reason : Reasons \cup {"none"}, content : Contents]
    BY DEF StoreTypeOK, Ops, Images
  <2>3. /\ history' = [history EXCEPT ![new] = entry]
        /\ work' = [work EXCEPT !.dirs = @ \cup {new}]
        /\ pc' = "retain" /\ op' = op /\ failures' = failures
    BY <1>2 DEF CommitSnapshot, Continues, Goto
  <2>4. work' \in Images
    BY <2>1, <2>3 DEF StoreTypeOK, Images
  <2>5. history' \in [Snapshots -> [reason : Reasons \cup {"none"}, content : Contents]]
    BY <2>2, <2>3 DEF StoreTypeOK
  <2>6. StoreTypeOK'
    BY <2>3, <2>4, <2>5 DEF CommitSnapshot, StoreTypeOK, session, SnapshotSteps
  <2>7. history'[new].reason # "none"
    BY <2>1, <2>3 DEF StoreTypeOK, StepOK, CommitSnapshot
  <2>8. StepOK'
    BY <2>1, <2>3, <2>7 DEF CommitSnapshot, StepOK, Made, Idle, RestoreSteps, session
  <2> QED
    BY <2>6, <2>8
<1> QED
    BY <1>1, <1>2 DEF CommitSnapshot

LEMMA RetainInv == StoreInv /\ Retain => StoreInv'
<1> SUFFICES ASSUME StoreInv, Retain PROVE StoreInv'
    OBVIOUS
<1>1. work' \in Images
    BY DEF StoreInv, Retain, StoreTypeOK, Images
<1>2. failures' \in 0 .. MaxFailures
    BY StoreBoundAssumption DEF StoreInv, Retain, StoreTypeOK
<1>3. StoreTypeOK'
    BY <1>1, <1>2 DEF StoreInv, Retain, Goto, StoreTypeOK, session, SnapshotSteps
<1>4. StepOK'
    BY DEF StoreInv, Retain, Goto, StepOK, Made, Idle, RestoreSteps, session
<1> QED
    BY <1>3, <1>4 DEF StoreInv

LEMMA WriteIndexInv == StoreInv /\ WriteIndex => StoreInv'
<1> SUFFICES ASSUME StoreInv, WriteIndex PROVE StoreInv'
    OBVIOUS
<1> DEFINE records == (work.index \cup {NewSnapshot}) \ Expired
<1>1. records \subseteq Snapshots
    BY NewSnapshotRange DEF StoreInv, WriteIndex, StepOK, StoreTypeOK, Images
<1> HIDE DEF records
<1>2. [work EXCEPT !.index = records] \in Images
    BY <1>1 DEF StoreInv, StoreTypeOK, Images
<1>3. CASE Fails("index")
  <2>1. work' \in Images
    BY <1>2, <1>3 DEF WriteIndex, StoreInv, StoreTypeOK, records
  <2>2. StoreTypeOK'
    BY <2>1, <1>3, FailsOp, BlankImage DEF StoreInv, WriteIndex, StoreTypeOK, session
  <2>3. StepOK'
    BY <1>3, FailsOp DEF StoreInv, WriteIndex, StepOK, Idle, RestoreSteps
  <2> QED
    BY <2>2, <2>3 DEF StoreInv
<1>4. CASE ~Fails("index")
  <2> DEFINE image == [content |-> op.staged.content,
                       dirs |-> (op.staged.dirs \cup {NewSnapshot}) \cap records,
                       index |-> records]
  <2>1. image \in Images
    BY <1>1 DEF StoreInv, StoreTypeOK, Ops, Images
  <2>2. /\ work' = [work EXCEPT !.index = records]
        /\ op' = [op EXCEPT !.staged = image]
        /\ pc' \in {"select", "check"} /\ failures' = failures
    BY <1>4 DEF WriteIndex, Goto, records
  <2> HIDE DEF image
  <2>3. op' \in Ops
    BY <2>1, <2>2 DEF StoreInv, StoreTypeOK, Ops
  <2>4. StoreTypeOK'
    BY <1>2, <2>2, <2>3
    DEF StoreInv, WriteIndex, StoreTypeOK, session, RestoreSteps, PackSteps
  <2>5. StepOK'
    BY <2>2 DEF StoreInv, WriteIndex, StepOK, Made, Idle, RestoreSteps, session
  <2> QED
    BY <2>4, <2>5 DEF StoreInv
<1> QED
    BY <1>3, <1>4

LEMMA SelectInv == StoreInv /\ Select => StoreInv'
<1> SUFFICES ASSUME StoreInv, Select PROVE StoreInv'
    OBVIOUS
<1>1. \/ pc' = "restore_backup" /\ op' = op /\ op.goal \in work.index
      \/ pc' = Idle /\ op' = NoOp
    BY DEF Select, Goto, Continues, Refused
<1>2. failures' = failures
    BY DEF Select, Continues, Refused
<1>3. StoreTypeOK'
    BY <1>1, <1>2, BlankImage DEF StoreInv, Select, StoreTypeOK, session, RestoreSteps
<1>4. op.goal \in work.index => op.goal \in Snapshots
    BY DEF StoreInv, StoreTypeOK, Images
<1>5. StepOK'
    BY <1>1, <1>4 DEF StoreInv, Select, StepOK, Made, Idle, RestoreSteps, session
<1> QED
    BY <1>3, <1>5 DEF StoreInv

-----------------------------------------------------------------------------

\* The error path of restore_snapshot keeps the invariant.
LEMMA RecoverInv ==
    ASSUME StoreInv, NEW old \in Versions, Recover(old),
           UNCHANGED <<target, tmp, history, made, open, known, outside, sessions>>
    PROVE  StoreInv'
<1> DEFINE content == [op.staged.content EXCEPT !.backup = old]
<1>1. content \in Contents
    BY PartReplaced DEF StoreInv, StoreTypeOK, Ops, Images, Parts
<1>2. work' = [work EXCEPT !.content = content] /\ dirty' = TRUE
    BY DEF Recover
<1> HIDE DEF content
<1>3. work' \in Images
    BY <1>1, <1>2 DEF StoreInv, StoreTypeOK, Images
<1>4. pc' = Idle /\ op' = NoOp /\ failures' \in 0 .. MaxFailures
    BY FailsOp DEF Recover
<1>5. StoreTypeOK'
    BY <1>2, <1>3, <1>4, BlankImage DEF StoreInv, StoreTypeOK
<1>6. StepOK'
    BY <1>4 DEF StoreInv, StepOK, Idle, RestoreSteps
<1> QED
    BY <1>5, <1>6 DEF StoreInv

LEMMA RestorePartImage ==
    ASSUME StoreInv, op.goal \in Snapshots, NEW p \in Parts, NEW next, RestorePart(p, next)
    PROVE  /\ work' \in Images /\ dirty' = TRUE /\ pc' = next /\ failures' = failures
           /\ work' = [work EXCEPT !.content =
                          [work.content EXCEPT ![p] = history[op.goal].content[p]]]
<1>1. history[op.goal].content[p] \in Versions
    BY DEF StoreInv, StoreTypeOK, Contents
<1> DEFINE content == [work.content EXCEPT ![p] = history[op.goal].content[p]]
<1>2. content \in Contents
    BY <1>1, PartReplaced DEF StoreInv, StoreTypeOK, Images
<1>3. work' = [work EXCEPT !.content = content]
    BY DEF RestorePart
<1>4. work' \in Images
    BY <1>2, <1>3 DEF StoreInv, StoreTypeOK, Images
<1> QED
    BY <1>3, <1>4 DEF RestorePart, Goto

LEMMA RestoreBackupInv == StoreInv /\ RestoreBackup => StoreInv'
<1> SUFFICES ASSUME StoreInv, RestoreBackup PROVE StoreInv'
    OBVIOUS
<1>1. work.content.backup \in Versions
    BY DEF StoreInv, StoreTypeOK, Images, Contents, Parts
<1>2. op.goal \in Snapshots
    BY DEF StoreInv, StepOK, RestoreBackup, RestoreSteps
<1>3. CASE Recover(work.content.backup)
    BY <1>1, <1>3, RecoverInv DEF RestoreBackup
<1>4. CASE /\ RestorePart("backup", "restore_device_network")
           /\ op' = [op EXCEPT !.old = work.content.backup]
  <2>1. work' \in Images /\ dirty' = TRUE /\ pc' = "restore_device_network"
        /\ failures' = failures
    BY <1>2, <1>4, RestorePartImage DEF Parts
  <2>2. op' \in Ops /\ op'.goal = op.goal
    BY <1>1, <1>4 DEF StoreInv, StoreTypeOK, Ops
  <2>3. StoreTypeOK'
    BY <2>1, <2>2 DEF StoreInv, StoreTypeOK, RestoreBackup, RestoreSteps
  <2>4. StepOK'
    BY <1>2, <2>1, <2>2 DEF StoreInv, StepOK, RestoreBackup, RestoreSteps, Idle
  <2> QED
    BY <2>3, <2>4 DEF StoreInv
<1> QED
    BY <1>3, <1>4 DEF RestoreBackup

LEMMA RestoreDatabaseInv == StoreInv /\ RestoreDatabase => StoreInv'
<1> SUFFICES ASSUME StoreInv, RestoreDatabase PROVE StoreInv'
    OBVIOUS
<1>1. op.old \in Versions
    BY DEF StoreInv, StoreTypeOK, Ops
<1>2. op.goal \in Snapshots
    BY DEF StoreInv, StepOK, RestoreDatabase, RestoreSteps
<1>3. CASE Recover(op.old)
    BY <1>1, <1>3, RecoverInv DEF RestoreDatabase
<1>4. CASE /\ pc = "restore_device_network"
           /\ RestorePart("device_network", "restore_info_collected")
           /\ UNCHANGED op
  <2>1. work' \in Images /\ dirty' = TRUE /\ pc' = "restore_info_collected"
        /\ failures' = failures
    BY <1>2, <1>4, RestorePartImage DEF Parts
  <2>2. StoreTypeOK'
    BY <1>4, <2>1 DEF StoreInv, StoreTypeOK, RestoreDatabase, RestoreSteps
  <2>3. StepOK'
    BY <1>2, <1>4, <2>1 DEF StoreInv, StepOK, RestoreDatabase, RestoreSteps, Idle
  <2> QED
    BY <2>2, <2>3 DEF StoreInv
<1>5. CASE /\ pc = "restore_info_collected"
           /\ RestorePart("info_collected", "device_network")
           /\ op' = [op EXCEPT !.keep = "none", !.touched = FALSE]
  <2>1. work' \in Images /\ dirty' = TRUE /\ pc' = "device_network"
        /\ failures' = failures
    BY <1>2, <1>5, RestorePartImage DEF Parts
  <2>2. op' \in Ops
    BY <1>5 DEF StoreInv, StoreTypeOK, Ops
  <2>3. StoreTypeOK'
    BY <2>1, <2>2 DEF StoreInv, StoreTypeOK, RestoreDatabase, StageSteps, Parts
  <2>4. StepOK'
    BY <2>1, <1>5 DEF StoreInv, StepOK, RestoreDatabase, RestoreSteps, Idle
  <2> QED
    BY <2>3, <2>4 DEF StoreInv
<1> QED
    BY <1>3, <1>4, <1>5 DEF RestoreDatabase

-----------------------------------------------------------------------------

\* A refused step leaves the operation as a failing one does.
LEMMA RefusedOp ==
    ASSUME StoreInv, Refused
    PROVE  pc' = Idle /\ op' = NoOp /\ failures' = failures
    BY DEF Refused, Goto

LEMMA CheckInv == StoreInv /\ Check => StoreInv'
<1> SUFFICES ASSUME StoreInv, Check PROVE StoreInv'
    OBVIOUS
<1>1. \/ pc' = Idle /\ op' = NoOp /\ tmp' = tmp
      \/ pc' = "written" /\ op' = op /\ tmp' = Fragment
    BY DEF Check, Goto, Refused, Continues
<1>2. failures' = failures
    BY DEF Check, Refused, Continues
<1>3. StoreTypeOK'
    BY <1>1, <1>2, BlankImage DEF StoreInv, Check, StoreTypeOK, session, PackSteps
<1>4. StepOK'
    BY <1>1 DEF StoreInv, Check, StepOK, Idle, RestoreSteps, session
<1> QED
    BY <1>3, <1>4 DEF StoreInv

LEMMA WrittenInv == StoreInv /\ Written => StoreInv'
<1> SUFFICES ASSUME StoreInv, Written PROVE StoreInv'
    OBVIOUS
<1>1. \/ pc' = Idle /\ op' = NoOp /\ tmp' = NoFile
      \/ pc' = "verify" /\ op' = op /\ tmp' = op.staged
    BY FailsOp DEF Written, Goto, Continues
<1>2. failures' \in 0 .. MaxFailures
    BY FailsOp DEF Written, Continues, StoreInv, StoreTypeOK
<1>3. op.staged \in Images
    BY DEF StoreInv, StoreTypeOK, Ops
<1>4. StoreTypeOK'
    BY <1>1, <1>2, <1>3, BlankImage DEF StoreInv, Written, StoreTypeOK, session, PackSteps
<1>5. StepOK'
    BY <1>1 DEF StoreInv, Written, StepOK, Idle, RestoreSteps, session
<1> QED
    BY <1>4, <1>5 DEF StoreInv

LEMMA VerifyInv == StoreInv /\ Verify => StoreInv'
<1> SUFFICES ASSUME StoreInv, Verify PROVE StoreInv'
    OBVIOUS
<1>1. \/ pc' = Idle /\ op' = NoOp /\ tmp' \in {NoFile, tmp}
      \/ pc' = "replace" /\ op' = op /\ tmp' = tmp
    BY FailsOp DEF Verify, Goto, Continues, Refused
<1>2. failures' \in 0 .. MaxFailures
    BY FailsOp DEF Verify, Continues, Refused, StoreInv, StoreTypeOK
<1>3. StoreTypeOK'
    BY <1>1, <1>2, BlankImage DEF StoreInv, Verify, StoreTypeOK, session, PackSteps
<1>4. StepOK'
    BY <1>1 DEF StoreInv, Verify, StepOK, Idle, RestoreSteps, session
<1> QED
    BY <1>3, <1>4 DEF StoreInv

LEMMA ReplaceInv == StoreInv /\ Replace => StoreInv'
<1> SUFFICES ASSUME StoreInv, Replace PROVE StoreInv'
    OBVIOUS
<1>1. \/ /\ pc' = Idle /\ op' = NoOp /\ UNCHANGED <<target, tmp, outside>>
      \/ /\ pc' = "finish" /\ op' = op
         /\ target' = tmp /\ tmp' = NoFile /\ outside' = FALSE
    BY FailsOp DEF Replace, Goto, Continues
<1>2. failures' \in 0 .. MaxFailures
    BY FailsOp DEF Replace, Continues, StoreInv, StoreTypeOK
<1>3. tmp \in Images
    BY DEF Replace, StoreInv, StepOK, StoreTypeOK, Ops
<1>4. StoreTypeOK'
    BY <1>1, <1>2, <1>3, BlankImage DEF StoreInv, Replace, StoreTypeOK, session, PackSteps
<1>5. StepOK'
    BY <1>1, <1>3 DEF StoreInv, Replace, StepOK, Idle, RestoreSteps, session
<1> QED
    BY <1>4, <1>5 DEF StoreInv

LEMMA FinishInv == StoreInv /\ Finish => StoreInv'
<1> SUFFICES ASSUME StoreInv, Finish PROVE StoreInv'
    OBVIOUS
<1>1. pc' = Idle /\ op' = NoOp /\ failures' \in 0 .. MaxFailures
    BY FailsOp, RefusedOp DEF Finish, StoreInv, StoreTypeOK
<1>2. known' \in Images /\ dirty' \in BOOLEAN
    BY DEF Finish, StoreInv, StoreTypeOK, StepOK, Ops
<1>3. StoreTypeOK'
    BY <1>1, <1>2, BlankImage DEF StoreInv, Finish, StoreTypeOK
<1>4. StepOK'
    BY <1>1 DEF StoreInv, Finish, StepOK, Idle, RestoreSteps
<1> QED
    BY <1>3, <1>4 DEF StoreInv

-----------------------------------------------------------------------------

LEMMA NextInv == StoreInv /\ [Next]_vars => StoreInv'
<1> SUFFICES ASSUME StoreInv, [Next]_vars PROVE StoreInv'
    OBVIOUS
<1>1. CASE UNCHANGED vars
    BY <1>1 DEF vars, session, run, bounds, StoreInv, StoreTypeOK, StepOK, Made
<1>2. ASSUME NEW p \in Parts, Edit(p) PROVE StoreInv'
    BY <1>2, EditInv
<1>3. ASSUME NEW force \in BOOLEAN, NEW keep \in {"none", "manual", "automatic"},
             Save(force, keep)
      PROVE  StoreInv'
    BY <1>3, BeginInv DEF Save, Reasons
<1>4. ASSUME NEW s \in Snapshots, Rollback(s) PROVE StoreInv'
    BY <1>4, BeginInv DEF Rollback, Reasons
<1>5. CASE SaveSteps
    BY <1>5, StageInv, CommitSnapshotInv, RetainInv, WriteIndexInv, CheckInv,
       WrittenInv, VerifyInv, ReplaceInv, FinishInv DEF SaveSteps
<1>6. CASE RollbackSteps
    BY <1>6, SelectInv, RestoreBackupInv, RestoreDatabaseInv DEF RollbackSteps
<1> QED
    BY <1>1, <1>2, <1>3, <1>4, <1>5, <1>6, ReplacedInv, LeaveInv, OpenInv DEF Next

LEMMA StoreInvariant == Spec => []StoreInv
    BY InitStoreInv, NextInv, PTL DEF Spec

-----------------------------------------------------------------------------

\* Every variable has its type in every state a project can reach, whatever
\* fails, crashes or is replaced.
THEOREM StoreTypeCorrect == Spec => []StoreTypeOK
    BY StoreInvariant, PTL DEF StoreInv

LEMMA ImageWhole ==
    ASSUME NEW image \in Images
    PROVE  Whole(image)
    BY FileAssumption DEF Whole

\* The project file is a whole package in every state, so also when the process
\* dies there: pack only ever renames a completely written image over it.
THEOREM TargetAlwaysWhole == Spec => []TargetWhole
<1>1. StoreInv => TargetWhole
    BY ImageWhole DEF StoreInv, StepOK, TargetWhole
<1> QED
    BY <1>1, StoreInvariant, PTL

\* Verification apart, no step of any thread overwrites or removes a whole
\* recovery package: it only goes away by becoming the project file.
THEOREM RecoveryAlwaysKept == Spec => RecoveryKept
<1> DEFINE Kept == Whole(tmp) /\ pc # "verify" /\ tmp' # tmp => target' = tmp
<1>1. StoreInv /\ [Next]_vars => [Kept]_vars
  <2> SUFFICES ASSUME StoreInv, Next, Whole(tmp), pc # "verify", tmp' # tmp
               PROVE  target' = tmp
    OBVIOUS
  <2>1. CASE Check
    BY <2>1 DEF Check
  <2>2. CASE Written
    BY <2>2 DEF Written, StoreInv, StepOK, Whole
  <2>3. CASE Replace
    BY <2>3 DEF Replace
  <2>4. ~(\E p \in Parts : Stage(p)) /\ ~CommitSnapshot /\ ~Retain /\ ~WriteIndex /\ ~Finish
    BY DEF Stage, CommitSnapshot, Retain, WriteIndex, Finish
  <2>5. ~RollbackSteps
    BY DEF RollbackSteps, Select, RestoreBackup, RestoreDatabase
  <2>6. ~(\E p \in Parts : Edit(p)) /\ ~Replaced /\ ~Leave /\ ~Open
    BY DEF Edit, Replaced, Leave, Open
  <2>7. /\ \A force \in BOOLEAN, keep \in {"none", "manual", "automatic"} : ~Save(force, keep)
        /\ \A s \in Snapshots : ~Rollback(s)
    BY DEF Save, Rollback, Begin
  <2>8. ~Verify
    BY DEF Verify
  <2> QED
    BY <2>1, <2>2, <2>3, <2>4, <2>5, <2>6, <2>7, <2>8 DEF Next, SaveSteps
<1> QED
    BY <1>1, StoreInvariant, PTL DEF RecoveryKept, Spec

-----------------------------------------------------------------------------
(* An automatic or shutdown save is skipped safely *)

Packing == {"check", "written", "verify", "replace"}

Staged(p) == op.staged.content[p] = work.content[p]

\* An edit made while an operation runs is remembered, and until then the
\* staged parts are those of the working directory.
CleanInv ==
    /\ pc # Idle /\ op.touched => dirty
    /\ open /\ ~dirty /\ ~outside => target.content = work.content
    /\ ~op.touched =>
        /\ pc \in {"info_collected", "backup"} => Staged("device_network")
        /\ pc = "backup" => Staged("info_collected")
        /\ pc \in SnapshotSteps \cup Packing => op.staged.content = work.content
        /\ pc = "finish" /\ ~outside => target.content = work.content

LEMMA InitClean == Init => CleanInv
    BY DEF Init, CleanInv, NoOp, Idle, SnapshotSteps, Packing

\* A step that ends an operation and leaves what is saved alone.
LEMMA EndClean ==
    ASSUME CleanInv, pc' = Idle, UNCHANGED <<target, outside, open>>,
           dirty' \/ (dirty' = dirty /\ work'.content = work.content)
    PROVE  CleanInv'
    BY DEF CleanInv, Idle, SnapshotSteps, Packing

\* A step between two that pack, which leaves the contents alone.
LEMMA PackingClean ==
    ASSUME CleanInv, pc \in SnapshotSteps \cup Packing, pc # "replace",
           pc' \in SnapshotSteps \cup Packing \cup {"select"},
           op'.touched = op.touched, op'.staged.content = op.staged.content,
           work'.content = work.content, UNCHANGED <<target, outside, open, dirty>>
    PROVE  CleanInv'
    BY DEF CleanInv, Idle, SnapshotSteps, Packing, Staged

LEMMA StageClean ==
    ASSUME StoreInv, CleanInv, NEW p \in Parts, Stage(p)
    PROVE  CleanInv'
<1>1. CASE Fails("stage")
    BY <1>1, FailsOp, EndClean DEF Stage, session
<1>2. CASE ~Fails("stage")
  <2> DEFINE c == [op.staged.content EXCEPT ![p] = work.content[p]]
  <2>1. op' = [op EXCEPT !.staged = [work EXCEPT !.content = c]]
    BY <1>2 DEF Stage
  <2>2. op'.touched = op.touched /\ op'.staged.content = c
    BY <2>1 DEF StoreInv, StoreTypeOK, Ops, Images
  <2>3. op.staged.content \in Contents /\ work.content \in Contents
    BY DEF StoreInv, StoreTypeOK, Ops, Images
  <2>4. /\ pc = p /\ UNCHANGED <<work, target, open, dirty, outside>>
        /\ p = "device_network" => pc' = "info_collected"
        /\ p = "info_collected" => pc' = "backup"
        /\ p = "backup" => pc' \in {"check", "commit"}
    BY <1>2 DEF Stage, session, Goto, AfterPart
  <2>5. CASE p = "device_network"
    BY <2>2, <2>3, <2>4, <2>5 DEF CleanInv, Staged, Idle, SnapshotSteps, Packing, Contents, Parts
  <2>6. CASE p = "info_collected"
    BY <2>2, <2>3, <2>4, <2>6 DEF CleanInv, Staged, Idle, SnapshotSteps, Packing, Contents, Parts
  <2>7. CASE p = "backup"
    <3>1. ~op.touched => Staged("device_network") /\ Staged("info_collected")
      BY <2>4, <2>7 DEF CleanInv
    <3>2. ~op.touched => \A q \in Parts : c[q] = work.content[q]
      BY <3>1, <2>3, <2>7 DEF Staged, Contents, Parts
    <3>3. ~op.touched => c = work.content
      BY <3>2, <2>3 DEF Contents
    <3> HIDE DEF c
    <3> QED
      BY <2>2, <2>4, <2>7, <3>3 DEF CleanInv, Staged, Idle, SnapshotSteps, Packing
  <2> QED
    BY <2>5, <2>6, <2>7 DEF Parts
<1> QED
    BY <1>1, <1>2

LEMMA SnapshotClean ==
    ASSUME StoreInv, CleanInv, CommitSnapshot \/ Retain \/ WriteIndex
    PROVE  CleanInv'
<1>1. /\ work'.content = work.content /\ UNCHANGED <<target, outside, open, dirty>>
      /\ pc \in SnapshotSteps
    BY DEF CommitSnapshot, Retain, WriteIndex, SnapshotSteps, session, StoreInv, StoreTypeOK, Images
<1>2. CASE pc' = Idle
    BY <1>1, <1>2, EndClean
<1>3. CASE pc' # Idle
  <2>1. pc' \in SnapshotSteps \cup {"select", "check"}
    BY <1>3, FailsOp DEF CommitSnapshot, Retain, WriteIndex, SnapshotSteps, Goto
  <2>2. op'.touched = op.touched /\ op'.staged.content = op.staged.content
    BY <1>3, FailsOp DEF CommitSnapshot, Retain, WriteIndex, Continues, StoreInv, StoreTypeOK, Ops
  <2> QED
    BY <1>1, <2>1, <2>2, PackingClean DEF SnapshotSteps, Packing
<1> QED
    BY <1>2, <1>3

LEMMA RestoreClean ==
    ASSUME StoreInv, CleanInv, RollbackSteps
    PROVE  CleanInv'
<1>1. UNCHANGED <<target, outside, open>>
    BY DEF RollbackSteps, Select, RestoreBackup, RestoreDatabase, session
<1>2. CASE Select
    BY <1>2 DEF Select, session, Continues, Refused, Goto, CleanInv, Idle, SnapshotSteps, Packing
<1>3. CASE RestoreBackup \/ RestoreDatabase
  <2>1. dirty' = TRUE
    BY <1>3 DEF RestoreBackup, RestoreDatabase, RestorePart, Recover
  <2>2. pc' \in {Idle, "restore_device_network", "restore_info_collected", "device_network"}
    BY <1>3, FailsOp DEF RestoreBackup, RestoreDatabase, RestorePart, Recover, Goto
  <2> QED
    BY <1>1, <2>1, <2>2 DEF CleanInv, Idle, SnapshotSteps, Packing
<1> QED
    BY <1>2, <1>3 DEF RollbackSteps

LEMMA PackClean ==
    ASSUME StoreInv, CleanInv, Check \/ Written \/ Verify
    PROVE  CleanInv'
<1>1. /\ UNCHANGED <<work, target, outside, open, dirty>>
      /\ pc \in Packing /\ pc # "replace"
    BY DEF Check, Written, Verify, session, Packing
<1>2. CASE pc' = Idle
    BY <1>1, <1>2, EndClean
<1>3. CASE pc' # Idle
  <2>1. pc' \in Packing /\ op' = op
    BY <1>3, FailsOp DEF Check, Written, Verify, Goto, Refused, Continues, Packing
  <2> QED
    BY <1>1, <2>1, PackingClean
<1> QED
    BY <1>2, <1>3

LEMMA ReplaceClean ==
    ASSUME StoreInv, CleanInv, Replace
    PROVE  CleanInv'
<1>1. UNCHANGED <<work, open, dirty>> /\ pc = "replace" /\ tmp = op.staged
    BY DEF Replace, session, StoreInv, StepOK
<1>2. CASE Fails("replace") /\ UNCHANGED <<target, tmp, outside>>
    BY <1>1, <1>2, FailsOp, EndClean
<1>3. CASE target' = tmp /\ outside' = FALSE /\ pc' = "finish" /\ op' = op
  <2>1. ~op.touched => target'.content = work.content
    BY <1>1, <1>3 DEF CleanInv, Packing
  <2>2. op.touched => dirty
    BY <1>1 DEF CleanInv, Idle
  <2> QED
    BY <1>1, <1>3, <2>1, <2>2 DEF CleanInv, Idle, SnapshotSteps, Packing
<1> QED
    BY <1>2, <1>3 DEF Replace, Goto, Continues

LEMMA FinishClean ==
    ASSUME StoreInv, CleanInv, Finish
    PROVE  CleanInv'
<1>1. UNCHANGED <<work, target, open, outside>> /\ pc = "finish" /\ pc' = Idle
    BY FailsOp DEF Finish, Refused, Goto
<1>2. CASE dirty' = op.touched
    BY <1>1, <1>2 DEF CleanInv, Idle, SnapshotSteps, Packing
<1>3. CASE UNCHANGED dirty
    BY <1>1, <1>3, EndClean
<1> QED
    BY <1>2, <1>3 DEF Finish

LEMMA AroundClean ==
    ASSUME StoreInv, CleanInv, (\E p \in Parts : Edit(p)) \/ Replaced \/ Leave \/ Open
    PROVE  CleanInv'
<1>1. ASSUME NEW p \in Parts, Edit(p) PROVE CleanInv'
  <2>1. /\ dirty' = TRUE /\ pc' = pc
        /\ op' = [op EXCEPT !.touched = (pc # Idle)]
    BY <1>1 DEF Edit
  <2>2. op'.touched = (pc # Idle)
    BY <2>1 DEF StoreInv, StoreTypeOK, Ops
  <2>3. pc' = Idle \/ op'.touched
    BY <2>1, <2>2
  <2> QED
    BY <2>1, <2>3 DEF CleanInv, Idle, SnapshotSteps, Packing
<1>2. CASE Replaced
    BY <1>2 DEF Replaced, session, run, CleanInv, Staged
<1>3. CASE Leave
    BY <1>3 DEF Leave, CleanInv, Idle, SnapshotSteps, Packing
<1>4. CASE Open
    BY <1>4 DEF Open, run, StoreInv, StepOK, CleanInv, Idle, SnapshotSteps, Packing
<1> QED
    BY <1>1, <1>2, <1>3, <1>4

LEMMA BeginClean ==
    ASSUME StoreInv, CleanInv, NEW rollback, NEW keep, NEW goal,
           Begin(rollback, keep, goal)
    PROVE  CleanInv'
<1>1. op'.touched = FALSE /\ pc' = "device_network" /\ UNCHANGED <<work, target, outside, session>>
    BY DEF Begin, NoOp, Goto
<1> QED
    BY <1>1 DEF CleanInv, session, Idle, SnapshotSteps, Packing

LEMMA NextClean == StoreInv /\ CleanInv /\ [Next]_vars => CleanInv'
<1> SUFFICES ASSUME StoreInv, CleanInv, [Next]_vars PROVE CleanInv'
    OBVIOUS
<1>1. CASE UNCHANGED vars
    BY <1>1 DEF vars, session, run, CleanInv, Staged
<1>2. CASE SaveSteps
    BY <1>2, StageClean, SnapshotClean, PackClean, ReplaceClean, FinishClean DEF SaveSteps
<1>3. ASSUME NEW force \in BOOLEAN, NEW keep \in {"none", "manual", "automatic"},
             Save(force, keep)
      PROVE  CleanInv'
    BY <1>3, BeginClean DEF Save
<1>4. ASSUME NEW s \in Snapshots, Rollback(s) PROVE CleanInv'
    BY <1>4, BeginClean DEF Rollback
<1> QED
    BY <1>1, <1>2, <1>3, <1>4, AroundClean, RestoreClean DEF Next

\* An automatic or shutdown save, which is skipped while the content signature
\* is unchanged, is skipped only if the package already holds what the working
\* directory holds: edits during the last save and failed saves included.
THEOREM SkipAlwaysSafe == Spec => []SkipIsSafe
<1>1. CleanInv => SkipIsSafe
    BY DEF CleanInv, SkipIsSafe
<1> QED
    BY <1>1, InitClean, NextClean, StoreInvariant, PTL DEF Spec

-----------------------------------------------------------------------------
(* Without failures the project can always be opened *)

\* Snapshots are numbered without gaps.
Numbered == \A s \in Snapshots : history[s].reason # "none" <=> s <= NewSnapshot

\* While nothing has failed, the history index agrees with the snapshot folders
\* wherever it may be packed from.
Consistent ==
    /\ Opens(target)
    /\ pc \notin {"retain", "index"} => Opens(work)
    /\ pc = "retain" => work.dirs = work.index \cup {NewSnapshot}
    /\ pc = "index" => work.dirs = (work.index \cup {NewSnapshot}) \ Expired
    /\ pc \in SnapshotSteps => op.staged.dirs = work.index
    /\ pc \in Packing => Opens(op.staged)

HistoryInv == Numbered /\ (failures = 0 => Consistent)

LEMMA InitHistory == Init => HistoryInv
<1> SUFFICES ASSUME Init PROVE HistoryInv
    OBVIOUS
<1>1. {s \in Snapshots : history[s].reason # "none"} = {}
    BY DEF Init
<1>2. NewSnapshot = 0
    BY <1>1, FS_EmptySet DEF NewSnapshot
<1>3. Numbered
    BY <1>2, StoreBoundAssumption DEF Init, Numbered, Snapshots
<1>4. Consistent
    BY DEF Init, Consistent, Opens, Blank, Idle, SnapshotSteps, Packing
<1> QED
    BY <1>3, <1>4 DEF HistoryInv

\* A failing step leaves nothing to show.
LEMMA FailedStep ==
    ASSUME StoreInv, NEW step, Fails(step)
    PROVE  failures' # 0
    BY DEF StoreInv, StoreTypeOK, Fails

LEMMA NumberedKept ==
    ASSUME Numbered, UNCHANGED history
    PROVE  Numbered' /\ NewSnapshot' = NewSnapshot
    BY DEF Numbered, NewSnapshot

\* A step that leaves the snapshots alone and that no later step depends on.
LEMMA HistoryKeptBy ==
    ASSUME HistoryInv, failures' = 0 => failures = 0, UNCHANGED history,
           work'.dirs = work.dirs, work'.index = work.index,
           target' = target \/ Opens(target'),
           pc \notin {"retain", "index"}, pc' \notin SnapshotSteps,
           pc' \in Packing => pc \in Packing /\ op'.staged = op.staged
    PROVE  HistoryInv'
<1>1. Numbered'
    BY NumberedKept DEF HistoryInv
<1>2. failures' = 0 => Consistent'
    BY DEF HistoryInv, Consistent, Opens, SnapshotSteps, Packing
<1> QED
    BY <1>1, <1>2 DEF HistoryInv

\* A step of other threads, with the save at the same place.
LEMMA HistoryKeptAround ==
    ASSUME HistoryInv, UNCHANGED <<history, pc, failures>>,
           work'.dirs = work.dirs, work'.index = work.index,
           target' = target \/ Opens(target'),
           op'.staged = op.staged
    PROVE  HistoryInv'
<1>1. Numbered' /\ NewSnapshot' = NewSnapshot
    BY NumberedKept DEF HistoryInv
<1>2. Expired' = Expired
    BY <1>1 DEF Expired, Automatic, Newer
<1>3. failures' = 0 => Consistent'
    BY <1>1, <1>2 DEF HistoryInv, Consistent, Opens
<1> QED
    BY <1>1, <1>3 DEF HistoryInv

LEMMA AroundHistory ==
    ASSUME StoreInv, HistoryInv, (\E p \in Parts : Edit(p)) \/ Replaced \/ Leave \/ Open
    PROVE  HistoryInv'
<1>1. ASSUME NEW p \in Parts, Edit(p) PROVE HistoryInv'
  <2>1. work'.dirs = work.dirs /\ work'.index = work.index /\ op'.staged = op.staged
    BY <1>1 DEF Edit, StoreInv, StoreTypeOK, Images, Ops
  <2> QED
    BY <1>1, <2>1, HistoryKeptAround DEF Edit, bounds
<1>2. CASE Replaced
  <2>1. Opens(target')
    BY <1>2 DEF Replaced, Opens, Blank
  <2> QED
    BY <1>2, <2>1, HistoryKeptAround DEF Replaced, session, run, bounds
<1>3. CASE Leave
  <2>1. Numbered'
    BY <1>3, NumberedKept DEF Leave, HistoryInv
  <2>2. failures' = 0 => Consistent'
    BY <1>3 DEF Leave, bounds, HistoryInv, Consistent, Opens, Blank, Idle, SnapshotSteps, Packing
  <2> QED
    BY <2>1, <2>2 DEF HistoryInv
<1>4. CASE Open
  <2>1. Numbered'
    BY <1>4, NumberedKept DEF Open, HistoryInv
  <2>2. pc' = Idle
    BY <1>4 DEF Open, run, StoreInv, StepOK
  <2>3. failures' = 0 => Consistent'
    BY <1>4, <2>2 DEF Open, HistoryInv, Consistent, Opens, Idle, SnapshotSteps, Packing
  <2> QED
    BY <2>1, <2>3 DEF HistoryInv
<1> QED
    BY <1>1, <1>2, <1>3, <1>4

LEMMA StageHistory ==
    ASSUME StoreInv, HistoryInv, NEW p \in Parts, Stage(p)
    PROVE  HistoryInv'
<1>1. UNCHANGED <<work, target, history>> /\ pc \in Parts
    BY DEF Stage
<1>2. Numbered'
    BY <1>1, NumberedKept DEF HistoryInv
<1>3. ASSUME failures' = 0 PROVE Consistent'
  <2>1. ~Fails("stage")
    BY <1>3, FailedStep
  <2>2. failures = 0 /\ pc' \in {"info_collected", "backup", "check", "commit"}
    BY <1>3, <2>1 DEF Stage, Goto, AfterPart, Parts
  <2>3. op'.staged.dirs = work.dirs /\ op'.staged.index = work.index
    BY <2>1 DEF Stage, StoreInv, StoreTypeOK, Ops, Images
  <2> QED
    BY <1>1, <2>2, <2>3 DEF HistoryInv, Consistent, Opens, Parts, SnapshotSteps, Packing
<1> QED
    BY <1>2, <1>3 DEF HistoryInv

\* The new snapshot gets the next number.
LEMMA CommitNumber ==
    ASSUME StoreInv, HistoryInv, CommitSnapshot, ~Fails("commit")
    PROVE  /\ NewSnapshot + 1 \in Snapshots /\ NewSnapshot' = NewSnapshot + 1
           /\ history' = [history EXCEPT ![NewSnapshot + 1] =
                              [reason |-> op.keep, content |-> op.staged.content]]
           /\ work' = [work EXCEPT !.dirs = @ \cup {NewSnapshot + 1}]
           /\ pc = "commit" /\ pc' = "retain" /\ UNCHANGED <<op, failures, target>>
           /\ op.keep # "none"
<1> DEFINE new == NewSnapshot + 1
           S == {s \in Snapshots : history[s].reason # "none"}
<1>1. /\ history' = [history EXCEPT ![new] =
                         [reason |-> op.keep, content |-> op.staged.content]]
      /\ work' = [work EXCEPT !.dirs = @ \cup {new}]
      /\ pc = "commit" /\ pc' = "retain" /\ op' = op /\ failures' = failures
      /\ target' = target /\ op.keep # "none"
    BY DEF CommitSnapshot, Continues, Goto, StoreInv, StepOK
<1>2. new \in Snapshots /\ NewSnapshot \in Nat
    BY NewSnapshotRange, StoreBoundAssumption DEF StoreInv, CommitSnapshot, Snapshots
<1>3. IsFiniteSet(S)
  <2>1. MaxSnapshots \in Nat
    BY StoreBoundAssumption
  <2>2. IsFiniteSet(Snapshots)
    BY <2>1, FS_Interval DEF Snapshots
  <2> QED
    BY <2>2, FS_Subset
<1>4. new \notin S
    BY <1>2 DEF HistoryInv, Numbered
<1>5. S' = S \cup {new}
    BY <1>1, <1>2 DEF StoreInv, StoreTypeOK
<1>6. NewSnapshot' = new
    BY <1>3, <1>4, <1>5, FS_AddElement DEF NewSnapshot
<1> QED
    BY <1>1, <1>2, <1>6

LEMMA CommitHistory ==
    ASSUME StoreInv, HistoryInv, CommitSnapshot
    PROVE  HistoryInv'
<1>1. CASE Fails("commit")
    BY <1>1, NumberedKept, FailedStep DEF HistoryInv, CommitSnapshot, Fails, Goto,
                                                    Continues, Idle
<1>2. CASE ~Fails("commit")
  <2> DEFINE new == NewSnapshot + 1
  <2>1. /\ new \in Snapshots /\ NewSnapshot' = new
        /\ history' = [history EXCEPT ![new] =
                           [reason |-> op.keep, content |-> op.staged.content]]
        /\ work' = [work EXCEPT !.dirs = @ \cup {new}]
        /\ pc = "commit" /\ pc' = "retain" /\ op' = op /\ failures' = failures
        /\ target' = target /\ op.keep # "none"
    BY <1>2, CommitNumber
  <2>2. NewSnapshot \in Nat
    BY NewSnapshotRange, StoreBoundAssumption DEF StoreInv
  <2>3. Numbered'
    <3> SUFFICES ASSUME NEW s \in Snapshots
                 PROVE  history'[s].reason # "none" <=> s <= new
        BY <2>1 DEF Numbered
    <3>1. CASE s = new
      BY <3>1, <2>1, <2>2 DEF StoreInv, StoreTypeOK, Snapshots
    <3>2. CASE s # new
      <4>1. history'[s] = history[s]
        BY <3>2, <2>1 DEF StoreInv, StoreTypeOK
      <4> QED
        BY <3>2, <4>1, <2>2 DEF HistoryInv, Numbered, Snapshots
    <3> QED
      BY <3>1, <3>2
  <2>4. work'.dirs = work.dirs \cup {new} /\ work'.index = work.index
    BY <2>1 DEF StoreInv, StoreTypeOK, Images
  <2>5. failures' = 0 => Consistent'
    BY <2>1, <2>4 DEF HistoryInv, Consistent, Opens, SnapshotSteps, Packing
  <2> QED
    BY <2>3, <2>5 DEF HistoryInv
<1> QED
    BY <1>1, <1>2

LEMMA RetainHistory ==
    ASSUME StoreInv, HistoryInv, Retain
    PROVE  HistoryInv'
<1>1. /\ UNCHANGED <<history, target, op>> /\ pc = "retain" /\ pc' = "index"
      /\ work'.index = work.index
    BY DEF Retain, Goto, StoreInv, StoreTypeOK, Images
<1>2. Numbered' /\ NewSnapshot' = NewSnapshot
    BY <1>1, NumberedKept DEF HistoryInv
<1>3. Expired' = Expired
    BY <1>1, <1>2 DEF Expired, Automatic, Newer
<1>4. ASSUME failures' = 0 PROVE Consistent'
  <2>1. work' = [work EXCEPT !.dirs = @ \ Expired] /\ failures = 0
    BY <1>4 DEF Retain, StoreInv, StoreTypeOK
  <2>2. work'.dirs = work.dirs \ Expired
    BY <2>1 DEF StoreInv, StoreTypeOK, Images
  <2> QED
    BY <1>1, <1>2, <1>3, <2>1, <2>2 DEF HistoryInv, Consistent, SnapshotSteps, Packing
<1> QED
    BY <1>2, <1>4 DEF HistoryInv

LEMMA WriteIndexHistory ==
    ASSUME StoreInv, HistoryInv, WriteIndex
    PROVE  HistoryInv'
<1>1. UNCHANGED <<history, target>> /\ pc = "index"
    BY DEF WriteIndex
<1>2. Numbered'
    BY <1>1, NumberedKept DEF HistoryInv
<1>3. ASSUME failures' = 0 PROVE Consistent'
  <2> DEFINE records == (work.index \cup {NewSnapshot}) \ Expired
             image == [content |-> op.staged.content,
                       dirs |-> (op.staged.dirs \cup {NewSnapshot}) \cap records,
                       index |-> records]
  <2>1. ~Fails("index")
    BY <1>3, FailedStep
  <2>2. /\ work' = [work EXCEPT !.index = records] /\ op' = [op EXCEPT !.staged = image]
        /\ pc' \in {"select", "check"} /\ failures = 0
    BY <1>3, <2>1 DEF WriteIndex, Goto
  <2>3. work.dirs = records /\ op.staged.dirs = work.index /\ Opens(target)
    BY <1>1, <2>2 DEF HistoryInv, Consistent, SnapshotSteps
  <2>4. image.dirs = records /\ image.index = records
    BY <2>3
  <2> HIDE DEF records, image
  <2>5. work'.dirs = records /\ work'.index = records /\ op'.staged = image
    BY <2>2, <2>3 DEF StoreInv, StoreTypeOK, Images, Ops
  <2> QED
    BY <1>1, <2>2, <2>3, <2>4, <2>5 DEF Consistent, Opens, SnapshotSteps, Packing
<1> QED
    BY <1>2, <1>3 DEF HistoryInv

LEMMA RestoreHistory ==
    ASSUME StoreInv, HistoryInv, RollbackSteps
    PROVE  HistoryInv'
<1>1. UNCHANGED <<target, history>>
    BY DEF RollbackSteps, Select, RestoreBackup, RestoreDatabase
<1>2. pc \in RestoreSteps
    BY DEF RollbackSteps, Select, RestoreBackup, RestoreDatabase, RestoreSteps
<1>3. work'.dirs = work.dirs /\ work'.index = work.index
    BY DEF RollbackSteps, Select, RestoreBackup, RestoreDatabase, RestorePart, Recover,
           StoreInv, StoreTypeOK, Images
<1>4. failures' = 0 => failures = 0
    BY FailedStep DEF RollbackSteps, Select, RestoreBackup, RestoreDatabase, RestorePart,
                      Recover, Continues, Refused
<1>5. pc' \in {Idle, "device_network"} \cup RestoreSteps
    BY FailsOp DEF RollbackSteps, Select, RestoreBackup, RestoreDatabase, RestorePart,
                   Recover, Refused, Goto, RestoreSteps
<1> QED
    BY <1>1, <1>2, <1>3, <1>4, <1>5, HistoryKeptBy DEF RestoreSteps, SnapshotSteps, Packing, Idle

LEMMA PackHistory ==
    ASSUME StoreInv, HistoryInv, Check \/ Written \/ Verify \/ Replace \/ Finish
    PROVE  HistoryInv'
<1>1. UNCHANGED <<work, history>> /\ pc \in PackSteps
    BY DEF Check, Written, Verify, Replace, Finish, PackSteps
<1>2. failures' = 0 => failures = 0
    BY FailedStep DEF Check, Written, Verify, Replace, Finish, Continues, Refused
<1>3. pc' \in Packing => pc \in Packing /\ op' = op
    BY FailsOp DEF Check, Written, Verify, Replace, Finish, Continues, Refused, Goto, Packing, Idle
<1>4. pc' \in {Idle} \cup PackSteps
    BY FailsOp DEF Check, Written, Verify, Replace, Finish, Refused, Goto, PackSteps
<1>5. CASE target' = target
    BY <1>1, <1>2, <1>3, <1>4, <1>5, HistoryKeptBy DEF PackSteps, SnapshotSteps, Idle
<1>6. CASE target' # target
  <2>0. Replace
    BY <1>6 DEF Check, Written, Verify, Finish
  <2>1. target' = op.staged /\ pc' = "finish" /\ pc = "replace" /\ failures' = failures
    BY <1>6, <2>0 DEF Replace, Goto, Continues, StoreInv, StepOK
  <2>2. Numbered'
    BY <1>1, NumberedKept DEF HistoryInv
  <2>3. failures' = 0 => Consistent'
    BY <1>1, <2>1 DEF HistoryInv, Consistent, Opens, SnapshotSteps, Packing
  <2> QED
    BY <2>2, <2>3 DEF HistoryInv
<1> QED
    BY <1>5, <1>6

LEMMA BeginHistory ==
    ASSUME StoreInv, HistoryInv, NEW rollback, NEW keep, NEW goal,
           Begin(rollback, keep, goal)
    PROVE  HistoryInv'
<1>1. /\ UNCHANGED <<work, target, history, failures>>
      /\ pc = Idle /\ pc' = "device_network"
    BY DEF Begin, Goto, bounds
<1> QED
    BY <1>1, HistoryKeptBy DEF Idle, SnapshotSteps, Packing

LEMMA NextHistory == StoreInv /\ HistoryInv /\ [Next]_vars => HistoryInv'
<1> SUFFICES ASSUME StoreInv, HistoryInv, [Next]_vars PROVE HistoryInv'
    OBVIOUS
<1>1. CASE UNCHANGED vars
    BY <1>1, HistoryKeptAround DEF vars, run, bounds
<1>2. CASE SaveSteps
    BY <1>2, StageHistory, CommitHistory, RetainHistory, WriteIndexHistory, PackHistory
    DEF SaveSteps
<1>3. ASSUME NEW force \in BOOLEAN, NEW keep \in {"none", "manual", "automatic"},
             Save(force, keep)
      PROVE  HistoryInv'
    BY <1>3, BeginHistory DEF Save
<1>4. ASSUME NEW s \in Snapshots, Rollback(s) PROVE HistoryInv'
    BY <1>4, BeginHistory DEF Rollback
<1> QED
    BY <1>1, <1>2, <1>3, <1>4, AroundHistory, RestoreHistory DEF Next

\* As long as no step has raised, the snapshot index of the project file names
\* exactly its snapshot folders and validate_snapshots lets it be opened, over
\* any number of saves, retentions, rollbacks, crashes and outside packages.
THEOREM AlwaysOpensUnlessFailed == Spec => []OpensUnlessFailed
<1>1. HistoryInv => OpensUnlessFailed
    BY DEF HistoryInv, Consistent, OpensUnlessFailed
<1> QED
    BY <1>1, InitHistory, NextHistory, StoreInvariant, PTL DEF Spec

-----------------------------------------------------------------------------
(* A rollback restores every part or none, and keeps what it replaces *)

\* Steps of a rollback before part p is in the staged copy, and after it was
\* restored.
Unstaged == [device_network |-> {"device_network"},
             info_collected |-> {"device_network", "info_collected"},
             backup |-> Parts]
Restored == [device_network |-> {"restore_info_collected"},
             info_collected |-> {},
             backup |-> {"restore_device_network", "restore_info_collected"}]

\* Snapshot s holds the state the rollback found, edits by others apart.
Safety(s) ==
    /\ history[s].reason = "before-rollback"
    /\ \A p \in Parts : LeftOrEdited(p, history[s].content, op.origin)

\* Until the last part is restored the old state is in the staged copy, in the
\* safety snapshot and in op.old, and each part is as the step says.
BeforeRestore ==
    /\ pc \in StageSteps \cup SnapshotSteps \cup RestoreSteps
    /\ \A p \in Parts : pc \notin Unstaged[p] => LeftOrEdited(p, op.staged.content, op.origin)
    /\ \A p \in Parts : pc \notin Restored[p] => LeftOrEdited(p, work.content, op.origin)
    /\ \A p \in Parts : pc \in Restored[p] =>
           LeftOrEdited(p, work.content, history[op.goal].content)
    /\ pc \in Restored["backup"] => op.old = op.origin["backup"] \/ op.old > op.since
    /\ pc \in {"retain", "index"} => NewSnapshot \in work.dirs /\ Safety(NewSnapshot)
    /\ pc \in RestoreSteps => \E s \in work.index \cap work.dirs : Safety(s)

\* Then the restored state is saved as by any other save.
AfterRestore ==
    /\ pc \in StageSteps \cup PackSteps
    /\ \A p \in Parts : LeftOrEdited(p, work.content, history[op.goal].content)

RollbackInv ==
    /\ op.since <= made
    /\ op.rollback =>
           /\ op.goal \in Snapshots /\ history[op.goal].reason # "none"
           /\ \/ op.keep = "before-rollback" /\ BeforeRestore
              \/ op.keep = "none" /\ AfterRestore

LEMMA InitRollback == Init => RollbackInv
    BY DEF Init, RollbackInv, NoOp

\* A step that ends the operation, or leaves none running.
LEMMA EndRollback ==
    ASSUME StoreInv', op' = NoOp
    PROVE  RollbackInv'
    BY DEF StoreInv, StoreTypeOK, Versions, RollbackInv, NoOp

\* A step of other threads: they leave a part alone or write a new version.
LEMMA RollbackKeptAround ==
    ASSUME RollbackInv, UNCHANGED <<history, pc>>, made \in Int, made' \in Int, made <= made',
           op.since \in Int, op' \in Ops, work'.dirs = work.dirs, work'.index = work.index,
           op'.rollback = op.rollback, op'.keep = op.keep, op'.goal = op.goal,
           op'.origin = op.origin, op'.since = op.since, op'.old = op.old,
           op'.staged = op.staged,
           \A p \in Parts : work'.content[p] = work.content[p] \/ work'.content[p] > op.since
    PROVE  RollbackInv'
<1>1. NewSnapshot' = NewSnapshot
    BY DEF NewSnapshot
<1>2. ASSUME NEW s PROVE Safety(s) => Safety(s)'
    BY <1>2 DEF Safety, LeftOrEdited
<1>3. BeforeRestore => BeforeRestore'
    BY <1>1, <1>2 DEF BeforeRestore, LeftOrEdited
<1>4. AfterRestore => AfterRestore'
    BY DEF AfterRestore, LeftOrEdited
<1> QED
    BY <1>3, <1>4 DEF RollbackInv

LEMMA AroundRollback ==
    ASSUME StoreInv, StoreInv', RollbackInv,
           (\E p \in Parts : Edit(p)) \/ Replaced \/ Leave \/ Open \/ UNCHANGED vars
    PROVE  RollbackInv'
<1>0. /\ made \in Int /\ made' \in Int /\ op.since \in Int /\ op.since <= made
      /\ op \in Ops /\ op' \in Ops
    BY DEF StoreInv, StoreTypeOK, Versions, Ops, RollbackInv
<1>1. ASSUME NEW q \in Parts, Edit(q) PROVE RollbackInv'
  <2>1. /\ made' = made + 1 /\ UNCHANGED <<history, pc>>
        /\ work'.dirs = work.dirs /\ work'.index = work.index
        /\ work'.content = [work.content EXCEPT ![q] = made']
    BY <1>1 DEF Edit, StoreInv, StoreTypeOK, Images
  <2>2. /\ op'.rollback = op.rollback /\ op'.keep = op.keep /\ op'.goal = op.goal
        /\ op'.origin = op.origin /\ op'.since = op.since /\ op'.old = op.old
        /\ op'.staged = op.staged
    BY <1>1, <1>0 DEF Edit, Ops
  <2>3. \A p \in Parts : work'.content[p] = work.content[p] \/ work'.content[p] > op.since
    BY <1>0, <2>1 DEF StoreInv, StoreTypeOK, Images, Contents
  <2> QED
    BY <1>0, <2>1, <2>2, <2>3, RollbackKeptAround
<1>2. CASE Replaced \/ UNCHANGED vars
  <2>1. UNCHANGED <<history, pc, op, work>> /\ made <= made'
    BY <1>0, <1>2 DEF Replaced, vars, run
  <2> QED
    BY <1>0, <2>1, RollbackKeptAround
<1>3. CASE Leave
    BY <1>3, EndRollback DEF Leave
<1>4. CASE Open
  <2>1. pc = Idle /\ UNCHANGED <<op, made>>
    BY <1>4 DEF Open, run, StoreInv, StepOK
  <2>2. ~op.rollback
    BY <2>1 DEF RollbackInv, BeforeRestore, AfterRestore, Idle, StageSteps, SnapshotSteps,
                RestoreSteps, PackSteps, Parts
  <2> QED
    BY <2>1, <2>2 DEF RollbackInv
<1> QED
    BY <1>1, <1>2, <1>3, <1>4

LEMMA BeginRollback ==
    ASSUME StoreInv, NEW rollback \in BOOLEAN, NEW keep, NEW goal,
           Begin(rollback, keep, goal),
           rollback => /\ keep = "before-rollback" /\ goal \in Snapshots
                       /\ history[goal].reason # "none"
    PROVE  RollbackInv'
<1>1. /\ op'.rollback = rollback /\ op'.keep = keep /\ op'.goal = goal
      /\ op'.origin = work.content /\ op'.since = made
    BY DEF Begin, NoOp
<1>2. UNCHANGED <<work, history, made>> /\ pc' = "device_network" /\ made \in Int
    BY DEF Begin, Goto, StoreInv, StoreTypeOK, Versions
<1>3. BeforeRestore'
    BY <1>1, <1>2 DEF BeforeRestore, LeftOrEdited, Unstaged, Restored, Parts, StageSteps,
                      RestoreSteps
<1> QED
    BY <1>1, <1>2, <1>3 DEF RollbackInv

LEMMA StageRollback ==
    ASSUME StoreInv, StoreInv', RollbackInv, NEW p \in Parts, Stage(p)
    PROVE  RollbackInv'
<1>1. CASE Fails("stage")
    BY <1>1, FailsOp, EndRollback
<1>2. CASE ~Fails("stage")
  <2> DEFINE c == [op.staged.content EXCEPT ![p] = work.content[p]]
  <2>1. /\ op' = [op EXCEPT !.staged = [work EXCEPT !.content = c]]
        /\ pc = p
        /\ pc' = IF p # "backup" THEN AfterPart[p]
                 ELSE IF op.keep = "none" THEN "check" ELSE "commit"
        /\ UNCHANGED <<work, history, made>>
    BY <1>2 DEF Stage, Goto
  <2>2. op.staged.content \in Contents /\ work.content \in Contents /\ op.since \in Int
    BY DEF StoreInv, StoreTypeOK, Ops, Images, Versions
  <2>3. /\ op'.staged.content = c
        /\ op'.rollback = op.rollback /\ op'.keep = op.keep /\ op'.goal = op.goal
        /\ op'.origin = op.origin /\ op'.since = op.since /\ op'.old = op.old
    BY <2>1 DEF StoreInv, StoreTypeOK, Ops, Images
  <2>4. op.keep = "before-rollback" =>
            pc' = CASE p = "device_network" -> "info_collected"
                    [] p = "info_collected" -> "backup"
                    [] p = "backup" -> "commit"
    BY <2>1 DEF AfterPart, Parts
  <2>5. ASSUME op.keep = "before-rollback", BeforeRestore PROVE BeforeRestore'
    <3>1. \A q \in Parts : LeftOrEdited(q, work.content, op.origin)
      BY <2>1, <2>5 DEF BeforeRestore, Restored, Parts
    <3>2. \A q \in Parts : pc' \notin Unstaged[q] =>
              LeftOrEdited(q, op'.staged.content, op.origin)
      BY <2>1, <2>2, <2>3, <2>4, <2>5, <3>1
      DEF BeforeRestore, Unstaged, LeftOrEdited, Contents, Parts
    <3> QED
      BY <2>1, <2>3, <2>4, <2>5, <3>1, <3>2
      DEF BeforeRestore, LeftOrEdited, Restored, Parts, StageSteps, SnapshotSteps, RestoreSteps
  <2>6. ASSUME op.keep = "none", AfterRestore PROVE AfterRestore'
    <3>1. pc' \in StageSteps \cup PackSteps
      BY <2>1, <2>6 DEF AfterPart, Parts, StageSteps, PackSteps
    <3> QED
      BY <2>1, <2>3, <2>6, <3>1 DEF AfterRestore, LeftOrEdited
  <2> QED
    BY <2>1, <2>3, <2>5, <2>6 DEF RollbackInv
<1> QED
    BY <1>1, <1>2

LEMMA CommitRollback ==
    ASSUME StoreInv, StoreInv', HistoryInv, RollbackInv, CommitSnapshot
    PROVE  RollbackInv'
<1>1. CASE Fails("commit")
    BY <1>1, FailsOp, EndRollback
<1>2. CASE ~Fails("commit")
  <2> DEFINE new == NewSnapshot + 1
  <2>1. /\ new \in Snapshots /\ NewSnapshot' = new
        /\ history' = [history EXCEPT ![new] =
                           [reason |-> op.keep, content |-> op.staged.content]]
        /\ work' = [work EXCEPT !.dirs = @ \cup {new}]
        /\ pc = "commit" /\ pc' = "retain" /\ op' = op
    BY <1>2, CommitNumber
  <2>2. made' = made /\ NewSnapshot \in Nat
    BY NewSnapshotRange, StoreBoundAssumption DEF CommitSnapshot, StoreInv
  <2> HIDE DEF new
  <2>3. work'.dirs = work.dirs \cup {new} /\ work'.content = work.content
    BY <2>1 DEF StoreInv, StoreTypeOK, Images
  <2>4. ASSUME op.rollback
        PROVE  /\ op.keep = "before-rollback" /\ BeforeRestore
               /\ op.goal \in Snapshots /\ history[op.goal].reason # "none"
    BY <2>1, <2>4 DEF RollbackInv, AfterRestore, StageSteps, PackSteps, Parts
  <2>5. ASSUME op.rollback PROVE history'[op.goal] = history[op.goal]
    <3>1. op.goal <= NewSnapshot /\ op.goal \in Int
      BY <2>4, <2>5 DEF HistoryInv, Numbered, Snapshots
    <3>2. op.goal # new
      BY <2>2, <3>1 DEF new
    <3> QED
      BY <2>1, <2>4, <2>5, <3>2 DEF StoreInv, StoreTypeOK
  <2>6. ASSUME op.rollback
        PROVE  /\ history'[new].reason = "before-rollback"
               /\ \A p \in Parts : LeftOrEdited(p, history'[new].content, op.origin)
    <3>1. history'[new] = [reason |-> op.keep, content |-> op.staged.content]
      BY <2>1 DEF StoreInv, StoreTypeOK
    <3>2. \A p \in Parts : LeftOrEdited(p, op.staged.content, op.origin)
      BY <2>1, <2>4, <2>6 DEF BeforeRestore, Unstaged, Parts
    <3> QED
      BY <2>1, <2>4, <2>6, <3>1, <3>2
  <2>7. ASSUME op.rollback PROVE BeforeRestore'
    <3>1. \A p \in Parts : /\ LeftOrEdited(p, op.staged.content, op.origin)
                           /\ LeftOrEdited(p, work.content, op.origin)
      BY <2>1, <2>4, <2>7 DEF BeforeRestore, Unstaged, Restored, Parts
    <3>2. NewSnapshot' \in work'.dirs /\ Safety(NewSnapshot)'
      BY <2>1, <2>3, <2>6, <2>7 DEF Safety, LeftOrEdited
    <3> QED
      BY <2>1, <2>3, <3>1, <3>2
      DEF BeforeRestore, LeftOrEdited, Restored, Parts, SnapshotSteps, RestoreSteps
  <2> QED
    BY <2>1, <2>2, <2>4, <2>5, <2>7 DEF RollbackInv
<1> QED
    BY <1>1, <1>2

LEMMA RetainRollback ==
    ASSUME StoreInv, StoreInv', RollbackInv, Retain
    PROVE  RollbackInv'
<1>1. /\ UNCHANGED <<history, op, made>> /\ pc = "retain" /\ pc' = "index"
      /\ work'.content = work.content
      /\ work.dirs \ Expired \subseteq work'.dirs
    BY DEF Retain, Goto, StoreInv, StoreTypeOK, Images
<1>2. NewSnapshot' = NewSnapshot
    BY <1>1 DEF NewSnapshot
<1>3. ASSUME op.rollback PROVE BeforeRestore'
  <2>1. BeforeRestore
    BY <1>1, <1>3 DEF RollbackInv, AfterRestore, StageSteps, PackSteps, Parts
  <2>2. Safety(NewSnapshot) /\ NewSnapshot \in work.dirs
    BY <1>1, <2>1 DEF BeforeRestore
  <2>3. NewSnapshot \in work'.dirs
    BY <1>1, <2>2 DEF Safety, Expired, Automatic
  <2>4. Safety(NewSnapshot)'
    BY <1>1, <1>2, <2>2 DEF Safety, LeftOrEdited
  <2> QED
    BY <1>1, <1>2, <2>1, <2>3, <2>4
    DEF BeforeRestore, LeftOrEdited, Unstaged, Restored, Parts, SnapshotSteps, RestoreSteps
<1> QED
    BY <1>1, <1>3 DEF RollbackInv, AfterRestore, StageSteps, PackSteps, Parts

LEMMA WriteIndexRollback ==
    ASSUME StoreInv, StoreInv', RollbackInv, WriteIndex
    PROVE  RollbackInv'
<1>1. CASE Fails("index")
    BY <1>1, FailsOp, EndRollback
<1>2. CASE ~Fails("index")
  <2> DEFINE records == (work.index \cup {NewSnapshot}) \ Expired
  <2>1. /\ UNCHANGED <<history, made>> /\ pc = "index"
        /\ pc' = IF op.rollback THEN "select" ELSE "check"
        /\ work' = [work EXCEPT !.index = records]
        /\ op' = [op EXCEPT !.staged = [content |-> @.content,
                      dirs |-> (@.dirs \cup {NewSnapshot}) \cap records,
                      index |-> records]]
    BY <1>2 DEF WriteIndex, Goto
  <2>2. work'.content = work.content /\ work'.dirs = work.dirs /\ work'.index = records
    BY <2>1 DEF StoreInv, StoreTypeOK, Images
  <2>3. /\ op'.staged.content = op.staged.content
        /\ op'.rollback = op.rollback /\ op'.keep = op.keep /\ op'.goal = op.goal
        /\ op'.origin = op.origin /\ op'.since = op.since /\ op'.old = op.old
    BY <2>1 DEF StoreInv, StoreTypeOK, Ops
  <2>4. ASSUME op.rollback PROVE op.keep = "before-rollback" /\ BeforeRestore'
    <3>1. BeforeRestore /\ op.keep = "before-rollback"
      BY <2>1, <2>4 DEF RollbackInv, AfterRestore, StageSteps, PackSteps, Parts
    <3>2. Safety(NewSnapshot) /\ NewSnapshot \in work.dirs
      BY <2>1, <3>1 DEF BeforeRestore
    <3>3. NewSnapshot \in records
      BY <3>2 DEF Safety, Expired, Automatic
    <3>4. \A s : Safety(s) => Safety(s)'
      BY <2>1, <2>3 DEF Safety, LeftOrEdited
    <3>5. \E s \in work'.index \cap work'.dirs : Safety(s)'
      BY <2>2, <3>2, <3>3, <3>4
    <3>6. pc' = "select"
      BY <2>1, <2>4
    <3>7. \A p \in Parts : /\ LeftOrEdited(p, op.staged.content, op.origin)
                           /\ LeftOrEdited(p, work.content, op.origin)
      BY <2>1, <3>1 DEF BeforeRestore, Unstaged, Restored, Parts
    <3> QED
      BY <2>1, <2>2, <2>3, <3>1, <3>5, <3>6, <3>7
      DEF BeforeRestore, LeftOrEdited, Restored, Parts, RestoreSteps
  <2> QED
    BY <2>1, <2>3, <2>4 DEF RollbackInv
<1> QED
    BY <1>1, <1>2

\* A rollback that is being restored.
LEMMA Restoring ==
    ASSUME RollbackInv, op.rollback, pc \in RestoreSteps
    PROVE  /\ op.keep = "before-rollback" /\ BeforeRestore
           /\ \A p \in Parts : LeftOrEdited(p, op.staged.content, op.origin)
<1>1. op.keep = "before-rollback" /\ BeforeRestore
    BY DEF RollbackInv, AfterRestore, StageSteps, PackSteps, RestoreSteps, Parts
<1> QED
    BY <1>1 DEF BeforeRestore, Unstaged, RestoreSteps, Parts

LEMMA SelectRollback ==
    ASSUME StoreInv, StoreInv', RollbackInv, Select
    PROVE  RollbackInv'
<1>1. CASE Refused
    BY <1>1, EndRollback DEF Refused
<1>2. CASE ~Refused
  <2>1. /\ UNCHANGED <<work, history, made, op>> /\ pc = "select" /\ pc' = "restore_backup"
    BY <1>2 DEF Select, Goto, Continues
  <2>2. \A s : Safety(s) => Safety(s)'
    BY <2>1 DEF Safety, LeftOrEdited
  <2>3. ASSUME op.rollback PROVE BeforeRestore'
    BY <2>1, <2>2, <2>3, Restoring
    DEF BeforeRestore, LeftOrEdited, Unstaged, Restored, Parts, RestoreSteps
  <2> QED
    BY <2>1, <2>3, Restoring DEF RollbackInv, RestoreSteps
<1> QED
    BY <1>1, <1>2

\* One part of the working directory is replaced by the snapshot's.
LEMMA RestoredPart ==
    ASSUME StoreInv, NEW p \in Parts, NEW next, RestorePart(p, next)
    PROVE  /\ work'.content = [work.content EXCEPT ![p] = history[op.goal].content[p]]
           /\ work'.dirs = work.dirs /\ work'.index = work.index
           /\ pc' = next
    BY DEF RestorePart, Goto, StoreInv, StoreTypeOK, Images

LEMMA RestoreBackupRollback ==
    ASSUME StoreInv, StoreInv', RollbackInv, RestoreBackup
    PROVE  RollbackInv'
<1>1. CASE Fails("restore")
    BY <1>1, FailsOp, EndRollback
<1>2. CASE ~Fails("restore")
  <2>1. /\ RestorePart("backup", "restore_device_network")
        /\ op' = [op EXCEPT !.old = work.content.backup]
        /\ UNCHANGED <<history, made>> /\ pc = "restore_backup"
    BY <1>2 DEF RestoreBackup, Recover
  <2>2. /\ work'.content = [work.content EXCEPT !["backup"] = history[op.goal].content["backup"]]
        /\ work'.dirs = work.dirs /\ work'.index = work.index
        /\ pc' = "restore_device_network"
    BY <2>1, RestoredPart DEF Parts
  <2>3. /\ op'.staged = op.staged /\ op'.old = work.content["backup"]
        /\ op'.rollback = op.rollback /\ op'.keep = op.keep /\ op'.goal = op.goal
        /\ op'.origin = op.origin /\ op'.since = op.since
    BY <2>1 DEF StoreInv, StoreTypeOK, Ops
  <2>4. work.content \in Contents
    BY DEF StoreInv, StoreTypeOK, Images
  <2>5. ASSUME op.rollback PROVE BeforeRestore'
    <3>1. BeforeRestore /\ \A p \in Parts : LeftOrEdited(p, op.staged.content, op.origin)
      BY <2>1, <2>5, Restoring DEF RestoreSteps
    <3>2. \A p \in Parts : LeftOrEdited(p, work.content, op.origin)
      BY <2>1, <3>1 DEF BeforeRestore, Restored, Parts
    <3>3. op'.old = op.origin["backup"] \/ op'.old > op.since
      BY <2>3, <3>2 DEF LeftOrEdited, Parts
    <3>4. \A s : Safety(s) => Safety(s)'
      BY <2>1, <2>3 DEF Safety, LeftOrEdited
    <3>5. \E s \in work'.index \cap work'.dirs : Safety(s)'
      BY <2>1, <2>2, <3>1, <3>4 DEF BeforeRestore, RestoreSteps
    <3>6. \A p \in Parts : IF p = "backup"
                           THEN LeftOrEdited(p, work'.content, history[op.goal].content)
                           ELSE LeftOrEdited(p, work'.content, op.origin)
      BY <2>2, <2>4, <3>2 DEF LeftOrEdited, Contents, Parts
    <3> QED
      BY <2>1, <2>2, <2>3, <3>1, <3>3, <3>5, <3>6
      DEF BeforeRestore, LeftOrEdited, Restored, Parts, RestoreSteps
  <2> QED
    BY <2>1, <2>3, <2>5, Restoring DEF RollbackInv, RestoreSteps
<1> QED
    BY <1>1, <1>2

LEMMA RestoreDatabaseRollback ==
    ASSUME StoreInv, StoreInv', RollbackInv, RestoreDatabase
    PROVE  RollbackInv'
<1>0. UNCHANGED <<history, made>> /\ work.content \in Contents
    BY DEF RestoreDatabase, StoreInv, StoreTypeOK, Images
<1>1. CASE Fails("restore")
    BY <1>1, FailsOp, EndRollback
<1>2. CASE pc = "restore_device_network" /\ ~Fails("restore")
  <2>1. RestorePart("device_network", "restore_info_collected") /\ op' = op
    BY <1>2 DEF RestoreDatabase, Recover
  <2>2. /\ work'.content = [work.content EXCEPT !["device_network"] =
                                history[op.goal].content["device_network"]]
        /\ work'.dirs = work.dirs /\ work'.index = work.index
        /\ pc' = "restore_info_collected"
    BY <2>1, RestoredPart DEF Parts
  <2>3. ASSUME op.rollback PROVE BeforeRestore'
    <3>1. BeforeRestore /\ \A p \in Parts : LeftOrEdited(p, op.staged.content, op.origin)
      BY <1>2, <2>3, Restoring DEF RestoreSteps
    <3>2. \A s : Safety(s) => Safety(s)'
      BY <1>0, <2>1 DEF Safety, LeftOrEdited
    <3>3. \E s \in work'.index \cap work'.dirs : Safety(s)'
      BY <1>2, <2>2, <3>1, <3>2 DEF BeforeRestore, RestoreSteps
    <3>4. \A p \in Parts : IF p = "info_collected"
                           THEN LeftOrEdited(p, work'.content, op.origin)
                           ELSE LeftOrEdited(p, work'.content, history[op.goal].content)
      BY <1>0, <1>2, <2>2, <3>1 DEF BeforeRestore, Restored, LeftOrEdited, Contents, Parts
    <3>5. op.old = op.origin["backup"] \/ op.old > op.since
      BY <1>2, <3>1 DEF BeforeRestore, Restored
    <3> QED
      BY <1>0, <2>1, <2>2, <3>1, <3>3, <3>4, <3>5
      DEF BeforeRestore, LeftOrEdited, Restored, Parts, RestoreSteps
  <2> QED
    BY <1>0, <1>2, <2>1, <2>3, Restoring DEF RollbackInv, RestoreSteps
<1>3. CASE pc = "restore_info_collected" /\ ~Fails("restore")
  <2>1. /\ RestorePart("info_collected", "device_network")
        /\ op' = [op EXCEPT !.keep = "none", !.touched = FALSE]
    BY <1>3 DEF RestoreDatabase, Recover
  <2>2. /\ work'.content = [work.content EXCEPT !["info_collected"] =
                                history[op.goal].content["info_collected"]]
        /\ pc' = "device_network"
    BY <2>1, RestoredPart DEF Parts
  <2>3. /\ op'.keep = "none" /\ op'.rollback = op.rollback /\ op'.goal = op.goal
        /\ op'.since = op.since
    BY <2>1 DEF StoreInv, StoreTypeOK, Ops
  <2>4. ASSUME op.rollback PROVE AfterRestore'
    <3>1. BeforeRestore
      BY <1>3, <2>4, Restoring DEF RestoreSteps
    <3>2. \A p \in Parts : LeftOrEdited(p, work'.content, history[op.goal].content)
      BY <1>0, <1>3, <2>2, <3>1 DEF BeforeRestore, Restored, LeftOrEdited, Contents, Parts
    <3> QED
      BY <1>0, <2>2, <2>3, <3>2 DEF AfterRestore, LeftOrEdited, StageSteps, Parts
  <2> QED
    BY <1>0, <2>3, <2>4 DEF RollbackInv
<1> QED
    BY <1>1, <1>2, <1>3 DEF RestoreDatabase

LEMMA PackRollback ==
    ASSUME StoreInv, StoreInv', RollbackInv, Check \/ Written \/ Verify \/ Replace \/ Finish
    PROVE  RollbackInv'
<1>1. CASE op' = NoOp
    BY <1>1, EndRollback
<1>2. CASE op' # NoOp
  <2>1. UNCHANGED <<op, work, history, made>> /\ pc \in PackSteps /\ pc' \in PackSteps
    BY <1>2, FailsOp DEF Check, Written, Verify, Replace, Finish, Continues, Refused, Goto,
                         PackSteps
  <2>2. op.rollback => op.keep = "none" /\ AfterRestore
    BY <2>1 DEF RollbackInv, BeforeRestore, StageSteps, SnapshotSteps, RestoreSteps, PackSteps,
                Parts
  <2>3. op.rollback => AfterRestore'
    BY <2>1, <2>2 DEF AfterRestore, LeftOrEdited
  <2> QED
    BY <2>1, <2>2, <2>3 DEF RollbackInv
<1> QED
    BY <1>1, <1>2

LEMMA NextRollback ==
    StoreInv /\ StoreInv' /\ HistoryInv /\ RollbackInv /\ [Next]_vars => RollbackInv'
<1> SUFFICES ASSUME StoreInv, StoreInv', HistoryInv, RollbackInv, [Next]_vars
             PROVE  RollbackInv'
    OBVIOUS
<1>1. CASE SaveSteps
    BY <1>1, StageRollback, CommitRollback, RetainRollback, WriteIndexRollback, PackRollback
    DEF SaveSteps
<1>2. CASE RollbackSteps
    BY <1>2, SelectRollback, RestoreBackupRollback, RestoreDatabaseRollback DEF RollbackSteps
<1>3. ASSUME NEW force \in BOOLEAN, NEW keep \in {"none", "manual", "automatic"},
             Save(force, keep)
      PROVE  RollbackInv'
    BY <1>3, BeginRollback DEF Save
<1>4. ASSUME NEW s \in Snapshots, Rollback(s) PROVE RollbackInv'
    BY <1>4, BeginRollback DEF Rollback
<1> QED
    BY <1>1, <1>2, <1>3, <1>4, AroundRollback DEF Next

LEMMA RollbackInvariant == Spec => [](StoreInv /\ HistoryInv /\ RollbackInv)
<1>1. StoreInv /\ HistoryInv /\ RollbackInv /\ [Next]_vars
          => (StoreInv /\ HistoryInv /\ RollbackInv)'
    BY NextInv, NextHistory, NextRollback
<1>2. Init => StoreInv /\ HistoryInv /\ RollbackInv
    BY InitStoreInv, InitHistory, InitRollback
<1> QED
    BY <1>1, <1>2, PTL DEF Spec

\* A rollback replaces nothing in the working directory before the state it
\* found is in the snapshot history, in the folders and in the index, whatever
\* is edited while it is staged and whatever retention removes.
THEOREM SafetyPointFirst == Spec => []SafetyPoint
<1>1. RollbackInv => SafetyPoint
  <2> SUFFICES ASSUME RollbackInv, op.rollback,
                      pc \in {"restore_device_network", "restore_info_collected"}
               PROVE  \E s \in work.index \cap work.dirs : Safety(s)
      BY DEF SafetyPoint, Safety
  <2> QED
      BY Restoring DEF BeforeRestore, RestoreSteps
<1> QED
    BY <1>1, RollbackInvariant, PTL

\* A step that ends a rollback leaves every part as it was, or every part as the
\* chosen snapshot has it, parts written by others meanwhile apart.
LEMMA EndOfRollback ==
    ASSUME StoreInv, HistoryInv, RollbackInv, [Next]_vars, op.rollback, pc' = Idle, open'
    PROVE  \/ \A p \in Parts : LeftOrEdited(p, work.content', op.origin)
           \/ \A p \in Parts : LeftOrEdited(p, work.content', history[op.goal].content)
<1>1. pc # Idle /\ open
    BY DEF RollbackInv, BeforeRestore, AfterRestore, Idle, StageSteps, SnapshotSteps,
           RestoreSteps, PackSteps, Parts, StoreInv, StepOK
<1>2. CASE RollbackSteps
  <2>1. pc \in RestoreSteps
    BY <1>2 DEF RollbackSteps, Select, RestoreBackup, RestoreDatabase, RestoreSteps
  <2>2. BeforeRestore /\ \A p \in Parts : LeftOrEdited(p, op.staged.content, op.origin)
    BY <2>1, Restoring
  <2>3. CASE Select
    BY <2>2, <2>3 DEF Select, BeforeRestore, Restored, LeftOrEdited, Parts
  <2>4. CASE RestoreBackup
    <3>1. Recover(work.content.backup) /\ pc = "restore_backup"
      BY <2>4 DEF RestoreBackup, RestorePart, Goto, Idle
    <3>2. work'.content = [op.staged.content EXCEPT !.backup = work.content.backup]
      BY <3>1 DEF Recover, StoreInv, StoreTypeOK, Images
    <3> QED
      BY <2>2, <3>1, <3>2
      DEF BeforeRestore, Restored, LeftOrEdited, Parts, StoreInv, StoreTypeOK, Ops, Images, Contents
  <2>5. CASE RestoreDatabase
    <3>1. Recover(op.old) /\ pc \in {"restore_device_network", "restore_info_collected"}
      BY <2>5 DEF RestoreDatabase, RestorePart, Goto, Idle
    <3>2. work'.content = [op.staged.content EXCEPT !.backup = op.old]
      BY <3>1 DEF Recover, StoreInv, StoreTypeOK, Images
    <3> QED
      BY <2>2, <3>1, <3>2
      DEF BeforeRestore, Restored, LeftOrEdited, Parts, StoreInv, StoreTypeOK, Ops, Images, Contents
  <2> QED
    BY <1>2, <2>3, <2>4, <2>5 DEF RollbackSteps
<1>3. CASE SaveSteps
  <2>1. pc \in StageSteps \cup SnapshotSteps \cup PackSteps
    BY <1>3 DEF SaveSteps, Stage, CommitSnapshot, Retain, WriteIndex, Check, Written, Verify,
                Replace, Finish, StageSteps, SnapshotSteps, PackSteps
  <2>2. work'.content = work.content
    BY <1>3 DEF SaveSteps, Stage, CommitSnapshot, Retain, WriteIndex, Check, Written, Verify,
                Replace, Finish, StoreInv, StoreTypeOK, Images
  <2>3. CASE BeforeRestore
    BY <2>1, <2>2, <2>3 DEF BeforeRestore, Restored, LeftOrEdited, Parts, StageSteps,
                            SnapshotSteps, PackSteps
  <2>4. CASE AfterRestore
    BY <2>2, <2>4 DEF AfterRestore, LeftOrEdited
  <2> QED
    BY <2>3, <2>4 DEF RollbackInv
<1> QED
    BY <1>1, <1>2, <1>3
    DEF Next, vars, run, session, Edit, Replaced, Leave, Open, Save, Rollback, Begin

\* One failing step, an edit or a crash never leaves a rollback half restored.
THEOREM RollbackIsAllOrNothing == Spec => RollbackAllOrNothing
<1>1. StoreInv /\ HistoryInv /\ RollbackInv /\ [Next]_vars =>
          [op.rollback /\ pc' = Idle /\ open' =>
              \/ \A p \in Parts : LeftOrEdited(p, work.content', op.origin)
              \/ \A p \in Parts : LeftOrEdited(p, work.content', history[op.goal].content)]_vars
    BY EndOfRollback
<1> QED
    BY <1>1, RollbackInvariant, PTL DEF Spec, RollbackAllOrNothing

-----------------------------------------------------------------------------
(* Retention *)

\* The N greatest members of A.
Top(A, N) == {s \in A : Cardinality(Newer(s, A)) < N}

\* A finite set of numbers has a greatest element.
LEMMA Greatest ==
    ASSUME NEW A, A \subseteq Int, IsFiniteSet(A), A # {}
    PROVE  \E g \in A : \A n \in A : n <= g
<1> DEFINE T == {Newer(s, A) : s \in A}
<1>0. \A s \in A : s \in Int
    OBVIOUS
<1>1. T \subseteq FiniteSubsetsOf(A) /\ T # {}
  <2>1. \A s \in A : Newer(s, A) \subseteq A
    BY DEF Newer
  <2>2. \A s \in A : IsFiniteSet(Newer(s, A))
    BY <2>1, FS_Subset
  <2> QED
    BY <2>1, <2>2 DEF FiniteSubsetsOf
<1>2. IsWellFoundedOn(StrictSubsetOrdering(A), FiniteSubsetsOf(A))
    BY FS_StrictSubsetOrderingWellFounded
<1>3. PICK x \in T : \A y \in T : ~ (<<y, x>> \in StrictSubsetOrdering(A))
    BY <1>1, <1>2, WFMin
<1>4. PICK g \in A : x = Newer(g, A)
    OBVIOUS
<1>5. ASSUME NEW n \in A, n > g PROVE FALSE
  <2>1. Newer(n, A) \subseteq x /\ n \in x /\ n \notin Newer(n, A)
    <3>1. g \in Int /\ n \in Int /\ n > g
      BY <1>0, <1>4, <1>5
    <3>2. \A m \in A : m > n => m > g
      BY <1>0, <3>1
    <3>3. ~ (n > n)
      BY <3>1
    <3> QED
      BY <1>4, <1>5, <3>2, <3>3 DEF Newer
  <2>2. <<Newer(n, A), x>> \in StrictSubsetOrdering(A)
    BY <2>1, <1>4 DEF StrictSubsetOrdering, Newer
  <2> QED
    BY <2>2, <1>3, <1>5
<1> QED
    BY <1>0, <1>5

\* It has a least element too.
LEMMA Least ==
    ASSUME NEW A, A \subseteq Int, IsFiniteSet(A), A # {}
    PROVE  \E l \in A : \A n \in A : l <= n
<1> DEFINE Older(s) == {n \in A : n < s}
           T == {Older(s) : s \in A}
<1>0. \A s \in A : s \in Int
    OBVIOUS
<1>1. T \subseteq FiniteSubsetsOf(A) /\ T # {}
  <2>1. \A s \in A : Older(s) \subseteq A
    OBVIOUS
  <2>2. \A s \in A : IsFiniteSet(Older(s))
    BY <2>1, FS_Subset
  <2> HIDE DEF Older
  <2> QED
    BY <2>1, <2>2 DEF FiniteSubsetsOf
<1>2. IsWellFoundedOn(StrictSubsetOrdering(A), FiniteSubsetsOf(A))
    BY FS_StrictSubsetOrderingWellFounded
<1>3. PICK x \in T : \A y \in T : ~ (<<y, x>> \in StrictSubsetOrdering(A))
    BY <1>1, <1>2, WFMin
<1>4. PICK l \in A : x = Older(l)
    OBVIOUS
<1>5. ASSUME NEW n \in A, n < l PROVE FALSE
  <2>1. Older(n) \subseteq x /\ n \in x /\ n \notin Older(n)
    <3>1. l \in Int /\ n \in Int /\ n < l
      BY <1>0, <1>4, <1>5
    <3>2. \A m \in A : m < n => m < l
      BY <1>0, <3>1
    <3>3. ~ (n < n)
      BY <3>1
    <3> QED
      BY <1>4, <1>5, <3>2, <3>3
  <2>2. <<Older(n), x>> \in StrictSubsetOrdering(A)
    BY <2>1, <1>4 DEF StrictSubsetOrdering
  <2> QED
    BY <2>2, <1>3, <1>5
<1> QED
    BY <1>0, <1>5

\* If not all of A is at the top, exactly N members are.
LEMMA TopCount ==
    ASSUME NEW A, A \subseteq Int, IsFiniteSet(A), NEW N \in Nat, Top(A, N) # A
    PROVE  Cardinality(Top(A, N)) = N
<1> DEFINE R == Top(A, N)
<1>0. \A s \in A : s \in Int
    OBVIOUS
<1>1. \A s \in A : IsFiniteSet(Newer(s, A)) /\ Cardinality(Newer(s, A)) \in Nat
    BY FS_Subset, FS_CardinalityType DEF Newer
<1>2. PICK s \in A \ R : \A n \in A \ R : n <= s
  <2>1. A \ R # {} /\ A \ R \subseteq Int /\ IsFiniteSet(A \ R)
    BY FS_Subset DEF Top
  <2> HIDE DEF R
  <2> QED
    BY <2>1, Greatest
<1>3. Cardinality(Newer(s, A)) >= N
    BY <1>1, <1>2 DEF Top
<1>4. Newer(s, A) \subseteq R
  <2>1. \A n \in A : n > s => n \in R
    BY <1>0, <1>2
  <2> QED
    BY <2>1 DEF Newer
<1>5. ASSUME NEW n \in R PROVE n > s
  <2>1. n \in A /\ n # s /\ Cardinality(Newer(n, A)) < N
    BY <1>2 DEF Top
  <2>2. ASSUME n < s PROVE FALSE
    <3>1. Newer(s, A) \subseteq Newer(n, A)
      <4>1. n \in Int /\ s \in Int
        BY <1>0, <1>2, <2>1
      <4>2. \A m \in A : m > s => m > n
        BY <1>0, <2>2, <4>1
      <4> QED
        BY <4>2 DEF Newer
    <3>2. Cardinality(Newer(s, A)) <= Cardinality(Newer(n, A))
      BY <3>1, <2>1, <1>1, FS_Subset
    <3> QED
      BY <3>2, <2>1, <1>1, <1>2, <1>3
  <2> QED
    BY <2>1, <2>2, <1>2
<1>6. R = Newer(s, A)
    BY <1>4, <1>5 DEF Newer, Top
<1>7. Cardinality(R) <= N
  <2>1. CASE R = {}
    BY <2>1, FS_EmptySet
  <2>2. CASE R # {}
    <3>1. IsFiniteSet(R) /\ R \subseteq A /\ R \subseteq Int
      BY FS_Subset DEF Top
    <3>2. PICK l \in R : \A n \in R : l <= n
      <4> HIDE DEF R
      <4> QED
        BY <2>2, <3>1, Least
    <3>3. Newer(l, A) = R \ {l}
      <4>1. \A n \in A : n > l <=> n \in R /\ n # l
        <5>1. \A n \in R : n \in A /\ n \in Int /\ l <= n
          BY <3>1, <3>2
        <5>2. l \in Int /\ l > s /\ s \in Int
          BY <1>0, <1>2, <1>5, <3>1, <3>2
        <5>3. \A n \in A : n > l => n \in Newer(s, A)
          BY <1>0, <5>2 DEF Newer
        <5> HIDE DEF R
        <5> QED
          BY <1>0, <1>6, <5>1, <5>2, <5>3
      <4>2. R \subseteq A
        BY <3>1
      <4> HIDE DEF R
      <4> QED
        BY <4>1, <4>2 DEF Newer
    <3>4. Cardinality(R \ {l}) < N
      BY <3>3 DEF Top
    <3>5. Cardinality(R \ {l}) = Cardinality(R) - 1
      BY <3>1, <3>2, FS_RemoveElement
    <3>6. Cardinality(R) \in Nat
      BY <3>1, FS_CardinalityType
    <3> QED
      BY <3>4, <3>5, <3>6
  <2> QED
    BY <2>1, <2>2
<1> QED
    BY <1>1, <1>2, <1>3, <1>6, <1>7

\* What retention leaves: every snapshot that is not automatic, and exactly
\* AutomaticLimit automatic ones if it takes any.
LEMMA RetentionKeeps ==
    ASSUME StoreInv, Made
    PROVE  LET records == work.index \cup {NewSnapshot}
           IN  \A s \in Expired :
                   /\ Automatic(s)
                   /\ Cardinality({n \in records \ Expired : Automatic(n)}) = AutomaticLimit
<1> DEFINE records == work.index \cup {NewSnapshot}
           A == {n \in records : Automatic(n)}
<1>1. records \subseteq Snapshots
    BY NewSnapshotRange DEF StoreInv, StoreTypeOK, Images
<1>2. A \subseteq Int /\ IsFiniteSet(A)
  <2>1. MaxSnapshots \in Nat
    BY StoreBoundAssumption
  <2>2. IsFiniteSet(Snapshots) /\ Snapshots \subseteq Int
    BY <2>1, FS_Interval DEF Snapshots
  <2> QED
    BY <1>1, <2>2, FS_Subset
<1>3. \A s \in records : {n \in Newer(s, records) : Automatic(n)} = Newer(s, A)
    BY DEF Newer
<1>4. \A s \in A : Cardinality(Newer(s, A)) \in Nat
    BY <1>2, FS_Subset, FS_CardinalityType DEF Newer
<1>5. Expired = {s \in A : Cardinality(Newer(s, A)) >= AutomaticLimit}
    BY <1>3 DEF Expired
<1>6. Expired = A \ Top(A, AutomaticLimit)
    BY <1>4, <1>5, LimitAssumption DEF Top
<1>7. {n \in records \ Expired : Automatic(n)} = Top(A, AutomaticLimit)
    BY <1>6 DEF Top
<1> HIDE DEF A
<1>8. Expired # {} => Cardinality(Top(A, AutomaticLimit)) = AutomaticLimit
    BY <1>2, <1>6, TopCount, LimitAssumption
<1> QED
    BY <1>7, <1>8 DEF Expired

\* While a project is open its history only loses automatic snapshots, and only
\* when AutomaticLimit of them remain: a manual snapshot, or the safety snapshot
\* of a rollback, is never removed, however many saves, rollbacks and failures
\* of retention there were.
THEOREM HistoryIsKept == Spec => HistoryKept
<1>1. StoreInv /\ [Next]_vars =>
          [open /\ open' =>
              \A s \in work.index \ work'.index :
                  /\ Automatic(s)
                  /\ Cardinality({n \in work'.index : Automatic(n)'}) = AutomaticLimit]_vars
  <2> SUFFICES ASSUME StoreInv, Next, open, open', NEW s \in work.index \ work'.index
               PROVE  /\ Automatic(s)
                      /\ Cardinality({n \in work'.index : Automatic(n)'}) = AutomaticLimit
      BY DEF vars
  <2>1. work'.index # work.index
    OBVIOUS
  <2>2. WriteIndex
    BY <2>1 DEF Next, SaveSteps, RollbackSteps, Edit, Replaced, Leave, Open, Save, Rollback, Begin,
                Stage, CommitSnapshot, Retain, Check, Written, Verify, Replace, Finish, Select,
                RestoreBackup, RestoreDatabase, RestorePart, Recover, run, session,
                StoreInv, StoreTypeOK, Images
  <2>3. /\ work' = [work EXCEPT !.index = (work.index \cup {NewSnapshot}) \ Expired]
        /\ UNCHANGED history /\ pc = "index"
    BY <2>1, <2>2 DEF WriteIndex
  <2>4. work'.index = (work.index \cup {NewSnapshot}) \ Expired
    BY <2>3 DEF StoreInv, StoreTypeOK, Images
  <2>5. s \in Expired
    BY <2>4
  <2>6. \A n : Automatic(n)' <=> Automatic(n)
    BY <2>3 DEF Automatic
  <2>7. Made
    BY <2>3 DEF StoreInv, StepOK
  <2> QED
    BY <2>4, <2>5, <2>6, <2>7, RetentionKeeps
<1> QED
    BY <1>1, StoreInvariant, PTL DEF Spec, HistoryKept

=============================================================================
