------------------------- MODULE WorkspaceSaveProofs -------------------------
(***************************************************************************)
(* Proofs about the save controller: its types, that the extracted         *)
(* directory outlives the running operation, that "saved" is shown only of *)
(* what the package holds, and that a close keeps what was written before  *)
(* it was asked for; for any number of edits, requests and failures.       *)
(***************************************************************************)
EXTENDS WorkspaceSave, TLAPS

-----------------------------------------------------------------------------
(* The inductive invariant *)

\* The worker took the signature of what it saves: from staging to the end.
Took == step \in {"stage", "pack", "compare"} \/ result \in {"saved", "changed"}

\* The worker replaced the package.
Replaced == step = "compare" \/ result \in {"saved", "changed"}

\* A step belongs to a request, a result to the last step, an operation to
\* the open project.
StepsMatch ==
    /\ step = "none" <=> active = NoRequest
    /\ step = "finished" <=> result # "none"
    /\ step = "prepare" => active = "close"
    /\ result = "skipped" => active = "automatic"
    /\ step # "none" => project = "open" \/ quitting
    /\ step \notin {"none", "finished"} => project = "open"

\* What the package, the signature, the watcher and the user know of was
\* written.
KnownWritten ==
    /\ signature <= packaged /\ signature <= version
    /\ noticed <= version /\ notices <= version /\ closing <= version

\* A save packs no less than the signature taken before staging stands for.
SaveInOrder ==
    /\ Took => signature <= before /\ before <= version
    /\ result \in {"saved", "changed"} => signature = before
    /\ step = "pack" => before <= image
    /\ Replaced => before <= packaged
    /\ result = "changed" => before < version
    /\ Took /\ active = "close" => closing <= before

\* Generations saved, being saved, and of now.
GenerationsInOrder ==
    /\ savedGeneration <= generation
    /\ Busy /\ project = "open" => savedGeneration <= since /\ since <= generation

\* While no notice came since the request started, the save holds all of them.
NoticesInSave ==
    Busy /\ project = "open" /\ generation <= since =>
        /\ Took => noticed <= before
        /\ result = "skipped" => noticed <= packaged

\* A generation is a notice or a save that met a write: no more than the
\* writes the watcher reported and those the signatures tell apart.
GenerationsCounted ==
    /\ generation <= noticed + version
    /\ generation <= noticed + signature + 1
    /\ Took => generation <= noticed + before

LabelInv == (Busy => label # "saved") /\ SavedShownIsSaved

SaveInv ==
    /\ SaveTypeOK
    /\ StepsMatch
    /\ KnownWritten
    /\ SaveInOrder
    /\ GenerationsInOrder
    /\ NoticesInSave
    /\ GenerationsCounted
    /\ LabelInv

-----------------------------------------------------------------------------
(* Types, one variable at a time *)

Types ==
    /\ project \in {"open", "none"}
    /\ version \in 0..MaxEdits /\ packaged \in 0..MaxEdits
    /\ signature \in 0..MaxEdits
    /\ notices \in 0..MaxEdits /\ noticed \in 0..MaxEdits
    /\ before \in 0..MaxEdits /\ image \in 0..MaxEdits /\ closing \in 0..MaxEdits
    /\ generation \in 0..(2 * MaxEdits + 1)
    /\ savedGeneration \in 0..(2 * MaxEdits + 1) /\ since \in 0..(2 * MaxEdits + 1)
    /\ active \in Kinds \cup {NoRequest} /\ pending \in Kinds \cup {NoRequest}
    /\ label \in {"saved", "unsaved", "saving", "failed", "no_workspace"}
    /\ step \in Steps
    /\ result \in {"none", "skipped", "saved", "changed", "error"}
    /\ requests \in 0..MaxRequests /\ failures \in 0..MaxFailures
    /\ projects \in 1..MaxProjects

Flags == idleTimer \in BOOLEAN /\ quitting \in BOOLEAN

LEMMA TypesUnfold == SaveTypeOK => Types
  BY DEF SaveTypeOK, Types

LEMMA BoundsNat ==
  MaxEdits \in Nat /\ MaxRequests \in Nat /\ MaxFailures \in Nat /\ MaxProjects \in Nat
  BY SaveBoundAssumption

LEMMA MergeKind ==
  ASSUME NEW current \in Kinds \cup {NoRequest}, NEW incoming \in Kinds
  PROVE  Merge(current, incoming) \in Kinds
  BY DEF Merge

LEMMA EditKeeps ==
  ASSUME SaveInv, Edit
  PROVE  SaveInv'
  <1>1. Types'
    BY TypesUnfold, BoundsNat DEF SaveInv, Types, queue, worker, bounds, Edit
  <1>2. StepsMatch'
    BY DEF SaveInv, StepsMatch, queue, worker, Edit
  <1>3. KnownWritten'
    BY TypesUnfold DEF SaveInv, Types, KnownWritten, Edit
  <1>4. SaveInOrder'
    BY TypesUnfold
    DEF SaveInv, Types, SaveInOrder, Took, Replaced, queue, worker, Edit
  <1>5. GenerationsInOrder'
    BY DEF SaveInv, GenerationsInOrder, Busy, queue, Edit
  <1>6. NoticesInSave'
    BY DEF SaveInv, Took, NoticesInSave, Busy, queue, worker, Edit
  <1>7. GenerationsCounted'
    BY TypesUnfold DEF SaveInv, Types, Took, GenerationsCounted, worker, Edit
  <1>8. LabelInv'
    BY DEF SaveInv, LabelInv, SavedShownIsSaved, Busy, queue, Edit
  <1>9. Flags'
    BY Zenon DEF SaveInv, SaveTypeOK, Flags, Edit
  <1>. QED
    BY <1>1, <1>2, <1>3, <1>4, <1>5, <1>6, <1>7, <1>8, <1>9
    DEF SaveInv, SaveTypeOK, Types, Flags

LEMMA MarkDirtyKeeps ==
  ASSUME SaveInv, MarkDirty
  PROVE  SaveInv'
  <1>1. Types'
    BY TypesUnfold, BoundsNat
    DEF SaveInv, Types, GenerationsCounted, queue, worker, bounds, MarkDirty
  <1>2. StepsMatch'
    BY DEF SaveInv, StepsMatch, queue, worker, MarkDirty
  <1>3. KnownWritten'
    BY DEF SaveInv, KnownWritten, MarkDirty
  <1>4. SaveInOrder'
    BY DEF SaveInv, SaveInOrder, Took, Replaced, queue, worker, MarkDirty
  <1>5. GenerationsInOrder'
    BY TypesUnfold
    DEF SaveInv, Types, GenerationsInOrder, Busy, queue, MarkDirty
  <1>6. NoticesInSave'
    BY TypesUnfold
    DEF SaveInv, Types, GenerationsInOrder, NoticesInSave, Busy, queue,
        MarkDirty
  <1>7. GenerationsCounted'
    BY TypesUnfold
    DEF SaveInv, Types, Took, GenerationsCounted, worker, MarkDirty
  <1>8. LabelInv'
    BY DEF SaveInv, LabelInv, SavedShownIsSaved, MarkDirty
  <1>9. Flags'
    BY Zenon DEF SaveInv, SaveTypeOK, Flags, MarkDirty
  <1>. QED
    BY <1>1, <1>2, <1>3, <1>4, <1>5, <1>6, <1>7, <1>8, <1>9
    DEF SaveInv, SaveTypeOK, Types, Flags

LEMMA OpenProjectKeeps ==
  ASSUME SaveInv, OpenProject
  PROVE  SaveInv'
  <1>1. Types'
    BY TypesUnfold, BoundsNat DEF SaveInv, Types, worker, OpenProject
  <1>2. StepsMatch'
    BY DEF SaveInv, StepsMatch, worker, OpenProject
  <1>3. KnownWritten'
    BY TypesUnfold DEF SaveInv, Types, KnownWritten, OpenProject
  <1>4. SaveInOrder'
    BY DEF SaveInv, StepsMatch, SaveInOrder, Took, Replaced, worker,
           OpenProject
  <1>5. GenerationsInOrder'
    BY DEF SaveInv, StepsMatch, GenerationsInOrder, Busy, OpenProject
  <1>6. NoticesInSave'
    BY DEF SaveInv, StepsMatch, NoticesInSave, Busy, OpenProject
  <1>7. GenerationsCounted'
    BY TypesUnfold DEF SaveInv, Types, GenerationsCounted, worker, OpenProject
  <1>8. LabelInv'
    BY TypesUnfold
    DEF SaveInv, Types, StepsMatch, LabelInv, SavedShownIsSaved, Busy,
        OpenProject
  <1>9. Flags'
    BY Zenon DEF SaveInv, SaveTypeOK, Flags, OpenProject
  <1>. QED
    BY <1>1, <1>2, <1>3, <1>4, <1>5, <1>6, <1>7, <1>8, <1>9
    DEF SaveInv, SaveTypeOK, Types, Flags

LEMMA RequestKeeps ==
  ASSUME SaveInv, NEW kind \in UserKinds, Request(kind)
  PROVE  SaveInv'
  <1>1. Types'
    BY TypesUnfold, BoundsNat, MergeKind
    DEF SaveInv, Types, Busy, Steps, files, worker, Request, Enqueue, Start,
        Kinds
  <1>2. StepsMatch'
    BY RequestAssumption
    DEF SaveInv, StepsMatch, worker, Request, Enqueue, Start, Kinds
  <1>3. KnownWritten'
    BY TypesUnfold DEF SaveInv, Types, KnownWritten, files, Request
  <1>4. SaveInOrder'
    BY DEF SaveInv, SaveInOrder, Took, Replaced, files, worker, Request,
           Enqueue, Start
  <1>5. GenerationsInOrder'
    BY TypesUnfold
    DEF SaveInv, Types, GenerationsInOrder, Request, Enqueue, Start
  <1>6. NoticesInSave'
    BY DEF SaveInv, Took, NoticesInSave, files, worker, Request, Enqueue,
           Start
  <1>7. GenerationsCounted'
    BY DEF SaveInv, Took, GenerationsCounted, files, worker, Request, Enqueue,
           Start
  <1>8. LabelInv'
    BY DEF SaveInv, LabelInv, SavedShownIsSaved, Request, Enqueue, Start
  <1>9. Flags'
    BY Zenon DEF SaveInv, SaveTypeOK, Flags, Request, Enqueue, Start
  <1>. QED
    BY <1>1, <1>2, <1>3, <1>4, <1>5, <1>6, <1>7, <1>8, <1>9
    DEF SaveInv, SaveTypeOK, Types, Flags

LEMMA AutoSaveKeeps ==
  ASSUME SaveInv, AutoSave
  PROVE  SaveInv'
  <1>1. Types'
    BY TypesUnfold, BoundsNat, MergeKind
    DEF SaveInv, Types, Steps, files, worker, bounds, AutoSave, Enqueue,
        Start, Kinds
  <1>2. StepsMatch'
    BY RequestAssumption
    DEF SaveInv, StepsMatch, worker, AutoSave, Enqueue, Start, Kinds
  <1>3. KnownWritten'
    BY DEF SaveInv, KnownWritten, files, AutoSave
  <1>4. SaveInOrder'
    BY DEF SaveInv, SaveInOrder, Took, Replaced, files, worker, AutoSave,
           Enqueue, Start
  <1>5. GenerationsInOrder'
    BY TypesUnfold
    DEF SaveInv, Types, GenerationsInOrder, AutoSave, Enqueue, Start
  <1>6. NoticesInSave'
    BY DEF SaveInv, Took, NoticesInSave, files, worker, AutoSave, Enqueue,
           Start
  <1>7. GenerationsCounted'
    BY DEF SaveInv, Took, GenerationsCounted, files, worker, AutoSave,
           Enqueue, Start
  <1>8. LabelInv'
    BY DEF SaveInv, LabelInv, SavedShownIsSaved, AutoSave, Enqueue, Start
  <1>9. Flags'
    BY Zenon DEF SaveInv, SaveTypeOK, Flags, AutoSave, Enqueue, Start
  <1>. QED
    BY <1>1, <1>2, <1>3, <1>4, <1>5, <1>6, <1>7, <1>8, <1>9
    DEF SaveInv, SaveTypeOK, Types, Flags

LEMMA IdleTimerKeeps ==
  ASSUME SaveInv, IdleTimer
  PROVE  SaveInv'
  <1>1. Types'
    BY TypesUnfold, MergeKind
    DEF SaveInv, Types, files, worker, bounds, IdleTimer, Kinds
  <1>2. StepsMatch'
    BY DEF SaveInv, StepsMatch, worker, IdleTimer
  <1>3. KnownWritten'
    BY DEF SaveInv, KnownWritten, files, IdleTimer
  <1>4. SaveInOrder'
    BY DEF SaveInv, SaveInOrder, Took, Replaced, files, worker, IdleTimer
  <1>5. GenerationsInOrder'
    BY DEF SaveInv, GenerationsInOrder, IdleTimer
  <1>6. NoticesInSave'
    BY DEF SaveInv, Took, NoticesInSave, files, worker, IdleTimer
  <1>7. GenerationsCounted'
    BY DEF SaveInv, Took, GenerationsCounted, files, worker, IdleTimer
  <1>8. LabelInv'
    BY DEF SaveInv, LabelInv, SavedShownIsSaved, IdleTimer
  <1>9. Flags'
    BY Zenon DEF SaveInv, SaveTypeOK, Flags, IdleTimer
  <1>. QED
    BY <1>1, <1>2, <1>3, <1>4, <1>5, <1>6, <1>7, <1>8, <1>9
    DEF SaveInv, SaveTypeOK, Types, Flags

LEMMA PrepareKeeps ==
  ASSUME SaveInv, Prepare
  PROVE  SaveInv'
  <1>1. Types'
    BY TypesUnfold DEF SaveInv, Types, Steps, queue, Prepare, Work, MayWrite
  <1>2. StepsMatch'
    BY DEF SaveInv, StepsMatch, queue, Prepare, Work
  <1>3. KnownWritten'
    BY TypesUnfold DEF SaveInv, Types, KnownWritten, Prepare, Work, MayWrite
  <1>4. SaveInOrder'
    BY DEF SaveInv, StepsMatch, SaveInOrder, Took, Replaced, Prepare, Work
  <1>5. GenerationsInOrder'
    BY DEF SaveInv, GenerationsInOrder, Busy, queue, Prepare, Work
  <1>6. NoticesInSave'
    BY DEF SaveInv, Took, NoticesInSave, Busy, queue, Prepare, Work
  <1>7. GenerationsCounted'
    BY TypesUnfold
    DEF SaveInv, Types, Took, GenerationsCounted, Prepare, Work, MayWrite
  <1>8. LabelInv'
    BY DEF SaveInv, LabelInv, SavedShownIsSaved, Busy, queue, Prepare, Work
  <1>9. Flags'
    BY Zenon DEF SaveInv, SaveTypeOK, Flags, Prepare, Work
  <1>. QED
    BY <1>1, <1>2, <1>3, <1>4, <1>5, <1>6, <1>7, <1>8, <1>9
    DEF SaveInv, SaveTypeOK, Types, Flags

LEMMA BeginSaveKeeps ==
  ASSUME SaveInv, BeginSave
  PROVE  SaveInv'
  <1>1. Types'
    BY TypesUnfold DEF SaveInv, Types, Steps, queue, BeginSave, Work, MayWrite
  <1>2. StepsMatch'
    BY DEF SaveInv, StepsMatch, queue, BeginSave, Work
  <1>3. KnownWritten'
    BY TypesUnfold DEF SaveInv, Types, KnownWritten, BeginSave, Work, MayWrite
  <1>4. SaveInOrder'
    BY TypesUnfold
    DEF SaveInv, Types, StepsMatch, KnownWritten, SaveInOrder, Took, Replaced,
        BeginSave, Work, MayWrite
  <1>5. GenerationsInOrder'
    BY DEF SaveInv, GenerationsInOrder, Busy, queue, BeginSave, Work
  <1>6. NoticesInSave'
    BY TypesUnfold
    DEF SaveInv, Types, StepsMatch, KnownWritten, Took, NoticesInSave,
        BeginSave, Work, MayWrite
  <1>7. GenerationsCounted'
    BY TypesUnfold
    DEF SaveInv, Types, Took, GenerationsCounted, BeginSave, Work, MayWrite
  <1>8. LabelInv'
    BY DEF SaveInv, LabelInv, SavedShownIsSaved, Busy, queue, BeginSave, Work
  <1>9. Flags'
    BY Zenon DEF SaveInv, SaveTypeOK, Flags, BeginSave, Work
  <1>. QED
    BY <1>1, <1>2, <1>3, <1>4, <1>5, <1>6, <1>7, <1>8, <1>9
    DEF SaveInv, SaveTypeOK, Types, Flags

LEMMA StageImageKeeps ==
  ASSUME SaveInv, StageImage
  PROVE  SaveInv'
  <1>1. Types'
    BY TypesUnfold DEF SaveInv, Types, Steps, queue, StageImage, Work
  <1>2. StepsMatch'
    BY DEF SaveInv, StepsMatch, queue, StageImage, Work
  <1>3. KnownWritten'
    BY DEF SaveInv, KnownWritten, StageImage, Work
  <1>4. SaveInOrder'
    BY DEF SaveInv, SaveInOrder, Took, Replaced, queue, StageImage, Work
  <1>5. GenerationsInOrder'
    BY DEF SaveInv, GenerationsInOrder, Busy, queue, StageImage, Work
  <1>6. NoticesInSave'
    BY DEF SaveInv, Took, NoticesInSave, Busy, queue, StageImage, Work
  <1>7. GenerationsCounted'
    BY DEF SaveInv, Took, GenerationsCounted, StageImage, Work
  <1>8. LabelInv'
    BY DEF SaveInv, LabelInv, SavedShownIsSaved, Busy, queue, StageImage, Work
  <1>9. Flags'
    BY Zenon DEF SaveInv, SaveTypeOK, Flags, StageImage, Work
  <1>. QED
    BY <1>1, <1>2, <1>3, <1>4, <1>5, <1>6, <1>7, <1>8, <1>9
    DEF SaveInv, SaveTypeOK, Types, Flags

LEMMA PackKeeps ==
  ASSUME SaveInv, Pack
  PROVE  SaveInv'
  <1>1. Types'
    BY TypesUnfold DEF SaveInv, Types, Steps, queue, Pack, Work
  <1>2. StepsMatch'
    BY DEF SaveInv, StepsMatch, queue, Pack, Work
  <1>3. KnownWritten'
    BY TypesUnfold
    DEF SaveInv, Types, KnownWritten, SaveInOrder, Took, Pack, Work
  <1>4. SaveInOrder'
    BY DEF SaveInv, SaveInOrder, Took, queue, Pack, Work
  <1>5. GenerationsInOrder'
    BY DEF SaveInv, GenerationsInOrder, Busy, queue, Pack, Work
  <1>6. NoticesInSave'
    BY TypesUnfold, BoundsNat, MergeKind, RequestAssumption
    DEF SaveInv, Types, StepsMatch, KnownWritten, SaveInOrder, Took, Replaced,
        GenerationsInOrder, NoticesInSave, GenerationsCounted, LabelInv,
        SavedShownIsSaved, Busy, Steps, files, queue, worker, bounds, Pack,
        Work, MayWrite, Kinds, UserKinds
  <1>7. GenerationsCounted'
    BY DEF SaveInv, Took, GenerationsCounted, Pack, Work
  <1>8. LabelInv'
    BY DEF SaveInv, StepsMatch, LabelInv, SavedShownIsSaved, Busy, Pack, Work
  <1>9. Flags'
    BY Zenon DEF SaveInv, SaveTypeOK, Flags, Pack, Work
  <1>. QED
    BY <1>1, <1>2, <1>3, <1>4, <1>5, <1>6, <1>7, <1>8, <1>9
    DEF SaveInv, SaveTypeOK, Types, Flags

LEMMA CompareKeeps ==
  ASSUME SaveInv, Compare
  PROVE  SaveInv'
  <1>1. Types'
    BY TypesUnfold DEF SaveInv, Types, Steps, queue, Compare, Work
  <1>2. StepsMatch'
    BY DEF SaveInv, StepsMatch, queue, Compare, Work
  <1>3. KnownWritten'
    BY DEF SaveInv, KnownWritten, SaveInOrder, Took, Replaced, Compare, Work
  <1>4. SaveInOrder'
    BY TypesUnfold
    DEF SaveInv, Types, SaveInOrder, Took, Replaced, queue, Compare, Work
  <1>5. GenerationsInOrder'
    BY DEF SaveInv, GenerationsInOrder, Busy, queue, Compare, Work
  <1>6. NoticesInSave'
    BY DEF SaveInv, Took, NoticesInSave, Busy, queue, Compare, Work
  <1>7. GenerationsCounted'
    BY TypesUnfold DEF SaveInv, Types, Took, GenerationsCounted, Compare, Work
  <1>8. LabelInv'
    BY DEF SaveInv, LabelInv, SavedShownIsSaved, Busy, queue, Compare, Work
  <1>9. Flags'
    BY Zenon DEF SaveInv, SaveTypeOK, Flags, Compare, Work
  <1>. QED
    BY <1>1, <1>2, <1>3, <1>4, <1>5, <1>6, <1>7, <1>8, <1>9
    DEF SaveInv, SaveTypeOK, Types, Flags

LEMMA RaiseKeeps ==
  ASSUME SaveInv, Raise
  PROVE  SaveInv'
  <1>1. Types'
    BY TypesUnfold, BoundsNat DEF SaveInv, Types, Steps, queue, Raise, Work
  <1>2. StepsMatch'
    BY DEF SaveInv, StepsMatch, queue, Raise, Work
  <1>3. KnownWritten'
    BY DEF SaveInv, KnownWritten, Raise, Work
  <1>4. SaveInOrder'
    BY DEF SaveInOrder, Took, Replaced, Raise, Work
  <1>5. GenerationsInOrder'
    BY DEF SaveInv, GenerationsInOrder, Busy, queue, Raise, Work
  <1>6. NoticesInSave'
    BY DEF Took, NoticesInSave, Raise, Work
  <1>7. GenerationsCounted'
    BY DEF SaveInv, Took, GenerationsCounted, Raise, Work
  <1>8. LabelInv'
    BY DEF SaveInv, LabelInv, SavedShownIsSaved, Busy, queue, Raise, Work
  <1>9. Flags'
    BY Zenon DEF SaveInv, SaveTypeOK, Flags, Raise, Work
  <1>. QED
    BY <1>1, <1>2, <1>3, <1>4, <1>5, <1>6, <1>7, <1>8, <1>9
    DEF SaveInv, SaveTypeOK, Types, Flags

LEMMA FinishedKeeps ==
  ASSUME SaveInv, Finished
  PROVE  SaveInv'
  <1>1. Types'
    BY TypesUnfold, BoundsNat, MergeKind
    DEF SaveInv, Types, StepsMatch, KnownWritten, SaveInOrder,
        GenerationsInOrder, GenerationsCounted, Busy, Steps, files, bounds,
        Finished, FinishClose, FinishAndGoOn, NextRequest, NextGeneration,
        SavedUpTo, Higher, Shown, Start, Idle, ClosesNow, Kinds
  <1>2. StepsMatch'
    BY DEF SaveInv, StepsMatch, Finished, FinishClose, FinishAndGoOn, Start,
           Idle
  <1>3. KnownWritten'
    BY DEF SaveInv, KnownWritten, files, Finished
  <1>4. SaveInOrder'
    BY DEF SaveInOrder, Took, Replaced, Finished, FinishClose, FinishAndGoOn,
           Start, Idle
  <1>5. GenerationsInOrder'
    BY TypesUnfold
    DEF SaveInv, Types, StepsMatch, GenerationsInOrder, Busy, Finished,
        FinishClose, FinishAndGoOn, NextGeneration, SavedUpTo, Higher, Start
  <1>6. NoticesInSave'
    BY DEF Took, NoticesInSave, Finished, FinishClose, FinishAndGoOn, Start,
           Idle
  <1>7. GenerationsCounted'
    BY TypesUnfold
    DEF SaveInv, Types, StepsMatch, SaveInOrder, Took, GenerationsInOrder,
        GenerationsCounted, Busy, files, Finished, FinishClose, FinishAndGoOn,
        NextGeneration, Higher, Start, Idle
  <1>8. LabelInv'
    BY TypesUnfold
    DEF SaveInv, Types, StepsMatch, SaveInOrder, Took, Replaced,
        GenerationsInOrder, NoticesInSave, LabelInv, SavedShownIsSaved, Busy,
        files, Finished, FinishClose, FinishAndGoOn, NextGeneration,
        SavedUpTo, Higher, Shown, Start, Idle
  <1>9. Flags'
    BY Zenon
    DEF SaveInv, SaveTypeOK, Flags, Finished, FinishClose, FinishAndGoOn,
        Start
  <1>. QED
    BY <1>1, <1>2, <1>3, <1>4, <1>5, <1>6, <1>7, <1>8, <1>9
    DEF SaveInv, SaveTypeOK, Types, Flags

LEMMA QuitKeeps ==
  ASSUME SaveInv, Quit
  PROVE  SaveInv'
  <1>1. Types'
    BY TypesUnfold DEF SaveInv, Types, files, worker, bounds, Quit
  <1>2. StepsMatch'
    BY DEF SaveInv, StepsMatch, worker, Quit
  <1>3. KnownWritten'
    BY DEF SaveInv, KnownWritten, files, Quit
  <1>4. SaveInOrder'
    BY DEF SaveInv, SaveInOrder, Took, Replaced, files, worker, Quit
  <1>5. GenerationsInOrder'
    BY DEF SaveInv, GenerationsInOrder, Busy, Quit
  <1>6. NoticesInSave'
    BY DEF SaveInv, Took, NoticesInSave, Busy, files, worker, Quit
  <1>7. GenerationsCounted'
    BY DEF SaveInv, Took, GenerationsCounted, files, worker, Quit
  <1>8. LabelInv'
    BY DEF SaveInv, LabelInv, SavedShownIsSaved, Busy, files, Quit
  <1>9. Flags'
    BY Zenon DEF Flags, Quit
  <1>. QED
    BY <1>1, <1>2, <1>3, <1>4, <1>5, <1>6, <1>7, <1>8, <1>9
    DEF SaveInv, SaveTypeOK, Types, Flags

LEMMA LastSaveKeeps ==
  ASSUME SaveInv, LastSave
  PROVE  SaveInv'
  <1>1. Types'
    BY TypesUnfold, BoundsNat DEF SaveInv, Types, queue, worker, LastSave
  <1>2. StepsMatch'
    BY DEF SaveInv, StepsMatch, queue, worker, LastSave, WorkerDone
  <1>3. KnownWritten'
    BY DEF SaveInv, KnownWritten, LastSave
  <1>4. SaveInOrder'
    BY DEF SaveInv, SaveInOrder, Took, Replaced, queue, worker, LastSave
  <1>5. GenerationsInOrder'
    BY DEF GenerationsInOrder, LastSave
  <1>6. NoticesInSave'
    BY DEF NoticesInSave, LastSave
  <1>7. GenerationsCounted'
    BY TypesUnfold DEF SaveInv, Types, GenerationsCounted, worker, LastSave
  <1>8. LabelInv'
    BY DEF LabelInv, SavedShownIsSaved, LastSave
  <1>9. Flags'
    BY Zenon DEF SaveInv, SaveTypeOK, Flags, LastSave
  <1>. QED
    BY <1>1, <1>2, <1>3, <1>4, <1>5, <1>6, <1>7, <1>8, <1>9
    DEF SaveInv, SaveTypeOK, Types, Flags

-----------------------------------------------------------------------------
(* The invariant holds *)

LEMMA SaveInit == Init => SaveInv
  <1>. SUFFICES ASSUME Init PROVE SaveInv
    OBVIOUS
  <1>1. Types
    BY BoundsNat, SaveBoundAssumption DEF Init, Types, Kinds, UserKinds, Steps
  <1>2. Flags
    BY Zenon DEF Init, Flags
  <1>3. StepsMatch /\ KnownWritten /\ SaveInOrder
    BY RequestAssumption
    DEF Init, StepsMatch, KnownWritten, SaveInOrder, Took, Replaced, Kinds,
        UserKinds
  <1>4. GenerationsInOrder /\ NoticesInSave /\ GenerationsCounted /\ LabelInv
    BY DEF Init, GenerationsInOrder, NoticesInSave, GenerationsCounted,
           LabelInv, Took, Busy, SavedShownIsSaved
  <1>. QED
    BY <1>1, <1>2, <1>3, <1>4 DEF SaveInv, SaveTypeOK, Types, Flags

LEMMA SaveStep == SaveInv /\ [Next]_vars => SaveInv'
  <1>. SUFFICES ASSUME SaveInv, [Next]_vars PROVE SaveInv'
    OBVIOUS
  <1>1. CASE UNCHANGED vars
    BY <1>1
    DEF vars, files, queue, worker, bounds, SaveInv, SaveTypeOK, StepsMatch,
        KnownWritten, SaveInOrder, Took, Replaced, GenerationsInOrder,
        NoticesInSave, GenerationsCounted, LabelInv, SavedShownIsSaved, Busy
  <1>2. CASE Worker
    BY <1>2, PrepareKeeps, BeginSaveKeeps, StageImageKeeps, PackKeeps,
       CompareKeeps, RaiseKeeps
    DEF Worker
  <1>. QED
    BY <1>1, <1>2, EditKeeps, MarkDirtyKeeps, OpenProjectKeeps, RequestKeeps,
       AutoSaveKeeps, IdleTimerKeeps, FinishedKeeps, QuitKeeps, LastSaveKeeps
    DEF Next

LEMMA SaveInvariant == Spec => []SaveInv
  BY SaveInit, SaveStep, PTL DEF Spec

-----------------------------------------------------------------------------
(* What it implies *)

\* Every variable of the controller has its type; the generations stay below
\* twice the writes, whatever is merged into them.
THEOREM SaveTypeCorrect == Spec => []SaveTypeOK
  <1>1. SaveInv => SaveTypeOK
    BY DEF SaveInv
  <1>. QED
    BY <1>1, SaveInvariant, PTL

\* _operation_finished shows "saved" only when the package holds every write
\* the watcher told the controller of, whatever arrived during the save.
THEOREM SavedIsTrue == Spec => []SavedShownIsSaved
  <1>1. SaveInv => SavedShownIsSaved
    BY DEF SaveInv, LabelInv
  <1>. QED
    BY <1>1, SaveInvariant, PTL

\* closeProject() and shutdown never take the extracted directory from under
\* the operation that the worker thread runs.
THEOREM ProjectOutlivesOperation == Spec => []OperationKeepsProject
  <1>1. SaveInv => OperationKeepsProject
    BY DEF SaveInv, StepsMatch, OperationKeepsProject
  <1>. QED
    BY <1>1, SaveInvariant, PTL

\* A close gives the project up only with every write the user made before
\* asking for it in the package, also when the request waited behind a save
\* or an earlier try of it failed.
THEOREM CloseIsSafe == Spec => CloseKeepsEdits
  <1>. DEFINE Closes == project = "open" /\ project' = "none" /\ ~quitting
  <1>1. ASSUME SaveInv, Next, Closes PROVE packaged >= closing
    <2>1. Finished /\ ClosesNow
      BY <1>1
      DEF Next, Edit, MarkDirty, OpenProject, Request, AutoSave, IdleTimer,
          Worker, Prepare, BeginSave, StageImage, Pack, Compare, Raise, Work,
          Finished, FinishAndGoOn, Quit, LastSave
    <2>2. active = "close" /\ result \in {"saved", "changed"}
      BY <1>1, <2>1, TypesUnfold
      DEF Finished, ClosesNow, SaveInv, StepsMatch, Types
    <2>3. closing <= before /\ before <= packaged
      BY <1>1, <2>2 DEF SaveInv, SaveInOrder, Took, Replaced
    <2>. QED
      BY <1>1, <2>3, TypesUnfold, BoundsNat DEF SaveInv, Types
  <1>2. SaveInv /\ [Next]_vars => [Closes => packaged >= closing]_vars
    BY <1>1
  <1>. QED
    BY <1>2, SaveInvariant, PTL DEF Spec, CloseKeepsEdits

=============================================================================
