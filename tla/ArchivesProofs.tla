---------------------------- MODULE ArchivesProofs ----------------------------
(***************************************************************************)
(* Proofs about the archives and the permanent deletions they license: types,  *)
(* ManifestTrue, DeletedIsGone and LostOnlyIfDropped, for any files, any number *)
(* of archives and any number of deaths.                                      *)
(***************************************************************************)
EXTENDS Archives, TLAPS

\* What the bounds are: nothing else is assumed of the constants.
Bounds == MaxArchives \in Nat /\ MaxDeaths \in Nat

-----------------------------------------------------------------------------
(* Types *)

StepStatus == {"none", "pending", "completed", "failed", "rolled back"}

LEMMA Constructors ==
    /\ NoArchive \in Archive /\ NoDeletion \in Deletion
    /\ \A pc \in {"none", "sent", "ended", "undo sent"} : At(pc) \in Work
BY DEF NoArchive, Archive, NoDeletion, Deletion, At, Work, Statuses

LEMMA TypeInit == ASSUME Bounds PROVE Init => TypeOK
<1> SUFFICES ASSUME Init PROVE TypeOK
  OBVIOUS
<1>1. /\ drive \in [Files -> Places] /\ row \in [Files -> {"here", "trash", "deleted"}]
      /\ object \in [Archives -> SUBSET Files]
      /\ step \in [Archives -> [Files -> StepStatus]]
  BY DEF Init, Places, StepStatus
<1>2. archive \in [Archives -> Archive] /\ work \in [Archives -> Work] /\ deletion \in Deletion
  BY Constructors DEF Init
<1>3. dropping \subseteq Archives /\ dropped \subseteq Archives /\ deaths \in 0 .. MaxDeaths
  BY DEF Bounds, Init
<1> QED
  BY <1>1, <1>2, <1>3 DEF TypeOK, StepStatus

\* The records that are changed in a field or two.
LEMMA Updates ==
    ASSUME TypeOK, NEW a \in Archives
    PROVE  /\ work[a] \in Work /\ archive[a] \in Archive /\ work[a].got \in SUBSET Files
           /\ \A s \in Statuses : [archive[a] EXCEPT !.status = s] \in Archive
           /\ \A pc \in {"stored", "undo sent", "undone"} : [work[a] EXCEPT !.pc = pc] \in Work
           /\ \A f \in Files, got \in SUBSET Files :
                 [work[a] EXCEPT !.left = work[a].left \ {f}, !.got = work[a].got \cup got] \in Work
           /\ [f \in Files |-> Verdict(a, f)] \in [Files -> StepStatus]
<1>1. work[a] \in Work /\ archive[a] \in Archive
  BY DEF TypeOK
<1>2. work[a].got \in SUBSET Files
  BY <1>1 DEF Work
<1>3. \A s \in Statuses : [archive[a] EXCEPT !.status = s] \in Archive
  BY <1>1 DEF Archive
<1>4. \A pc \in {"stored", "undo sent", "undone"} : [work[a] EXCEPT !.pc = pc] \in Work
  BY <1>1 DEF Work
<1>5. \A f \in Files, got \in SUBSET Files :
         [work[a] EXCEPT !.left = work[a].left \ {f}, !.got = work[a].got \cup got] \in Work
  BY <1>1 DEF Work
<1>6. [f \in Files |-> Verdict(a, f)] \in [Files -> StepStatus]
  BY DEF Verdict, TypeOK, StepStatus
<1> QED
  BY <1>1, <1>2, <1>3, <1>4, <1>5, <1>6

LEMMA OneMoreDeath ==
    ASSUME Bounds, TypeOK, deaths < MaxDeaths
    PROVE  deaths + 1 \in 0 .. MaxDeaths
<1>1. deaths \in 0 .. MaxDeaths
  BY DEF TypeOK
<1> QED
  BY <1>1 DEF Bounds

\* Drive, the rows of files and the deletion: what each step leaves of their types.
LEMMA TypeDeletion == ASSUME TypeOK, [Next]_vars PROVE deletion' \in Deletion
<1>0. deletion \in Deletion
  BY DEF TypeOK
<1>1. /\ \A pc \in {"running", "called"} : [deletion EXCEPT !.pc = pc] \in Deletion
      /\ \A f \in Files : [deletion EXCEPT !.pc = "checked", !.file = {f}] \in Deletion
      /\ [deletion EXCEPT !.pc = "running", !.file = {}] \in Deletion
      /\ \A f \in Files : [pc |-> "running", left |-> deletion.left \ {f}, file |-> {}] \in Deletion
      /\ \A fs \in SUBSET Files : [pc |-> "waiting", left |-> fs, file |-> {}] \in Deletion
  BY <1>0 DEF Deletion
<1>2. ASSUME NEW f \in Files, ChecksFile(f) \/ DeletesFile(f) \/ RecordsDeletion(f) \/ StepFails(f)
      PROVE  deletion' \in Deletion
  BY <1>1, <1>2 DEF ChecksFile, DeletesFile, RecordsDeletion, StepFails
<1>3. ASSUME \/ \E fs \in SUBSET Files : PlansDeletion(fs)
             \/ Decides \/ EndsDeletion \/ DeletionDies
      PROVE  deletion' \in Deletion
  BY <1>1, <1>3, Constructors DEF PlansDeletion, Decides, EndsDeletion, DeletionDies
<1>4. ASSUME UNCHANGED deletion
      PROVE  deletion' \in Deletion
  BY <1>0, <1>4
<1>5. ASSUME NEW f \in Files, EngineTrashes(f) \/ EngineRestores(f) \/ UserTakes(f)
      PROVE  UNCHANGED deletion
  BY <1>5 DEF EngineTrashes, EngineRestores, UserTakes
<1>6. ASSUME NEW a \in Archives,
             \/ StartsBatch(a) \/ StoresObject(a) \/ CompletesBatch(a) \/ FailsBatch(a)
             \/ (\E f \in Files : Fetches(a, f)) \/ (\E fs \in SUBSET Files : Orders(a, fs))
             \/ OrdersRollback(a) \/ RollsBack(a) \/ CommitsRollback(a) \/ RollbackFails(a)
             \/ EndsRollback(a) \/ DeletesObject(a) \/ MarksDeleted(a)
             \/ WorkerDies(a) \/ RequestDies(a)
      PROVE  UNCHANGED deletion
  BY <1>6 DEF StartsBatch, StoresObject, CompletesBatch, FailsBatch, Fetches, Orders,
              OrdersRollback, RollsBack, CommitsRollback, RollbackFails, EndsRollback,
              DeletesObject, MarksDeleted, WorkerDies, RequestDies
<1> QED
  BY <1>2, <1>3, <1>4, <1>5, <1>6 DEF Next, vars

\* What the steps of one file change.
LEMMA TypeFile ==
    ASSUME Bounds, TypeOK, deletion' \in Deletion, NEW f \in Files,
           \/ EngineTrashes(f) \/ EngineRestores(f) \/ UserTakes(f)
           \/ ChecksFile(f) \/ DeletesFile(f) \/ RecordsDeletion(f) \/ StepFails(f)
    PROVE  TypeOK'
<1>1. UNCHANGED <<batchVars, deaths>>
  BY DEF EngineTrashes, EngineRestores, UserTakes, ChecksFile, DeletesFile, RecordsDeletion,
         StepFails
<1>2. drive' \in [Files -> Places] /\ row' \in [Files -> {"here", "trash", "deleted"}]
  BY DEF TypeOK, EngineTrashes, EngineRestores, UserTakes, ChecksFile, DeletesFile,
         RecordsDeletion, StepFails, Places
<1> QED
  BY <1>1, <1>2 DEF TypeOK, batchVars

\* What the steps of one archive change.
LEMMA TypeArchive ==
    ASSUME Bounds, TypeOK, NEW a \in Archives,
           \/ StartsBatch(a) \/ StoresObject(a) \/ CompletesBatch(a) \/ FailsBatch(a)
           \/ (\E f \in Files : Fetches(a, f)) \/ (\E fs \in SUBSET Files : Orders(a, fs))
           \/ OrdersRollback(a) \/ RollsBack(a) \/ CommitsRollback(a) \/ RollbackFails(a)
           \/ EndsRollback(a) \/ DeletesObject(a) \/ MarksDeleted(a)
           \/ WorkerDies(a) \/ RequestDies(a)
    PROVE  TypeOK'
<1>0. deaths < MaxDeaths => deaths + 1 \in 0 .. MaxDeaths
  BY OneMoreDeath
<1> USE DEF TypeOK
<1>1. ASSUME NEW fs \in SUBSET Files, Orders(a, fs) PROVE TypeOK'
  <2>1. [f \in Files |-> IF f \in fs THEN "pending" ELSE "none"] \in [Files -> StepStatus]
    BY DEF StepStatus
  <2> QED BY <1>1, <2>1, Constructors DEF Orders, StepStatus
<1>2. CASE StartsBatch(a)
  <2>1. [pc |-> "fetching", left |-> Steps(a, "pending"), got |-> {}] \in Work
    BY DEF Work, Steps
  <2>2. "creating" \in Statuses
    BY DEF Statuses
  <2>3. archive' \in [Archives -> Archive] /\ work' \in [Archives -> Work]
    BY <1>2, <2>1, <2>2, Updates DEF StartsBatch
  <2> QED BY <1>2, <2>3 DEF StartsBatch
<1>3. ASSUME NEW f \in Files, Fetches(a, f) PROVE TypeOK'
  <2>1. PICK got \in {{f}, {}} :
           work' = [work EXCEPT ![a].left = @ \ {f}, ![a].got = @ \cup got]
    BY <1>3 DEF Fetches
  <2>2. work' = [work EXCEPT ![a] =
                   [work[a] EXCEPT !.left = work[a].left \ {f}, !.got = work[a].got \cup got]]
    BY <2>1
  <2>3. [work[a] EXCEPT !.left = work[a].left \ {f}, !.got = work[a].got \cup got] \in Work
    BY Updates
  <2>4. work' \in [Archives -> Work]
    BY <2>2, <2>3
  <2> QED BY <1>3, <2>4 DEF Fetches
<1>4. CASE StoresObject(a)
  BY <1>4, Updates DEF StoresObject
<1>5. CASE CompletesBatch(a)
  <2>1. [status |-> "completed", key |-> TRUE, manifest |-> Manifest(a)] \in Archive
    BY Updates DEF Archive, Statuses, Manifest
  <2>2. [f \in Files |-> Verdict(a, f)] \in [Files -> StepStatus]
    BY Updates
  <2>3. archive' \in [Archives -> Archive] /\ work' \in [Archives -> Work]
    BY <1>5, <2>1, Constructors DEF CompletesBatch
  <2>4. step' \in [Archives -> [Files -> StepStatus]]
    BY <1>5, <2>2 DEF CompletesBatch, StepStatus
  <2> QED BY <1>5, <2>3, <2>4 DEF CompletesBatch, StepStatus
<1>6. CASE FailsBatch(a)
  <2>1. object' \in [Archives -> SUBSET Files]
    BY <1>6, Updates DEF FailsBatch
  <2>2. [f \in Files |-> IF step[a][f] = "pending" THEN "failed" ELSE step[a][f]]
           \in [Files -> StepStatus]
    BY DEF StepStatus
  <2>3. step' \in [Archives -> [Files -> StepStatus]]
    BY <1>6, <2>2 DEF FailsBatch, StepStatus
  <2>4. archive' = [archive EXCEPT ![a] = [archive[a] EXCEPT !.status = "failed"]]
    BY <1>6 DEF FailsBatch
  <2>5. [archive[a] EXCEPT !.status = "failed"] \in Archive
    BY Updates DEF Statuses
  <2>6. archive' \in [Archives -> Archive] /\ work' \in [Archives -> Work]
    BY <1>6, <2>4, <2>5, Constructors DEF FailsBatch
  <2> QED BY <1>6, <2>1, <2>3, <2>6 DEF FailsBatch, StepStatus
<1>7. CASE OrdersRollback(a) \/ RollsBack(a) \/ RollbackFails(a) \/ EndsRollback(a)
  <2>1. work' \in [Archives -> Work]
    BY <1>7, Updates, Constructors DEF OrdersRollback, RollsBack, RollbackFails, EndsRollback
  <2>2. object' \in [Archives -> SUBSET Files] /\ dropped' \subseteq Archives
    BY <1>7 DEF OrdersRollback, RollsBack, RollbackFails, EndsRollback
  <2> QED
    BY <1>7, <2>1, <2>2 DEF OrdersRollback, RollsBack, RollbackFails, EndsRollback
<1>8. CASE CommitsRollback(a)
  <2>1. [archive[a] EXCEPT !.status = IF archive[a].status = "completed" THEN "failed"
                                      ELSE archive[a].status] \in Archive
    BY Updates DEF Archive, Statuses
  <2>2. archive' \in [Archives -> Archive] /\ work' \in [Archives -> Work]
    <3>1. archive' = [archive EXCEPT ![a] =
             [archive[a] EXCEPT !.status = IF archive[a].status = "completed" THEN "failed"
                                           ELSE archive[a].status]]
      BY <1>8 DEF CommitsRollback
    <3>2. work' = [work EXCEPT ![a] = [work[a] EXCEPT !.pc = "undo sent"]]
      BY <1>8 DEF CommitsRollback
    <3>3. archive' \in [Archives -> Archive]
      BY <2>1, <3>1
    <3> QED BY <3>2, <3>3, Updates
  <2>3. step' \in [Archives -> [Files -> StepStatus]]
    <3>1. PICK f \in Files : step' = [step EXCEPT ![a][f] = "rolled back"]
      BY <1>8 DEF CommitsRollback, Steps
    <3>2. [step[a] EXCEPT ![f] = "rolled back"] \in [Files -> StepStatus]
      BY DEF StepStatus
    <3> QED BY <3>1, <3>2 DEF StepStatus
  <2> QED BY <1>8, <2>2, <2>3 DEF CommitsRollback, StepStatus
<1>9. CASE DeletesObject(a) \/ RequestDies(a)
  BY <1>0, <1>9 DEF DeletesObject, RequestDies
<1>10. CASE MarksDeleted(a)
  <2>1. archive' = [archive EXCEPT ![a] = [archive[a] EXCEPT !.status = "deleted"]]
    BY <1>10 DEF MarksDeleted
  <2>2. [archive[a] EXCEPT !.status = "deleted"] \in Archive
    BY Updates DEF Statuses
  <2>3. archive' \in [Archives -> Archive]
    BY <2>1, <2>2
  <2> QED BY <1>10, <2>3 DEF MarksDeleted
<1>11. CASE WorkerDies(a)
  <2>1. work' \in [Archives -> Work]
    BY <1>11, Updates, Constructors DEF WorkerDies
  <2> QED BY <1>0, <1>11, <2>1 DEF WorkerDies
<1> QED
  BY <1>1, <1>2, <1>3, <1>4, <1>5, <1>6, <1>7, <1>8, <1>9, <1>10, <1>11

LEMMA TypeStep == ASSUME Bounds PROVE TypeOK /\ [Next]_vars => TypeOK'
<1> SUFFICES ASSUME TypeOK, [Next]_vars PROVE TypeOK'
  OBVIOUS
<1>0. deletion' \in Deletion
  BY TypeDeletion
<1>1. CASE \E fs \in SUBSET Files : PlansDeletion(fs)
  BY <1>0, <1>1 DEF TypeOK, PlansDeletion
<1>2. CASE Decides \/ EndsDeletion
  BY <1>0, <1>2 DEF TypeOK, Decides, EndsDeletion, batchVars
<1>3. CASE DeletionDies
  <2>1. deaths' \in 0 .. MaxDeaths
    BY <1>3, OneMoreDeath DEF DeletionDies
  <2> QED BY <1>0, <1>3, <2>1 DEF TypeOK, DeletionDies, batchVars
<1>4. CASE UNCHANGED vars
  BY <1>4 DEF TypeOK, vars, batchVars
<1> QED
  BY <1>0, <1>1, <1>2, <1>3, <1>4, TypeFile, TypeArchive DEF Next

(***************************************************************************)
(* Every row, object, step and job in hand has its type.                      *)
(***************************************************************************)
THEOREM TypeCorrect ==
    ASSUME Bounds
    PROVE  Spec => []TypeOK
<1> QED
  BY TypeInit, TypeStep, PTL DEF Spec

-----------------------------------------------------------------------------
(* The store, the rows and the licence to delete *)

\* The pcs of a batch that is not decided yet, of which nothing is archived.
Early == {"none", "sent", "fetching", "stored"}

(***************************************************************************)
(* The inductive invariant, archive by archive. A batch that is not decided   *)
(* has an empty row and no decided step, whatever its archive's deletion has    *)
(* made of the status; one that is decided has no pending step. What is about  *)
(* to be written to the row is what was put in the store.                     *)
(***************************************************************************)
BatchInv(a) ==
    /\ work[a].pc \in Early =>
          /\ ~ archive[a].key /\ archive[a].status # "completed" /\ archive[a].manifest = {}
          /\ \A f \in Files : step[a][f] \notin {"completed", "failed"}
    /\ work[a].pc \notin Early => \A f \in Files : step[a][f] # "pending"
    /\ work[a].pc = "stored" => object[a] = work[a].got
    /\ archive[a].status = "completed" => archive[a].key
    /\ \A f \in Files : step[a][f] = "completed" => f \in archive[a].manifest

\* Before the object of a completed archive is touched, the archive is dropped, and
\* stays so until its row says it.
StoreInv(a) ==
    /\ archive[a].status = "completed" => a \in dropped \/ object[a] = archive[a].manifest
    /\ a \in dropping => a \in dropped
    /\ work[a].pc = "undone" /\ archive[a].status = "completed" => a \in dropped

\* Each file that is still to be deleted is in a completed archive, or in one that was
\* when the deletion was planned and has been dropped since.
Licensed(f) ==
    \E a \in Archives : /\ f \in archive[a].manifest
                        /\ archive[a].status = "completed" \/ a \in dropped

DeletionInv ==
    /\ DeletedIsGone
    /\ deletion.pc = "called" => \A f \in deletion.file : drive[f] = "deleted"
    /\ deletion.file \subseteq deletion.left
    /\ \A f \in deletion.left : Licensed(f)

ArchivesInv == (\A a \in Archives : BatchInv(a) /\ StoreInv(a)) /\ DeletionInv

\* The steps of one archive, its worker's and its deletion's.
ArchiveStep(a) ==
    \/ StartsBatch(a) \/ StoresObject(a) \/ CompletesBatch(a) \/ FailsBatch(a)
    \/ OrdersRollback(a) \/ RollsBack(a) \/ CommitsRollback(a) \/ RollbackFails(a)
    \/ EndsRollback(a) \/ DeletesObject(a) \/ MarksDeleted(a) \/ WorkerDies(a) \/ RequestDies(a)
    \/ (\E f \in Files : Fetches(a, f)) \/ (\E fs \in SUBSET Files : Orders(a, fs))

\* They leave the files and the other archives alone, and take nothing from "dropped".
LEMMA ArchiveFrame ==
    ASSUME TypeOK, NEW a \in Archives, ArchiveStep(a)
    PROVE  /\ UNCHANGED <<drive, row, deletion>> /\ dropped \subseteq dropped'
           /\ \A b \in Archives : b # a =>
                 /\ archive'[b] = archive[b] /\ object'[b] = object[b]
                 /\ step'[b] = step[b] /\ work'[b] = work[b]
                 /\ (b \in dropping' <=> b \in dropping) /\ (b \in dropped' <=> b \in dropped)
<1>1. ASSUME \/ StartsBatch(a) \/ StoresObject(a) \/ CompletesBatch(a) \/ FailsBatch(a)
             \/ (\E f \in Files : Fetches(a, f)) \/ (\E fs \in SUBSET Files : Orders(a, fs))
      PROVE  /\ UNCHANGED <<drive, row, deletion, dropping, dropped>>
             /\ \A b \in Archives : b # a =>
                   /\ archive'[b] = archive[b] /\ object'[b] = object[b]
                   /\ step'[b] = step[b] /\ work'[b] = work[b]
  BY <1>1 DEF TypeOK, StartsBatch, StoresObject, CompletesBatch, FailsBatch, Fetches, Orders
<1>2. ASSUME \/ OrdersRollback(a) \/ RollsBack(a) \/ RollbackFails(a) \/ EndsRollback(a)
             \/ DeletesObject(a) \/ MarksDeleted(a) \/ WorkerDies(a) \/ RequestDies(a)
      PROVE  /\ UNCHANGED <<drive, row, deletion>> /\ dropped \subseteq dropped'
             /\ \A b \in Archives : b # a =>
                   /\ archive'[b] = archive[b] /\ object'[b] = object[b]
                   /\ step'[b] = step[b] /\ work'[b] = work[b]
                   /\ (b \in dropping' <=> b \in dropping) /\ (b \in dropped' <=> b \in dropped)
  BY <1>2 DEF TypeOK, OrdersRollback, RollsBack, RollbackFails, EndsRollback, DeletesObject,
              MarksDeleted, WorkerDies, RequestDies
<1>3. ASSUME CommitsRollback(a)
      PROVE  /\ UNCHANGED <<drive, row, deletion, dropping, dropped>>
             /\ \A b \in Archives : b # a =>
                   /\ archive'[b] = archive[b] /\ object'[b] = object[b]
                   /\ step'[b] = step[b] /\ work'[b] = work[b]
  BY <1>3 DEF TypeOK, CommitsRollback
<1> QED
  BY <1>1, <1>2, <1>3 DEF ArchiveStep

\* What a step of a batch that is not decided makes of its archive.
LEMMA EarlyShape ==
    ASSUME TypeOK, NEW a \in Archives, BatchInv(a),
           \/ StartsBatch(a) \/ StoresObject(a) \/ (\E f \in Files : Fetches(a, f))
           \/ (\E fs \in SUBSET Files : Orders(a, fs))
    PROVE  /\ work[a].pc \in Early /\ work'[a].pc \in Early
           /\ archive'[a].key = archive[a].key /\ archive'[a].manifest = archive[a].manifest
           /\ archive'[a].status # "completed"
           /\ \A f \in Files : step'[a][f] \notin {"completed", "failed"}
           /\ work'[a].pc = "stored" => object'[a] = work'[a].got
           /\ UNCHANGED <<dropping, dropped>>
<1>0. work[a] \in Work /\ archive[a] \in Archive
  BY Updates
<1>1. CASE StartsBatch(a)
  <2>1. /\ archive'[a] = [archive[a] EXCEPT !.status = "creating"]
        /\ work'[a] = [pc |-> "fetching", left |-> Steps(a, "pending"), got |-> {}]
        /\ work[a].pc = "sent" /\ UNCHANGED <<step, dropping, dropped>>
    BY <1>1 DEF TypeOK, StartsBatch
  <2> QED BY <1>0, <2>1 DEF BatchInv, Early, Archive
<1>2. CASE StoresObject(a)
  <2>1. /\ object'[a] = work[a].got /\ work'[a] = [work[a] EXCEPT !.pc = "stored"]
        /\ work[a].pc = "fetching" /\ UNCHANGED <<archive, step, dropping, dropped>>
    BY <1>2 DEF TypeOK, StoresObject
  <2>2. work'[a].pc = "stored" /\ work'[a].got = work[a].got
    BY <1>0, <2>1 DEF Work
  <2> QED BY <2>1, <2>2 DEF BatchInv, Early
<1>3. CASE \E f \in Files : Fetches(a, f)
  <2>0. PICK f \in Files : Fetches(a, f)
    BY <1>3
  <2>1. PICK got \in {{f}, {}} :
           work' = [work EXCEPT ![a].left = @ \ {f}, ![a].got = @ \cup got]
    BY <2>0 DEF Fetches
  <2>2. work[a].pc = "fetching" /\ UNCHANGED <<archive, object, step, dropping, dropped>>
    BY <2>0 DEF Fetches
  <2>3. work'[a] = [work[a] EXCEPT !.left = work[a].left \ {f}, !.got = work[a].got \cup got]
    BY <2>1 DEF TypeOK
  <2>4. work'[a].pc = "fetching"
    BY <1>0, <2>2, <2>3 DEF Work
  <2> QED BY <2>2, <2>4 DEF BatchInv, Early
<1>4. CASE \E fs \in SUBSET Files : Orders(a, fs)
  <2>0. PICK fs \in SUBSET Files : Orders(a, fs)
    BY <1>4
  <2>1. /\ work'[a].pc = "sent" /\ work[a].pc = "none"
        /\ UNCHANGED <<archive, object, dropping, dropped>>
    BY <2>0 DEF TypeOK, Orders, At
  <2>2. step'[a] = [f \in Files |-> IF f \in fs THEN "pending" ELSE "none"]
    BY <2>0 DEF TypeOK, Orders
  <2> QED BY <2>1, <2>2 DEF BatchInv, Early
<1> QED
  BY <1>1, <1>2, <1>3, <1>4

\* What deciding a batch makes of it.
LEMMA DecidedShape ==
    ASSUME TypeOK, NEW a \in Archives, BatchInv(a), CompletesBatch(a) \/ FailsBatch(a)
    PROVE  /\ work[a].pc \in Early /\ work'[a].pc = "ended"
           /\ archive'[a].status = "completed" =>
                 archive'[a].key /\ object'[a] = archive'[a].manifest
           /\ \A f \in Files : /\ step'[a][f] # "pending"
                               /\ step'[a][f] = "completed" => f \in archive'[a].manifest
           /\ UNCHANGED <<dropping, dropped>>
<1>0. work[a] \in Work /\ archive[a] \in Archive
  BY Updates
<1>1. CASE CompletesBatch(a)
  <2>1. /\ archive'[a] = [status |-> "completed", key |-> TRUE, manifest |-> work[a].got]
        /\ \A f \in Files : step'[a][f] = Verdict(a, f)
        /\ work[a].pc = "stored" /\ work'[a].pc = "ended"
        /\ UNCHANGED <<object, dropping, dropped>>
    BY <1>1 DEF TypeOK, CompletesBatch, Manifest, At
  <2> QED BY <2>1 DEF BatchInv, Early, Verdict
<1>2. CASE FailsBatch(a)
  <2>1. /\ archive'[a] = [archive[a] EXCEPT !.status = "failed"]
        /\ \A f \in Files : step'[a][f] = IF step[a][f] = "pending" THEN "failed" ELSE step[a][f]
        /\ work[a].pc = "fetching" /\ work'[a].pc = "ended"
        /\ UNCHANGED <<dropping, dropped>>
    BY <1>2 DEF TypeOK, FailsBatch, At
  <2>2. archive'[a].status = "failed" /\ \A f \in Files : step'[a][f] \notin {"pending", "completed"}
    BY <1>0, <2>1 DEF BatchInv, Early, Archive
  <2> QED BY <2>1, <2>2 DEF Early
<1> QED
  BY <1>1, <1>2

\* What the rollback of a decided batch makes of its archive.
LEMMA RollbackShape ==
    ASSUME TypeOK, NEW a \in Archives, BatchInv(a), StoreInv(a),
           \/ OrdersRollback(a) \/ RollsBack(a) \/ CommitsRollback(a) \/ RollbackFails(a)
           \/ EndsRollback(a)
    PROVE  /\ work[a].pc \notin Early /\ work'[a].pc \notin Early
           /\ archive'[a].key = archive[a].key /\ archive'[a].manifest = archive[a].manifest
           /\ \A f \in Files : step'[a][f] = step[a][f] \/ step'[a][f] = "rolled back"
           /\ \/ archive'[a].status = archive[a].status
              \/ archive'[a].status = "failed" /\ (archive[a].status = "completed" => a \in dropped)
           /\ object'[a] = object[a] \/ a \in dropped'
           /\ work'[a].pc = "undone" /\ archive'[a].status = "completed" => a \in dropped'
           /\ UNCHANGED dropping
<1>0. work[a] \in Work /\ archive[a] \in Archive /\ step[a] \in [Files -> StepStatus]
  BY Updates DEF TypeOK, StepStatus
<1>1. CASE OrdersRollback(a) \/ EndsRollback(a) \/ RollbackFails(a)
  <2>1. /\ work[a].pc \in {"ended", "undo sent", "undone"}
        /\ work'[a].pc \in {"ended", "undo sent"}
        /\ UNCHANGED <<archive, object, step, dropping, dropped>>
    <3>1. CASE OrdersRollback(a) \/ EndsRollback(a)
      <4>1. work'[a] \in {At("ended"), At("undo sent")} /\ work[a].pc \in {"ended", "undo sent"}
        BY <3>1 DEF TypeOK, OrdersRollback, EndsRollback
      <4>2. work'[a].pc \in {"ended", "undo sent"}
        <5>1. \A pc \in {"ended", "undo sent"} : At(pc).pc = pc
          BY DEF At
        <5> QED BY <4>1, <5>1
      <4>3. UNCHANGED <<archive, object, step, dropping, dropped>>
        BY <3>1 DEF OrdersRollback, EndsRollback
      <4> QED BY <4>1, <4>2, <4>3
    <3>2. CASE RollbackFails(a)
      <4>1. work'[a] = [work[a] EXCEPT !.pc = "undo sent"]
        BY <3>2 DEF TypeOK, RollbackFails
      <4>2. work'[a].pc = "undo sent"
        BY <1>0, <4>1 DEF Work
      <4> QED BY <3>2, <4>2 DEF RollbackFails
    <3> QED BY <1>1, <3>1, <3>2
  <2> QED BY <2>1 DEF Early
<1>2. CASE RollsBack(a)
  <2>1. /\ work[a].pc = "undo sent" /\ work'[a].pc = "undone"
        /\ UNCHANGED <<archive, step, dropping>>
    BY <1>0, <1>2 DEF TypeOK, RollsBack, Work
  <2>2. \/ a \in dropped'
        \/ UNCHANGED <<object, dropped>> /\ ~ (archive[a].status = "completed" /\ archive[a].key)
    BY <1>2 DEF RollsBack
  <2>3. archive[a].status = "completed" => archive[a].key
    BY DEF BatchInv
  <2> QED BY <2>1, <2>2, <2>3 DEF Early
<1>3. CASE CommitsRollback(a)
  <2>1. /\ work[a].pc = "undone" /\ work'[a].pc = "undo sent"
        /\ UNCHANGED <<object, dropping, dropped>>
    BY <1>0, <1>3 DEF TypeOK, CommitsRollback, Work
  <2>2. archive'[a] = [archive[a] EXCEPT !.status = IF archive[a].status = "completed" THEN "failed"
                                                     ELSE archive[a].status]
    BY <1>3 DEF TypeOK, CommitsRollback
  <2>3. PICK g \in Files : step' = [step EXCEPT ![a][g] = "rolled back"]
    BY <1>3 DEF CommitsRollback, Steps
  <2>4. \A f \in Files : step'[a][f] = step[a][f] \/ step'[a][f] = "rolled back"
    BY <1>0, <2>3 DEF TypeOK
  <2>5. /\ archive'[a].key = archive[a].key /\ archive'[a].manifest = archive[a].manifest
        /\ \/ archive'[a].status = archive[a].status
           \/ archive'[a].status = "failed" /\ archive[a].status = "completed"
    BY <1>0, <2>2 DEF Archive
  <2> QED BY <2>1, <2>4, <2>5 DEF StoreInv, Early
<1> QED
  BY <1>1, <1>2, <1>3

\* What a user's deletion of an archive, or the death of its worker, makes of it.
LEMMA DropShape ==
    ASSUME TypeOK, NEW a \in Archives, BatchInv(a), StoreInv(a),
           DeletesObject(a) \/ MarksDeleted(a) \/ WorkerDies(a) \/ RequestDies(a)
    PROVE  /\ work'[a].pc \in Early <=> work[a].pc \in Early
           /\ archive'[a].key = archive[a].key /\ archive'[a].manifest = archive[a].manifest
           /\ \/ archive'[a].status = archive[a].status
              \/ archive'[a].status = "deleted" /\ a \in dropped
           /\ UNCHANGED step
           /\ object'[a] = object[a] \/ (archive[a].key /\ a \in dropped')
           /\ work'[a].pc = "stored" => work[a].pc = "stored" /\ work'[a].got = work[a].got
           /\ work'[a].pc = "undone" => work[a].pc = "undone"
           /\ a \in dropping' => a \in dropped'
<1>0. work[a] \in Work /\ archive[a] \in Archive
  BY Updates
<1>1. CASE DeletesObject(a)
  BY <1>1 DEF TypeOK, DeletesObject
<1>2. CASE MarksDeleted(a)
  <2>1. /\ archive'[a] = [archive[a] EXCEPT !.status = "deleted"]
        /\ a \in dropping /\ a \notin dropping' /\ UNCHANGED <<work, step, object, dropped>>
    BY <1>2 DEF TypeOK, MarksDeleted
  <2> QED BY <1>0, <2>1 DEF StoreInv, Archive
<1>3. CASE WorkerDies(a)
  <2>1. /\ UNCHANGED <<archive, step, object, dropping, dropped>>
        /\ \/ work[a].pc \in {"fetching", "stored"} /\ work'[a].pc = "sent"
           \/ work[a].pc = "undone" /\ work'[a].pc = "undo sent"
    <3>1. CASE work[a].pc = "undone"
      <4>1. work' = [work EXCEPT ![a].pc = "undo sent"]
        BY <1>3, <3>1 DEF WorkerDies
      <4>2. work'[a].pc = "undo sent"
        BY <1>0, <4>1 DEF TypeOK, Work
      <4> QED BY <1>3, <3>1, <4>2 DEF WorkerDies
    <3>2. CASE work[a].pc # "undone"
      <4>1. work[a].pc \in {"fetching", "stored"} /\ work' = [work EXCEPT ![a] = At("sent")]
        BY <1>3, <3>2 DEF WorkerDies
      <4>2. work'[a].pc = "sent"
        BY <4>1 DEF TypeOK, At
      <4> QED BY <1>3, <4>1, <4>2 DEF WorkerDies
    <3> QED BY <3>1, <3>2
  <2>2. /\ work'[a].pc \in Early <=> work[a].pc \in Early
        /\ work'[a].pc # "stored" /\ work'[a].pc # "undone"
    BY <2>1 DEF Early
  <2>3. a \in dropping' => a \in dropped'
    BY <2>1 DEF StoreInv
  <2> QED BY <2>1, <2>2, <2>3
<1>4. CASE RequestDies(a)
  BY <1>4 DEF RequestDies, StoreInv
<1> QED
  BY <1>1, <1>2, <1>3, <1>4

\* A step of an archive keeps its part of the invariant, and every licence.
LEMMA ArchiveKeeps ==
    ASSUME TypeOK, ArchivesInv, NEW a \in Archives, ArchiveStep(a)
    PROVE  ArchivesInv'
<1>0. BatchInv(a) /\ StoreInv(a) /\ \A b \in Archives : BatchInv(b) /\ StoreInv(b)
  BY DEF ArchivesInv
<1>1. ASSUME NEW b \in Archives, b # a
      PROVE  BatchInv(b)' /\ StoreInv(b)'
  BY <1>0, <1>1, ArchiveFrame DEF BatchInv, StoreInv
<1>2. /\ BatchInv(a)' /\ StoreInv(a)'
      /\ \A f \in Files :
            /\ f \in archive[a].manifest
            /\ archive[a].status = "completed" \/ a \in dropped
            => /\ f \in archive'[a].manifest
               /\ archive'[a].status = "completed" \/ a \in dropped'
  <2>1. CASE \/ StartsBatch(a) \/ StoresObject(a) \/ (\E f \in Files : Fetches(a, f))
             \/ (\E fs \in SUBSET Files : Orders(a, fs))
    BY <1>0, <2>1, EarlyShape DEF BatchInv, StoreInv, Early
  <2>2. CASE CompletesBatch(a) \/ FailsBatch(a)
    BY <1>0, <2>2, DecidedShape DEF BatchInv, StoreInv, Early
  <2>3. CASE \/ OrdersRollback(a) \/ RollsBack(a) \/ CommitsRollback(a) \/ RollbackFails(a)
             \/ EndsRollback(a)
    <3>1. dropped \subseteq dropped'
      BY ArchiveFrame
    <3> QED BY <1>0, <2>3, <3>1, RollbackShape DEF BatchInv, StoreInv, Early
  <2>4. CASE DeletesObject(a) \/ MarksDeleted(a) \/ WorkerDies(a) \/ RequestDies(a)
    <3>1. dropped \subseteq dropped'
      BY ArchiveFrame
    <3> QED BY <1>0, <2>4, <3>1, DropShape DEF BatchInv, StoreInv, Early
  <2> QED BY <2>1, <2>2, <2>3, <2>4 DEF ArchiveStep
<1>3. ASSUME NEW f \in Files, Licensed(f)
      PROVE  Licensed(f)'
  BY <1>2, <1>3, ArchiveFrame DEF Licensed
<1>4. deletion.left \subseteq Files
  BY DEF TypeOK, Deletion
<1>5. DeletionInv'
  BY <1>3, <1>4, ArchiveFrame DEF ArchivesInv, DeletionInv, DeletedIsGone
<1> QED
  BY <1>1, <1>2, <1>5 DEF ArchivesInv

\* A step of one file leaves the archives alone, and a deleted file deleted.
LEMMA FileKeeps ==
    ASSUME TypeOK, ArchivesInv, NEW f \in Files,
           \/ EngineTrashes(f) \/ EngineRestores(f) \/ UserTakes(f)
           \/ ChecksFile(f) \/ DeletesFile(f) \/ RecordsDeletion(f) \/ StepFails(f)
    PROVE  ArchivesInv'
<1>0. deletion \in Deletion /\ DeletionInv
  BY DEF TypeOK, ArchivesInv
<1>1. UNCHANGED batchVars
  BY DEF EngineTrashes, EngineRestores, UserTakes, ChecksFile, DeletesFile, RecordsDeletion,
         StepFails
<1>2. \A a \in Archives : BatchInv(a)' /\ StoreInv(a)'
  BY <1>1 DEF ArchivesInv, BatchInv, StoreInv, batchVars
<1>3. /\ deletion'.left \subseteq deletion.left /\ deletion'.file \subseteq deletion'.left
      /\ deletion'.pc = "called" => \A g \in deletion'.file : drive'[g] = "deleted"
      /\ DeletedIsGone'
  <2>1. CASE EngineTrashes(f) \/ EngineRestores(f) \/ UserTakes(f)
    <3>1. /\ UNCHANGED deletion
          /\ \A g \in Files : drive[g] = "deleted" => drive'[g] = "deleted"
          /\ \A g \in Files : row'[g] = "deleted" => row[g] = "deleted"
      BY <2>1 DEF TypeOK, EngineTrashes, EngineRestores, UserTakes
    <3>2. deletion.file \subseteq Files
      BY <1>0 DEF Deletion
    <3> QED BY <1>0, <3>1, <3>2 DEF DeletionInv, DeletedIsGone
  <2>2. CASE ChecksFile(f)
    <3>1. deletion' = [deletion EXCEPT !.pc = "checked", !.file = {f}] /\ UNCHANGED <<drive, row>>
      BY <2>2 DEF ChecksFile
    <3>2. deletion'.pc = "checked" /\ deletion'.file = {f} /\ deletion'.left = deletion.left
      BY <1>0, <3>1 DEF Deletion
    <3> QED BY <1>0, <2>2, <3>1, <3>2 DEF ChecksFile, DeletionInv, DeletedIsGone
  <2>3. CASE DeletesFile(f)
    <3>1. deletion'.pc = "called" /\ deletion'.file = {f} /\ deletion'.left = deletion.left
      BY <1>0, <2>3 DEF DeletesFile, Deletion
    <3>2. deletion.file = {f} /\ drive' = [drive EXCEPT ![f] = "deleted"] /\ UNCHANGED row
      BY <2>3 DEF DeletesFile
    <3> QED BY <1>0, <3>1, <3>2 DEF TypeOK, DeletionInv, DeletedIsGone
  <2>4. CASE RecordsDeletion(f)
    BY <1>0, <2>4 DEF TypeOK, RecordsDeletion, DeletionInv, DeletedIsGone
  <2>5. CASE StepFails(f)
    BY <1>0, <2>5 DEF StepFails, DeletionInv, DeletedIsGone
  <2> QED BY <2>1, <2>2, <2>3, <2>4, <2>5
<1>4. \A g \in deletion'.left : Licensed(g)'
  BY <1>0, <1>1, <1>3 DEF DeletionInv, Licensed, batchVars
<1> QED
  BY <1>2, <1>3, <1>4 DEF ArchivesInv, DeletionInv

\* A plan that deletes licenses its files itself: it is in no other's way to forget
\* the archives whose rows say that they are gone.
LEMMA PlanKeeps ==
    ASSUME TypeOK, ArchivesInv,
           \/ \E fs \in SUBSET Files : PlansDeletion(fs)
           \/ Decides \/ EndsDeletion \/ DeletionDies
    PROVE  ArchivesInv'
<1>0. deletion \in Deletion /\ DeletionInv
  BY DEF TypeOK, ArchivesInv
<1>1. CASE \E fs \in SUBSET Files : PlansDeletion(fs)
  <2>1. PICK fs \in SUBSET Files : PlansDeletion(fs)
    BY <1>1
  <2>2. /\ deletion' = [pc |-> "waiting", left |-> fs, file |-> {}]
        /\ dropped' = dropped \cap (Completed \cup dropping)
        /\ UNCHANGED <<drive, row, archive, object, step, work, dropping>>
    BY <2>1 DEF PlansDeletion
  <2>3. \A a \in Archives : BatchInv(a)' /\ StoreInv(a)'
    BY <2>2 DEF ArchivesInv, BatchInv, StoreInv, Completed
  <2>4. \A f \in fs : Licensed(f)'
    BY <2>1, <2>2 DEF PlansDeletion, Eligible, Completed, Licensed
  <2> QED BY <1>0, <2>2, <2>3, <2>4 DEF ArchivesInv, DeletionInv, DeletedIsGone
<1>2. CASE Decides \/ EndsDeletion \/ DeletionDies
  <2>1. UNCHANGED <<drive, row, batchVars>>
    BY <1>2 DEF Decides, EndsDeletion, DeletionDies
  <2>2. /\ deletion'.left \subseteq deletion.left /\ deletion'.file \subseteq deletion'.left
        /\ deletion'.pc # "called"
    <3>1. CASE Decides
      BY <1>0, <3>1 DEF Decides, DeletionInv, Deletion, NoDeletion
    <3>2. CASE EndsDeletion
      BY <3>2 DEF EndsDeletion, NoDeletion
    <3>3. CASE DeletionDies
      <4>1. deletion' = [deletion EXCEPT !.pc = "running", !.file = {}]
        BY <3>3 DEF DeletionDies
      <4> QED BY <1>0, <4>1 DEF Deletion
    <3> QED BY <1>2, <3>1, <3>2, <3>3
  <2>3. \A a \in Archives : BatchInv(a)' /\ StoreInv(a)'
    BY <2>1 DEF ArchivesInv, BatchInv, StoreInv, batchVars
  <2>4. \A f \in deletion'.left : Licensed(f)'
    BY <1>0, <2>1, <2>2 DEF DeletionInv, Licensed, batchVars
  <2> QED BY <1>0, <2>1, <2>2, <2>3, <2>4 DEF ArchivesInv, DeletionInv, DeletedIsGone
<1> QED
  BY <1>1, <1>2

LEMMA InvInit == Init => ArchivesInv
<1> SUFFICES ASSUME Init PROVE ArchivesInv
  OBVIOUS
<1>1. \A a \in Archives : BatchInv(a) /\ StoreInv(a)
  BY DEF Init, NoArchive, At, BatchInv, StoreInv, Early
<1>2. DeletionInv
  BY DEF Init, NoDeletion, DeletionInv, DeletedIsGone
<1> QED
  BY <1>1, <1>2 DEF ArchivesInv

LEMMA InvStep == TypeOK /\ ArchivesInv /\ [Next]_vars => ArchivesInv'
<1> SUFFICES ASSUME TypeOK, ArchivesInv, [Next]_vars PROVE ArchivesInv'
  OBVIOUS
<1>1. ASSUME NEW a \in Archives, ArchiveStep(a)
      PROVE  ArchivesInv'
  BY <1>1, ArchiveKeeps
<1>2. CASE UNCHANGED vars
  BY <1>2 DEF vars, batchVars, ArchivesInv, BatchInv, StoreInv, DeletionInv, DeletedIsGone, Licensed
<1> QED
  BY <1>1, <1>2, FileKeeps, PlanKeeps DEF Next, ArchiveStep

LEMMA InvHolds == ASSUME Bounds PROVE Spec => [](TypeOK /\ ArchivesInv)
<1> QED
  BY TypeInit, TypeStep, InvInit, InvStep, PTL DEF Spec

LEMMA InvTrue == ArchivesInv => ManifestTrue /\ DeletedIsGone
<1> SUFFICES ASSUME ArchivesInv PROVE ManifestTrue /\ DeletedIsGone
  OBVIOUS
<1>1. \A a \in Archives : BatchInv(a) /\ StoreInv(a)
  BY DEF ArchivesInv
<1>2. \A a \in Completed \ dropped : object[a] = archive[a].manifest
  BY <1>1 DEF StoreInv, Completed
<1>3. \A a \in Archives : Steps(a, "completed") \subseteq archive[a].manifest
  BY <1>1 DEF BatchInv, Steps
<1>4. \A a \in Archives :
         Steps(a, "pending") = {} \/ Steps(a, "completed") \cup Steps(a, "failed") = {}
  BY <1>1 DEF BatchInv, Steps
<1> QED BY <1>2, <1>3, <1>4 DEF ManifestTrue, ArchivesInv, DeletionInv

(***************************************************************************)
(* What a completed archive's row says is in its object, unless its deletion  *)
(* has begun, and what the steps say is in the row: over refused and lost      *)
(* writes, redelivered batches and rollbacks, and users who delete archives    *)
(* that are still being written.                                             *)
(***************************************************************************)
THEOREM ManifestTrueHolds ==
    ASSUME Bounds
    PROVE  Spec => []ManifestTrue
<1> QED
  BY InvTrue, InvHolds, PTL

(***************************************************************************)
(* A file whose row says that it was deleted for good is gone from Drive: the *)
(* row is written after Drive has answered, and nothing brings the file back.  *)
(***************************************************************************)
THEOREM DeletedIsGoneHolds ==
    ASSUME Bounds
    PROVE  Spec => []DeletedIsGone
<1> QED
  BY InvTrue, InvHolds, PTL

LEMMA LostStep == TypeOK /\ ArchivesInv /\ [Next]_vars => LostOnlyIfDropped
<1> SUFFICES ASSUME TypeOK, ArchivesInv, [Next]_vars, NEW f \in Files, Deleted(f)
             PROVE  BackedUp(f) \/ \E a \in dropped : f \in archive[a].manifest
  BY DEF LostOnlyIfDropped
<1>1. f \in deletion.left
  <2>1. ASSUME NEW g \in Files, DeletesFile(g)
        PROVE  g = f
    BY <2>1 DEF DeletesFile, Deleted, TypeOK
  <2>2. ASSUME NEW g \in Files, EngineTrashes(g) \/ EngineRestores(g) \/ UserTakes(g)
        PROVE  FALSE
    BY <2>2 DEF EngineTrashes, EngineRestores, UserTakes, Deleted, TypeOK
  <2>3. ASSUME NEW g \in Files, ChecksFile(g) \/ RecordsDeletion(g) \/ StepFails(g)
        PROVE  FALSE
    BY <2>3 DEF ChecksFile, RecordsDeletion, StepFails, Deleted
  <2>4. ASSUME NEW a \in Archives, ArchiveStep(a)
        PROVE  FALSE
    BY <2>4, ArchiveFrame DEF Deleted
  <2>5. ASSUME \/ \E fs \in SUBSET Files : PlansDeletion(fs)
               \/ Decides \/ EndsDeletion \/ DeletionDies \/ UNCHANGED vars
        PROVE  FALSE
    BY <2>5 DEF PlansDeletion, Decides, EndsDeletion, DeletionDies, vars, Deleted
  <2>6. DeletesFile(f)
    BY <2>1, <2>2, <2>3, <2>4, <2>5 DEF Next, ArchiveStep
  <2> QED BY <2>6 DEF DeletesFile, ArchivesInv, DeletionInv
<1>2. PICK a \in Archives : /\ f \in archive[a].manifest
                            /\ archive[a].status = "completed" \/ a \in dropped
  BY <1>1 DEF ArchivesInv, DeletionInv, Licensed
<1>3. StoreInv(a)
  BY DEF ArchivesInv
<1> QED BY <1>2, <1>3 DEF StoreInv, BackedUp, Completed

(***************************************************************************)
(* A file is deleted for good only while a completed archive has its content,  *)
(* or after the archive that licensed it was dropped: however long the plan    *)
(* waited for its approval and whatever was rolled back meanwhile.            *)
(***************************************************************************)
THEOREM LostOnlyIfDroppedHolds ==
    ASSUME Bounds
    PROVE  Spec => [][LostOnlyIfDropped]_vars
<1> QED
  BY LostStep, InvHolds, PTL DEF Spec
=============================================================================
