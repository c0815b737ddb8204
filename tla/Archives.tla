------------------------------- MODULE Archives -------------------------------
(***************************************************************************)
(* The archives of an organization and the permanent deletions they license.  *)
(* The CREATE_ARCHIVE steps of a plan are one batch: one object in the object   *)
(* store, one row of archive_jobs. A file in Trash with a completed archive may  *)
(* be deleted from Drive for good by a PERMANENT_DELETE plan; a rollback, or a   *)
(* user, may delete the archive. Messages are delivered again when a worker      *)
(* dies, and not beside a living one.                                          *)
(***************************************************************************)
EXTENDS Naturals

CONSTANTS
    Files,
    MaxArchives,   \* bound on CREATE_ARCHIVE plans
    MaxDeaths      \* bound on deaths of workers and of API requests

Archives == 1 .. MaxArchives

VARIABLES
    drive,     \* each file in Drive
    row,       \* files.trashed and files.permanently_deleted_at
    archive,   \* archive_jobs
    object,    \* the object store: the files in the object of each archive, {} if none
    step,      \* execution_steps of the CREATE_ARCHIVE plans
    work,      \* the job of each of these plans, and what its worker has in hand
    dropping,  \* archives that a user's request is deleting
    deletion,  \* the PERMANENT_DELETE plan that is open, and its job
    dropped,   \* archives that a deletion or a rollback has begun on, until a permanent
               \* deletion is planned after their rows say so (for the properties)
    deaths

batchVars == <<archive, object, step, work, dropping, dropped>>
vars == <<drive, row, batchVars, deletion, deaths>>

Places   == {"here", "trash", "emptied", "deleted"}
Statuses == {"none", "creating", "completed", "failed", "deleted"}
Archive  == [status : Statuses, key : BOOLEAN, manifest : SUBSET Files]
Work     == [pc : {"none", "sent", "fetching", "stored", "ended", "undo sent", "undoing", "undone"},
             left : SUBSET Files, got : SUBSET Files]
Deletion == [pc : {"none", "waiting", "running", "checked", "called"}, left : SUBSET Files,
             file : SUBSET Files]

NoArchive  == [status |-> "none", key |-> FALSE, manifest |-> {}]
At(pc)     == [pc |-> pc, left |-> {}, got |-> {}]
NoDeletion == [pc |-> "none", left |-> {}, file |-> {}]

TypeOK ==
    /\ drive \in [Files -> Places] /\ row \in [Files -> {"here", "trash", "deleted"}]
    /\ archive \in [Archives -> Archive] /\ object \in [Archives -> SUBSET Files]
    /\ step \in [Archives -> [Files -> {"none", "pending", "completed", "failed", "rolled back"}]]
    /\ work \in [Archives -> Work] /\ deletion \in Deletion
    /\ dropping \subseteq Archives /\ dropped \subseteq Archives /\ deaths \in 0 .. MaxDeaths

Init ==
    /\ drive = [f \in Files |-> "here"] /\ row = [f \in Files |-> "here"]
    /\ archive = [a \in Archives |-> NoArchive] /\ object = [a \in Archives |-> {}]
    /\ step = [a \in Archives |-> [f \in Files |-> "none"]]
    /\ work = [a \in Archives |-> At("none")]
    /\ dropping = {} /\ deletion = NoDeletion /\ dropped = {} /\ deaths = 0

Steps(a, status) == {f \in Files : step[a][f] = status}

-----------------------------------------------------------------------------
(* Trash *)

\* A plan trashes the file, and its rollback restores it.
EngineTrashes(f) ==
    /\ drive[f] = "here" /\ row[f] = "here"
    /\ drive' = [drive EXCEPT ![f] = "trash"] /\ row' = [row EXCEPT ![f] = "trash"]
    /\ UNCHANGED <<batchVars, deletion, deaths>>
EngineRestores(f) ==
    /\ drive[f] \in {"here", "trash"} /\ row[f] = "trash"
    /\ drive' = [drive EXCEPT ![f] = "here"] /\ row' = [row EXCEPT ![f] = "here"]
    /\ UNCHANGED <<batchVars, deletion, deaths>>

\* A user restores it in Drive, or empties Drive's own trash.
UserTakes(f) ==
    /\ drive[f] = "trash" /\ drive' \in {[drive EXCEPT ![f] = p] : p \in {"here", "emptied"}}
    /\ UNCHANGED <<row, batchVars, deletion, deaths>>

-----------------------------------------------------------------------------
(* The batch *)

\* A plan for files that are not in Trash, approved: its job is sent.
Orders(a, fs) ==
    /\ work[a].pc = "none" /\ fs # {} /\ \A f \in fs : row[f] = "here"
    /\ step' = [step EXCEPT ![a] = [f \in Files |-> IF f \in fs THEN "pending" ELSE "none"]]
    /\ work' = [work EXCEPT ![a] = At("sent")]
    /\ UNCHANGED <<drive, row, archive, object, dropping, deletion, dropped, deaths>>

StartsBatch(a) ==
    /\ work[a].pc = "sent" /\ Steps(a, "pending") # {}
    /\ archive' = [archive EXCEPT ![a].status = "creating"]
    /\ work' = [work EXCEPT ![a] = [pc |-> "fetching", left |-> Steps(a, "pending"), got |-> {}]]
    /\ UNCHANGED <<drive, row, object, step, dropping, deletion, dropped, deaths>>

\* Too large, of a type without content, not to be fetched: this step will fail.
Fetches(a, f) ==
    /\ work[a].pc = "fetching" /\ f \in work[a].left
    /\ \E got \in IF drive[f] \in {"here", "trash"} THEN {{f}, {}} ELSE {{}} :
           work' = [work EXCEPT ![a].left = @ \ {f}, ![a].got = @ \cup got]
    /\ UNCHANGED <<drive, row, archive, object, step, dropping, deletion, dropped, deaths>>

StoresObject(a) ==
    /\ work[a].pc = "fetching" /\ work[a].left = {} /\ work[a].got # {}
    /\ object' = [object EXCEPT ![a] = work[a].got]
    /\ work' = [work EXCEPT ![a].pc = "stored"]
    /\ UNCHANGED <<drive, row, archive, step, dropping, deletion, dropped, deaths>>

\* What becomes of each step: those in the object are completed.
Verdict(a, f) ==
    IF step[a][f] # "pending" THEN step[a][f]
    ELSE IF f \in work[a].got THEN "completed" ELSE "failed"

Manifest_Selected(a) == Steps(a, "pending")
Manifest(a) == work[a].got

CompletesBatch(a) ==
    /\ work[a].pc = "stored"
    /\ archive' = [archive EXCEPT ![a] =
           [status |-> "completed", key |-> TRUE, manifest |-> Manifest(a)]]
    /\ step' = [step EXCEPT ![a] = [f \in Files |-> Verdict(a, f)]]
    /\ work' = [work EXCEPT ![a] = At("ended")]
    /\ UNCHANGED <<drive, row, object, dropping, deletion, dropped, deaths>>

\* Nothing to store, or the store refuses, or its answer is lost: all steps fail.
FailsBatch(a) ==
    /\ work[a].pc = "fetching" /\ work[a].left = {}
    /\ object' \in {object, [object EXCEPT ![a] = IF work[a].got = {} THEN @ ELSE work[a].got]}
    /\ archive' = [archive EXCEPT ![a].status = "failed"]
    /\ step' = [step EXCEPT ![a] = [f \in Files |-> IF @[f] = "pending" THEN "failed" ELSE @[f]]]
    /\ work' = [work EXCEPT ![a] = At("ended")]
    /\ UNCHANGED <<drive, row, dropping, deletion, dropped, deaths>>

-----------------------------------------------------------------------------
(* Archives are deleted *)

\* trigger_rollback
OrdersRollback(a) ==
    /\ work[a].pc = "ended" /\ Steps(a, "completed") # {}
    /\ work' = [work EXCEPT ![a] = At("undo sent")]
    /\ UNCHANGED <<drive, row, archive, object, step, dropping, deletion, dropped, deaths>>

\* _rollback_archive: the first step deletes the object, the others find the
\* archive failed.
RollsBack(a) ==
    /\ work[a].pc = "undo sent" /\ Steps(a, "completed") # {}
    /\ IF archive[a].status = "completed" /\ archive[a].key
       THEN object' = [object EXCEPT ![a] = {}] /\ dropped' = dropped \cup {a}
       ELSE UNCHANGED <<object, dropped>>
    /\ work' = [work EXCEPT ![a].pc = "undone"]
    /\ UNCHANGED <<drive, row, archive, step, dropping, deletion, deaths>>

CommitsRollback(a) ==
    /\ work[a].pc = "undone"
    /\ \E f \in Steps(a, "completed") : step' = [step EXCEPT ![a][f] = "rolled back"]
    /\ archive' = [archive EXCEPT ![a].status = IF @ = "completed" THEN "failed" ELSE @]
    /\ work' = [work EXCEPT ![a].pc = "undo sent"]
    /\ UNCHANGED <<drive, row, object, dropping, deletion, dropped, deaths>>

\* The store refuses, its answer is lost, or the commit fails: the record stays.
RollbackFails(a) ==
    /\ work[a].pc = "undone"
    /\ work' = [work EXCEPT ![a].pc = "undo sent"]
    /\ UNCHANGED <<drive, row, archive, object, step, dropping, deletion, dropped, deaths>>

\* Every record is used, or the job is cancelled or paused before the next.
EndsRollback(a) ==
    /\ work[a].pc = "undo sent"
    /\ work' = [work EXCEPT ![a] = At("ended")]
    /\ UNCHANGED <<drive, row, archive, object, step, dropping, deletion, dropped, deaths>>

\* ArchiveService.delete, whatever the archive's status.
DeletesObject(a) ==
    /\ archive[a].status # "none" /\ a \notin dropping
    /\ object' = [object EXCEPT ![a] = IF archive[a].key THEN {} ELSE @]
    /\ dropping' = dropping \cup {a} /\ dropped' = dropped \cup {a}
    /\ UNCHANGED <<drive, row, archive, step, work, deletion, deaths>>

MarksDeleted(a) ==
    /\ a \in dropping
    /\ archive' = [archive EXCEPT ![a].status = "deleted"]
    /\ dropping' = dropping \ {a}
    /\ UNCHANGED <<drive, row, object, step, work, deletion, dropped, deaths>>

-----------------------------------------------------------------------------
(* Permanent deletion *)

Completed == {a \in Archives : archive[a].status = "completed"}

\* In Trash, not deleted, and in a completed archive, as the database has it.
Eligible == {f \in Files : row[f] = "trash" /\ \E a \in Completed : f \in archive[a].manifest}

PlansDeletion(fs) ==
    /\ deletion.pc = "none" /\ fs # {} /\ fs \subseteq Eligible
    /\ deletion' = [pc |-> "waiting", left |-> fs, file |-> {}]
    /\ dropped' = dropped \cap (Completed \cup dropping)
    /\ UNCHANGED <<drive, row, archive, object, step, work, dropping, deaths>>

\* A human approves it, sooner or later, or does not.
Decides ==
    /\ deletion.pc = "waiting"
    /\ deletion' \in {NoDeletion, [deletion EXCEPT !.pc = "running"]}
    /\ UNCHANGED <<drive, row, batchVars, deaths>>

\* The live check wants the file to exist, trashed or not; the record is committed.
ChecksFile(f) ==
    /\ deletion.pc = "running" /\ f \in deletion.left /\ drive[f] \in {"here", "trash"}
    /\ deletion' = [deletion EXCEPT !.pc = "checked", !.file = {f}]
    /\ UNCHANGED <<drive, row, batchVars, deaths>>

DeletesFile(f) ==
    /\ deletion.pc = "checked" /\ deletion.file = {f} /\ drive[f] \in {"here", "trash"}
    /\ drive' = [drive EXCEPT ![f] = "deleted"]
    /\ deletion' = [deletion EXCEPT !.pc = "called"]
    /\ UNCHANGED <<row, batchVars, deaths>>

RecordsDeletion(f) ==
    /\ deletion.pc = "called" /\ deletion.file = {f}
    /\ row' = [row EXCEPT ![f] = "deleted"]
    /\ deletion' = [pc |-> "running", left |-> deletion.left \ {f}, file |-> {}]
    /\ UNCHANGED <<drive, batchVars, deaths>>

\* Gone from Drive already, or an error, before the deletion or in place of its answer.
StepFails(f) ==
    /\ deletion.pc # "waiting" /\ f \in deletion.left /\ deletion.file \in {{}, {f}}
    /\ deletion' = [pc |-> "running", left |-> deletion.left \ {f}, file |-> {}]
    /\ UNCHANGED <<drive, row, batchVars, deaths>>

\* Every step is decided, or the job is cancelled.
EndsDeletion ==
    /\ deletion.pc = "running"
    /\ deletion' = NoDeletion
    /\ UNCHANGED <<drive, row, batchVars, deaths>>

-----------------------------------------------------------------------------

\* The worker dies; the message is delivered again.
WorkerDies(a) ==
    /\ deaths < MaxDeaths /\ deaths' = deaths + 1
    /\ \/ work[a].pc \in {"fetching", "stored"} /\ work' = [work EXCEPT ![a] = At("sent")]
       \/ work[a].pc = "undone" /\ work' = [work EXCEPT ![a].pc = "undo sent"]
    /\ UNCHANGED <<drive, row, archive, object, step, dropping, deletion, dropped>>

DeletionDies ==
    /\ deaths < MaxDeaths /\ deaths' = deaths + 1
    /\ deletion.pc \in {"checked", "called"}
    /\ deletion' = [deletion EXCEPT !.pc = "running", !.file = {}]
    /\ UNCHANGED <<drive, row, batchVars>>

RequestDies(a) ==
    /\ deaths < MaxDeaths /\ deaths' = deaths + 1
    /\ a \in dropping /\ dropping' = dropping \ {a}
    /\ UNCHANGED <<drive, row, archive, object, step, work, deletion, dropped>>

Next ==
    \/ \E f \in Files : \/ EngineTrashes(f) \/ EngineRestores(f) \/ UserTakes(f)
                        \/ ChecksFile(f) \/ DeletesFile(f) \/ RecordsDeletion(f) \/ StepFails(f)
    \/ \E a \in Archives :
           \/ StartsBatch(a) \/ StoresObject(a) \/ CompletesBatch(a) \/ FailsBatch(a)
           \/ OrdersRollback(a) \/ RollsBack(a) \/ CommitsRollback(a) \/ RollbackFails(a)
           \/ EndsRollback(a)
           \/ DeletesObject(a) \/ MarksDeleted(a) \/ WorkerDies(a) \/ RequestDies(a)
           \/ \E f \in Files : Fetches(a, f)
           \/ \E fs \in SUBSET Files : Orders(a, fs)
    \/ \E fs \in SUBSET Files : PlansDeletion(fs)
    \/ Decides \/ EndsDeletion \/ DeletionDies

Spec == Init /\ [][Next]_vars

-----------------------------------------------------------------------------
(* Properties *)

\* What an archive's row says is in the store, unless its deletion has begun:
\* whatever failed, died and was delivered again on the way. It is also what the
\* steps say, and a batch is decided as a whole.
ManifestTrue ==
    /\ \A a \in Completed \ dropped : object[a] = archive[a].manifest
    /\ \A a \in Archives : Steps(a, "completed") \subseteq archive[a].manifest
    /\ \A a \in Archives : Steps(a, "pending") = {} \/ Steps(a, "completed") \cup Steps(a, "failed") = {}

\* A file whose row says that it was deleted for good is no longer in Drive.
DeletedIsGone == \A f \in Files : row[f] = "deleted" => drive[f] = "deleted"

BackedUp(f) == \E a \in Completed : f \in object[a]
Deleted(f)  == drive'[f] = "deleted" /\ drive[f] # "deleted"

\* A file is deleted for good only while a completed archive has its content, unless
\* the archive was dropped after the plan was made, or was being dropped then:
\* eligibility is checked when the plan is made, and on the row.
LostOnlyIfDropped ==
    \A f \in Files : Deleted(f) => BackedUp(f) \/ \E a \in dropped : f \in archive[a].manifest

\* What a comment promises of every permanent deletion: it is never the only copy.
NeverOnlyCopy == [][\A f \in Files : Deleted(f) => BackedUp(f)]_vars
=============================================================================
