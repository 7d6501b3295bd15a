------------------------------- MODULE Upload -------------------------------
(***************************************************************************)
(* The uploads of one user (UploadService.upload) and the repair of the    *)
(* ones that were cut off (UploadReconciler), in every backend instance.   *)
(*                                                                         *)
(* A batch, its File rows and its objects in S3 are written one after the  *)
(* other, each in a transaction or a call of its own.  An instance may     *)
(* crash in between, a call or a transaction may fail, and the answer to a *)
(* commit may be lost; meanwhile the owner, who sees the rows, may trash,  *)
(* restore, purge and edit the files.                                      *)
(***************************************************************************)
EXTENDS Integers, FiniteSets

CONSTANTS
  Requests,    \* calls of POST /uploads; one that creates a batch is its name
  Files,       \* File rows, and their objects
  FilesOf,     \* the files of a request
  Size,        \* Size_Bytes
  Keys,        \* values of Idempotency-Key; one used once stands for none
  Instances,   \* backend instances
  Sent,        \* the ways the requests may be sent: each with a key, to an instance
  Reconcilers, \* those with app.upload.reconcile.enabled
  Quota,       \* app.storage.quota-bytes
  MaxFaults,   \* bound: crashes, and transactions and deletions that fail
  MaxActs,     \* bound: how often the owner trashes or edits a file
  NoRequest

ASSUME UploadConstants ==
  /\ FilesOf \in [Requests -> SUBSET Files \ {{}}]
  /\ \A q, r \in Requests : q # r => FilesOf[q] \cap FilesOf[r] = {}
  /\ Files = UNION {FilesOf[r] : r \in Requests} /\ IsFiniteSet(Files)
  /\ Size \in [Files -> Nat \ {0}]
  /\ IsFiniteSet(Instances)
  /\ Sent \subseteq [Requests -> [key : Keys, on : Instances]]
  /\ Reconcilers \subseteq Instances
  /\ Quota \in Nat /\ MaxFaults \in Nat /\ MaxActs \in Nat
  /\ NoRequest \notin Requests

VARIABLES
  batch,       \* the rows of Uploads
  row,         \* the rows of File
  referenced,  \* the files that rows of Job or File_Metadata refer to
  object,      \* the objects in S3
  upload,      \* the requests
  lock,        \* userQuotaLocks of each instance
  reconciler,  \* the scheduled threads of these
  toDelete,    \* the S3_Delete_Tasks of purged files
  restored,    \* history: the files taken out of the trash
  touched,     \* history: the files restored, edited or purged while UPLOADING
  leaked,      \* history: the objects deleteQuietly did not delete
  doubtful,    \* history: the batches whose upload went on for longer than
               \*   stale-ms, or whose completion was committed but not answered
  faults, acts

vars == <<batch, row, referenced, object, upload, lock, reconciler, toDelete,
          restored, touched, leaked, doubtful, faults, acts>>

Batch == [status : {"NONE", "UPLOADING", "COMPLETED", "FAILED"},
          stale  : BOOLEAN]   \* created longer than stale-ms ago

\* "persist" to "fail" is the life of a batch under its request.
Upload == [pc : {"new", "lock", "recheck", "quota", "create", "persist", "put", "delete", "fail", "end"},
           todo : SUBSET Files,
           key  : Keys,
           on   : Instances]

Reconciler == [batches : SUBSET Requests,   \* the list it goes through
               batch   : Requests \cup {NoRequest},
               files   : SUBSET Files,      \* as it has read them
               todo    : SUBSET Files]

IdleReconciler == [batches |-> {}, batch |-> NoRequest, files |-> {}, todo |-> {}]

TypeOK ==
  /\ batch \in [Requests -> Batch]
  /\ row \in [Files -> {"none", "live", "trashed"}]
  /\ upload \in [Requests -> Upload]
  /\ lock \in [Instances -> Requests \cup {NoRequest}]
  /\ reconciler \in [Reconcilers -> Reconciler]
  /\ referenced \subseteq Files /\ object \subseteq Files /\ toDelete \subseteq Files
  /\ restored \subseteq Files /\ touched \subseteq Files /\ leaked \subseteq Files
  /\ doubtful \subseteq Requests
  /\ faults \in 0..MaxFaults
  /\ acts \in 0..MaxActs

Init ==
  /\ batch = [r \in Requests |-> [status |-> "NONE", stale |-> FALSE]]
  /\ row = [f \in Files |-> "none"]
  /\ referenced = {} /\ object = {} /\ toDelete = {}
  /\ \E s \in Sent :
       upload = [r \in Requests |-> [pc |-> "new", todo |-> {}, key |-> s[r].key, on |-> s[r].on]]
  /\ lock = [i \in Instances |-> NoRequest]
  /\ reconciler = [i \in Reconcilers |-> IdleReconciler]
  /\ restored = {} /\ touched = {} /\ leaked = {} /\ doubtful = {}
  /\ faults = 0 /\ acts = 0

database == <<batch, row, referenced>>
owner == <<restored, touched, acts>>
history == <<owner, leaked, doubtful>>

Rows(S) == {f \in S : row[f] # "none"}

BatchOf(f) == CHOOSE r \in Requests : f \in FilesOf[r]

Uploading(r) == batch[r].status = "UPLOADING"

Act == acts < MaxActs /\ acts' = acts + 1

Fault == faults < MaxFaults /\ faults' = faults + 1

(***************************************************************************)
(* upload                                                                  *)
(***************************************************************************)

At(r, pc) == upload[r].pc = pc

GoTo(r, pc) == upload' = [upload EXCEPT ![r].pc = pc]

GoToWithFiles(r, pc) == upload' = [upload EXCEPT ![r].pc = pc, ![r].todo = FilesOf[r]]

Unlock(r) == lock' = [lock EXCEPT ![upload[r].on] = NoRequest]

\* findExistingBatch: UK_Uploads_User_IdempotencyKey makes it one at most.
Known(r) == \E q \in Requests : upload[q].key = upload[r].key /\ batch[q].status # "NONE"

\* The key is known: answered with that batch.  (validate only refuses.)
Lookup(r) ==
  /\ At(r, "new")
  /\ GoTo(r, IF Known(r) THEN "end" ELSE "lock")
  /\ UNCHANGED <<database, object, lock, reconciler, toDelete, history, faults>>

Lock(r) ==
  /\ At(r, "lock") /\ lock[upload[r].on] = NoRequest
  /\ lock' = [lock EXCEPT ![upload[r].on] = r]
  /\ GoTo(r, "recheck")
  /\ UNCHANGED <<database, object, reconciler, toDelete, history, faults>>

Recheck(r) ==
  /\ At(r, "recheck")
  /\ IF Known(r) THEN GoTo(r, "end") /\ Unlock(r) ELSE GoTo(r, "quota") /\ UNCHANGED lock
  /\ UNCHANGED <<database, object, reconciler, toDelete, history, faults>>

\* Size_Bytes of the files S together, their bytes counted one by one.
SizeOf(S) == Cardinality(UNION {{f} \X (1..Size[f]) : f \in S})

\* Bug: WithinQuota does not count what the request brings.
WithinQuotaBefore(r) == SizeOf({f \in Files : row[f] = "live"}) <= Quota

\* sumSizeBytesByUsersId leaves the trash out.
WithinQuota(r) == SizeOf({f \in Files : row[f] = "live"}) + SizeOf(FilesOf[r]) <= Quota

CheckQuota(r) ==
  /\ At(r, "quota")
  /\ IF WithinQuota(r) THEN GoTo(r, "create") /\ UNCHANGED lock ELSE GoTo(r, "end") /\ Unlock(r)
  /\ UNCHANGED <<database, object, reconciler, toDelete, history, faults>>

\* Bug: CreateBatch goes on after a DataIntegrityViolationException.
CreateBatchAnyway(r) ==
  /\ At(r, "create")
  /\ batch' = [batch EXCEPT ![r].status = "UPLOADING"]
  /\ GoTo(r, "persist")
  /\ UNCHANGED <<row, referenced, object, lock, reconciler, toDelete, history, faults>>

CreateBatch(r) ==
  /\ At(r, "create") /\ ~Known(r)
  /\ batch' = [batch EXCEPT ![r].status = "UPLOADING"]
  /\ GoTo(r, "persist")
  /\ UNCHANGED <<row, referenced, object, lock, reconciler, toDelete, history, faults>>

\* Another instance was faster: DataIntegrityViolationException, answered with its
\* batch.
CreateRaced(r) ==
  /\ At(r, "create") /\ Known(r)
  /\ GoTo(r, "end") /\ Unlock(r)
  /\ UNCHANGED <<database, object, reconciler, toDelete, history, faults>>

Persisted(r) == [f \in Files |-> IF f \in FilesOf[r] THEN "live" ELSE row[f]]

PersistPendingFiles(r) ==
  /\ At(r, "persist")
  /\ row' = Persisted(r)
  /\ Unlock(r)
  /\ GoToWithFiles(r, "put")
  /\ UNCHANGED <<batch, referenced, object, reconciler, toDelete, history, faults>>

\* One of the two transactions fails, or its answer is lost: no files are removed
\* and the batch is not set to FAILED, it is left to the reconciler.
CreateFails(r) ==
  /\ Fault
  /\ \/ /\ At(r, "create") /\ ~Known(r)
        /\ batch' \in {batch, [batch EXCEPT ![r].status = "UPLOADING"]}
        /\ UNCHANGED row
     \/ /\ At(r, "persist")
        /\ row' \in {row, Persisted(r)}
        /\ UNCHANGED batch
  /\ GoTo(r, "end") /\ Unlock(r)
  /\ UNCHANGED <<referenced, object, reconciler, toDelete, history>>

PutObject(r, f) ==
  /\ At(r, "put") /\ f \in upload[r].todo
  /\ object' = object \cup {f}
  /\ upload' = [upload EXCEPT ![r].todo = @ \ {f}]
  /\ UNCHANGED <<database, lock, reconciler, toDelete, history, faults>>

\* Bug: PutFails deletes the objects of the calls that were answered.
PutFailsAnswered(r, f) ==
  /\ At(r, "put") /\ f \in upload[r].todo
  /\ object' \in {object, object \cup {f}}
  /\ upload' = [upload EXCEPT ![r].pc = "delete", ![r].todo = FilesOf[r] \ upload[r].todo]
  /\ UNCHANGED <<database, lock, reconciler, toDelete, history, faults>>

\* The object may have been stored.
PutFails(r, f) ==
  /\ At(r, "put") /\ f \in upload[r].todo
  /\ object' \in {object, object \cup {f}}
  /\ GoToWithFiles(r, "delete")
  /\ UNCHANGED <<database, lock, reconciler, toDelete, history, faults>>

ReadyToComplete(r) == At(r, "put") /\ upload[r].todo = {}

Completed(r) ==
  /\ Rows(FilesOf[r]) = FilesOf[r]   \* FK_Job_File
  /\ referenced' = referenced \cup FilesOf[r]
  /\ batch' = [batch EXCEPT ![r].status = "COMPLETED"]
  /\ UNCHANGED row

\* completeBatch: the jobs, and the batch whatever its status is now.
CompleteBatch(r) ==
  /\ ReadyToComplete(r)
  /\ Completed(r)
  /\ GoTo(r, "end")
  /\ UNCHANGED <<object, lock, reconciler, toDelete, history, faults>>

\* A file has been removed: its job cannot be inserted.
CompleteRefused(r) ==
  /\ ReadyToComplete(r) /\ Rows(FilesOf[r]) # FilesOf[r]
  /\ GoToWithFiles(r, "delete")
  /\ UNCHANGED <<database, object, lock, reconciler, toDelete, history, faults>>

\* The transaction fails, or is committed and its answer lost.
CompleteFails(r) ==
  /\ ReadyToComplete(r) /\ Fault
  /\ \/ UNCHANGED <<database, doubtful>>
     \/ Completed(r) /\ doubtful' = doubtful \cup {r}
  /\ GoToWithFiles(r, "delete")
  /\ UNCHANGED <<object, lock, reconciler, toDelete, owner, leaked>>

\* deleteQuietly, which logs its failure.
DeleteQuietly(f) ==
  \/ object' = object \ {f} /\ UNCHANGED <<leaked, faults>>
  \/ f \in object /\ Fault /\ leaked' = leaked \cup {f} /\ UNCHANGED object

DeleteObject(r, f) ==
  /\ At(r, "delete") /\ f \in upload[r].todo
  /\ DeleteQuietly(f)
  /\ upload' = [upload EXCEPT ![r].todo = @ \ {f},
                              ![r].pc = IF upload[r].todo = {f} THEN "fail" ELSE "delete"]
  /\ UNCHANGED <<database, lock, reconciler, toDelete, owner, doubtful>>

\* Bug: Removed leaves the rows (no deleteAllById).
RemovedNot(S, r) ==
  /\ Rows(S) \cap referenced = {}
  /\ batch' = [batch EXCEPT ![r].status = "FAILED"]
  /\ UNCHANGED <<row, referenced>>

\* deleteAllById and FAILED, in one transaction, whatever the status is now.  A row
\* that is gone is passed over, one that is referred to cannot be deleted.
Removed(S, r) ==
  /\ Rows(S) \cap referenced = {}
  /\ row' = [f \in Files |-> IF f \in S THEN "none" ELSE row[f]]
  /\ batch' = [batch EXCEPT ![r].status = "FAILED"]
  /\ UNCHANGED referenced

FailUpload(r) ==
  /\ At(r, "fail")
  /\ Removed(FilesOf[r], r)
  /\ GoTo(r, "end")
  /\ UNCHANGED <<object, lock, reconciler, toDelete, history, faults>>

\* The transaction is refused for a foreign key, or fails.
FailUploadFails(r) ==
  /\ At(r, "fail")
  /\ \/ Rows(FilesOf[r]) \cap referenced # {} /\ UNCHANGED faults
     \/ Fault
  /\ GoTo(r, "end")
  /\ UNCHANGED <<database, object, lock, reconciler, toDelete, history>>

(***************************************************************************)
(* reconcile                                                               *)
(***************************************************************************)

\* Bug: Stuck does not look at the age (findByStatus).
StuckAnyAge(r) == Uploading(r)

\* Bug: Stuck passes over a batch without files.
StuckWithFiles(r) == Uploading(r) /\ batch[r].stale /\ Rows(FilesOf[r]) # {}

Stuck(r) == Uploading(r) /\ batch[r].stale

\* findByStatusAndCreatedAtBefore.  The status is not looked at again.
Reconcile(i) ==
  /\ reconciler[i] = IdleReconciler
  /\ \E r \in Requests : Stuck(r)
  /\ reconciler' = [reconciler EXCEPT ![i].batches = {r \in Requests : Stuck(r)}]
  /\ UNCHANGED <<database, object, upload, lock, toDelete, history, faults>>

\* reconcileBatch: the files as they are now.
ReadFiles(i, r) ==
  /\ reconciler[i].batch = NoRequest /\ r \in reconciler[i].batches
  /\ reconciler' = [reconciler EXCEPT ![i] = [batches |-> @.batches \ {r}, batch |-> r,
                                              files |-> Rows(FilesOf[r]), todo |-> Rows(FilesOf[r])]]
  /\ UNCHANGED <<database, object, upload, lock, toDelete, history, faults>>

ReconcileObject(i, f) ==
  /\ f \in reconciler[i].todo
  /\ DeleteQuietly(f)
  /\ reconciler' = [reconciler EXCEPT ![i].todo = @ \ {f}]
  /\ UNCHANGED <<database, upload, lock, toDelete, owner, doubtful>>

NextBatch(i) ==
  reconciler' = [reconciler EXCEPT ![i] = [IdleReconciler EXCEPT !.batches = reconciler[i].batches]]

ReconcileRows(i) ==
  /\ reconciler[i].batch # NoRequest /\ reconciler[i].todo = {}
  /\ Removed(reconciler[i].files, reconciler[i].batch)
  /\ NextBatch(i)
  /\ UNCHANGED <<object, upload, lock, toDelete, history, faults>>

\* Logged; the batch is found again.
ReconcileFails(i) ==
  /\ reconciler[i].batch # NoRequest /\ reconciler[i].todo = {}
  /\ \/ Rows(reconciler[i].files) \cap referenced # {} /\ UNCHANGED faults
     \/ Fault
  /\ NextBatch(i)
  /\ UNCHANGED <<database, object, upload, lock, toDelete, history>>

(***************************************************************************)
(* The owner, and the deletion of purged objects                           *)
(***************************************************************************)

Touched(f) == touched' = IF Uploading(BatchOf(f)) THEN touched \cup {f} ELSE touched

Trash(f) ==
  /\ Act /\ row[f] = "live"
  /\ row' = [row EXCEPT ![f] = "trashed"]
  /\ UNCHANGED <<batch, referenced, object, upload, lock, reconciler, toDelete, restored, touched,
                 leaked, doubtful, faults>>

\* Without chunks a job is enqueued.  The quota is not looked at.
Restore(f) ==
  /\ row[f] = "trashed"
  /\ row' = [row EXCEPT ![f] = "live"]
  /\ referenced' = referenced \cup {f}
  /\ restored' = restored \cup {f} /\ Touched(f)
  /\ UNCHANGED <<batch, object, upload, lock, reconciler, toDelete, leaked, doubtful, faults, acts>>

\* setDocumentType, setTags
Edit(f) ==
  /\ Act /\ row[f] = "live" /\ f \notin referenced
  /\ referenced' = referenced \cup {f}
  /\ Touched(f)
  /\ UNCHANGED <<batch, row, object, upload, lock, reconciler, toDelete, restored, leaked, doubtful, faults>>

\* The rows that refer to the file go first; its object goes by an S3_Delete_Task.
PermanentDelete(f) ==
  /\ row[f] = "trashed"
  /\ row' = [row EXCEPT ![f] = "none"]
  /\ referenced' = referenced \ {f}
  /\ toDelete' = toDelete \cup {f}
  /\ Touched(f)
  /\ UNCHANGED <<batch, object, upload, lock, reconciler, restored, leaked, doubtful, faults, acts>>

\* S3DeleteService, see PurgeOutbox.
DeletePurged(f) ==
  /\ f \in toDelete
  /\ object' = object \ {f}
  /\ toDelete' = toDelete \ {f}
  /\ UNCHANGED <<database, upload, lock, reconciler, history, faults>>

(***************************************************************************)
(* Time and crashes                                                        *)
(***************************************************************************)

Live(r) == upload[r].pc \in {"persist", "put", "delete", "fail"}

\* stale-ms pass.  Ordinarily the request has ended by then.
GrowStale(r) ==
  /\ Uploading(r) /\ ~batch[r].stale
  /\ batch' = [batch EXCEPT ![r].stale = TRUE]
  /\ doubtful' = IF Live(r) THEN doubtful \cup {r} ELSE doubtful
  /\ UNCHANGED <<row, referenced, object, upload, lock, reconciler, toDelete, owner, leaked, faults>>

\* The instance restarts.
Crash(i) ==
  /\ Fault
  /\ upload' = [r \in Requests |-> IF upload[r].on = i /\ ~At(r, "new")
                                   THEN [upload[r] EXCEPT !.pc = "end", !.todo = {}] ELSE upload[r]]
  /\ lock' = [lock EXCEPT ![i] = NoRequest]
  /\ reconciler' = [j \in Reconcilers |-> IF j = i THEN IdleReconciler ELSE reconciler[j]]
  /\ UNCHANGED <<database, object, toDelete, history>>

(***************************************************************************)
(* Specification                                                           *)
(***************************************************************************)

Serve(r) ==
  \/ Lookup(r) \/ Lock(r) \/ Recheck(r) \/ CheckQuota(r)
  \/ CreateBatch(r) \/ CreateRaced(r) \/ PersistPendingFiles(r) \/ CreateFails(r)
  \/ \E f \in FilesOf[r] : PutObject(r, f) \/ PutFails(r, f) \/ DeleteObject(r, f)
  \/ CompleteBatch(r) \/ CompleteRefused(r) \/ CompleteFails(r)
  \/ FailUpload(r) \/ FailUploadFails(r)

Repair(i) ==
  \/ Reconcile(i)
  \/ \E r \in Requests : ReadFiles(i, r)
  \/ \E f \in Files : ReconcileObject(i, f)
  \/ ReconcileRows(i) \/ ReconcileFails(i)

Owner(f) == Trash(f) \/ Restore(f) \/ Edit(f) \/ PermanentDelete(f)

Next ==
  \/ \E r \in Requests : Serve(r) \/ GrowStale(r)
  \/ \E i \in Reconcilers : Repair(i)
  \/ \E i \in Instances : Crash(i)
  \/ \E f \in Files : Owner(f) \/ DeletePurged(f)

Spec == Init /\ [][Next]_vars

\* Threads go on, the reconciler is scheduled also after a restart, time passes.
Fairness ==
  /\ WF_vars(\E r \in Requests : Serve(r))
  /\ WF_vars(\E r \in Requests : GrowStale(r))
  /\ \A i \in Reconcilers : WF_vars(Repair(i))

FairSpec == Spec /\ Fairness

(***************************************************************************)
(* Properties                                                              *)
(***************************************************************************)

\* The files of a COMPLETED batch have their objects, whatever failed, crashed and
\* was reconciled.  (Not if an upload outlives stale-ms: the reconciler deletes the
\* objects before its transaction finds that the files have jobs by now.)
CompletedHasObjects ==
  \A r \in Requests \ doubtful :
    batch[r].status = "COMPLETED" => Rows(FilesOf[r]) \subseteq object

\* A FAILED batch leaves no files behind, that would count against the quota.
FailedLeavesNothing ==
  \A r \in Requests \ doubtful : batch[r].status = "FAILED" => Rows(FilesOf[r]) = {}

\* An object always has something to go by: a row, or a task to delete it.  Those
\* deleteQuietly has logged have not, nor those of a file that the owner purged
\* during its upload, if the instance crashes after that.
NoOrphans ==
  \A r \in Requests \ doubtful : \A f \in FilesOf[r] \cap object :
    row[f] # "none" \/ f \in toDelete \cup leaked \cup touched

\* The lock keeps the quota where one instance serves the user; several may exceed
\* it together, but each uses it up once at most.  What is restored is not counted.
QuotaPerInstance ==
  SizeOf({f \in Files \ restored : row[f] = "live"})
    <= Quota * Cardinality({upload[r].on : r \in Requests})

\* Of the requests with the same key only one ever has files, even if they reach
\* several instances at once.
UploadedOnce ==
  \A q, r \in Requests :
    upload[q].key = upload[r].key /\ q # r => batch[q].status = "NONE" \/ batch[r].status = "NONE"

(***************************************************************************)
(* The inductive invariants: IInv is behind all but QuotaPerInstance, that *)
(* is behind QuotaInv.                                                     *)
(***************************************************************************)

Begun(r) == upload[r].pc \notin {"new", "lock", "recheck", "quota", "create"}

\* A batch is created once, and so are its files.
CreatedOnce ==
  \A r \in Requests :
    /\ ~Begun(r) => batch[r].status = "NONE"
    /\ Live(r) => batch[r].status # "NONE"
    /\ batch[r].status = "NONE" => ~batch[r].stale
    /\ ~Begun(r) \/ At(r, "persist") => \A f \in FilesOf[r] : row[f] = "none" /\ f \notin toDelete

PurgedHaveNoRow == \A f \in toDelete : row[f] = "none"

\* What a request knows of its batch, as long as that is not stale.
RequestsKnow ==
  \A r \in Requests \ doubtful :
    /\ Live(r) => Uploading(r) /\ ~batch[r].stale
    /\ upload[r].pc \in {"put", "delete", "fail"} => \A f \in FilesOf[r] : row[f] = "none" => f \in touched
    /\ At(r, "put") => Rows(FilesOf[r] \ upload[r].todo) \subseteq object
    /\ At(r, "delete") => (FilesOf[r] \ upload[r].todo) \cap object \subseteq leaked
    /\ At(r, "fail") => FilesOf[r] \cap object \subseteq leaked

ReconcilersRead ==
  \A i \in Reconcilers :
    /\ \A r \in reconciler[i].batches \cup {reconciler[i].batch} : r \in Requests => batch[r].status # "NONE"
    /\ reconciler[i].todo \subseteq reconciler[i].files
    /\ reconciler[i].batch = NoRequest => reconciler[i].files = {}
    /\ \A r \in Requests : reconciler[i].batch = r => reconciler[i].files \subseteq FilesOf[r]

\* What a reconciler knows of a batch: its request has ended.
ReconcilersKnow ==
  \A i \in Reconcilers, r \in Requests \ doubtful :
    /\ r \in reconciler[i].batches \/ r = reconciler[i].batch =>
         At(r, "end") /\ batch[r].status \in {"UPLOADING", "FAILED"}
    /\ r = reconciler[i].batch =>
         /\ Rows(FilesOf[r]) \subseteq reconciler[i].files
         /\ (reconciler[i].files \ reconciler[i].todo) \cap object \subseteq leaked

IInv ==
  /\ TypeOK /\ CreatedOnce /\ PurgedHaveNoRow /\ RequestsKnow /\ ReconcilersRead /\ ReconcilersKnow
  /\ CompletedHasObjects /\ FailedLeavesNothing /\ NoOrphans /\ UploadedOnce

\* The files that count for what the requests in an instance may use.
Used(i) == {f \in Files \ restored : row[f] = "live" /\ upload[BatchOf(f)].on = i}

\* Who looks at the quota has the lock of its instance.
Holds(r) == upload[r].pc \in {"recheck", "quota", "create", "persist"}
LocksHeld == \A r \in Requests : Holds(r) => lock[upload[r].on] = r

InstancesWithin == \A i \in Instances : SizeOf(Used(i)) <= Quota

\* What a request has found room for still has room when it is stored.
RoomStays ==
  \A r \in Requests : upload[r].pc \in {"create", "persist"} =>
    SizeOf(Used(upload[r].on)) + SizeOf(FilesOf[r]) <= Quota

QuotaInv == LocksHeld /\ InstancesWithin /\ RoomStays

\* Every batch is settled, if not by its request then by a reconciler.  (A file that
\* the owner restored or edited meanwhile is referred to: if its upload fails, no
\* reconciler can delete its row.)
BatchesSettle ==
  \A r \in Requests : Uploading(r) ~> ~Uploading(r) \/ FilesOf[r] \cap touched # {}

=============================================================================
