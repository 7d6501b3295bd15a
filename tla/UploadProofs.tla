---------------------------- MODULE UploadProofs ----------------------------
(***************************************************************************)
(* Proofs about Upload: the invariant IInv is inductive, for any number of *)
(* requests, files, instances and reconcilers.  Types are proved apart;    *)
(* then there is one lemma for each kind of step.  The quota has an        *)
(* invariant of its own, QuotaInv, and a bound on the sum over instances.  *)
(***************************************************************************)
EXTENDS Upload, FiniteSetTheorems, WellFoundedInduction, NaturalsInduction, TLAPS

USE UploadConstants

\* The parts of IInv but for the types.
Safe ==
  /\ CreatedOnce /\ PurgedHaveNoRow /\ RequestsKnow /\ ReconcilersRead /\ ReconcilersKnow
  /\ CompletedHasObjects /\ FailedLeavesNothing /\ NoOrphans /\ UploadedOnce

\* Every file is of one batch.
LEMMA FilesHaveOneBatch ==
  ASSUME NEW r \in Requests, NEW f \in FilesOf[r]
  PROVE  BatchOf(f) = r /\ f \in Files
BY DEF BatchOf

\* A request looks its key up, waits for the lock or is answered without a batch.
LEMMA Early ==
  ASSUME IInv, TypeOK', NEW r \in Requests, ~Begun(r),
         NEW pc \in {"lock", "recheck", "quota", "create", "end"}, GoTo(r, pc),
         UNCHANGED <<database, object, reconciler, toDelete, history>>
  PROVE  Safe'
<1> USE DEF IInv, Safe, TypeOK, At, Begun, Live, Uploading, Rows, database, owner, history
<1>u. /\ \A q \in Requests : q # r => upload'[q] = upload[q]
      /\ upload'[r].pc = pc /\ upload'[r].todo = upload[r].todo
      /\ \A q \in Requests : upload'[q].key = upload[q].key
  BY DEF Upload, GoTo, GoToWithFiles
<1>1. CreatedOnce'
  BY <1>u DEF CreatedOnce, ReconcilersRead
<1>2. PurgedHaveNoRow'
  BY <1>u DEF PurgedHaveNoRow, CreatedOnce
<1>3. RequestsKnow'
  <2> SUFFICES ASSUME NEW q \in Requests \ doubtful, q # r
               PROVE  /\ upload'[q] = upload[q] /\ batch'[q] = batch[q]
                      /\ Rows(FilesOf[q] \ upload[q].todo)' = Rows(FilesOf[q] \ upload[q].todo)
    BY <1>u DEF RequestsKnow
  <2>1. QED
    BY <1>u
<1>4. ReconcilersRead'
  BY <1>u DEF ReconcilersRead, CreatedOnce
<1>5. ReconcilersKnow'
  BY <1>u DEF ReconcilersKnow, CreatedOnce, RequestsKnow, ReconcilersRead
<1>6. CompletedHasObjects'
  BY <1>u DEF CompletedHasObjects, CreatedOnce, PurgedHaveNoRow, RequestsKnow,
     ReconcilersRead, ReconcilersKnow
<1>7. FailedLeavesNothing'
  BY <1>u DEF FailedLeavesNothing, CreatedOnce, RequestsKnow, ReconcilersRead, ReconcilersKnow
<1>8. NoOrphans'
  BY <1>u DEF NoOrphans, CreatedOnce, RequestsKnow, ReconcilersRead, ReconcilersKnow
<1>9. UploadedOnce'
  BY <1>u DEF UploadedOnce, CreatedOnce, ReconcilersRead
<1>10. QED
  BY <1>1, <1>2, <1>3, <1>4, <1>5, <1>6, <1>7, <1>8, <1>9

\* The batch is created, answered or not.
LEMMA CreateBatchKeeps ==
  ASSUME IInv, TypeOK', NEW r \in Requests, At(r, "create"), ~Known(r),
         NEW pc \in {"persist", "end"}, GoTo(r, pc),
         batch' = [batch EXCEPT ![r].status = "UPLOADING"],
         UNCHANGED <<row, referenced, object, reconciler, toDelete, history>>
  PROVE  Safe'
<1> USE DEF IInv, Safe, TypeOK, At, Begun, Live, Uploading, Rows, database, owner, history, Known
<1>u. /\ \A q \in Requests : q # r => upload'[q] = upload[q]
      /\ upload'[r].pc = pc /\ upload'[r].todo = upload[r].todo
      /\ \A q \in Requests : upload'[q].key = upload[q].key
  BY DEF Upload, GoTo, GoToWithFiles
<1>b. /\ \A q \in Requests : q # r => batch'[q] = batch[q]
      /\ batch'[r].status = "UPLOADING" /\ batch'[r].stale = batch[r].stale
  BY DEF Batch
<1>1. CreatedOnce'
  BY <1>u, <1>b DEF CreatedOnce, ReconcilersRead
<1>2. PurgedHaveNoRow'
  BY <1>u, <1>b DEF PurgedHaveNoRow, CreatedOnce
<1>3. RequestsKnow'
  BY <1>u, <1>b DEF RequestsKnow, CreatedOnce, ReconcilersRead, ReconcilersKnow
<1>4. ReconcilersRead'
  BY <1>u, <1>b DEF ReconcilersRead, CreatedOnce
<1>5. ReconcilersKnow'
  BY <1>u, <1>b DEF ReconcilersKnow, CreatedOnce, RequestsKnow, ReconcilersRead
<1>6. CompletedHasObjects'
  BY <1>u, <1>b DEF CompletedHasObjects, CreatedOnce, PurgedHaveNoRow, RequestsKnow,
     ReconcilersRead, ReconcilersKnow
<1>7. FailedLeavesNothing'
  BY <1>u, <1>b DEF FailedLeavesNothing, CreatedOnce, RequestsKnow, ReconcilersRead, ReconcilersKnow
<1>8. NoOrphans'
  BY <1>u, <1>b DEF NoOrphans, CreatedOnce, RequestsKnow, ReconcilersRead, ReconcilersKnow
<1>9. UploadedOnce'
  BY <1>u, <1>b DEF UploadedOnce, CreatedOnce, ReconcilersRead
<1>10. QED
  BY <1>1, <1>2, <1>3, <1>4, <1>5, <1>6, <1>7, <1>8, <1>9

\* The rows are inserted, answered or not.
LEMMA PersistKeeps ==
  ASSUME IInv, TypeOK', NEW r \in Requests, At(r, "persist"), row' = Persisted(r),
         GoToWithFiles(r, "put") \/ GoTo(r, "end"),
         UNCHANGED <<batch, referenced, object, reconciler, toDelete, history>>
  PROVE  Safe'
<1> USE DEF IInv, Safe, TypeOK, At, Begun, Live, Uploading, Rows, database, owner,
     history, Persisted
<1>u. /\ \A q \in Requests : q # r => upload'[q] = upload[q]
      /\ (upload'[r].pc = "put" /\ upload'[r].todo = FilesOf[r]) \/ upload'[r].pc = "end"
      /\ \A q \in Requests : upload'[q].key = upload[q].key
  BY DEF Upload, GoTo, GoToWithFiles
<1>w. /\ \A f \in FilesOf[r] : row'[f] = "live"
      /\ \A q \in Requests : q # r => \A f \in FilesOf[q] : row'[f] = row[f]
  BY DEF Persisted
<1>k. r \notin doubtful => Uploading(r)
  BY DEF RequestsKnow
<1>o. \A q \in Requests : q # r => Rows(FilesOf[q])' = Rows(FilesOf[q])
  BY <1>w
<1>1. CreatedOnce'
  BY <1>u, <1>w DEF CreatedOnce, ReconcilersRead
<1>2. PurgedHaveNoRow'
  BY <1>u, <1>w DEF PurgedHaveNoRow, CreatedOnce
<1>3. RequestsKnow'
  BY <1>u, <1>w DEF RequestsKnow, CreatedOnce, ReconcilersRead, ReconcilersKnow
<1>4. ReconcilersRead'
  BY <1>u, <1>w DEF ReconcilersRead, CreatedOnce
<1>5. ReconcilersKnow'
  BY <1>u, <1>w DEF ReconcilersKnow, CreatedOnce, RequestsKnow, ReconcilersRead
<1>6. CompletedHasObjects'
  BY <1>k, <1>o DEF CompletedHasObjects
<1>7. FailedLeavesNothing'
  BY <1>k, <1>o DEF FailedLeavesNothing
<1>8. NoOrphans'
  BY <1>u, <1>w DEF NoOrphans, CreatedOnce, RequestsKnow, ReconcilersRead, ReconcilersKnow
<1>9. UploadedOnce'
  BY <1>u, <1>w DEF UploadedOnce, CreatedOnce, ReconcilersRead
<1>10. QED
  BY <1>1, <1>2, <1>3, <1>4, <1>5, <1>6, <1>7, <1>8, <1>9

\* An object is stored.
LEMMA PutKeeps ==
  ASSUME IInv, TypeOK', NEW r \in Requests, NEW f \in FilesOf[r], PutObject(r, f)
  PROVE  Safe'
<1> USE DEF IInv, Safe, TypeOK, At, Begun, Live, Uploading, Rows, database, owner,
     history, PutObject
<1>u. /\ \A q \in Requests : q # r => upload'[q] = upload[q]
      /\ upload'[r].pc = "put" /\ upload'[r].todo = upload[r].todo \ {f}
      /\ \A q \in Requests : upload'[q].key = upload[q].key
  BY DEF Upload, GoTo, GoToWithFiles
<1>1. CreatedOnce'
  BY <1>u DEF CreatedOnce, ReconcilersRead
<1>2. PurgedHaveNoRow'
  BY <1>u DEF PurgedHaveNoRow, CreatedOnce
<1>3. RequestsKnow'
  BY <1>u DEF RequestsKnow, CreatedOnce, ReconcilersRead, ReconcilersKnow
<1>4. ReconcilersRead'
  BY <1>u DEF ReconcilersRead, CreatedOnce
<1>5. ReconcilersKnow'
  BY <1>u DEF ReconcilersKnow, CreatedOnce, RequestsKnow, ReconcilersRead
<1>6. CompletedHasObjects'
  BY <1>u DEF CompletedHasObjects, CreatedOnce, PurgedHaveNoRow, RequestsKnow,
     ReconcilersRead, ReconcilersKnow
<1>7. FailedLeavesNothing'
  BY <1>u DEF FailedLeavesNothing, CreatedOnce, RequestsKnow, ReconcilersRead, ReconcilersKnow
<1>8. NoOrphans'
  BY <1>u DEF NoOrphans, CreatedOnce, RequestsKnow, ReconcilersRead, ReconcilersKnow
<1>9. UploadedOnce'
  BY <1>u DEF UploadedOnce, CreatedOnce, ReconcilersRead
<1>10. QED
  BY <1>1, <1>2, <1>3, <1>4, <1>5, <1>6, <1>7, <1>8, <1>9

\* An object is perhaps stored.
LEMMA PutFailsKeeps ==
  ASSUME IInv, TypeOK', NEW r \in Requests, NEW f \in FilesOf[r], PutFails(r, f)
  PROVE  Safe'
<1> USE DEF IInv, Safe, TypeOK, At, Begun, Live, Uploading, Rows, database, owner, history, PutFails
<1>u. /\ \A q \in Requests : q # r => upload'[q] = upload[q]
      /\ upload'[r].pc = "delete" /\ upload'[r].todo = FilesOf[r]
      /\ \A q \in Requests : upload'[q].key = upload[q].key
  BY DEF Upload, GoTo, GoToWithFiles
<1>1. CreatedOnce'
  BY <1>u DEF CreatedOnce, ReconcilersRead
<1>2. PurgedHaveNoRow'
  BY <1>u DEF PurgedHaveNoRow, CreatedOnce
<1>3. RequestsKnow'
  BY <1>u DEF RequestsKnow, CreatedOnce, ReconcilersRead, ReconcilersKnow
<1>4. ReconcilersRead'
  BY <1>u DEF ReconcilersRead, CreatedOnce
<1>5. ReconcilersKnow'
  BY <1>u DEF ReconcilersKnow, CreatedOnce, RequestsKnow, ReconcilersRead
<1>6. CompletedHasObjects'
  BY <1>u DEF CompletedHasObjects, CreatedOnce, PurgedHaveNoRow, RequestsKnow,
     ReconcilersRead, ReconcilersKnow
<1>7. FailedLeavesNothing'
  BY <1>u DEF FailedLeavesNothing, CreatedOnce, RequestsKnow, ReconcilersRead, ReconcilersKnow
<1>8. NoOrphans'
  BY <1>u DEF NoOrphans, CreatedOnce, RequestsKnow, ReconcilersRead, ReconcilersKnow
<1>9. UploadedOnce'
  BY <1>u DEF UploadedOnce, CreatedOnce, ReconcilersRead
<1>10. QED
  BY <1>1, <1>2, <1>3, <1>4, <1>5, <1>6, <1>7, <1>8, <1>9

\* The batch is completed.
LEMMA CompleteKeeps ==
  ASSUME IInv, TypeOK', NEW r \in Requests, CompleteBatch(r)
  PROVE  Safe'
<1> USE DEF IInv, Safe, TypeOK, At, Begun, Live, Uploading, Rows, database, owner,
     history, CompleteBatch, ReadyToComplete, Completed
<1>u. /\ \A q \in Requests : q # r => upload'[q] = upload[q]
      /\ upload'[r].pc = "end" /\ upload'[r].todo = upload[r].todo
      /\ \A q \in Requests : upload'[q].key = upload[q].key
  BY DEF Upload, GoTo, GoToWithFiles
<1>b. /\ \A q \in Requests : q # r => batch'[q] = batch[q]
      /\ batch'[r].status = "COMPLETED" /\ batch'[r].stale = batch[r].stale
  BY DEF Batch
<1>1. CreatedOnce'
  BY <1>u, <1>b DEF CreatedOnce, ReconcilersRead
<1>2. PurgedHaveNoRow'
  BY <1>u, <1>b DEF PurgedHaveNoRow, CreatedOnce
<1>3. RequestsKnow'
  BY <1>u, <1>b DEF RequestsKnow, CreatedOnce, ReconcilersRead, ReconcilersKnow
<1>4. ReconcilersRead'
  BY <1>u, <1>b DEF ReconcilersRead, CreatedOnce
<1>5. ReconcilersKnow'
  BY <1>u, <1>b DEF ReconcilersKnow, CreatedOnce, RequestsKnow, ReconcilersRead
<1>6. CompletedHasObjects'
  BY <1>u, <1>b DEF CompletedHasObjects, CreatedOnce, PurgedHaveNoRow, RequestsKnow,
     ReconcilersRead, ReconcilersKnow
<1>7. FailedLeavesNothing'
  BY <1>u, <1>b DEF FailedLeavesNothing, CreatedOnce, RequestsKnow, ReconcilersRead, ReconcilersKnow
<1>8. NoOrphans'
  BY <1>u, <1>b DEF NoOrphans, CreatedOnce, RequestsKnow, ReconcilersRead, ReconcilersKnow
<1>9. UploadedOnce'
  BY <1>u, <1>b DEF UploadedOnce, CreatedOnce, ReconcilersRead
<1>10. QED
  BY <1>1, <1>2, <1>3, <1>4, <1>5, <1>6, <1>7, <1>8, <1>9

\* The batch is completed without an answer.
LEMMA CompleteUnknownKeeps ==
  ASSUME IInv, TypeOK', NEW r \in Requests, ReadyToComplete(r), Completed(r),
         doubtful' = doubtful \cup {r}, GoToWithFiles(r, "delete"),
         UNCHANGED <<object, reconciler, toDelete, owner, leaked>>
  PROVE  Safe'
<1> USE DEF IInv, Safe, TypeOK, At, Begun, Live, Uploading, Rows, database, owner,
     history, ReadyToComplete, Completed
<1>u. /\ \A q \in Requests : q # r => upload'[q] = upload[q]
      /\ upload'[r].pc = "delete" /\ upload'[r].todo = FilesOf[r]
      /\ \A q \in Requests : upload'[q].key = upload[q].key
  BY DEF Upload, GoTo, GoToWithFiles
<1>b. /\ \A q \in Requests : q # r => batch'[q] = batch[q]
      /\ batch'[r].status = "COMPLETED" /\ batch'[r].stale = batch[r].stale
  BY DEF Batch
<1>1. CreatedOnce'
  BY <1>u, <1>b DEF CreatedOnce, ReconcilersRead
<1>2. PurgedHaveNoRow'
  BY <1>u, <1>b DEF PurgedHaveNoRow, CreatedOnce
<1>3. RequestsKnow'
  BY <1>u, <1>b DEF RequestsKnow, CreatedOnce, ReconcilersRead, ReconcilersKnow
<1>4. ReconcilersRead'
  BY <1>u, <1>b DEF ReconcilersRead, CreatedOnce
<1>5. ReconcilersKnow'
  BY <1>u, <1>b DEF ReconcilersKnow, CreatedOnce, RequestsKnow, ReconcilersRead
<1>6. CompletedHasObjects'
  BY <1>u, <1>b DEF CompletedHasObjects, CreatedOnce, PurgedHaveNoRow, RequestsKnow,
     ReconcilersRead, ReconcilersKnow
<1>7. FailedLeavesNothing'
  BY <1>u, <1>b DEF FailedLeavesNothing, CreatedOnce, RequestsKnow, ReconcilersRead, ReconcilersKnow
<1>8. NoOrphans'
  BY <1>u, <1>b DEF NoOrphans, CreatedOnce, RequestsKnow, ReconcilersRead, ReconcilersKnow
<1>9. UploadedOnce'
  BY <1>u, <1>b DEF UploadedOnce, CreatedOnce, ReconcilersRead
<1>10. QED
  BY <1>1, <1>2, <1>3, <1>4, <1>5, <1>6, <1>7, <1>8, <1>9

\* The completion fails, the objects are to be deleted.
LEMMA CompensateKeeps ==
  ASSUME IInv, TypeOK', NEW r \in Requests, ReadyToComplete(r),
         GoToWithFiles(r, "delete"),
         UNCHANGED <<database, object, reconciler, toDelete, history>>
  PROVE  Safe'
<1> USE DEF IInv, Safe, TypeOK, At, Begun, Live, Uploading, Rows, database, owner,
     history, ReadyToComplete
<1>u. /\ \A q \in Requests : q # r => upload'[q] = upload[q]
      /\ upload'[r].pc = "delete" /\ upload'[r].todo = FilesOf[r]
      /\ \A q \in Requests : upload'[q].key = upload[q].key
  BY DEF Upload, GoTo, GoToWithFiles
<1>1. CreatedOnce'
  BY <1>u DEF CreatedOnce, ReconcilersRead
<1>2. PurgedHaveNoRow'
  BY <1>u DEF PurgedHaveNoRow, CreatedOnce
<1>3. RequestsKnow'
  BY <1>u DEF RequestsKnow, CreatedOnce, ReconcilersRead, ReconcilersKnow
<1>4. ReconcilersRead'
  BY <1>u DEF ReconcilersRead, CreatedOnce
<1>5. ReconcilersKnow'
  BY <1>u DEF ReconcilersKnow, CreatedOnce, RequestsKnow, ReconcilersRead
<1>6. CompletedHasObjects'
  BY <1>u DEF CompletedHasObjects, CreatedOnce, PurgedHaveNoRow, RequestsKnow,
     ReconcilersRead, ReconcilersKnow
<1>7. FailedLeavesNothing'
  BY <1>u DEF FailedLeavesNothing, CreatedOnce, RequestsKnow, ReconcilersRead, ReconcilersKnow
<1>8. NoOrphans'
  BY <1>u DEF NoOrphans, CreatedOnce, RequestsKnow, ReconcilersRead, ReconcilersKnow
<1>9. UploadedOnce'
  BY <1>u DEF UploadedOnce, CreatedOnce, ReconcilersRead
<1>10. QED
  BY <1>1, <1>2, <1>3, <1>4, <1>5, <1>6, <1>7, <1>8, <1>9

\* An object is deleted, or leaked.
LEMMA DeleteKeeps ==
  ASSUME IInv, TypeOK', NEW r \in Requests, NEW f \in FilesOf[r], DeleteObject(r, f)
  PROVE  Safe'
<1> USE DEF IInv, Safe, TypeOK, At, Begun, Live, Uploading, Rows, database, owner,
     history, DeleteObject
<1>u. /\ \A q \in Requests : q # r => upload'[q] = upload[q]
      /\ upload'[r].pc = (IF upload[r].todo = {f} THEN "fail" ELSE "delete")
      /\ upload'[r].todo = upload[r].todo \ {f}
      /\ \A q \in Requests : upload'[q].key = upload[q].key
  BY DEF Upload, GoTo, GoToWithFiles
<1>d. /\ (object' = object /\ f \in leaked') \/ object' = object \ {f}
      /\ leaked \subseteq leaked'
  BY DEF DeleteQuietly
<1>1. CreatedOnce'
  BY <1>u, <1>d DEF CreatedOnce, ReconcilersRead
<1>2. PurgedHaveNoRow'
  BY <1>u, <1>d DEF PurgedHaveNoRow, CreatedOnce
<1>3. RequestsKnow'
  BY <1>u, <1>d DEF RequestsKnow, CreatedOnce, ReconcilersRead, ReconcilersKnow
<1>4. ReconcilersRead'
  BY <1>u, <1>d DEF ReconcilersRead, CreatedOnce
<1>5. ReconcilersKnow'
  BY <1>u, <1>d DEF ReconcilersKnow, CreatedOnce, RequestsKnow, ReconcilersRead
<1>6. CompletedHasObjects'
  BY <1>u, <1>d DEF CompletedHasObjects, CreatedOnce, PurgedHaveNoRow, RequestsKnow,
     ReconcilersRead, ReconcilersKnow
<1>7. FailedLeavesNothing'
  BY <1>u, <1>d DEF FailedLeavesNothing, CreatedOnce, RequestsKnow, ReconcilersRead, ReconcilersKnow
<1>8. NoOrphans'
  BY <1>u, <1>d DEF NoOrphans, CreatedOnce, RequestsKnow, ReconcilersRead, ReconcilersKnow
<1>9. UploadedOnce'
  BY <1>u, <1>d DEF UploadedOnce, CreatedOnce, ReconcilersRead
<1>10. QED
  BY <1>1, <1>2, <1>3, <1>4, <1>5, <1>6, <1>7, <1>8, <1>9

\* The rows are removed by the request.
LEMMA FailUploadKeeps ==
  ASSUME IInv, TypeOK', NEW r \in Requests, FailUpload(r)
  PROVE  Safe'
<1> USE DEF IInv, Safe, TypeOK, At, Begun, Live, Uploading, Rows, database, owner,
     history, FailUpload
<1>u. /\ \A q \in Requests : q # r => upload'[q] = upload[q]
      /\ upload'[r].pc = "end" /\ upload'[r].todo = upload[r].todo
      /\ \A q \in Requests : upload'[q].key = upload[q].key
  BY DEF Upload, GoTo, GoToWithFiles
<1>b. /\ \A q \in Requests : q # r => batch'[q] = batch[q]
      /\ batch'[r].status = "FAILED" /\ batch'[r].stale = batch[r].stale
  BY DEF Removed, Batch
<1>w. \A f \in Files : row'[f] = IF f \in FilesOf[r] THEN "none" ELSE row[f]
  BY DEF Removed
<1>o. \A q \in Requests : q # r => \A f \in FilesOf[q] : row'[f] = row[f]
  BY <1>w
<1>k. r \notin doubtful => FilesOf[r] \cap object \subseteq leaked
  BY DEF RequestsKnow
<1>1. CreatedOnce'
  BY <1>u, <1>b, <1>w DEF CreatedOnce, ReconcilersRead
<1>2. PurgedHaveNoRow'
  BY <1>u, <1>b, <1>w DEF PurgedHaveNoRow, CreatedOnce
<1>3. RequestsKnow'
  BY <1>u, <1>b, <1>w DEF RequestsKnow, CreatedOnce, ReconcilersRead, ReconcilersKnow
<1>4. ReconcilersRead'
  BY <1>u, <1>b, <1>w DEF ReconcilersRead, CreatedOnce
<1>5. ReconcilersKnow'
  BY <1>u, <1>b, <1>w DEF ReconcilersKnow, CreatedOnce, RequestsKnow, ReconcilersRead
<1>6. CompletedHasObjects'
  BY <1>u, <1>b, <1>w DEF CompletedHasObjects, CreatedOnce, PurgedHaveNoRow,
     RequestsKnow, ReconcilersRead, ReconcilersKnow
<1>7. FailedLeavesNothing'
  BY <1>u, <1>b, <1>w DEF FailedLeavesNothing, CreatedOnce, RequestsKnow,
     ReconcilersRead, ReconcilersKnow
<1>8. NoOrphans'
  BY <1>o, <1>k DEF NoOrphans
<1>9. UploadedOnce'
  BY <1>u, <1>b, <1>w DEF UploadedOnce, CreatedOnce, ReconcilersRead
<1>10. QED
  BY <1>1, <1>2, <1>3, <1>4, <1>5, <1>6, <1>7, <1>8, <1>9

\* A request ends without having settled its batch.
LEMMA EndKeeps ==
  ASSUME IInv, TypeOK', NEW r \in Requests, GoTo(r, "end"), Begun(r),
         UNCHANGED <<database, object, reconciler, toDelete, history>>
  PROVE  Safe'
<1> USE DEF IInv, Safe, TypeOK, At, Begun, Live, Uploading, Rows, database, owner, history
<1>u. /\ \A q \in Requests : q # r => upload'[q] = upload[q]
      /\ upload'[r].pc = "end" /\ upload'[r].todo = upload[r].todo
      /\ \A q \in Requests : upload'[q].key = upload[q].key
  BY DEF Upload, GoTo, GoToWithFiles
<1>1. CreatedOnce'
  BY <1>u DEF CreatedOnce, ReconcilersRead
<1>2. PurgedHaveNoRow'
  BY <1>u DEF PurgedHaveNoRow, CreatedOnce
<1>3. RequestsKnow'
  BY <1>u DEF RequestsKnow, CreatedOnce, ReconcilersRead, ReconcilersKnow
<1>4. ReconcilersRead'
  BY <1>u DEF ReconcilersRead, CreatedOnce
<1>5. ReconcilersKnow'
  BY <1>u DEF ReconcilersKnow, CreatedOnce, RequestsKnow, ReconcilersRead
<1>6. CompletedHasObjects'
  BY <1>u DEF CompletedHasObjects, CreatedOnce, PurgedHaveNoRow, RequestsKnow,
     ReconcilersRead, ReconcilersKnow
<1>7. FailedLeavesNothing'
  BY <1>u DEF FailedLeavesNothing, CreatedOnce, RequestsKnow, ReconcilersRead, ReconcilersKnow
<1>8. NoOrphans'
  BY <1>u DEF NoOrphans, CreatedOnce, RequestsKnow, ReconcilersRead, ReconcilersKnow
<1>9. UploadedOnce'
  BY <1>u DEF UploadedOnce, CreatedOnce, ReconcilersRead
<1>10. QED
  BY <1>1, <1>2, <1>3, <1>4, <1>5, <1>6, <1>7, <1>8, <1>9

\* A reconciler lists the stale batches.
LEMMA ReconcileKeeps ==
  ASSUME IInv, TypeOK', NEW i \in Reconcilers, Reconcile(i)
  PROVE  Safe'
<1> USE DEF IInv, Safe, TypeOK, At, Begun, Live, Uploading, Rows, database, owner,
     history, Reconcile, Stuck
<1>v. /\ \A j \in Reconcilers : j # i => reconciler'[j] = reconciler[j]
      /\ reconciler'[i].batches = {r \in Requests : Stuck(r)}
      /\ reconciler'[i].batch = NoRequest
      /\ reconciler'[i].files = {}
      /\ reconciler'[i].todo = {}
  BY DEF Reconciler, IdleReconciler, NextBatch
<1>e. \A r \in Requests \ doubtful : Stuck(r) => At(r, "end") /\ Uploading(r)
  BY DEF Stuck, RequestsKnow, CreatedOnce, Upload
<1>1. CreatedOnce'
  BY <1>v DEF CreatedOnce, ReconcilersRead
<1>2. PurgedHaveNoRow'
  BY <1>v DEF PurgedHaveNoRow, CreatedOnce
<1>3. RequestsKnow'
  BY <1>v DEF RequestsKnow, CreatedOnce, ReconcilersRead, ReconcilersKnow
<1>4. ReconcilersRead'
  BY <1>v DEF ReconcilersRead, CreatedOnce
<1>5. ReconcilersKnow'
  BY <1>v, <1>e DEF ReconcilersKnow
<1>6. CompletedHasObjects'
  BY <1>v DEF CompletedHasObjects, CreatedOnce, PurgedHaveNoRow, RequestsKnow,
     ReconcilersRead, ReconcilersKnow
<1>7. FailedLeavesNothing'
  BY <1>v DEF FailedLeavesNothing, CreatedOnce, RequestsKnow, ReconcilersRead, ReconcilersKnow
<1>8. NoOrphans'
  BY <1>v DEF NoOrphans, CreatedOnce, RequestsKnow, ReconcilersRead, ReconcilersKnow
<1>9. UploadedOnce'
  BY <1>v DEF UploadedOnce, CreatedOnce, ReconcilersRead
<1>10. QED
  BY <1>1, <1>2, <1>3, <1>4, <1>5, <1>6, <1>7, <1>8, <1>9

\* It reads the files of one.
LEMMA ReadFilesKeeps ==
  ASSUME IInv, TypeOK', NEW i \in Reconcilers, NEW r \in Requests, ReadFiles(i, r)
  PROVE  Safe'
<1> USE DEF IInv, Safe, TypeOK, At, Begun, Live, Uploading, Rows, database, owner,
     history, ReadFiles
<1>v. /\ \A j \in Reconcilers : j # i => reconciler'[j] = reconciler[j]
      /\ reconciler'[i].batches = reconciler[i].batches \ {r}
      /\ reconciler'[i].batch = r
      /\ reconciler'[i].files = Rows(FilesOf[r])
      /\ reconciler'[i].todo = Rows(FilesOf[r])
  BY DEF Reconciler, IdleReconciler, NextBatch
<1>1. CreatedOnce'
  BY <1>v DEF CreatedOnce, ReconcilersRead
<1>2. PurgedHaveNoRow'
  BY <1>v DEF PurgedHaveNoRow, CreatedOnce
<1>3. RequestsKnow'
  BY <1>v DEF RequestsKnow, CreatedOnce, ReconcilersRead, ReconcilersKnow
<1>4. ReconcilersRead'
  BY <1>v DEF ReconcilersRead, CreatedOnce
<1>5. ReconcilersKnow'
  BY <1>v DEF ReconcilersKnow, CreatedOnce, RequestsKnow, ReconcilersRead
<1>6. CompletedHasObjects'
  BY <1>v DEF CompletedHasObjects, CreatedOnce, PurgedHaveNoRow, RequestsKnow,
     ReconcilersRead, ReconcilersKnow
<1>7. FailedLeavesNothing'
  BY <1>v DEF FailedLeavesNothing, CreatedOnce, RequestsKnow, ReconcilersRead, ReconcilersKnow
<1>8. NoOrphans'
  BY <1>v DEF NoOrphans, CreatedOnce, RequestsKnow, ReconcilersRead, ReconcilersKnow
<1>9. UploadedOnce'
  BY <1>v DEF UploadedOnce, CreatedOnce, ReconcilersRead
<1>10. QED
  BY <1>1, <1>2, <1>3, <1>4, <1>5, <1>6, <1>7, <1>8, <1>9

\* It deletes, or leaks, an object.
LEMMA ReconcileObjectKeeps ==
  ASSUME IInv, TypeOK', NEW i \in Reconcilers, NEW f \in Files, ReconcileObject(i, f)
  PROVE  Safe'
<1> USE DEF IInv, Safe, TypeOK, At, Begun, Live, Uploading, Rows, database, owner,
     history, ReconcileObject
<1>v. /\ \A j \in Reconcilers : j # i => reconciler'[j] = reconciler[j]
      /\ reconciler'[i].batches = reconciler[i].batches
      /\ reconciler'[i].batch = reconciler[i].batch
      /\ reconciler'[i].files = reconciler[i].files
      /\ reconciler'[i].todo = reconciler[i].todo \ {f}
  BY DEF Reconciler, IdleReconciler, NextBatch
<1>d. /\ (object' = object /\ f \in leaked') \/ object' = object \ {f}
      /\ leaked \subseteq leaked'
  BY DEF DeleteQuietly
<1>f. PICK b \in Requests : /\ reconciler[i].batch = b /\ f \in FilesOf[b]
                           /\ \A q \in Requests : q # b => f \notin FilesOf[q]
  <2>1. reconciler[i].batch \in Requests /\ f \in FilesOf[reconciler[i].batch]
    BY DEF ReconcilersRead, Reconciler
  <2>2. QED
    BY <2>1
<1>k. b \notin doubtful => At(b, "end") /\ batch[b].status # "COMPLETED"
  BY <1>f DEF ReconcilersKnow
<1>1. CreatedOnce'
  BY <1>v, <1>d, <1>f DEF CreatedOnce, ReconcilersRead
<1>2. PurgedHaveNoRow'
  BY <1>v, <1>d, <1>f DEF PurgedHaveNoRow, CreatedOnce
<1>3. RequestsKnow'
  BY <1>d, <1>f, <1>k DEF RequestsKnow
<1>4. ReconcilersRead'
  BY <1>v, <1>d, <1>f DEF ReconcilersRead, CreatedOnce
<1>5. ReconcilersKnow'
  BY <1>v, <1>d, <1>f DEF ReconcilersKnow, CreatedOnce, RequestsKnow, ReconcilersRead
<1>6. CompletedHasObjects'
  BY <1>d, <1>f, <1>k DEF CompletedHasObjects
<1>7. FailedLeavesNothing'
  BY <1>v, <1>d, <1>f DEF FailedLeavesNothing, CreatedOnce, RequestsKnow,
     ReconcilersRead, ReconcilersKnow
<1>8. NoOrphans'
  BY <1>v, <1>d, <1>f DEF NoOrphans, CreatedOnce, RequestsKnow, ReconcilersRead, ReconcilersKnow
<1>9. UploadedOnce'
  BY <1>v, <1>d, <1>f DEF UploadedOnce, CreatedOnce, ReconcilersRead
<1>10. QED
  BY <1>1, <1>2, <1>3, <1>4, <1>5, <1>6, <1>7, <1>8, <1>9

\* It removes the rows.
LEMMA ReconcileRowsKeeps ==
  ASSUME IInv, TypeOK', NEW i \in Reconcilers, NEW r \in Requests,
         r = reconciler[i].batch, ReconcileRows(i)
  PROVE  Safe'
<1> USE DEF IInv, Safe, TypeOK, At, Begun, Live, Uploading, Rows, database, owner,
     history, ReconcileRows
<1>v. /\ \A j \in Reconcilers : j # i => reconciler'[j] = reconciler[j]
      /\ reconciler'[i].batches = reconciler[i].batches
      /\ reconciler'[i].batch = NoRequest
      /\ reconciler'[i].files = {}
      /\ reconciler'[i].todo = {}
  BY DEF Reconciler, IdleReconciler, NextBatch
<1>b. /\ \A q \in Requests : q # r => batch'[q] = batch[q]
      /\ batch'[r].status = "FAILED" /\ batch'[r].stale = batch[r].stale
  BY DEF Removed, Batch
<1>w. \A f \in Files : row'[f] = IF f \in reconciler[i].files THEN "none" ELSE row[f]
  BY DEF Removed
<1>o. \A q \in Requests : q # r => \A f \in FilesOf[q] : row'[f] = row[f]
  BY <1>w DEF ReconcilersRead
<1>k. r \notin doubtful => reconciler[i].files \cap object \subseteq leaked
  BY DEF ReconcilersKnow
<1>1. CreatedOnce'
  BY <1>v, <1>b, <1>w DEF CreatedOnce, ReconcilersRead
<1>2. PurgedHaveNoRow'
  BY <1>v, <1>b, <1>w DEF PurgedHaveNoRow, CreatedOnce
<1>3. RequestsKnow'
  BY <1>v, <1>b, <1>w DEF RequestsKnow, CreatedOnce, ReconcilersRead, ReconcilersKnow
<1>4. ReconcilersRead'
  BY <1>v, <1>b, <1>w DEF ReconcilersRead, CreatedOnce
<1>5. ReconcilersKnow'
  BY <1>v, <1>b, <1>w DEF ReconcilersKnow, CreatedOnce, RequestsKnow, ReconcilersRead
<1>6. CompletedHasObjects'
  BY <1>v, <1>b, <1>w DEF CompletedHasObjects, CreatedOnce, PurgedHaveNoRow,
     RequestsKnow, ReconcilersRead, ReconcilersKnow
<1>7. FailedLeavesNothing'
  BY <1>v, <1>b, <1>w DEF FailedLeavesNothing, CreatedOnce, RequestsKnow,
     ReconcilersRead, ReconcilersKnow
<1>8. NoOrphans'
  BY <1>w, <1>o, <1>k DEF NoOrphans
<1>9. UploadedOnce'
  BY <1>v, <1>b, <1>w DEF UploadedOnce, CreatedOnce, ReconcilersRead
<1>10. QED
  BY <1>1, <1>2, <1>3, <1>4, <1>5, <1>6, <1>7, <1>8, <1>9

\* It leaves the batch for later.
LEMMA ReconcileFailsKeeps ==
  ASSUME IInv, TypeOK', NEW i \in Reconcilers, ReconcileFails(i)
  PROVE  Safe'
<1> USE DEF IInv, Safe, TypeOK, At, Begun, Live, Uploading, Rows, database, owner,
     history, ReconcileFails
<1>v. /\ \A j \in Reconcilers : j # i => reconciler'[j] = reconciler[j]
      /\ reconciler'[i].batches = reconciler[i].batches
      /\ reconciler'[i].batch = NoRequest
      /\ reconciler'[i].files = {}
      /\ reconciler'[i].todo = {}
  BY DEF Reconciler, IdleReconciler, NextBatch
<1>1. CreatedOnce'
  BY <1>v DEF CreatedOnce, ReconcilersRead
<1>2. PurgedHaveNoRow'
  BY <1>v DEF PurgedHaveNoRow, CreatedOnce
<1>3. RequestsKnow'
  BY <1>v DEF RequestsKnow, CreatedOnce, ReconcilersRead, ReconcilersKnow
<1>4. ReconcilersRead'
  BY <1>v DEF ReconcilersRead, CreatedOnce
<1>5. ReconcilersKnow'
  BY <1>v DEF ReconcilersKnow, CreatedOnce, RequestsKnow, ReconcilersRead
<1>6. CompletedHasObjects'
  BY <1>v DEF CompletedHasObjects, CreatedOnce, PurgedHaveNoRow, RequestsKnow,
     ReconcilersRead, ReconcilersKnow
<1>7. FailedLeavesNothing'
  BY <1>v DEF FailedLeavesNothing, CreatedOnce, RequestsKnow, ReconcilersRead, ReconcilersKnow
<1>8. NoOrphans'
  BY <1>v DEF NoOrphans, CreatedOnce, RequestsKnow, ReconcilersRead, ReconcilersKnow
<1>9. UploadedOnce'
  BY <1>v DEF UploadedOnce, CreatedOnce, ReconcilersRead
<1>10. QED
  BY <1>1, <1>2, <1>3, <1>4, <1>5, <1>6, <1>7, <1>8, <1>9

\* The owner trashes, restores or edits a file.
LEMMA OwnerKeeps ==
  ASSUME IInv, TypeOK', NEW f \in Files, Trash(f) \/ Restore(f) \/ Edit(f)
  PROVE  Safe'
<1> USE DEF IInv, Safe, TypeOK, At, Begun, Live, Uploading, Rows, database, owner,
     history, Trash, Restore, Edit, Touched
<1>w. \A g \in Files : row'[g] = "none" <=> row[g] = "none"
  OBVIOUS
<1>t. touched \subseteq touched'
  OBVIOUS
<1>1. CreatedOnce'
  BY <1>w, <1>t DEF CreatedOnce, ReconcilersRead
<1>2. PurgedHaveNoRow'
  BY <1>w, <1>t DEF PurgedHaveNoRow, CreatedOnce
<1>3. RequestsKnow'
  BY <1>w, <1>t DEF RequestsKnow, CreatedOnce, ReconcilersRead, ReconcilersKnow
<1>4. ReconcilersRead'
  BY <1>w, <1>t DEF ReconcilersRead, CreatedOnce
<1>5. ReconcilersKnow'
  BY <1>w, <1>t DEF ReconcilersKnow, CreatedOnce, RequestsKnow, ReconcilersRead
<1>6. CompletedHasObjects'
  BY <1>w, <1>t DEF CompletedHasObjects, CreatedOnce, PurgedHaveNoRow, RequestsKnow,
     ReconcilersRead, ReconcilersKnow
<1>7. FailedLeavesNothing'
  BY <1>w, <1>t DEF FailedLeavesNothing, CreatedOnce, RequestsKnow, ReconcilersRead, ReconcilersKnow
<1>8. NoOrphans'
  BY <1>w, <1>t DEF NoOrphans, CreatedOnce, RequestsKnow, ReconcilersRead, ReconcilersKnow
<1>9. UploadedOnce'
  BY <1>w, <1>t DEF UploadedOnce, CreatedOnce, ReconcilersRead
<1>10. QED
  BY <1>1, <1>2, <1>3, <1>4, <1>5, <1>6, <1>7, <1>8, <1>9

\* The owner purges a file.
LEMMA PurgeKeeps ==
  ASSUME IInv, TypeOK', NEW f \in Files, PermanentDelete(f)
  PROVE  Safe'
<1> USE DEF IInv, Safe, TypeOK, At, Begun, Live, Uploading, Rows, database, owner,
     history, PermanentDelete
<1>w. \A g \in Files : row'[g] = IF g = f THEN "none" ELSE row[g]
  OBVIOUS
<1>t. touched \subseteq touched' /\ (\A r \in Requests : f \in FilesOf[r] /\ Uploading(r) => f \in touched')
  BY FilesHaveOneBatch DEF Touched
<1>1. CreatedOnce'
  BY <1>w, <1>t DEF CreatedOnce, ReconcilersRead
<1>2. PurgedHaveNoRow'
  BY <1>w, <1>t DEF PurgedHaveNoRow, CreatedOnce
<1>3. RequestsKnow'
  BY <1>w, <1>t DEF RequestsKnow, CreatedOnce, ReconcilersRead, ReconcilersKnow
<1>4. ReconcilersRead'
  BY <1>w, <1>t DEF ReconcilersRead, CreatedOnce
<1>5. ReconcilersKnow'
  BY <1>w, <1>t DEF ReconcilersKnow, CreatedOnce, RequestsKnow, ReconcilersRead
<1>6. CompletedHasObjects'
  BY <1>w, <1>t DEF CompletedHasObjects, CreatedOnce, PurgedHaveNoRow, RequestsKnow,
     ReconcilersRead, ReconcilersKnow
<1>7. FailedLeavesNothing'
  BY <1>w, <1>t DEF FailedLeavesNothing, CreatedOnce, RequestsKnow, ReconcilersRead, ReconcilersKnow
<1>8. NoOrphans'
  BY <1>w, <1>t DEF NoOrphans, CreatedOnce, RequestsKnow, ReconcilersRead, ReconcilersKnow
<1>9. UploadedOnce'
  BY <1>w, <1>t DEF UploadedOnce, CreatedOnce, ReconcilersRead
<1>10. QED
  BY <1>1, <1>2, <1>3, <1>4, <1>5, <1>6, <1>7, <1>8, <1>9

\* A purged object is deleted.
LEMMA DeletePurgedKeeps ==
  ASSUME IInv, TypeOK', NEW f \in Files, DeletePurged(f)
  PROVE  Safe'
<1> USE DEF IInv, Safe, TypeOK, At, Begun, Live, Uploading, Rows, database, owner,
     history, DeletePurged
<1>w. row[f] = "none"
  BY DEF PurgedHaveNoRow
<1>1. CreatedOnce'
  BY <1>w DEF CreatedOnce, ReconcilersRead
<1>2. PurgedHaveNoRow'
  BY <1>w DEF PurgedHaveNoRow, CreatedOnce
<1>3. RequestsKnow'
  BY <1>w DEF RequestsKnow, CreatedOnce, ReconcilersRead, ReconcilersKnow
<1>4. ReconcilersRead'
  BY <1>w DEF ReconcilersRead, CreatedOnce
<1>5. ReconcilersKnow'
  BY <1>w DEF ReconcilersKnow, CreatedOnce, RequestsKnow, ReconcilersRead
<1>6. CompletedHasObjects'
  BY <1>w DEF CompletedHasObjects, CreatedOnce, PurgedHaveNoRow, RequestsKnow,
     ReconcilersRead, ReconcilersKnow
<1>7. FailedLeavesNothing'
  BY <1>w DEF FailedLeavesNothing, CreatedOnce, RequestsKnow, ReconcilersRead, ReconcilersKnow
<1>8. NoOrphans'
  BY <1>w DEF NoOrphans, CreatedOnce, RequestsKnow, ReconcilersRead, ReconcilersKnow
<1>9. UploadedOnce'
  BY <1>w DEF UploadedOnce, CreatedOnce, ReconcilersRead
<1>10. QED
  BY <1>1, <1>2, <1>3, <1>4, <1>5, <1>6, <1>7, <1>8, <1>9

\* A batch grows stale.
LEMMA GrowStaleKeeps ==
  ASSUME IInv, TypeOK', NEW r \in Requests, GrowStale(r)
  PROVE  Safe'
<1> USE DEF IInv, Safe, TypeOK, At, Begun, Live, Uploading, Rows, database, owner,
     history, GrowStale
<1>b. /\ \A q \in Requests : q # r => batch'[q] = batch[q]
      /\ batch'[r].stale /\ batch'[r].status = batch[r].status
  BY DEF Batch
<1>1. CreatedOnce'
  BY <1>b DEF CreatedOnce, ReconcilersRead
<1>2. PurgedHaveNoRow'
  BY <1>b DEF PurgedHaveNoRow, CreatedOnce
<1>3. RequestsKnow'
  BY <1>b DEF RequestsKnow, CreatedOnce, ReconcilersRead, ReconcilersKnow
<1>4. ReconcilersRead'
  BY <1>b DEF ReconcilersRead, CreatedOnce
<1>5. ReconcilersKnow'
  BY <1>b DEF ReconcilersKnow, CreatedOnce, RequestsKnow, ReconcilersRead
<1>6. CompletedHasObjects'
  BY <1>b DEF CompletedHasObjects, CreatedOnce, PurgedHaveNoRow, RequestsKnow,
     ReconcilersRead, ReconcilersKnow
<1>7. FailedLeavesNothing'
  BY <1>b DEF FailedLeavesNothing, CreatedOnce, RequestsKnow, ReconcilersRead, ReconcilersKnow
<1>8. NoOrphans'
  BY <1>b DEF NoOrphans, CreatedOnce, RequestsKnow, ReconcilersRead, ReconcilersKnow
<1>9. UploadedOnce'
  BY <1>b DEF UploadedOnce, CreatedOnce, ReconcilersRead
<1>10. QED
  BY <1>1, <1>2, <1>3, <1>4, <1>5, <1>6, <1>7, <1>8, <1>9

\* An instance crashes.
LEMMA CrashKeeps ==
  ASSUME IInv, TypeOK', NEW i \in Instances, Crash(i)
  PROVE  Safe'
<1> USE DEF IInv, Safe, TypeOK, At, Begun, Live, Uploading, Rows, database, owner,
     history, IdleReconciler
<1>x. UNCHANGED <<database, object, toDelete, history>>
  BY DEF Crash
<1>u. \A q \in Requests : /\ upload'[q].key = upload[q].key
                         /\ \/ upload'[q].pc = upload[q].pc /\ upload'[q].todo = upload[q].todo
                            \/ upload'[q].pc = "end" /\ ~At(q, "new")
  <2> TAKE q \in Requests
  <2>1. CASE upload[q].on = i /\ ~At(q, "new")
    <3>1. upload'[q] = [upload[q] EXCEPT !.pc = "end", !.todo = {}]
      BY <2>1 DEF Crash
    <3>2. upload[q] \in Upload
      OBVIOUS
    <3>3. QED
      BY <3>1, <3>2, <2>1 DEF Upload
  <2>2. CASE ~(upload[q].on = i /\ ~At(q, "new"))
    <3>1. upload'[q] = upload[q]
      BY <2>2 DEF Crash
    <3>2. QED
      BY <3>1
  <2>3. QED
    BY <2>1, <2>2
<1>v. \A j \in Reconcilers : reconciler'[j] = reconciler[j] \/ reconciler'[j] = IdleReconciler
  BY DEF Crash
<1>1. CreatedOnce'
  BY <1>x, <1>u, <1>v DEF CreatedOnce, ReconcilersRead
<1>2. PurgedHaveNoRow'
  BY <1>x, <1>u, <1>v DEF PurgedHaveNoRow, CreatedOnce
<1>3. RequestsKnow'
  BY <1>x, <1>u, <1>v DEF RequestsKnow, CreatedOnce, ReconcilersRead, ReconcilersKnow
<1>4. ReconcilersRead'
  BY <1>x, <1>u, <1>v DEF ReconcilersRead, CreatedOnce
<1>5. ReconcilersKnow'
  BY <1>x, <1>u, <1>v DEF ReconcilersKnow, CreatedOnce, RequestsKnow, ReconcilersRead
<1>6. CompletedHasObjects'
  BY <1>x, <1>u, <1>v DEF CompletedHasObjects, CreatedOnce, PurgedHaveNoRow,
     RequestsKnow, ReconcilersRead, ReconcilersKnow
<1>7. FailedLeavesNothing'
  BY <1>x, <1>u, <1>v DEF FailedLeavesNothing, CreatedOnce, RequestsKnow,
     ReconcilersRead, ReconcilersKnow
<1>8. NoOrphans'
  BY <1>x, <1>u, <1>v DEF NoOrphans, CreatedOnce, RequestsKnow, ReconcilersRead, ReconcilersKnow
<1>9. UploadedOnce'
  BY <1>x, <1>u, <1>v DEF UploadedOnce, CreatedOnce, ReconcilersRead
<1>10. QED
  BY <1>1, <1>2, <1>3, <1>4, <1>5, <1>6, <1>7, <1>8, <1>9

\* Every step keeps the types.
LEMMA TypesKept == TypeOK /\ [Next]_vars => TypeOK'
<1> SUFFICES ASSUME TypeOK, [Next]_vars PROVE TypeOK'
  OBVIOUS
<1> USE DEF TypeOK, database, owner, history
<1>f. Fault => faults' \in 0..MaxFaults
  BY DEF Fault
<1>a. Act => acts' \in 0..MaxActs
  BY DEF Act
<1>u. ASSUME NEW x \in Upload, NEW S \in SUBSET Files,
             NEW pc \in {"lock", "recheck", "quota", "create", "persist", "put", "delete", "fail", "end"}
      PROVE  /\ [x EXCEPT !.pc = pc] \in Upload
             /\ [x EXCEPT !.todo = S] \in Upload
             /\ [x EXCEPT !.pc = pc, !.todo = S] \in Upload
  BY DEF Upload
<1>v. ASSUME NEW x \in Reconciler
      PROVE  /\ \A S \in SUBSET Requests : [x EXCEPT !.batches = S] \in Reconciler
             /\ \A S \in SUBSET Files : [x EXCEPT !.todo = S] \in Reconciler
  BY DEF Reconciler
<1>w. \A r \in Requests : upload[r] \in Upload
  OBVIOUS
<1>x. \A i \in Reconcilers : reconciler[i] \in Reconciler
  OBVIOUS
<1>h. ASSUME NEW r \in Requests,
             NEW pc \in {"lock", "recheck", "quota", "create", "persist", "put", "delete", "fail", "end"}
      PROVE  /\ GoTo(r, pc) => upload' \in [Requests -> Upload]
             /\ GoToWithFiles(r, pc) => upload' \in [Requests -> Upload]
             /\ Unlock(r) => lock' \in [Instances -> Requests \cup {NoRequest}]
  <2>1. GoTo(r, pc) => upload' \in [Requests -> Upload]
    <3>1. [upload[r] EXCEPT !.pc = pc] \in Upload
      BY <1>u, <1>w
    <3>2. QED
      BY <3>1 DEF GoTo
  <2>2. GoToWithFiles(r, pc) => upload' \in [Requests -> Upload]
    <3>1. FilesOf[r] \in SUBSET Files
      OBVIOUS
    <3>2. [upload[r] EXCEPT !.pc = pc, !.todo = FilesOf[r]] \in Upload
      BY <3>1, <1>u, <1>w
    <3>3. QED
      BY <3>2 DEF GoToWithFiles
  <2>3. Unlock(r) => lock' \in [Instances -> Requests \cup {NoRequest}]
    BY DEF Unlock
  <2>4. QED
    BY <2>1, <2>2, <2>3
<1>b. \A r \in Requests, s \in {"UPLOADING", "COMPLETED", "FAILED"} :
        [batch EXCEPT ![r].status = s] \in [Requests -> Batch]
  BY DEF Batch
<1>1. ASSUME NEW r \in Requests, Lookup(r) \/ Recheck(r) \/ CheckQuota(r) \/ CreateRaced(r) PROVE TypeOK'
  BY <1>1, <1>h DEF Lookup, Recheck, CheckQuota, CreateRaced
<1>2. ASSUME NEW r \in Requests, Lock(r) PROVE TypeOK'
  BY <1>2, <1>h DEF Lock
<1>3. ASSUME NEW r \in Requests, CreateBatch(r) PROVE TypeOK'
  BY <1>3, <1>h, <1>b DEF CreateBatch
<1>4. ASSUME NEW r \in Requests, PersistPendingFiles(r) \/ CreateFails(r) PROVE TypeOK'
  <2>1. Persisted(r) \in [Files -> {"none", "live", "trashed"}]
    BY DEF Persisted
  <2>2. CASE PersistPendingFiles(r)
    BY <2>1, <2>2, <1>h DEF PersistPendingFiles
  <2>3. CASE CreateFails(r)
    BY <2>1, <2>3, <1>h, <1>b, <1>f DEF CreateFails
  <2>4. QED
    BY <1>4, <2>2, <2>3
<1>5. ASSUME NEW r \in Requests, NEW f \in FilesOf[r], PutObject(r, f) PROVE TypeOK'
  <2>1. upload' \in [Requests -> Upload]
    <3>1. upload[r].todo \ {f} \in SUBSET Files
      BY <1>w DEF Upload
    <3>2. [upload[r] EXCEPT !.todo = upload[r].todo \ {f}] \in Upload
      BY <3>1, <1>u, <1>w
    <3>3. QED
      BY <3>2, <1>5 DEF PutObject
  <2>2. QED
    BY <1>5, <2>1 DEF PutObject
<1>6. ASSUME NEW r \in Requests, NEW f \in FilesOf[r], PutFails(r, f) PROVE TypeOK'
  BY <1>6, <1>h DEF PutFails
<1>7. ASSUME NEW r \in Requests, CompleteBatch(r) \/ CompleteRefused(r) PROVE TypeOK'
  <2>1. FilesOf[r] \subseteq Files
    OBVIOUS
  <2>2. CASE CompleteBatch(r)
    BY <2>1, <2>2, <1>h, <1>b DEF CompleteBatch, Completed
  <2>3. CASE CompleteRefused(r)
    BY <2>3, <1>h DEF CompleteRefused
  <2>4. QED
    BY <1>7, <2>2, <2>3
<1>8. ASSUME NEW r \in Requests, CompleteFails(r) PROVE TypeOK'
  <2>1. FilesOf[r] \subseteq Files
    OBVIOUS
  <2>2. upload' \in [Requests -> Upload] /\ faults' \in 0..MaxFaults
        /\ UNCHANGED <<object, lock, reconciler, toDelete, owner, leaked>>
    BY <1>8, <1>h, <1>f DEF CompleteFails
  <2>3. CASE UNCHANGED <<database, doubtful>>
    BY <2>2, <2>3
  <2>4. CASE Completed(r) /\ doubtful' = doubtful \cup {r}
    BY <2>1, <2>2, <2>4, <1>b DEF Completed
  <2>5. QED
    BY <1>8, <2>3, <2>4 DEF CompleteFails
<1>q. ASSUME NEW f \in Files, DeleteQuietly(f)
      PROVE  object' \subseteq Files /\ leaked' \subseteq Files /\ faults' \in 0..MaxFaults
  BY <1>q, <1>f DEF DeleteQuietly
<1>9. ASSUME NEW r \in Requests, NEW f \in FilesOf[r], DeleteObject(r, f) PROVE TypeOK'
  <2>1. upload' \in [Requests -> Upload]
    <3>1. upload[r].todo \ {f} \in SUBSET Files
      BY <1>w DEF Upload
    <3>2. \A pc \in {"fail", "delete"} :
            [upload[r] EXCEPT !.pc = pc, !.todo = upload[r].todo \ {f}] \in Upload
      BY <3>1, <1>u, <1>w
    <3>3. QED
      BY <3>2, <1>9 DEF DeleteObject
  <2>2. QED
    BY <1>9, <2>1, <1>q DEF DeleteObject
<1>r. ASSUME NEW r \in Requests, NEW S, Removed(S, r)
      PROVE  row' \in [Files -> {"none", "live", "trashed"}] /\ batch' \in [Requests -> Batch]
             /\ referenced' \subseteq Files
  BY <1>r, <1>b DEF Removed
<1>10. ASSUME NEW r \in Requests, FailUpload(r) \/ FailUploadFails(r) PROVE TypeOK'
  BY <1>10, <1>h, <1>r, <1>f DEF FailUpload, FailUploadFails
<1>11. ASSUME NEW i \in Reconcilers, Reconcile(i) PROVE TypeOK'
  <2>1. reconciler' \in [Reconcilers -> Reconciler]
    BY <1>11, <1>v, <1>x DEF Reconcile
  <2>2. QED
    BY <1>11, <2>1 DEF Reconcile
<1>12. ASSUME NEW i \in Reconcilers, NEW r \in Requests, ReadFiles(i, r) PROVE TypeOK'
  <2>1. reconciler' \in [Reconcilers -> Reconciler]
    BY <1>12 DEF ReadFiles, Reconciler, Rows
  <2>2. QED
    BY <1>12, <2>1 DEF ReadFiles
<1>13. ASSUME NEW i \in Reconcilers, NEW f \in Files, ReconcileObject(i, f) PROVE TypeOK'
  <2>1. reconciler' \in [Reconcilers -> Reconciler]
    <3>1. reconciler[i].todo \ {f} \in SUBSET Files
      BY <1>x DEF Reconciler
    <3>2. QED
      BY <3>1, <1>13, <1>v, <1>x DEF ReconcileObject
  <2>2. QED
    BY <1>13, <2>1, <1>q DEF ReconcileObject
<1>n. ASSUME NEW i \in Reconcilers, NextBatch(i) PROVE reconciler' \in [Reconcilers -> Reconciler]
  BY <1>n DEF NextBatch, Reconciler, IdleReconciler
<1>14. ASSUME NEW i \in Reconcilers, ReconcileRows(i) PROVE TypeOK'
  <2>1. reconciler[i].batch \in Requests
    BY <1>14 DEF ReconcileRows, Reconciler
  <2>2. QED
    BY <1>14, <2>1, <1>n, <1>r DEF ReconcileRows
<1>15. ASSUME NEW i \in Reconcilers, ReconcileFails(i) PROVE TypeOK'
  BY <1>15, <1>n, <1>f DEF ReconcileFails
<1>16. ASSUME NEW f \in Files, Owner(f) PROVE TypeOK'
  BY <1>16, <1>a DEF Owner, Trash, Restore, Edit, PermanentDelete, Touched
<1>17. ASSUME NEW f \in Files, DeletePurged(f) PROVE TypeOK'
  BY <1>17 DEF DeletePurged
<1>18. ASSUME NEW r \in Requests, GrowStale(r) PROVE TypeOK'
  <2>1. batch' \in [Requests -> Batch]
    <3>1. batch[r] \in Batch
      OBVIOUS
    <3>2. [batch[r] EXCEPT !.stale = TRUE] \in Batch
      BY <3>1 DEF Batch
    <3>3. QED
      BY <3>2, <1>18 DEF GrowStale
  <2>2. QED
    BY <1>18, <2>1 DEF GrowStale
<1>19. ASSUME NEW i \in Instances, Crash(i) PROVE TypeOK'
  <2>1. \A r \in Requests : [upload[r] EXCEPT !.pc = "end", !.todo = {}] \in Upload
    BY <1>u, <1>w
  <2>2. upload' \in [Requests -> Upload]
    BY <1>19, <2>1 DEF Crash
  <2>3. reconciler' \in [Reconcilers -> Reconciler]
    BY <1>19 DEF Crash, Reconciler, IdleReconciler
  <2>4. lock' \in [Instances -> Requests \cup {NoRequest}] /\ faults' \in 0..MaxFaults
        /\ UNCHANGED <<database, object, toDelete, history>>
    BY <1>19, <1>f DEF Crash
  <2>5. QED
    BY <2>2, <2>3, <2>4
<1>20. ASSUME UNCHANGED vars PROVE TypeOK'
  BY <1>20 DEF vars
<1>21. QED
  BY <1>1, <1>2, <1>3, <1>4, <1>5, <1>6, <1>7, <1>8, <1>9, <1>10, <1>11, <1>12, <1>13, <1>14, <1>15,
     <1>16, <1>17, <1>18, <1>19, <1>20 DEF Next, Serve, Repair

LEMMA InvariantHoldsAtFirst == Init => IInv
<1> SUFFICES ASSUME Init PROVE IInv
  OBVIOUS
<1>1. \A r \in Requests : upload[r].pc = "new" /\ upload[r].todo = {} /\ batch[r].status = "NONE"
                          /\ ~batch[r].stale
  BY DEF Init
<1>2. TypeOK
  <2>1. upload \in [Requests -> Upload]
    BY DEF Init, Upload
  <2>2. reconciler \in [Reconcilers -> Reconciler] /\ batch \in [Requests -> Batch]
    BY DEF Init, Reconciler, IdleReconciler, Batch
  <2>3. QED
    BY <2>1, <2>2 DEF Init, TypeOK
<1>3. CreatedOnce /\ PurgedHaveNoRow /\ RequestsKnow /\ UploadedOnce
  BY <1>1 DEF Init, CreatedOnce, PurgedHaveNoRow, RequestsKnow, UploadedOnce, Begun, At, Live, Rows
<1>4. ReconcilersRead /\ ReconcilersKnow
  BY <1>1 DEF Init, IdleReconciler, ReconcilersRead, ReconcilersKnow
<1>5. CompletedHasObjects /\ FailedLeavesNothing /\ NoOrphans
  BY <1>1 DEF Init, CompletedHasObjects, FailedLeavesNothing, NoOrphans
<1>6. QED
  BY <1>2, <1>3, <1>4, <1>5 DEF IInv

LEMMA InvariantKept == IInv /\ [Next]_vars => IInv'
<1> SUFFICES ASSUME IInv, [Next]_vars PROVE IInv'
  OBVIOUS
<1>t. TypeOK'
  BY TypesKept DEF IInv
<1>s. Safe' => IInv'
  BY <1>t DEF IInv, Safe
<1>1. ASSUME NEW r \in Requests, Lookup(r) \/ Lock(r) \/ Recheck(r) \/ CheckQuota(r) \/ CreateRaced(r)
      PROVE  Safe'
  <2>1. PICK pc \in {"lock", "recheck", "quota", "create", "end"} : GoTo(r, pc)
    BY <1>1 DEF Lookup, Lock, Recheck, CheckQuota, CreateRaced
  <2>2. ~Begun(r) /\ UNCHANGED <<database, object, reconciler, toDelete, history>>
    BY <1>1 DEF Lookup, Lock, Recheck, CheckQuota, CreateRaced, Begun, At
  <2>3. QED
    BY <2>1, <2>2, <1>t, Early
<1>2. ASSUME NEW r \in Requests, CreateBatch(r) PROVE Safe'
  BY <1>2, <1>t, CreateBatchKeeps DEF CreateBatch
<1>3. ASSUME NEW r \in Requests, PersistPendingFiles(r) PROVE Safe'
  BY <1>3, <1>t, PersistKeeps DEF PersistPendingFiles
<1>4. ASSUME NEW r \in Requests, CreateFails(r) PROVE Safe'
  <2>1. GoTo(r, "end") /\ UNCHANGED <<referenced, object, reconciler, toDelete, history>>
    BY <1>4 DEF CreateFails
  <2>2. CASE At(r, "create") /\ ~Known(r) /\ row' = row
             /\ batch' = [batch EXCEPT ![r].status = "UPLOADING"]
    BY <2>1, <2>2, <1>t, CreateBatchKeeps
  <2>3. CASE At(r, "create") /\ row' = row /\ batch' = batch
    BY <2>1, <2>3, <1>t, Early DEF Begun, At, database
  <2>4. CASE At(r, "persist") /\ batch' = batch /\ row' = Persisted(r)
    BY <2>1, <2>4, <1>t, PersistKeeps
  <2>5. CASE At(r, "persist") /\ batch' = batch /\ row' = row
    BY <2>1, <2>5, <1>t, EndKeeps DEF Begun, At, database
  <2>6. QED
    BY <1>4, <2>2, <2>3, <2>4, <2>5 DEF CreateFails
<1>5. ASSUME NEW r \in Requests, NEW f \in FilesOf[r], PutObject(r, f) \/ PutFails(r, f) \/ DeleteObject(r, f)
      PROVE  Safe'
  BY <1>5, <1>t, PutKeeps, PutFailsKeeps, DeleteKeeps
<1>6. ASSUME NEW r \in Requests, CompleteBatch(r) PROVE Safe'
  BY <1>6, <1>t, CompleteKeeps
<1>7. ASSUME NEW r \in Requests, CompleteRefused(r) PROVE Safe'
  BY <1>7, <1>t, CompensateKeeps DEF CompleteRefused
<1>8. ASSUME NEW r \in Requests, CompleteFails(r) PROVE Safe'
  <2>1. ReadyToComplete(r) /\ GoToWithFiles(r, "delete")
        /\ UNCHANGED <<object, reconciler, toDelete, owner, leaked>>
    BY <1>8 DEF CompleteFails
  <2>2. CASE UNCHANGED <<database, doubtful>>
    BY <2>1, <2>2, <1>t, CompensateKeeps DEF history
  <2>3. CASE Completed(r) /\ doubtful' = doubtful \cup {r}
    BY <2>1, <2>3, <1>t, CompleteUnknownKeeps
  <2>4. QED
    BY <1>8, <2>2, <2>3 DEF CompleteFails
<1>9. ASSUME NEW r \in Requests, FailUpload(r) PROVE Safe'
  BY <1>9, <1>t, FailUploadKeeps
<1>10. ASSUME NEW r \in Requests, FailUploadFails(r) PROVE Safe'
  BY <1>10, <1>t, EndKeeps DEF FailUploadFails, Begun, At
<1>11. ASSUME NEW i \in Reconcilers, Repair(i) PROVE Safe'
  <2>1. CASE Reconcile(i)
    BY <2>1, <1>t, ReconcileKeeps
  <2>2. ASSUME NEW r \in Requests, ReadFiles(i, r) PROVE Safe'
    BY <2>2, <1>t, ReadFilesKeeps
  <2>3. ASSUME NEW f \in Files, ReconcileObject(i, f) PROVE Safe'
    BY <2>3, <1>t, ReconcileObjectKeeps
  <2>4. CASE ReconcileRows(i)
    <3>1. reconciler[i].batch \in Requests
      BY <2>4 DEF ReconcileRows, Reconciler, IInv, TypeOK
    <3>2. QED
      BY <3>1, <2>4, <1>t, ReconcileRowsKeeps
  <2>5. CASE ReconcileFails(i)
    BY <2>5, <1>t, ReconcileFailsKeeps
  <2>6. QED
    BY <1>11, <2>1, <2>2, <2>3, <2>4, <2>5 DEF Repair
<1>12. ASSUME NEW f \in Files, Owner(f) \/ DeletePurged(f) PROVE Safe'
  BY <1>12, <1>t, OwnerKeeps, PurgeKeeps, DeletePurgedKeeps DEF Owner
<1>13. ASSUME NEW r \in Requests, GrowStale(r) PROVE Safe'
  BY <1>13, <1>t, GrowStaleKeeps
<1>14. ASSUME NEW i \in Instances, Crash(i) PROVE Safe'
  BY <1>14, <1>t, CrashKeeps
<1>15. ASSUME UNCHANGED vars PROVE IInv'
  BY <1>15 DEF vars, IInv, TypeOK, CreatedOnce, PurgedHaveNoRow, RequestsKnow, ReconcilersRead,
     ReconcilersKnow, CompletedHasObjects, FailedLeavesNothing, NoOrphans, UploadedOnce,
     Begun, At, Live, Uploading, Rows
<1>16. QED
  BY <1>s, <1>1, <1>2, <1>3, <1>4, <1>5, <1>6, <1>7, <1>8, <1>9, <1>10, <1>11, <1>12, <1>13, <1>14, <1>15
     DEF Next, Serve

\* IInv holds in every reachable state, for any number of requests and instances.
THEOREM UploadInvariant == Spec => []IInv
<1>1. QED
  BY InvariantHoldsAtFirst, InvariantKept, PTL DEF Spec

\* The files of a completed batch have their objects (UploadService, UploadReconciler).
THEOREM CompletedBatchesHaveObjects == Spec => []CompletedHasObjects
<1>1. IInv => CompletedHasObjects
  BY DEF IInv
<1>2. QED
  BY <1>1, UploadInvariant, PTL

\* A failed batch leaves no file rows (failUpload, reconcileBatch).
THEOREM FailedBatchesLeaveNothing == Spec => []FailedLeavesNothing
<1>1. IInv => FailedLeavesNothing
  BY DEF IInv
<1>2. QED
  BY <1>1, UploadInvariant, PTL

\* No object is left without a row or a task to delete it (deleteQuietly apart).
THEOREM ObjectsHaveRows == Spec => []NoOrphans
<1>1. IInv => NoOrphans
  BY DEF IInv
<1>2. QED
  BY <1>1, UploadInvariant, PTL

\* One request per key creates a batch.
THEOREM KeysUploadOnce == Spec => []UploadedOnce
<1>1. IInv => UploadedOnce
  BY DEF IInv
<1>2. QED
  BY <1>1, UploadInvariant, PTL

-----------------------------------------------------------------------------
(* The quota                                                               *)

\* The bytes of files are finitely many.
Bytes(S) == UNION {{f} \X (1..Size[f]) : f \in S}

LEMMA BytesFinite == ASSUME NEW S, S \subseteq Files PROVE IsFiniteSet(Bytes(S)) /\ SizeOf(S) = Cardinality(Bytes(S))
<1>1. IsFiniteSet(S)
  BY FS_Subset
<1>2. \A f \in S : IsFiniteSet({f} \X (1..Size[f]))
  <2>1. ASSUME NEW f \in S PROVE IsFiniteSet({f} \X (1..Size[f]))
    <3>1. IsFiniteSet({f})
      BY FS_Singleton
    <3>2. IsFiniteSet(1..Size[f])
      <4>1. Size[f] \in Int /\ 1 \in Int
        OBVIOUS
      <4>2. QED
        BY <4>1, FS_Interval
    <3>3. QED
      BY <3>1, <3>2, FS_Product
  <2>2. QED
    BY <2>1
<1>3. IsFiniteSet({{f} \X (1..Size[f]) : f \in S})
  <2> DEFINE g == [f \in S |-> {f} \X (1..Size[f])]
  <2>1. g \in Surjection(S, {{f} \X (1..Size[f]) : f \in S})
    BY DEF Surjection
  <2>2. QED
    BY <1>1, <2>1, FS_Surjection
<1>4. QED
  <2>1. \A T \in {{f} \X (1..Size[f]) : f \in S} : IsFiniteSet(T)
    BY <1>2
  <2>2. IsFiniteSet(UNION {{f} \X (1..Size[f]) : f \in S})
    BY <1>3, <2>1, FS_UNION
  <2>3. QED
    BY <2>2 DEF Bytes, SizeOf

\* Two sets of files have no more bytes than both of them, and more files no fewer.
LEMMA SizeAdds ==
  ASSUME NEW S, NEW T, S \subseteq Files, T \subseteq Files
  PROVE  /\ SizeOf(S) \in Nat /\ SizeOf(T) \in Nat /\ SizeOf(S \cup T) \in Nat
         /\ SizeOf(S \cup T) <= SizeOf(S) + SizeOf(T)
         /\ S \subseteq T => SizeOf(S) <= SizeOf(T)
<1>1. /\ IsFiniteSet(Bytes(S)) /\ SizeOf(S) = Cardinality(Bytes(S))
      /\ IsFiniteSet(Bytes(T)) /\ SizeOf(T) = Cardinality(Bytes(T))
      /\ SizeOf(S \cup T) = Cardinality(Bytes(S \cup T))
  BY BytesFinite
<1>2. Bytes(S \cup T) = Bytes(S) \cup Bytes(T)
  BY DEF Bytes
<1>3. S \subseteq T => Bytes(S) \subseteq Bytes(T)
  BY DEF Bytes
<1>4. /\ Cardinality(Bytes(S)) \in Nat /\ Cardinality(Bytes(T)) \in Nat
      /\ Cardinality(Bytes(S) \cap Bytes(T)) \in Nat
      /\ Cardinality(Bytes(S) \cup Bytes(T)) = Cardinality(Bytes(S)) + Cardinality(Bytes(T)) - Cardinality(Bytes(S) \cap Bytes(T))
      /\ Cardinality(Bytes(S) \cup Bytes(T)) \in Nat
  <2>1. IsFiniteSet(Bytes(S) \cap Bytes(T)) /\ IsFiniteSet(Bytes(S) \cup Bytes(T))
    BY <1>1, FS_Intersection, FS_Union
  <2>2. QED
    BY <1>1, <2>1, FS_Union, FS_CardinalityType
<1>5. S \subseteq T => Cardinality(Bytes(S)) <= Cardinality(Bytes(T))
  BY <1>1, <1>3, FS_Subset
<1>6. SizeOf(S) \in Nat /\ SizeOf(T) \in Nat /\ SizeOf(S \cup T) \in Nat
  BY <1>1, <1>2, <1>4
<1>7. SizeOf(S \cup T) <= SizeOf(S) + SizeOf(T)
  <2> DEFINE a == Cardinality(Bytes(S))
             b == Cardinality(Bytes(T))
             c == Cardinality(Bytes(S) \cap Bytes(T))
  <2>1. a \in Nat /\ b \in Nat /\ c \in Nat /\ SizeOf(S \cup T) = a + b - c
    BY <1>1, <1>2, <1>4
  <2>2. SizeOf(S) = a /\ SizeOf(T) = b
    BY <1>1
  <2> HIDE DEF a, b, c
  <2>3. QED
    BY <2>1, <2>2
<1>8. S \subseteq T => SizeOf(S) <= SizeOf(T)
  BY <1>1, <1>5
<1>9. QED
  BY <1>6, <1>7, <1>8

\* Nothing has no size.
LEMMA NoSize == SizeOf({}) = 0
<1>1. UNION {{f} \X (1..Size[f]) : f \in {}} = {}
  OBVIOUS
<1>2. QED
  BY <1>1, FS_EmptySet DEF SizeOf

\* Every nonempty set of natural numbers has a least element.
LEMMA Least == ASSUME NEW T, T \subseteq Nat, T # {} PROVE \E n \in T : \A m \in T : n <= m
<1> DEFINE R == OpToRel(<, Nat)
<1>1. IsWellFoundedOn(R, Nat)
  BY NatLessThanWellFounded
<1>2. \A m, n \in Nat : m < n => <<m, n>> \in R
  BY DEF OpToRel
<1> HIDE DEF R
<1>3. PICK n \in T : \A m \in T : ~ (<<m, n>> \in R)
  BY <1>1, WFMin
<1>4. ASSUME NEW m \in T PROVE n <= m
  <2>1. m \in Nat /\ n \in Nat
    OBVIOUS
  <2>2. ~ (<<m, n>> \in R)
    BY <1>3
  <2>3. ~ (m < n)
    BY <1>2, <2>1, <2>2, Zenon
  <2>4. QED
    BY <2>1, <2>3
<1>5. QED
  BY <1>4

\* What every instance may use at most is used by all of them at most together.
LEMMA SizesAddUp ==
  ASSUME NEW U, NEW J, J \subseteq Instances, NEW q \in Nat,
         \A i \in J : U[i] \subseteq Files /\ SizeOf(U[i]) <= q,
         NEW V, \A f \in V : \E i \in J : f \in U[i]
  PROVE  SizeOf(V) <= q * Cardinality(J)
<1> DEFINE All(K) == UNION {U[i] : i \in K}
           Bad(K) == ~ (SizeOf(All(K)) <= q * Cardinality(K))
           T == {n \in Nat : \E K \in SUBSET J : Cardinality(K) = n /\ Bad(K)}
<1>f. \A K \in SUBSET J : IsFiniteSet(K) /\ Cardinality(K) \in Nat /\ All(K) \subseteq Files
  BY FS_Subset, FS_CardinalityType
<1>1. SUFFICES ASSUME Bad(J) PROVE FALSE
  <2>1. V \subseteq All(J) /\ All(J) \subseteq Files
    BY <1>f
  <2>2. SizeOf(V) <= SizeOf(All(J)) /\ SizeOf(V) \in Nat /\ SizeOf(All(J)) \in Nat
    <3> HIDE DEF All
    <3>1. V \subseteq Files
      BY <2>1
    <3>2. QED
      BY <2>1, <3>1, SizeAdds
  <2>3. q * Cardinality(J) \in Nat
    BY <1>f
  <2>4. SizeOf(All(J)) <= q * Cardinality(J) => SizeOf(V) <= q * Cardinality(J)
    <3> DEFINE a == SizeOf(All(J))
               b == q * Cardinality(J)
               v == SizeOf(V)
    <3>1. a \in Nat /\ b \in Nat /\ v \in Nat /\ v <= a
      BY <2>2, <2>3
    <3> HIDE DEF a, b, v
    <3>2. a <= b => v <= b
      BY <3>1
    <3>3. QED
      BY <3>2 DEF a, b, v
  <2>5. QED
    BY <2>4
<1>2. Cardinality(J) \in T
  BY <1>1, <1>f
<1>3. T \subseteq Nat /\ \A n \in T : \E K \in SUBSET J : Cardinality(K) = n /\ Bad(K)
  OBVIOUS
<1>4. \A K \in SUBSET J : Bad(K) => Cardinality(K) \in T
  BY <1>f
<1> HIDE DEF T
<1>5. PICK n \in T : \A m \in T : n <= m
  BY <1>2, <1>3, Least
<1>6. PICK K \in SUBSET J : Cardinality(K) = n /\ Bad(K)
  BY <1>3
<1>7. K # {}
  <2>1. SUFFICES ASSUME K = {} PROVE FALSE
    OBVIOUS
  <2>2. All(K) = {} /\ Cardinality(K) = 0
    BY <2>1, FS_EmptySet
  <2>3. q * 0 = 0
    OBVIOUS
  <2>4. SizeOf(All(K)) = 0 /\ q * Cardinality(K) = 0
    BY <2>2, <2>3, NoSize
  <2>5. QED
    BY <1>6, <2>4
<1>8. PICK k \in K : TRUE
  BY <1>7
<1> DEFINE L == K \ {k}
<1>9. /\ Cardinality(L) \in Nat /\ Cardinality(K) = Cardinality(L) + 1 /\ n = Cardinality(L) + 1 /\ L \in SUBSET J
  BY <1>6, <1>8, <1>f, FS_RemoveElement
<1>10. SizeOf(All(L)) <= q * Cardinality(L)
  <2>1. SUFFICES ASSUME Bad(L) PROVE FALSE
    OBVIOUS
  <2>2. Cardinality(L) \in T
    BY <1>4, <1>9, <2>1
  <2>3. ~ (n <= Cardinality(L))
    BY <1>9
  <2>4. QED
    BY <1>5, <2>2, <2>3
<1>11. All(K) = All(L) \cup U[k]
  BY <1>8
<1>12. /\ SizeOf(All(L)) \in Nat /\ SizeOf(U[k]) \in Nat /\ SizeOf(All(L) \cup U[k]) \in Nat
       /\ SizeOf(All(L) \cup U[k]) <= SizeOf(All(L)) + SizeOf(U[k]) /\ SizeOf(U[k]) <= q
  <2>1. All(L) \subseteq Files /\ U[k] \subseteq Files /\ SizeOf(U[k]) <= q
    BY <1>8, <1>9, <1>f
  <2> HIDE DEF All, L
  <2>2. QED
    BY <2>1, SizeAdds
<1>13. q * (Cardinality(L) + 1) = q * Cardinality(L) + q
  <2> DEFINE l == Cardinality(L)
  <2>1. l \in Nat
    BY <1>9
  <2> HIDE DEF l
  <2>2. q * (l + 1) = q * l + q
    BY <2>1
  <2>3. QED
    BY <2>2 DEF l
<1>14. SizeOf(All(K)) <= q * Cardinality(K)
  <2> DEFINE a == SizeOf(All(L))
             b == SizeOf(U[k])
             c == SizeOf(All(K))
             p == q * Cardinality(L)
  <2>1. a \in Nat /\ b \in Nat /\ c \in Nat /\ c <= a + b /\ b <= q /\ a <= p /\ p \in Nat
    <3>1. SizeOf(All(K)) = SizeOf(All(L) \cup U[k])
      BY <1>11
    <3> HIDE DEF All, L, Bad
    <3>2. c \in Nat /\ a \in Nat /\ b \in Nat /\ c <= a + b /\ b <= q
      BY <1>12, <3>1
    <3>3. a <= p
      BY <1>10
    <3>4. p \in Nat
      BY <1>9
    <3>5. QED
      BY <3>2, <3>3, <3>4
  <2>2. q * Cardinality(K) = p + q
    BY <1>9, <1>13
  <2> HIDE DEF a, b, c, p
  <2>3. c <= p + q
    BY <2>1
  <2>4. QED
    BY <2>2, <2>3 DEF c
<1>15. QED
  BY <1>6, <1>14

\* The files of requests are the files of instances.
LEMMA QuotaOfAll == TypeOK /\ InstancesWithin => QuotaPerInstance
<1> SUFFICES ASSUME TypeOK, InstancesWithin PROVE QuotaPerInstance
  OBVIOUS
<1> DEFINE J == {upload[r].on : r \in Requests}
           U == [i \in Instances |-> Used(i)]
<1>1. J \subseteq Instances /\ \A r \in Requests : upload[r].on \in J
  BY DEF TypeOK, Upload
<1>2. \A i \in J : U[i] \subseteq Files /\ SizeOf(U[i]) <= Quota
  BY <1>1 DEF InstancesWithin, Used
<1> DEFINE V == {f \in Files \ restored : row[f] = "live"}
<1>3. \A f \in V : \E i \in J : f \in U[i]
  <2>1. ASSUME NEW f \in V PROVE upload[BatchOf(f)].on \in J /\ f \in U[upload[BatchOf(f)].on]
    <3>1. PICK r \in Requests : f \in FilesOf[r]
      OBVIOUS
    <3>2. BatchOf(f) \in Requests
      BY <3>1 DEF BatchOf
    <3>3. upload[BatchOf(f)].on \in J /\ upload[BatchOf(f)].on \in Instances
      BY <1>1, <3>2
    <3>4. QED
      BY <3>3 DEF Used
  <2>2. QED
    BY <2>1
<1>4. SizeOf(V) <= Quota * Cardinality(J)
  <2> HIDE DEF U, J, V
  <2>1. Quota \in Nat
    OBVIOUS
  <2>2. QED
    BY <1>1, <1>2, <1>3, <2>1, SizesAddUp
<1>5. QED
  BY <1>4 DEF QuotaPerInstance

\* A step after which nothing more is used, and no request has found room.
LEMMA QuotaStays ==
  ASSUME TypeOK, TypeOK', QuotaInv,
         \A r \in Requests : upload'[r].on = upload[r].on,
         \A f \in Files : row'[f] = "live" /\ f \notin restored' => row[f] = "live" /\ f \notin restored,
         \A r \in Requests : upload'[r].pc \in {"create", "persist"} => upload[r].pc \in {"create", "persist"}
  PROVE  InstancesWithin' /\ RoomStays'
<1>1. \A i \in Instances : Used(i)' \subseteq Used(i) /\ Used(i) \subseteq Files
  <2>1. \A f \in Files : BatchOf(f) \in Requests
    BY DEF BatchOf
  <2>2. QED
    BY <2>1 DEF Used
<1>2. \A i \in Instances : SizeOf(Used(i)') <= SizeOf(Used(i)) /\ SizeOf(Used(i)') \in Nat /\ SizeOf(Used(i)) \in Nat
  BY <1>1, SizeAdds
<1>3. InstancesWithin'
  BY <1>2 DEF QuotaInv, InstancesWithin
<1>4. RoomStays'
  <2> SUFFICES ASSUME NEW r \in Requests, upload'[r].pc \in {"create", "persist"}
      PROVE  SizeOf(Used(upload[r].on)') + SizeOf(FilesOf[r]) <= Quota
    BY DEF RoomStays
  <2>1. upload[r].on \in Instances
    BY DEF TypeOK, Upload
  <2>2. SizeOf(FilesOf[r]) \in Nat
    BY SizeAdds
  <2>3. SizeOf(Used(upload[r].on)) + SizeOf(FilesOf[r]) <= Quota
    BY DEF QuotaInv, RoomStays
  <2>4. QED
    BY <1>2, <2>1, <2>2, <2>3
<1>5. QED
  BY <1>3, <1>4

\* The rows of a request that holds the lock are inserted: there was room for them.
LEMMA StoredWithin ==
  ASSUME TypeOK, TypeOK', QuotaInv, NEW r \in Requests, At(r, "persist"), row' = Persisted(r), restored' = restored,
         \A q \in Requests : upload'[q].on = upload[q].on /\ (q # r => upload'[q].pc = upload[q].pc),
         upload'[r].pc \notin {"create", "persist"}
  PROVE  InstancesWithin' /\ RoomStays'
<1>0. PICK on \in Instances : on = upload[r].on
  BY DEF TypeOK, Upload
<1>1. on \in Instances /\ \A i \in Instances : Used(i) \subseteq Files /\ Used(i)' \subseteq Files
  BY DEF TypeOK, Upload, Used
<1>2. \A f \in Files : BatchOf(f) \in Requests
  <2>1. ASSUME NEW f \in Files PROVE BatchOf(f) \in Requests
    <3>1. PICK q \in Requests : f \in FilesOf[q]
      OBVIOUS
    <3>2. QED
      BY <3>1 DEF BatchOf
  <2>2. QED
    BY <2>1
<1>3. Used(on)' \subseteq Used(on) \cup FilesOf[r]
  <2>1. \A f \in Files : f \in Used(on)' => f \in Used(on) \/ f \in FilesOf[r]
    BY <1>0, <1>2 DEF Used, Persisted
  <2>2. QED
    BY <1>1, <2>1
<1>4. \A i \in Instances : i # on => Used(i)' \subseteq Used(i)
  <2>1. ASSUME NEW i \in Instances, i # on, NEW f \in Used(i)' PROVE f \in Used(i)
    <3>1. f \in Files \ restored /\ row'[f] = "live" /\ upload[BatchOf(f)].on = i
      BY <1>2 DEF Used
    <3>2. f \notin FilesOf[r]
      BY <1>0, <2>1, <3>1, FilesHaveOneBatch
    <3>3. QED
      BY <3>1, <3>2 DEF Used, Persisted
  <2>2. QED
    BY <2>1
<1>5. \A i \in Instances : i # on =>
        SizeOf(Used(i)') <= SizeOf(Used(i)) /\ SizeOf(Used(i)') \in Nat /\ SizeOf(Used(i)) \in Nat
  BY <1>1, <1>4, SizeAdds
<1>6. SizeOf(Used(on)') <= Quota
  <2> DEFINE a == SizeOf(Used(on)')
             b == SizeOf(Used(on))
             c == SizeOf(FilesOf[r])
             d == SizeOf(Used(on) \cup FilesOf[r])
  <2>1. FilesOf[r] \subseteq Files /\ Used(on) \cup FilesOf[r] \subseteq Files
    BY <1>1
  <2>2. a \in Nat /\ b \in Nat /\ c \in Nat /\ d \in Nat /\ a <= d /\ d <= b + c
    BY <1>1, <1>3, <2>1, SizeAdds
  <2>3. b + c <= Quota
    BY <1>0 DEF QuotaInv, RoomStays, At
  <2> HIDE DEF a, b, c, d
  <2>4. a <= Quota
    BY <2>2, <2>3
  <2>5. QED
    BY <2>4 DEF a
<1>7. InstancesWithin'
  <2>1. ASSUME NEW i \in Instances PROVE SizeOf(Used(i)') <= Quota
    <3>1. CASE i = on
      BY <1>6, <3>1
    <3>2. CASE i # on
      BY <1>5, <3>2 DEF QuotaInv, InstancesWithin
    <3>3. QED
      BY <3>1, <3>2
  <2>2. QED
    BY <2>1 DEF InstancesWithin
<1>8. RoomStays'
  <2> SUFFICES ASSUME NEW q \in Requests, upload'[q].pc \in {"create", "persist"}
      PROVE  SizeOf(Used(upload[q].on)') + SizeOf(FilesOf[q]) <= Quota
    BY DEF RoomStays
  <2>1. q # r /\ upload[q].pc \in {"create", "persist"} /\ upload[q].on \in Instances /\ upload'[q].on = upload[q].on
    BY DEF TypeOK, Upload
  <2>2. upload[q].on # on
    BY <1>0, <2>1 DEF QuotaInv, LocksHeld, Holds, At
  <2>3. SizeOf(FilesOf[q]) \in Nat
    BY SizeAdds
  <2>4. SizeOf(Used(upload[q].on)) + SizeOf(FilesOf[q]) <= Quota
    BY <2>1 DEF QuotaInv, RoomStays
  <2>5. SizeOf(Used(upload[q].on)') <= SizeOf(Used(upload[q].on)) /\ SizeOf(Used(upload[q].on)') \in Nat
        /\ SizeOf(Used(upload[q].on)) \in Nat
    BY <1>5, <2>1, <2>2
  <2>6. QED
    BY <2>3, <2>4, <2>5
<1>9. QED
  BY <1>7, <1>8

\* The request finds room for its files: those of its instance are live files.
LEMMA RoomFound ==
  ASSUME TypeOK, TypeOK', QuotaInv, NEW r \in Requests, WithinQuota(r), UNCHANGED <<row, restored>>,
         \A q \in Requests : upload'[q].on = upload[q].on /\ (q # r => upload'[q].pc = upload[q].pc)
  PROVE  InstancesWithin' /\ RoomStays'
<1>1. \A i \in Instances : Used(i)' = Used(i) /\ Used(i) \subseteq {f \in Files : row[f] = "live"}
  <2>1. ASSUME NEW f \in Files PROVE BatchOf(f) \in Requests
    <3>1. PICK q \in Requests : f \in FilesOf[q]
      OBVIOUS
    <3>2. QED
      BY <3>1 DEF BatchOf
  <2>2. QED
    BY <2>1 DEF Used
<1>2. InstancesWithin'
  BY <1>1 DEF QuotaInv, InstancesWithin
<1>3. RoomStays'
  <2> SUFFICES ASSUME NEW q \in Requests, upload'[q].pc \in {"create", "persist"}
      PROVE  SizeOf(Used(upload[q].on)) + SizeOf(FilesOf[q]) <= Quota
    <3>1. \A q \in Requests : upload[q].on \in Instances /\ upload'[q].on = upload[q].on
      BY DEF TypeOK, Upload
    <3>2. QED
      BY <1>1, <3>1 DEF RoomStays
  <2>1. CASE q # r
    BY <2>1 DEF QuotaInv, RoomStays
  <2>2. CASE q = r
    <3> DEFINE L == {f \in Files : row[f] = "live"}
               a == SizeOf(Used(upload[q].on))
               b == SizeOf(FilesOf[q])
               c == SizeOf(L)
    <3>1. upload[q].on \in Instances
      BY DEF TypeOK, Upload
    <3>2. Used(upload[q].on) \subseteq L /\ L \subseteq Files /\ Used(upload[q].on) \subseteq Files
      BY <1>1, <3>1
    <3>3. b \in Nat
      BY SizeAdds
    <3>4. c + b <= Quota
      BY <2>2 DEF WithinQuota
    <3> HIDE DEF L
    <3>5. a \in Nat /\ c \in Nat /\ a <= c
      BY <3>2, SizeAdds
    <3> HIDE DEF a, b, c
    <3>6. a + b <= Quota
      BY <3>3, <3>4, <3>5
    <3>7. QED
      BY <3>6 DEF a, b
  <2>3. QED
    BY <2>1, <2>2
<1>4. QED
  BY <1>2, <1>3

\* The lock is kept by those who have it.
LEMMA LocksStay ==
  ASSUME LocksHeld, lock' = lock,
         \A q \in Requests : upload'[q].on = upload[q].on /\ (Holds(q)' => Holds(q))
  PROVE  LocksHeld'
  BY DEF LocksHeld

\* The lock is given back by who has it.
LEMMA LocksFreed ==
  ASSUME TypeOK, LocksHeld, NEW r \in Requests, Holds(r), Unlock(r), ~ Holds(r)',
         \A q \in Requests : upload'[q].on = upload[q].on /\ (q # r => upload'[q].pc = upload[q].pc)
  PROVE  LocksHeld'
<1>1. \A q \in Requests : Holds(q)' => q # r /\ Holds(q) /\ upload[q].on # upload[r].on /\ upload[q].on \in Instances
  BY DEF LocksHeld, Holds, TypeOK, Upload
<1>2. \A i \in Instances : i # upload[r].on => lock'[i] = lock[i]
  BY DEF Unlock, TypeOK
<1>3. QED
  BY <1>1, <1>2 DEF LocksHeld

\* What a move of a request changes.
LEMMA Moved ==
  ASSUME TypeOK, NEW r \in Requests, NEW pc, GoTo(r, pc) \/ GoToWithFiles(r, pc)
  PROVE  /\ upload'[r].pc = pc
         /\ \A q \in Requests : upload'[q].on = upload[q].on /\ (q # r => upload'[q].pc = upload[q].pc)
  BY DEF TypeOK, Upload, GoTo, GoToWithFiles

\* At first nothing is used.
LEMMA QuotaStart == Init => QuotaInv
<1> SUFFICES ASSUME Init PROVE QuotaInv
  OBVIOUS
<1>1. \A r \in Requests : upload[r].pc = "new"
  BY DEF Init
<1>2. \A i \in Instances : Used(i) = {}
  BY DEF Init, Used
<1>3. \A i \in Instances : SizeOf(Used(i)) = 0
  BY <1>2, NoSize
<1>4. QED
  BY <1>1, <1>3 DEF QuotaInv, LocksHeld, Holds, InstancesWithin, RoomStays

\* Every step keeps the quota of every instance.
LEMMA QuotaKept == IInv /\ QuotaInv /\ [Next]_vars => QuotaInv'
<1> SUFFICES ASSUME IInv, QuotaInv, [Next]_vars PROVE QuotaInv'
  OBVIOUS
<1>t. TypeOK /\ TypeOK' /\ LocksHeld
  BY TypesKept DEF IInv, QuotaInv
<1>m. ASSUME NEW r \in Requests, NEW pc, GoTo(r, pc) \/ GoToWithFiles(r, pc)
      PROVE  /\ upload'[r].pc = pc
             /\ \A q \in Requests : upload'[q].on = upload[q].on /\ (q # r => upload'[q].pc = upload[q].pc)
  BY <1>m, <1>t, Moved
\* What a step does whose request goes on without the lock, or keeps it.
<1>s. ASSUME lock' = lock, \A q \in Requests : upload'[q].on = upload[q].on /\ (Holds(q)' => Holds(q)),
             \A q \in Requests : upload'[q].pc \in {"create", "persist"} => upload[q].pc \in {"create", "persist"},
             \A f \in Files : row'[f] = "live" /\ f \notin restored' => row[f] = "live" /\ f \notin restored
      PROVE  QuotaInv'
  BY <1>s, <1>t, QuotaStays, LocksStay DEF QuotaInv
\* The same, with the lock given back.
<1>f. ASSUME NEW r \in Requests, upload[r].pc \in {"recheck", "quota", "create"}, GoTo(r, "end"), Unlock(r),
             UNCHANGED <<row, restored>>
      PROVE  QuotaInv'
  <2>1. /\ upload'[r].pc = "end"
        /\ \A q \in Requests : upload'[q].on = upload[q].on /\ (q # r => upload'[q].pc = upload[q].pc)
    BY <1>f, <1>m
  <2>2. LocksHeld'
    BY <1>f, <1>t, <2>1, LocksFreed DEF Holds
  <2>3. InstancesWithin' /\ RoomStays'
    BY <1>f, <1>t, <2>1, QuotaStays
  <2>4. QED
    BY <2>2, <2>3 DEF QuotaInv
<1>p. ASSUME NEW r \in Requests, At(r, "persist"), row' \in {row, Persisted(r)},
             GoTo(r, "end") \/ GoToWithFiles(r, "put"), Unlock(r), restored' = restored
      PROVE  QuotaInv'
  <2>1. /\ upload'[r].pc \in {"end", "put"}
        /\ \A q \in Requests : upload'[q].on = upload[q].on /\ (q # r => upload'[q].pc = upload[q].pc)
    BY <1>p, <1>m
  <2>2. LocksHeld'
    BY <1>p, <1>t, <2>1, LocksFreed DEF Holds, At
  <2>3. InstancesWithin' /\ RoomStays'
    <3>1. CASE row' = row
      BY <1>p, <1>t, <2>1, <3>1, QuotaStays
    <3>2. CASE row' = Persisted(r)
      BY <1>p, <1>t, <2>1, <3>2, StoredWithin
    <3>3. QED
      BY <1>p, <3>1, <3>2
  <2>4. QED
    BY <2>2, <2>3 DEF QuotaInv
<1>1. ASSUME NEW r \in Requests, Lookup(r) PROVE QuotaInv'
  BY <1>1, <1>m, <1>s DEF Lookup, Holds, database, history, owner
<1>2. ASSUME NEW r \in Requests, Lock(r) PROVE QuotaInv'
  <2>1. /\ upload'[r].pc = "recheck" /\ upload'[r].on = upload[r].on
        /\ \A q \in Requests : upload'[q].on = upload[q].on /\ (q # r => upload'[q].pc = upload[q].pc)
        /\ row' = row /\ restored' = restored
    BY <1>2, <1>m DEF Lock, database, history, owner
  <2>2. LocksHeld'
    <3>1. \A q \in Requests : Holds(q)' /\ q # r => lock[upload[q].on] = q /\ upload[q].on # upload[r].on
      BY <1>2, <1>t, <2>1 DEF LocksHeld, Holds, Lock
    <3>2. \A i \in Instances : lock'[i] = IF i = upload[r].on THEN r ELSE lock[i]
      BY <1>2, <1>t DEF Lock, TypeOK
    <3>3. \A q \in Requests : upload[q].on \in Instances
      BY <1>t DEF TypeOK, Upload
    <3>4. QED
      BY <2>1, <3>1, <3>2, <3>3 DEF LocksHeld
  <2>3. InstancesWithin' /\ RoomStays'
    BY <1>t, <2>1, QuotaStays
  <2>4. QED
    BY <2>2, <2>3 DEF QuotaInv
<1>3. ASSUME NEW r \in Requests, Recheck(r) PROVE QuotaInv'
  <2>1. At(r, "recheck") /\ row' = row /\ restored' = restored
    BY <1>3 DEF Recheck, database, history, owner
  <2>2. CASE Known(r)
    BY <1>3, <1>f, <2>1, <2>2 DEF Recheck, At
  <2>3. CASE ~ Known(r)
    BY <1>3, <1>m, <1>s, <2>1, <2>3 DEF Recheck, At, Holds
  <2>4. QED
    BY <2>2, <2>3
<1>4. ASSUME NEW r \in Requests, CheckQuota(r) PROVE QuotaInv'
  <2>1. At(r, "quota") /\ row' = row /\ restored' = restored
    BY <1>4 DEF CheckQuota, database, history, owner
  <2>2. CASE WithinQuota(r)
    <3>1. GoTo(r, "create") /\ lock' = lock
      BY <1>4, <2>2 DEF CheckQuota
    <3>2. /\ upload'[r].pc = "create"
          /\ \A q \in Requests : upload'[q].on = upload[q].on /\ (q # r => upload'[q].pc = upload[q].pc)
      BY <3>1, <1>m
    <3>3. LocksHeld'
      BY <1>t, <2>1, <3>1, <3>2, LocksStay DEF Holds, At
    <3>4. InstancesWithin' /\ RoomStays'
      BY <1>t, <2>1, <2>2, <3>2, RoomFound
    <3>5. QED
      BY <3>3, <3>4 DEF QuotaInv
  <2>3. CASE ~ WithinQuota(r)
    BY <1>4, <1>f, <2>1, <2>3 DEF CheckQuota, At
  <2>4. QED
    BY <2>2, <2>3
<1>5. ASSUME NEW r \in Requests, CreateBatch(r) PROVE QuotaInv'
  BY <1>5, <1>m, <1>s DEF CreateBatch, Holds, At, history, owner
<1>6. ASSUME NEW r \in Requests, CreateRaced(r) PROVE QuotaInv'
  BY <1>6, <1>f DEF CreateRaced, At, database, history, owner
<1>7. ASSUME NEW r \in Requests, PersistPendingFiles(r) PROVE QuotaInv'
  BY <1>7, <1>p DEF PersistPendingFiles, history, owner
<1>8. ASSUME NEW r \in Requests, CreateFails(r) PROVE QuotaInv'
  <2>1. GoTo(r, "end") /\ Unlock(r) /\ restored' = restored
    BY <1>8 DEF CreateFails, history, owner
  <2>2. CASE At(r, "create") /\ row' = row
    BY <1>f, <2>1, <2>2 DEF At
  <2>3. CASE At(r, "persist") /\ row' \in {row, Persisted(r)}
    BY <1>p, <2>1, <2>3
  <2>4. QED
    BY <1>8, <2>2, <2>3 DEF CreateFails
\* A request that has stored its rows.
<1>9. ASSUME NEW r \in Requests, NEW pc \in {"put", "delete", "fail", "end"}, upload'[r].pc = pc, lock' = lock,
             \A q \in Requests : upload'[q].on = upload[q].on /\ (q # r => upload'[q].pc = upload[q].pc),
             \A f \in Files : row'[f] = "live" => row[f] = "live", restored' = restored
      PROVE  QuotaInv'
  BY <1>9, <1>s DEF Holds
<1>10. ASSUME NEW r \in Requests, NEW f \in FilesOf[r], PutObject(r, f) \/ PutFails(r, f) \/ DeleteObject(r, f)
       PROVE  QuotaInv'
  <2>1. lock' = lock /\ row' = row /\ restored' = restored
    BY <1>10 DEF PutObject, PutFails, DeleteObject, database, history, owner
  <2>2. /\ upload'[r].pc \in {"put", "delete", "fail"}
        /\ \A q \in Requests : upload'[q].on = upload[q].on /\ (q # r => upload'[q].pc = upload[q].pc)
    BY <1>10, <1>t DEF PutObject, PutFails, DeleteObject, GoToWithFiles, At, TypeOK, Upload
  <2>3. QED
    BY <1>9, <2>1, <2>2
<1>11. ASSUME NEW r \in Requests,
              CompleteBatch(r) \/ CompleteRefused(r) \/ CompleteFails(r) \/ FailUpload(r) \/ FailUploadFails(r)
       PROVE  QuotaInv'
  <2>1. lock' = lock /\ restored' = restored /\ \A f \in Files : row'[f] = "live" => row[f] = "live"
    BY <1>11 DEF CompleteBatch, CompleteRefused, CompleteFails, FailUpload, FailUploadFails, Completed, Removed,
                 database, history, owner
  <2>2. GoTo(r, "end") \/ GoToWithFiles(r, "delete")
    BY <1>11 DEF CompleteBatch, CompleteRefused, CompleteFails, FailUpload, FailUploadFails
  <2>3. QED
    BY <1>9, <1>m, <2>1, <2>2
\* A step that is none of a request.
<1>12. ASSUME upload' = upload, lock' = lock,
              \A f \in Files : row'[f] = "live" /\ f \notin restored' => row[f] = "live" /\ f \notin restored
       PROVE  QuotaInv'
  BY <1>12, <1>s DEF Holds
<1>13. ASSUME NEW i \in Reconcilers, Repair(i) PROVE QuotaInv'
  <2>1. /\ upload' = upload /\ lock' = lock /\ restored' = restored
        /\ \A f \in Files : row'[f] = "live" => row[f] = "live"
    BY <1>13 DEF Repair, Reconcile, ReadFiles, ReconcileObject, ReconcileRows, ReconcileFails, Removed,
                 database, history, owner
  <2>2. QED
    BY <1>12, <2>1
<1>14. ASSUME NEW f \in Files, Owner(f) \/ DeletePurged(f) PROVE QuotaInv'
  <2>1. /\ upload' = upload /\ lock' = lock
        /\ \A g \in Files : row'[g] = "live" /\ g \notin restored' => row[g] = "live" /\ g \notin restored
    BY <1>14, <1>t DEF Owner, Trash, Restore, Edit, PermanentDelete, DeletePurged, TypeOK, database, history, owner
  <2>2. QED
    BY <1>12, <2>1
<1>15. ASSUME NEW r \in Requests, GrowStale(r) PROVE QuotaInv'
  BY <1>15, <1>12 DEF GrowStale, owner
<1>16. ASSUME NEW i \in Instances, Crash(i) PROVE QuotaInv'
  <2>1. row' = row /\ restored' = restored /\ lock' = [lock EXCEPT ![i] = NoRequest]
    BY <1>16 DEF Crash, database, history, owner
  <2>2. \A q \in Requests : /\ upload'[q].on = upload[q].on
                            /\ upload'[q].pc = IF upload[q].on = i /\ upload[q].pc # "new" THEN "end" ELSE upload[q].pc
    <3> SUFFICES ASSUME NEW q \in Requests
        PROVE  /\ upload'[q].on = upload[q].on
               /\ upload'[q].pc = IF upload[q].on = i /\ upload[q].pc # "new" THEN "end" ELSE upload[q].pc
      OBVIOUS
    <3>1. upload[q] \in Upload
      BY <1>t DEF TypeOK
    <3>2. upload'[q] = IF upload[q].on = i /\ upload[q].pc # "new"
                       THEN [upload[q] EXCEPT !.pc = "end", !.todo = {}] ELSE upload[q]
      BY <1>16 DEF Crash, At
    <3>3. [upload[q] EXCEPT !.pc = "end", !.todo = {}].on = upload[q].on
          /\ [upload[q] EXCEPT !.pc = "end", !.todo = {}].pc = "end"
      BY <3>1 DEF Upload
    <3>4. QED
      BY <3>2, <3>3
  <2>3. \A q \in Requests : Holds(q)' => Holds(q) /\ upload[q].on # i /\ upload[q].on \in Instances
    BY <1>t, <2>2 DEF Holds, TypeOK, Upload
  <2>4. LocksHeld'
    BY <1>t, <2>1, <2>2, <2>3 DEF LocksHeld, TypeOK
  <2>5. InstancesWithin' /\ RoomStays'
    BY <1>t, <2>1, <2>2, QuotaStays
  <2>6. QED
    BY <2>4, <2>5 DEF QuotaInv
<1>17. ASSUME UNCHANGED vars PROVE QuotaInv'
  BY <1>17, <1>12 DEF vars
<1>18. QED
  BY <1>1, <1>2, <1>3, <1>4, <1>5, <1>6, <1>7, <1>8, <1>10, <1>11, <1>13, <1>14, <1>15, <1>16, <1>17
     DEF Next, Serve

\* The live files a user has uploaded, those taken out of the trash apart, fill the quota
\* at most once per instance (UploadService.enforceQuota under its lock).
THEOREM QuotaKeptPerInstance == Spec => []QuotaPerInstance
<1>1. IInv /\ QuotaInv => QuotaPerInstance
  BY QuotaOfAll DEF IInv, QuotaInv
<1>2. QED
  BY <1>1, InvariantHoldsAtFirst, InvariantKept, QuotaStart, QuotaKept, PTL DEF Spec

=============================================================================
