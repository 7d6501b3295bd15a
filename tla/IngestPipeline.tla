--------------------------- MODULE IngestPipeline ---------------------------
(***************************************************************************)
(* The backend's ingest pipeline: the Job, File, Chunk and File_Metadata   *)
(* tables, the scheduler threads of the backend instances that claim jobs  *)
(* and hand them to the RAG service, the RAG service's completion          *)
(* callbacks, and the users who trash, restore, edit and purge files while *)
(* all of that is under way.                                               *)
(*                                                                         *)
(* A database transaction that reads rows without a lock is two steps: the *)
(* read (MySQL takes the transaction's snapshot) and the commit.  The      *)
(* entities carry neither @Version nor @DynamicUpdate, so at commit        *)
(* Hibernate writes the WHOLE row of every entity it changed, as that row  *)
(* was in the snapshot plus the change; an UPDATE that finds no row rolls  *)
(* the transaction back.  Statements written in JPQL ("update Job ...")    *)
(* act on the current rows and are single steps.  The callback transaction *)
(* is two steps as well, and between them it has the file's row locked:    *)
(* whoever writes that row waits.                                          *)
(*                                                                         *)
(* Clocks are abstracted: a lease (Ownership_Expires_At) is live until     *)
(* Expire says it has run out, and a retry's Next_Attempt_At may always    *)
(* have passed.                                                            *)
(***************************************************************************)
EXTENDS Integers, FiniteSets

CONSTANTS
  Files,              \* the files users upload
  Workers,            \* backend instances: one scheduler thread each
  Clients,            \* concurrent API requests on files
  MaxJobs,            \* bound: rows ever inserted into Job
  MaxAttempts,        \* Job.Max_Attempts
  BatchSize,          \* app.ingest.batch-size
  RunSlots,           \* bound: /ingest requests the RAG service runs at once
  MaxVersion,         \* bound: index versions the RAG service is deployed with
  SchemaJobStatuses,  \* the statuses CK_Job_Status lets a Job row have
  NoWorker, NoFile, NoRun

JobIds == 1..MaxJobs

JobStatus == {"PENDING", "RUNNING", "SUCCESS", "FAILED", "CANCELLED",
              "RETRY_WAIT", "WAITING_CALLBACK"}

ASSUME ConstantsOK ==
  /\ MaxJobs \in Nat \ {0} /\ MaxAttempts \in Nat \ {0}
  /\ BatchSize \in Nat \ {0} /\ MaxVersion \in Nat \ {0}
  /\ SchemaJobStatuses \subseteq JobStatus
  /\ NoWorker \notin Workers /\ NoFile \notin Files /\ NoRun \notin RunSlots
  /\ Workers \cap Clients = {}
  /\ IsFiniteSet(Workers)

VARIABLES
  file,        \* File rows: status and whether Deleted_At is set
  chunks,      \* Chunk rows of a file: their index version, 0 when there are none
  meta,        \* File_Metadata.Extraction_Status as this pipeline writes it
  outbox,      \* files with Rag_Purge_Task and S3_Delete_Task rows
  job,         \* Job rows
  jobFile,     \* Job.File_IDX
  nextJob,     \* the next AUTO_INCREMENT value of Job
  pc,          \* what each scheduler thread is doing
  todo,        \* the job ids it has still to work through
  slot,        \* the /ingest request it is waiting for
  viewJob,     \* the Job rows its open transaction has read
  viewFile,    \* ... and the File rows
  run,         \* the RAG service's /ingest requests
  ragVersion,  \* the index version the RAG service is deployed with
  late,        \* callbacks whose sender stopped waiting but that may still arrive
  callback,    \* the open callback transaction of a file and the Job rows it has read
  client       \* the API requests and what they have read

dbVars     == <<file, chunks, meta, outbox, job, jobFile, nextJob>>
workerVars == <<pc, todo, slot, viewJob, viewFile>>
ragVars    == <<run, ragVersion, late, callback>>
vars       == <<dbVars, workerVars, ragVars, client>>

(***************************************************************************)
(* Types                                                                   *)
(***************************************************************************)

Leases == {"none", "live", "expired"}

\* A Job row.  "NONE" stands for no row.  finished says Finished_At is set.
JobRow == [status   : JobStatus \cup {"NONE"},
           attempts : 0..MaxAttempts,
           worker   : Workers \cup {NoWorker},
           lease    : Leases,
           finished : BOOLEAN]

\* A File row.  "NEW": not uploaded yet.  "GONE": permanently deleted.
FileRow == [status  : {"NEW", "UPLOADED", "PROCESSING", "READY", "FAILED",
                       "DELETED", "GONE"},
            deleted : BOOLEAN]

PcStates == {"idle", "batch", "preparing", "pushing", "finalizing",
             "pushFailed", "failing", "reconcile", "reconciling", "reaping"}

RunState == [state : {"free", "working", "calling", "ok", "err"}, file : Files \cup {NoFile}]

\* A callback transaction, and the Job rows it will write.
CallbackTx == [version : 0..MaxVersion,
               rows    : [JobIds -> {row \in JobRow : row.status \in {"NONE", "SUCCESS"}}]]

Callback == [file : Files, version : 1..MaxVersion]

ClientState == [op     : {"idle", "delete", "restore", "purge", "edit"},
                file   : Files \cup {NoFile},
                row    : FileRow,
                chunks : 0..MaxVersion]

NoJob    == [status |-> "NONE", attempts |-> 0, worker |-> NoWorker,
             lease |-> "none", finished |-> FALSE]
NewFile  == [status |-> "NEW", deleted |-> FALSE]
FreeRun  == [state |-> "free", file |-> NoFile]
IdleClient == [op |-> "idle", file |-> NoFile, row |-> NewFile, chunks |-> 0]

NoJobs  == [j \in JobIds |-> NoJob]
NoFiles == [f \in Files |-> NewFile]
NoTx    == [version |-> 0, rows |-> NoJobs]

TypeOK ==
  /\ file \in [Files -> FileRow]
  /\ chunks \in [Files -> 0..MaxVersion]
  /\ meta \in [Files -> {"NONE", "PROCESSING", "FAILED"}]
  /\ outbox \subseteq Files
  /\ job \in [JobIds -> JobRow]
  /\ jobFile \in [JobIds -> Files \cup {NoFile}]
  /\ nextJob \in 1..(MaxJobs + 1)
  /\ pc \in [Workers -> PcStates]
  /\ todo \in [Workers -> SUBSET JobIds]
  /\ slot \in [Workers -> RunSlots \cup {NoRun}]
  /\ viewJob \in [Workers -> [JobIds -> JobRow]]
  /\ viewFile \in [Workers -> [Files -> FileRow]]
  /\ run \in [RunSlots -> RunState]
  /\ ragVersion \in 1..MaxVersion
  /\ late \subseteq Callback
  /\ callback \in [Files -> CallbackTx]
  /\ client \in [Clients -> ClientState]

(***************************************************************************)
(* Rows                                                                    *)
(***************************************************************************)

RowExists(row) == row.status \notin {"NEW", "GONE"}

\* findByIdAndDeletedAtIsNull
Live(row) == RowExists(row) /\ ~row.deleted

JobExists(j) == job[j].status # "NONE"

\* A callback transaction has f's row (findForUpdate).
Locked(f) == callback[f].version > 0

\* A job that ends.  Nobody reads the owner and lease of an ended job: they are
\* dropped here, where only the reaper clears them.
Ended(row, status) == [row EXCEPT !.status = status, !.finished = TRUE,
                                  !.worker = NoWorker, !.lease = "none"]

\* RETRY_WAIT as handleFailure and reconcileCallback write it: Finished_At is
\* left as it was.
Retried(row) == [row EXCEPT !.status = "RETRY_WAIT", !.worker = NoWorker,
                            !.lease = "none"]

Init ==
  /\ file = NoFiles
  /\ chunks = [f \in Files |-> 0]
  /\ meta = [f \in Files |-> "NONE"]
  /\ outbox = {}
  /\ job = NoJobs
  /\ jobFile = [j \in JobIds |-> NoFile]
  /\ nextJob = 1
  /\ pc = [w \in Workers |-> "idle"]
  /\ todo = [w \in Workers |-> {}]
  /\ slot = [w \in Workers |-> NoRun]
  /\ viewJob = [w \in Workers |-> NoJobs]
  /\ viewFile = [w \in Workers |-> NoFiles]
  /\ run = [r \in RunSlots |-> FreeRun]
  /\ ragVersion = 1
  /\ late = {}
  /\ callback = [f \in Files |-> NoTx]
  /\ client = [c \in Clients |-> IdleClient]

(***************************************************************************)
(* Enqueueing                                                              *)
(***************************************************************************)

\* JobService.enqueueIngest: one more PENDING row for f.
EnqueueIngest(f) ==
  /\ nextJob <= MaxJobs
  /\ job' = [job EXCEPT ![nextJob] = [NoJob EXCEPT !.status = "PENDING"]]
  /\ jobFile' = [jobFile EXCEPT ![nextJob] = f]
  /\ nextJob' = nextJob + 1

\* UploadService.completeBatch, with the File row its batch has inserted.
Upload(f) ==
  /\ file[f].status = "NEW"
  /\ file' = [file EXCEPT ![f].status = "UPLOADED"]
  /\ EnqueueIngest(f)
  /\ UNCHANGED <<chunks, meta, outbox, workerVars, ragVars, client>>

(***************************************************************************)
(* The scheduler thread of a backend instance                              *)
(***************************************************************************)

\* Bug: Claimable forgets that attempts are limited.
ClaimableForever(j) ==
  \/ job[j].status \in {"PENDING", "RETRY_WAIT"}
  \/ job[j].status = "RUNNING" /\ job[j].lease = "expired"

\* Bug: Claimable forgets the jobs of instances that died.
ClaimableFresh(j) == job[j].status \in {"PENDING", "RETRY_WAIT"}

\* The condition of findClaimableIds and, again, of claim.
Claimable(j) ==
  \/ job[j].status = "PENDING"
  \/ job[j].status = "RETRY_WAIT"
  \/ /\ job[j].status = "RUNNING"
     /\ job[j].lease = "expired"
     /\ job[j].attempts < MaxAttempts

\* The ids one poll reads: the first BatchSize in id order.
Candidates ==
  LET ids == {j \in JobIds : Claimable(j)}
  IN  {j \in ids : Cardinality({k \in ids : k < j}) < BatchSize}

\* CK_Job_TimeRange (Finished_At >= Started_At): claim sets Started_At to now,
\* so it is refused for a row whose Finished_At is set.
ClaimRefused(j) == job[j].finished

ClaimedRow(row, w) ==
  [row EXCEPT !.status = "RUNNING", !.worker = w, !.lease = "live",
              !.attempts = @ + 1]

\* JobWorker.poll, JobService.claimBatch: one transaction for the whole batch,
\* which a refused row fails.
ClaimBatch(w) ==
  /\ pc[w] = "idle"
  /\ Candidates # {}
  /\ \A j \in Candidates : ~ClaimRefused(j)
  /\ job' = [j \in JobIds |->
               IF j \in Candidates THEN ClaimedRow(job[j], w) ELSE job[j]]
  /\ todo' = [todo EXCEPT ![w] = Candidates]
  /\ pc' = [pc EXCEPT ![w] = "batch"]
  /\ UNCHANGED <<file, chunks, meta, outbox, jobFile, nextJob, slot, viewJob,
                 viewFile, ragVars, client>>

\* The job the loop is at: ids are worked through in ascending order.
Current(w, j) == j \in todo[w] /\ \A k \in todo[w] : j <= k

\* A transaction reads the jobs ids and their files.
BeginTx(w, ids) ==
  /\ viewJob' = [viewJob EXCEPT ![w] = [j \in JobIds |-> IF j \in ids THEN job[j] ELSE NoJob]]
  /\ viewFile' = [viewFile EXCEPT ![w] =
                    [f \in Files |-> IF \E j \in ids : jobFile[j] = f
                                    THEN file[f] ELSE NewFile]]

BeginJobTx(w) == BeginTx(w, {j \in todo[w] : Current(w, j)})

EndTx(w) ==
  /\ viewJob' = [viewJob EXCEPT ![w] = NoJobs]
  /\ viewFile' = [viewFile EXCEPT ![w] = NoFiles]

\* On to the next job of the list, or back to the scheduler.
Advance(w, j, loop) ==
  /\ todo' = [todo EXCEPT ![w] = @ \ {j}]
  /\ pc' = [pc EXCEPT ![w] = IF todo[w] = {j} THEN "idle" ELSE loop]
  /\ EndTx(w)

\* prepareHandoff reads the Job and the File.
PrepareBegin(w) ==
  /\ pc[w] = "batch"
  /\ pc' = [pc EXCEPT ![w] = "preparing"]
  /\ BeginJobTx(w)
  /\ UNCHANGED <<dbVars, todo, slot, ragVars, client>>

\* Not RUNNING any more, or claimed by another instance since.
NotOwned(row, w) == row.status # "RUNNING" \/ row.worker # w

PrepareSkip(w, j) ==
  /\ pc[w] = "preparing" /\ Current(w, j)
  /\ NotOwned(viewJob[w][j], w)
  /\ Advance(w, j, "batch")
  /\ UNCHANGED <<dbVars, slot, ragVars, client>>

\* Bug: PrepareEnd takes a job with nothing left to do for done.
PrepareEndDone(w, j) ==
  LET f == viewFile[w][jobFile[j]]
  IN  /\ pc[w] = "preparing" /\ Current(w, j)
      /\ ~NotOwned(viewJob[w][j], w) /\ JobExists(j)
      /\ Live(f) => f.status = "READY"
      /\ job' = [job EXCEPT ![j] = Ended(viewJob[w][j], "SUCCESS")]
      /\ Advance(w, j, "batch")
      /\ UNCHANGED <<file, chunks, meta, outbox, jobFile, nextJob, slot, ragVars,
                     client>>

\* The file is in the trash or gone: CANCELLED.  It is READY: SUCCESS.
PrepareEnd(w, j) ==
  LET row == viewJob[w][j]
      f   == viewFile[w][jobFile[j]]
  IN  /\ pc[w] = "preparing" /\ Current(w, j)
      /\ ~NotOwned(row, w) /\ JobExists(j)
      /\ Live(f) => f.status = "READY"
      /\ job' = [job EXCEPT ![j] = Ended(row, IF Live(f) THEN "SUCCESS" ELSE "CANCELLED")]
      /\ Advance(w, j, "batch")
      /\ UNCHANGED <<file, chunks, meta, outbox, jobFile, nextJob, slot, ragVars,
                     client>>

\* The file goes to PROCESSING, its metadata too, and the manifest is posted to
\* the RAG service (RagIngestClient.push).
PrepareHandoff(w, j, r) ==
  LET f == jobFile[j]
  IN  /\ pc[w] = "preparing" /\ Current(w, j)
      /\ ~NotOwned(viewJob[w][j], w)
      /\ Live(viewFile[w][f]) /\ viewFile[w][f].status # "READY"
      /\ RowExists(file[f])
      /\ run[r].state = "free"
      /\ viewFile[w][f].status = "PROCESSING" \/ ~Locked(f)
      /\ file' = IF viewFile[w][f].status = "PROCESSING" THEN file
                 ELSE [file EXCEPT ![f] = [viewFile[w][f] EXCEPT !.status = "PROCESSING"]]
      /\ meta' = [meta EXCEPT ![f] = "PROCESSING"]
      /\ run' = [run EXCEPT ![r] = [state |-> "working", file |-> f]]
      /\ slot' = [slot EXCEPT ![w] = r]
      /\ pc' = [pc EXCEPT ![w] = "pushing"]
      /\ EndTx(w)
      /\ UNCHANGED <<chunks, outbox, job, jobFile, nextJob, todo, ragVersion, late,
                     callback, client>>

FreeSlot(w) ==
  run' = [run EXCEPT ![slot[w]] = FreeRun] /\ slot' = [slot EXCEPT ![w] = NoRun]

\* push returned 2xx: finalizeAfterPush reads the Job and the File.
PushSucceeded(w) ==
  /\ pc[w] = "pushing" /\ run[slot[w]].state = "ok"
  /\ FreeSlot(w)
  /\ pc' = [pc EXCEPT ![w] = "finalizing"]
  /\ BeginJobTx(w)
  /\ UNCHANGED <<dbVars, todo, ragVersion, late, callback, client>>

\* push threw: the RAG service answered an error, or the connection failed.
PushFailed(w) ==
  /\ pc[w] = "pushing" /\ run[slot[w]].state = "err"
  /\ FreeSlot(w)
  /\ pc' = [pc EXCEPT ![w] = "pushFailed"]
  /\ UNCHANGED <<dbVars, todo, viewJob, viewFile, ragVersion, late, callback,
                 client>>

\* push threw: app.rag.read-timeout-ms passed.  The request goes on without a
\* reader, or has ended and its answer is lost.
PushTimedOut(w) ==
  /\ pc[w] = "pushing"
  /\ \/ run[slot[w]].state \in {"working", "calling"} /\ UNCHANGED run
     \/ run[slot[w]].state = "ok" /\ run' = [run EXCEPT ![slot[w]] = FreeRun]
  /\ slot' = [slot EXCEPT ![w] = NoRun]
  /\ pc' = [pc EXCEPT ![w] = "pushFailed"]
  /\ UNCHANGED <<dbVars, todo, viewJob, viewFile, ragVersion, late, callback,
                 client>>

\* Bug: FinalizedRow takes the RAG service's 2xx for the result of the run.
FinalizedEarly(row, f) ==
  IF Live(f) /\ f.status # "FAILED" THEN Ended(row, "SUCCESS") ELSE Ended(row, "FAILED")

\* What finalizeAfterPush makes of a RUNNING row.
FinalizedRow(row, f) ==
  IF Live(f) /\ f.status = "READY" THEN Ended(row, "SUCCESS")
  ELSE IF Live(f) /\ f.status = "FAILED" THEN Ended(row, "FAILED")
  ELSE [row EXCEPT !.status = "WAITING_CALLBACK", !.worker = NoWorker, !.lease = "live"]

\* finalizeAfterPush; a write CK_Job_Status refuses is logged and forgotten.
Finalize(w, j) ==
  LET row == viewJob[w][j]
      new == FinalizedRow(row, viewFile[w][jobFile[j]])
  IN  /\ pc[w] = "finalizing" /\ Current(w, j)
      /\ row.status = "RUNNING" => JobExists(j)
      /\ job' = IF row.status = "RUNNING" /\ new.status \in SchemaJobStatuses
                THEN [job EXCEPT ![j] = new] ELSE job
      /\ Advance(w, j, "batch")
      /\ UNCHANGED <<file, chunks, meta, outbox, jobFile, nextJob, slot, ragVars,
                     client>>

\* markHandoffFailed reads the Job and the File.
FailBegin(w) ==
  /\ pc[w] = "pushFailed"
  /\ pc' = [pc EXCEPT ![w] = "failing"]
  /\ BeginJobTx(w)
  /\ UNCHANGED <<dbVars, todo, slot, ragVars, client>>

\* handleFailure, attempts left: RETRY_WAIT, whatever the status was.
FailRetry(w, j) ==
  LET row == viewJob[w][j]
  IN  /\ pc[w] = "failing" /\ Current(w, j)
      /\ row.attempts < MaxAttempts
      /\ row.status # "NONE" => JobExists(j)
      /\ job' = IF row.status # "NONE" THEN [job EXCEPT ![j] = Retried(row)] ELSE job
      /\ Advance(w, j, "batch")
      /\ UNCHANGED <<file, chunks, meta, outbox, jobFile, nextJob, slot, ragVars,
                     client>>

\* handleFailure, attempts used up: the job and its file are FAILED.
FailForGood(w, j) ==
  LET row == viewJob[w][j]
      f   == jobFile[j]
      old == viewFile[w][f]
  IN  /\ pc[w] = "failing" /\ Current(w, j)
      /\ row.attempts >= MaxAttempts /\ JobExists(j)
      /\ Live(old) => ~Locked(f)
      /\ job' = [job EXCEPT ![j] = Ended(row, "FAILED")]
      /\ IF Live(old)
         THEN /\ file' = [file EXCEPT ![f] = [old EXCEPT !.status = "FAILED"]]
              /\ meta' = [meta EXCEPT ![f] = "FAILED"]
         ELSE UNCHANGED <<file, meta>>
      /\ Advance(w, j, "batch")
      /\ UNCHANGED <<chunks, outbox, jobFile, nextJob, slot, ragVars, client>>

\* A transaction is rolled back: it updates a row that is gone, or it is a
\* deadlock's victim, or the connection is lost.  poll logs it and goes on with
\* the next job; reconcile and reap log it and leave the rest for their next run.
RollBack(w, j) ==
  /\ pc[w] \in {"preparing", "finalizing", "failing", "reconciling", "reaping"}
  /\ Current(w, j)
  /\ IF pc[w] \in {"reconciling", "reaping"}
     THEN /\ todo' = [todo EXCEPT ![w] = {}]
          /\ pc' = [pc EXCEPT ![w] = "idle"]
          /\ EndTx(w)
     ELSE Advance(w, j, "batch")
  /\ UNCHANGED <<dbVars, slot, ragVars, client>>

\* JobWorker.reconcile: the ids of the jobs whose callback is overdue.
ReconcileList(w) ==
  LET ids == {j \in JobIds : job[j].status = "WAITING_CALLBACK" /\ job[j].lease = "expired"}
  IN  /\ pc[w] = "idle" /\ ids # {}
      /\ todo' = [todo EXCEPT ![w] = ids]
      /\ pc' = [pc EXCEPT ![w] = "reconcile"]
      /\ UNCHANGED <<dbVars, slot, viewJob, viewFile, ragVars, client>>

\* reconcileCallback reads the Job.
ReconcileBegin(w) ==
  /\ pc[w] = "reconcile"
  /\ pc' = [pc EXCEPT ![w] = "reconciling"]
  /\ BeginJobTx(w)
  /\ UNCHANGED <<dbVars, todo, slot, ragVars, client>>

\* The rest of it: the File is locked, so it is the current row.
Reconcile(w, j) ==
  LET row == viewJob[w][j]
      f   == jobFile[j]
      giveUp == row.attempts >= MaxAttempts
  IN  /\ pc[w] = "reconciling" /\ Current(w, j)
      /\ row.status = "WAITING_CALLBACK" => JobExists(j) /\ ~Locked(f)
      /\ IF row.status = "WAITING_CALLBACK"
         THEN IF Live(file[f]) /\ file[f].status = "READY"
              THEN /\ job' = [job EXCEPT ![j] = Ended(row, "SUCCESS")]
                   /\ UNCHANGED <<file, meta>>
              ELSE /\ job' = [job EXCEPT ![j] = IF giveUp THEN Ended(row, "FAILED")
                                                ELSE Retried(row)]
                   /\ file' = IF giveUp /\ Live(file[f])
                              THEN [file EXCEPT ![f].status = "FAILED"] ELSE file
                   /\ meta' = IF giveUp /\ Live(file[f])
                              THEN [meta EXCEPT ![f] = "FAILED"] ELSE meta
         ELSE UNCHANGED <<job, file, meta>>
      /\ Advance(w, j, "reconcile")
      /\ UNCHANGED <<chunks, outbox, jobFile, nextJob, slot, ragVars, client>>

\* JobWorker.reap: one transaction, which reads every exhausted job.
ReapBegin(w) ==
  LET ids == {j \in JobIds : /\ job[j].status = "RUNNING" /\ job[j].lease = "expired"
                             /\ job[j].attempts >= MaxAttempts}
  IN  /\ pc[w] = "idle" /\ ids # {}
      /\ todo' = [todo EXCEPT ![w] = ids]
      /\ pc' = [pc EXCEPT ![w] = "reaping"]
      /\ BeginTx(w, ids)
      /\ UNCHANGED <<dbVars, slot, ragVars, client>>

\* reapExpiredExhaustedJobs commits: the jobs and their live files are FAILED.
ReapCommit(w) ==
  LET ids   == todo[w]
      files == {f \in Files : Live(viewFile[w][f]) /\ \E j \in ids : jobFile[j] = f}
  IN  /\ pc[w] = "reaping"
      /\ \A j \in ids : JobExists(j)
      /\ \A f \in files : ~Locked(f)
      /\ job' = [j \in JobIds |-> IF j \in ids THEN Ended(viewJob[w][j], "FAILED") ELSE job[j]]
      /\ file' = [f \in Files |-> IF f \in files
                                  THEN [viewFile[w][f] EXCEPT !.status = "FAILED"]
                                  ELSE file[f]]
      /\ meta' = [f \in Files |-> IF f \in files THEN "FAILED" ELSE meta[f]]
      /\ todo' = [todo EXCEPT ![w] = {}]
      /\ pc' = [pc EXCEPT ![w] = "idle"]
      /\ EndTx(w)
      /\ UNCHANGED <<chunks, outbox, jobFile, nextJob, slot, ragVars, client>>

\* A lease or a callback deadline passes.
Expire(j) ==
  /\ job[j].status \in {"RUNNING", "WAITING_CALLBACK"} /\ job[j].lease = "live"
  /\ job' = [job EXCEPT ![j].lease = "expired"]
  /\ UNCHANGED <<file, chunks, meta, outbox, jobFile, nextJob, workerVars, ragVars,
                 client>>

\* A backend instance dies and is started again: its open transaction is rolled
\* back, and what it claimed stays RUNNING until the lease runs out.  That its
\* workerId is a new one then (buildWorkerId) makes no difference: it asks for the
\* owner of a job only after it has claimed that job.
Crash(w) ==
  /\ pc[w] # "idle"
  /\ pc' = [pc EXCEPT ![w] = "idle"]
  /\ todo' = [todo EXCEPT ![w] = {}]
  /\ slot' = [slot EXCEPT ![w] = NoRun]
  /\ run' = [r \in RunSlots |->
               IF r = slot[w] /\ run[r].state \in {"ok", "err"} THEN FreeRun ELSE run[r]]
  /\ EndTx(w)
  /\ UNCHANGED <<dbVars, ragVersion, late, callback, client>>

(***************************************************************************)
(* The RAG service's requests and callbacks                                *)
(***************************************************************************)

\* findTopByFileIdAndJobTypeOrderByCreatedAtDesc
Newest(f) == {j \in JobIds : /\ JobExists(j) /\ jobFile[j] = f
                             /\ \A k \in JobIds : JobExists(k) /\ jobFile[k] = f => k <= j}

\* Bug: Accepted does not compare versions.
AcceptedStale(f, v) == Live(file[f])

\* findForUpdate finds the file, and ChunkSyncService.sync does not answer STALE.
Accepted(f, v) == Live(file[f]) /\ v >= chunks[f]

\* IngestCallbackService.complete locks the file, and reads the version of its
\* chunks and its newest job, which will be SUCCESS unless it is CANCELLED.
\* Callbacks and requests are served by instances without a scheduler too.
CallbackBegins(f, v) ==
  /\ ~Locked(f) /\ Accepted(f, v)
  /\ callback' = [callback EXCEPT ![f] =
                    [version |-> v,
                     rows    |-> [j \in JobIds |-> IF j \in Newest(f) /\ job[j].status # "CANCELLED"
                                                 THEN Ended(job[j], "SUCCESS") ELSE NoJob]]]

\* The answer is for the worker that still waits, or for nobody.
Answered(r, result) ==
  IF \E w \in Workers : slot[w] = r THEN [run[r] EXCEPT !.state = result] ELSE FreeRun

Answer(r, result) == run' = [run EXCEPT ![r] = Answered(r, result)]

\* The transaction of f's callback ends; its sender, if it still waits, is answered.
CallbackEnds(f, result) ==
  /\ Locked(f)
  /\ callback' = [callback EXCEPT ![f] = NoTx]
  /\ run' = [r \in RunSlots |-> IF run[r].state = "calling" /\ run[r].file = f
                                 THEN Answered(r, result) ELSE run[r]]

\* The run has indexed the file and its callback, of version v, has arrived.
\* While the service is redeployed an older version may still be running.
RunCalls(r, v) ==
  /\ run[r].state = "working" /\ v <= ragVersion
  /\ CallbackBegins(run[r].file, v)
  /\ run' = [run EXCEPT ![r].state = "calling"]
  /\ UNCHANGED <<dbVars, workerVars, ragVersion, late, client>>

\* Bug: CallbackStored forgets the chunks.
CallbackStoredStatusOnly(f) ==
  LET rows == callback[f].rows
  IN  /\ CallbackEnds(f, "ok")
      /\ \A j \in JobIds : rows[j].status # "NONE" => JobExists(j)
      /\ file' = [file EXCEPT ![f].status = "READY"]
      /\ job' = [j \in JobIds |-> IF rows[j].status # "NONE" THEN rows[j] ELSE job[j]]
      /\ UNCHANGED <<chunks, meta, outbox, jobFile, nextJob, workerVars, ragVersion, late,
                     client>>

\* It commits: the chunks are replaced, the file is READY and the job, as it was
\* read then, SUCCESS.
CallbackStored(f) ==
  LET rows == callback[f].rows
  IN  /\ CallbackEnds(f, "ok")
      /\ \A j \in JobIds : rows[j].status # "NONE" => JobExists(j)
      /\ chunks' = [chunks EXCEPT ![f] = callback[f].version]
      /\ file' = [file EXCEPT ![f].status = "READY"]
      /\ job' = [j \in JobIds |-> IF rows[j].status # "NONE" THEN rows[j] ELSE job[j]]
      /\ UNCHANGED <<meta, outbox, jobFile, nextJob, workerVars, ragVersion, late, client>>

\* It is rolled back: 500.  A callback that is sent again begins later.
CallbackRolledBack(f) ==
  /\ CallbackEnds(f, "err")
  /\ UNCHANGED <<dbVars, workerVars, ragVersion, late, client>>

\* The callback is answered 2xx but changes nothing: a stale version, or a
\* payload that validateSuccessPayload finds inconsistent.
CallbackIgnored(r) ==
  /\ run[r].state = "working"
  /\ Live(file[run[r].file])
  /\ Answer(r, "ok")
  /\ UNCHANGED <<dbVars, workerVars, ragVersion, late, callback, client>>

\* Indexing fails (the failure callback changes nothing), or the callback is
\* answered 404 (the file is in the trash or gone) or 500, or never arrives; or its
\* transaction takes longer than its sender waits, and goes on without it.
RunFailed(r) ==
  /\ run[r].state \in {"working", "calling"}
  /\ Answer(r, "err")
  /\ UNCHANGED <<dbVars, workerVars, ragVersion, late, callback, client>>

\* The callback's sender gives up waiting: the callback is still on its way.
CallbackDelayed(r, v) ==
  /\ run[r].state = "working" /\ v <= ragVersion
  /\ late' = late \cup {[file |-> run[r].file, version |-> v]}
  /\ Answer(r, "err")
  /\ UNCHANGED <<dbVars, workerVars, ragVersion, callback, client>>

LateCallbackBegins(m) ==
  /\ m \in late
  /\ CallbackBegins(m.file, m.version)
  /\ late' = late \ {m}
  /\ UNCHANGED <<dbVars, workerVars, run, ragVersion, client>>

\* Lost, refused, or stale.
LateCallbackDropped(m) ==
  /\ m \in late
  /\ late' = late \ {m}
  /\ UNCHANGED <<dbVars, workerVars, run, ragVersion, callback, client>>

Redeploy ==
  /\ ragVersion < MaxVersion
  /\ ragVersion' = ragVersion + 1
  /\ UNCHANGED <<dbVars, workerVars, run, late, callback, client>>

(***************************************************************************)
(* API requests of the file's owner                                        *)
(***************************************************************************)

\* A request reads the file (and, for a restore, counts its chunks).  Kept is
\* what its commit will make use of.
RequestBegin(c, f, op) ==
  /\ client[c].op = "idle"
  /\ IF op \in {"restore", "purge"} THEN RowExists(file[f]) /\ file[f].deleted
                                    ELSE Live(file[f])
  /\ client' = [client EXCEPT ![c] =
                  [op |-> op, file |-> f,
                   row    |-> IF op = "edit" THEN file[f] ELSE NewFile,
                   chunks |-> IF op = "restore" THEN chunks[f] ELSE 0]]
  /\ UNCHANGED <<dbVars, workerVars, ragVars>>

\* Hibernate updates the row the request has read; no row, no transaction.
WriteBack(c, row) ==
  LET f == client[c].file
  IN  /\ ~Locked(f)
      /\ file' = IF RowExists(file[f]) THEN [file EXCEPT ![f] = row] ELSE file

\* FileService.softDelete
SoftDelete(c) ==
  /\ client[c].op = "delete"
  /\ WriteBack(c, [status |-> "DELETED", deleted |-> TRUE])
  /\ client' = [client EXCEPT ![c] = IdleClient]
  /\ UNCHANGED <<chunks, meta, outbox, job, jobFile, nextJob, workerVars, ragVars>>

\* setStar, rename, moveToFolder: another column changes, all are written.
Edit(c) ==
  /\ client[c].op = "edit"
  /\ WriteBack(c, client[c].row)
  /\ client' = [client EXCEPT ![c] = IdleClient]
  /\ UNCHANGED <<chunks, meta, outbox, job, jobFile, nextJob, workerVars, ragVars>>

\* Bug: RestoreReady does not look at the chunks.
RestoreUnchecked(c) ==
  /\ client[c].op = "restore"
  /\ WriteBack(c, [status |-> "READY", deleted |-> FALSE])
  /\ client' = [client EXCEPT ![c] = IdleClient]
  /\ UNCHANGED <<chunks, meta, outbox, job, jobFile, nextJob, workerVars, ragVars>>

\* FileService.restore, file with chunks.
RestoreReady(c) ==
  /\ client[c].op = "restore" /\ client[c].chunks > 0
  /\ WriteBack(c, [status |-> "READY", deleted |-> FALSE])
  /\ client' = [client EXCEPT ![c] = IdleClient]
  /\ UNCHANGED <<chunks, meta, outbox, job, jobFile, nextJob, workerVars, ragVars>>

\* FileService.restore, file without chunks: ingested again.  The insert into
\* Job is refused (FK_Job_File) when the file is gone.
RestoreAndIngest(c) ==
  LET f == client[c].file
  IN  /\ client[c].op = "restore" /\ client[c].chunks = 0
      /\ WriteBack(c, [status |-> "UPLOADED", deleted |-> FALSE])
      /\ IF RowExists(file[f]) THEN EnqueueIngest(f)
                               ELSE UNCHANGED <<job, jobFile, nextJob>>
      /\ client' = [client EXCEPT ![c] = IdleClient]
      /\ UNCHANGED <<chunks, meta, outbox, workerVars, ragVars>>

\* Bug: PermanentDelete leaves the newest job to the scheduler.
PermanentDeleteButNewest(c) ==
  LET f == client[c].file
  IN  /\ client[c].op = "purge" /\ ~Locked(f)
      /\ IF RowExists(file[f])
         THEN /\ outbox' = outbox \cup {f}
              /\ job' = [j \in JobIds |-> IF jobFile[j] = f /\ j \notin Newest(f)
                                          THEN NoJob ELSE job[j]]
              /\ meta' = [meta EXCEPT ![f] = "NONE"]
              /\ chunks' = [chunks EXCEPT ![f] = 0]
              /\ file' = [file EXCEPT ![f] = [status |-> "GONE", deleted |-> TRUE]]
         ELSE UNCHANGED <<outbox, job, meta, chunks, file>>
      /\ client' = [client EXCEPT ![c] = IdleClient]
      /\ UNCHANGED <<jobFile, nextJob, workerVars, ragVars>>

\* FileService.permanentDelete: the clean-up tasks are queued and every row of
\* the file is deleted, whatever became of the file since it was read.
PermanentDelete(c) ==
  LET f == client[c].file
  IN  /\ client[c].op = "purge" /\ ~Locked(f)
      /\ IF RowExists(file[f])
         THEN /\ outbox' = outbox \cup {f}
              /\ job' = [j \in JobIds |-> IF jobFile[j] = f THEN NoJob ELSE job[j]]
              /\ meta' = [meta EXCEPT ![f] = "NONE"]
              /\ chunks' = [chunks EXCEPT ![f] = 0]
              /\ file' = [file EXCEPT ![f] = [status |-> "GONE", deleted |-> TRUE]]
         ELSE UNCHANGED <<outbox, job, meta, chunks, file>>
      /\ client' = [client EXCEPT ![c] = IdleClient]
      /\ UNCHANGED <<jobFile, nextJob, workerVars, ragVars>>

(***************************************************************************)
(* Specification                                                           *)
(***************************************************************************)

Scheduler(w) ==
  \/ ClaimBatch(w) \/ PrepareBegin(w)
  \/ PushSucceeded(w) \/ PushFailed(w) \/ FailBegin(w)
  \/ ReconcileList(w) \/ ReconcileBegin(w)
  \/ ReapBegin(w) \/ ReapCommit(w)
  \/ \E j \in JobIds :
       \/ PrepareSkip(w, j) \/ PrepareEnd(w, j)
       \/ \E r \in RunSlots : PrepareHandoff(w, j, r)
       \/ Finalize(w, j) \/ FailRetry(w, j) \/ FailForGood(w, j)
       \/ Reconcile(w, j) \/ RollBack(w, j)

RagRun(r) ==
  \/ CallbackIgnored(r) \/ RunFailed(r)
  \/ \E v \in 1..MaxVersion : RunCalls(r, v) \/ CallbackDelayed(r, v)

CallbackTxEnds(f) == CallbackStored(f) \/ CallbackRolledBack(f)

RagService ==
  \/ \E r \in RunSlots : RagRun(r)
  \/ \E m \in Callback : LateCallbackBegins(m) \/ LateCallbackDropped(m)
  \/ \E f \in Files : CallbackTxEnds(f)
  \/ Redeploy

Owner(c) ==
  \/ \E f \in Files, op \in {"delete", "restore", "purge", "edit"} : RequestBegin(c, f, op)
  \/ SoftDelete(c) \/ Edit(c) \/ RestoreReady(c) \/ RestoreAndIngest(c)
  \/ PermanentDelete(c)

Environment ==
  \/ \E f \in Files : Upload(f)
  \/ \E j \in JobIds : Expire(j)
  \/ \E w \in Workers : PushTimedOut(w) \/ Crash(w)

Next ==
  \/ \E w \in Workers : Scheduler(w)
  \/ RagService
  \/ \E c \in Clients : Owner(c)
  \/ Environment

Spec == Init /\ [][Next]_vars

(***************************************************************************)
(* A scheduler thread goes on, also after a restart.  Each of its three    *)
(* tasks is run again and again (fixedDelay), and a transaction that is    *)
(* tried again and again commits in the end, however often the instance    *)
(* dies in between.  Clocks run: leases and read timeouts pass, a RAG run  *)
(* ends and so does a callback's transaction.  Nothing is assumed of       *)
(* callbacks that are late, of users, and of crashes.                      *)
(***************************************************************************)
Fairness ==
  /\ \A w \in Workers :
       /\ WF_vars(Scheduler(w)) /\ WF_vars(PushTimedOut(w))
       /\ SF_vars(ClaimBatch(w)) /\ SF_vars(ReconcileList(w)) /\ SF_vars(ReapBegin(w))
       /\ SF_vars(ReconcileBegin(w)) /\ SF_vars(ReapCommit(w))
       /\ SF_vars(\E j \in JobIds : Reconcile(w, j))
  /\ \A j \in JobIds : WF_vars(Expire(j))
  /\ \A r \in RunSlots : WF_vars(RagRun(r))
  /\ \A f \in Files : WF_vars(CallbackTxEnds(f))

FairSpec == Spec /\ Fairness

(***************************************************************************)
(* Properties                                                              *)
(***************************************************************************)

\* A READY file has chunks, so what the search offers can be answered from: the
\* callback writes both at once, but a restore, an edit and a retry write the
\* status they read earlier (FileService.restore, JobProcessingService).
ReadyHasChunks == \A f \in Files : file[f].status = "READY" => chunks[f] > 0

\* A job is SUCCESS only if its file's chunks are stored, whichever of the
\* callback, prepareHandoff, finalizeAfterPush and the reconciler wrote it.
SuccessHasChunks ==
  \A j \in JobIds : job[j].status = "SUCCESS" => chunks[jobFile[j]] > 0

\* No poll claims a job once too often (CK_Job_Attempts): the retries are written
\* from stale rows by threads that no longer own the job.
RetryHasAttemptsLeft ==
  \A j \in JobIds : Claimable(j) => job[j].attempts < MaxAttempts

\* permanentDelete leaves no row of the file behind but its clean-up tasks, and
\* none comes back from a handoff, a callback or a request already under way.
PurgeLeavesNothing ==
  \A f \in Files :
    /\ file[f].status = "GONE" <=> f \in outbox
    /\ f \in outbox => /\ chunks[f] = 0 /\ meta[f] = "NONE"
                       /\ \A j \in JobIds : jobFile[j] = f => ~JobExists(j)

(***************************************************************************)
(* The inductive invariant behind them: what the rows that threads and     *)
(* requests have read, and will write back, are still worth.               *)
(***************************************************************************)

\* The attempts of a job that waits for its next claim.
AttemptsLeft ==
  \A j \in JobIds : job[j].status \in {"PENDING", "RETRY_WAIT"} => job[j].attempts < MaxAttempts

\* FK_Job_File, and what a thread has read of a job that may be gone by now.
JobsHaveFiles ==
  \A j \in JobIds :
    JobExists(j) \/ (\E w \in Workers : viewJob[w][j].status # "NONE") => jobFile[j] \in Files

RunsHaveFiles == \A r \in RunSlots : run[r].state = "working" => run[r].file \in Files

RequestsHaveFiles == \A c \in Clients : client[c].op # "idle" => client[c].file \in Files

\* There is still content behind f, or no row left that could claim so.
Backed(f) == chunks[f] > 0 \/ file[f].status = "GONE"

\* A READY that a thread has read is no longer true only if the file is gone.
ViewsBacked ==
  \A w \in Workers, f \in Files : viewFile[w][f].status = "READY" => Backed(f)

\* The same of what a request has read.
RequestsBacked ==
  \A c \in Clients :
    /\ client[c].row.status # "GONE"
    /\ client[c].row.status = "READY" => client[c].op = "edit" /\ Backed(client[c].file)
    /\ client[c].chunks > 0 => client[c].op = "restore" /\ Backed(client[c].file)

\* The ids of jobs are given out in order.
JobsNumbered == \A j \in JobIds : j >= nextJob => jobFile[j] = NoFile

\* What a callback will store is not older than what is there, its file is not gone,
\* and the row it will write is of a job of that file.
CallbacksApply ==
  \A f \in Files : Locked(f) =>
    /\ file[f].status # "GONE" /\ callback[f].version >= chunks[f]
    /\ \A j \in JobIds : callback[f].rows[j].status # "NONE" => jobFile[j] = f

\* Every row a thread, a request or a callback may still write back agrees with
\* the chunks stored, or its file is gone and the write is refused.
IInv ==
  /\ TypeOK /\ AttemptsLeft /\ JobsHaveFiles /\ RunsHaveFiles /\ RequestsHaveFiles
  /\ ReadyHasChunks /\ SuccessHasChunks /\ PurgeLeavesNothing
  /\ ViewsBacked /\ RequestsBacked /\ JobsNumbered /\ CallbacksApply

\* The file's content as its owner sees it.
Published == INSTANCE PublishedContent
  WITH version <- chunks,
       ready   <- {f \in Files : file[f].status = "READY"},
       purged  <- {f \in Files : file[f].status = "GONE"}

\* The pipeline implements PublishedContent.
ImplementsPublished == Published!Spec

\* A job whose next claim CK_Job_TimeRange refuses: it fails every poll's batch.
Poisoned == \E j \in JobIds : Claimable(j) /\ ClaimRefused(j)

Settled(j) == job[j].status \in {"NONE", "SUCCESS", "FAILED", "CANCELLED"}

\* Every job is settled in the end, through lost answers, crashes and restarts,
\* timeouts and exhausted attempts, unless a poisoned row has stopped the polls.
JobsSettle ==
  \A j \in JobIds : JobExists(j) ~> (Settled(j) \/ Poisoned)

\* What CK_Job_TimeRange is there to see to: Finished_At is never before
\* Started_At, so no claim would make it so (JobRepository.claim).
NoClaimRefused == ~Poisoned

=============================================================================
