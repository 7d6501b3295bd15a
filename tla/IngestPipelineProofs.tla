------------------------ MODULE IngestPipelineProofs ------------------------
(***************************************************************************)
(* What the ingest pipeline keeps true, for any number of files, backend   *)
(* instances, requests, jobs, attempts and index versions.                 *)
(***************************************************************************)
EXTENDS IngestPipeline, TLAPS

(***************************************************************************)
(* Rows: what the operators that change them return.                       *)
(***************************************************************************)

Final == {"SUCCESS", "FAILED", "CANCELLED"}

\* Rows that stand for nothing are rows.
LEMMA EmptyRows ==
  /\ NoJob \in JobRow /\ NoJob.status = "NONE" /\ NoJob.attempts = 0
  /\ NewFile \in FileRow /\ NewFile.status = "NEW"
  /\ FreeRun \in RunState /\ FreeRun.state = "free"
  /\ IdleClient \in ClientState /\ IdleClient.op = "idle"
  /\ IdleClient.row = NewFile /\ IdleClient.chunks = 0
  /\ NoJobs \in [JobIds -> JobRow] /\ \A j \in JobIds : NoJobs[j].status = "NONE"
  /\ NoFiles \in [Files -> FileRow] /\ \A f \in Files : NoFiles[f].status = "NEW"
  /\ NoTx \in CallbackTx /\ NoTx.version = 0
  BY ConstantsOK
     DEF NoJob, JobRow, NewFile, FileRow, FreeRun, RunState, IdleClient, ClientState,
         NoJobs, NoFiles, Leases, NoTx, CallbackTx

\* A job ends with the status given.
LEMMA EndedRow ==
  ASSUME NEW row \in JobRow, NEW status \in Final
  PROVE  Ended(row, status) \in JobRow /\ Ended(row, status).status = status
  BY DEF Ended, JobRow, JobStatus, Leases, Final

\* A job row with another status.
LEMMA StatusJob ==
  ASSUME NEW row \in JobRow, NEW status \in JobStatus
  PROVE  /\ [row EXCEPT !.status = status] \in JobRow
         /\ [row EXCEPT !.status = status].status = status
         /\ [row EXCEPT !.status = status].attempts = row.attempts
  BY DEF JobRow, JobStatus

\* A retried job keeps its attempts.
LEMMA RetriedRow ==
  ASSUME NEW row \in JobRow
  PROVE  /\ Retried(row) \in JobRow /\ Retried(row).status = "RETRY_WAIT"
         /\ Retried(row).attempts = row.attempts
  BY DEF Retried, JobRow, JobStatus, Leases

\* A claim that finds attempts left.
LEMMA ClaimedRowType ==
  ASSUME NEW row \in JobRow, NEW w \in Workers, row.attempts < MaxAttempts
  PROVE  ClaimedRow(row, w) \in JobRow /\ ClaimedRow(row, w).status = "RUNNING"
<1>1. row.attempts + 1 \in 0..MaxAttempts
  BY ConstantsOK DEF JobRow
<1>2. \A a \in 0..MaxAttempts :
        LET new == [row EXCEPT !.status = "RUNNING", !.worker = w, !.lease = "live", !.attempts = a]
        IN  new \in JobRow /\ new.status = "RUNNING"
  BY DEF JobRow, JobStatus, Leases
<1> QED BY <1>1, <1>2, Zenon DEF ClaimedRow

\* finalizeAfterPush: SUCCESS only for a READY file.
LEMMA FinalizedRowType ==
  ASSUME NEW row \in JobRow, NEW f \in FileRow
  PROVE  /\ FinalizedRow(row, f) \in JobRow
         /\ FinalizedRow(row, f).status \in {"SUCCESS", "FAILED", "WAITING_CALLBACK"}
         /\ FinalizedRow(row, f).status = "SUCCESS" => f.status = "READY"
<1>1. CASE Live(f) /\ f.status \in {"READY", "FAILED"}
  BY <1>1, EndedRow DEF FinalizedRow, Final
<1>2. CASE ~(Live(f) /\ f.status \in {"READY", "FAILED"})
  BY <1>2 DEF FinalizedRow, JobRow, JobStatus, Leases
<1> QED BY <1>1, <1>2

\* The file status the pipeline writes.
LEMMA StatusRow ==
  ASSUME NEW row \in FileRow, NEW status \in {"UPLOADED", "PROCESSING", "READY", "FAILED"}
  PROVE  /\ [row EXCEPT !.status = status] \in FileRow
         /\ [row EXCEPT !.status = status].status = status
  BY DEF FileRow

(***************************************************************************)
(* Types                                                                   *)
(***************************************************************************)

\* With the types, what they rest on: the attempts left and the files that the
\* references in jobs, runs and requests lead to.
TypeInv == TypeOK /\ AttemptsLeft /\ JobsHaveFiles /\ RunsHaveFiles /\ RequestsHaveFiles

\* A transaction's view is of rows that are there.
LEMMA BeginTxViews ==
  ASSUME TypeInv, NEW w \in Workers, NEW ids \in SUBSET JobIds, BeginTx(w, ids), UNCHANGED dbVars
  PROVE  /\ viewJob' \in [Workers -> [JobIds -> JobRow]]
         /\ viewFile' \in [Workers -> [Files -> FileRow]]
         /\ JobsHaveFiles'
<1> USE EmptyRows DEF TypeInv, TypeOK, dbVars
<1>1. viewJob' \in [Workers -> [JobIds -> JobRow]] /\ viewFile' \in [Workers -> [Files -> FileRow]]
  BY DEF BeginTx
<1>2. \A v \in Workers, j \in JobIds :
        viewJob'[v][j].status # "NONE" => viewJob[v][j].status # "NONE" \/ JobExists(j)
  BY DEF BeginTx, JobExists
<1>3. JobsHaveFiles'
  BY <1>2 DEF JobsHaveFiles, JobExists
<1> QED BY <1>1, <1>3

\* A transaction that ends leaves its thread with no view.
LEMMA EndTxViews ==
  ASSUME TypeInv, NEW w \in Workers, EndTx(w)
  PROVE  /\ viewJob' \in [Workers -> [JobIds -> JobRow]]
         /\ viewFile' \in [Workers -> [Files -> FileRow]]
         /\ \A v \in Workers, j \in JobIds :
              viewJob'[v][j].status # "NONE" => viewJob[v][j].status # "NONE"
  BY EmptyRows DEF TypeInv, TypeOK, EndTx

\* A thread that moves on holds no view and stays typed.
LEMMA AdvanceViews ==
  ASSUME TypeInv, NEW w \in Workers, NEW j \in JobIds, NEW loop \in PcStates, Advance(w, j, loop)
  PROVE  /\ EndTx(w)
         /\ todo' \in [Workers -> SUBSET JobIds]
         /\ pc' \in [Workers -> PcStates]
  BY DEF TypeInv, TypeOK, Advance, PcStates

\* What a step has to do to the jobs for their attempts and files to stay in order.
LEMMA JobsInOrder ==
  ASSUME TypeInv,
         \A j \in JobIds :
           \/ job'[j] = job[j] /\ jobFile'[j] = jobFile[j]
           \/ job'[j].status = "NONE" /\ jobFile'[j] = jobFile[j]
           \/ /\ jobFile'[j] \in Files
              /\ job'[j].status \in {"PENDING", "RETRY_WAIT"} => job'[j].attempts < MaxAttempts,
         \A w \in Workers, j \in JobIds :
           viewJob'[w][j].status # "NONE" => viewJob[w][j].status # "NONE"
  PROVE  AttemptsLeft' /\ JobsHaveFiles'
<1>1. AttemptsLeft'
  BY DEF AttemptsLeft, TypeInv
<1>2. JobsHaveFiles'
  BY DEF JobsHaveFiles, JobExists, TypeInv
<1> QED BY <1>1, <1>2

\* A new PENDING job and its file.
LEMMA EnqueueTypes ==
  ASSUME TypeInv, NEW f \in Files, EnqueueIngest(f), UNCHANGED viewJob
  PROVE  /\ job' \in [JobIds -> JobRow]
         /\ jobFile' \in [JobIds -> Files \cup {NoFile}]
         /\ nextJob' \in 1..(MaxJobs + 1)
         /\ \A j \in JobIds : \/ job'[j] = job[j] /\ jobFile'[j] = jobFile[j]
                              \/ job'[j].status = "PENDING" /\ jobFile'[j] = f
         /\ AttemptsLeft' /\ JobsHaveFiles'
<1> DEFINE new == [NoJob EXCEPT !.status = "PENDING"]
<1>1. "PENDING" \in JobStatus
  BY DEF JobStatus
<1>2. new \in JobRow /\ new.status = "PENDING" /\ new.attempts = NoJob.attempts
  BY <1>1, EmptyRows, StatusJob, Zenon
<1>3. new.status = "PENDING" /\ new.attempts < MaxAttempts
  BY <1>2, EmptyRows, ConstantsOK
<1>4. job' = [job EXCEPT ![nextJob] = new]
  BY DEF EnqueueIngest
<1> HIDE DEF new
<1>5. nextJob \in JobIds /\ nextJob' \in 1..(MaxJobs + 1)
  BY ConstantsOK DEF EnqueueIngest, TypeInv, TypeOK, JobIds
<1>6. /\ job' \in [JobIds -> JobRow] /\ jobFile' \in [JobIds -> Files \cup {NoFile}]
      /\ \A j \in JobIds : \/ job'[j] = job[j] /\ jobFile'[j] = jobFile[j]
                           \/ job'[j] = new /\ jobFile'[j] = f
  BY <1>2, <1>4, <1>5 DEF EnqueueIngest, TypeInv, TypeOK
<1>7. AttemptsLeft' /\ JobsHaveFiles'
  BY <1>3, <1>6, JobsInOrder
<1> QED BY <1>3, <1>5, <1>6, <1>7

\* The answer to a run is for a worker or for nobody.
LEMMA AnsweredRun ==
  ASSUME TypeInv, NEW r \in RunSlots, NEW result \in {"ok", "err"}
  PROVE  Answered(r, result) \in RunState /\ Answered(r, result).state # "working"
  BY EmptyRows DEF Answered, RunState, TypeInv, TypeOK

\* A callback transaction begins.
LEMMA CallbackBeginsTypes ==
  ASSUME TypeInv, NEW f \in Files, NEW v \in 1..MaxVersion, CallbackBegins(f, v)
  PROVE  callback' \in [Files -> CallbackTx]
<1> DEFINE rows == [j \in JobIds |-> IF j \in Newest(f) /\ job[j].status # "CANCELLED"
                                   THEN Ended(job[j], "SUCCESS") ELSE NoJob]
           tx   == [version |-> v, rows |-> rows]
<1>1. \A j \in JobIds : Ended(job[j], "SUCCESS") \in JobRow /\ Ended(job[j], "SUCCESS").status = "SUCCESS"
  BY EndedRow DEF Final, TypeInv, TypeOK
<1>2. rows \in [JobIds -> {row \in JobRow : row.status \in {"NONE", "SUCCESS"}}]
  BY <1>1, EmptyRows
<1>3. callback' = [callback EXCEPT ![f] = tx]
  BY DEF CallbackBegins
<1> HIDE DEF rows
<1>4. tx \in CallbackTx
  BY <1>2, ConstantsOK DEF CallbackTx
<1> HIDE DEF tx
<1> QED BY <1>3, <1>4 DEF TypeInv, TypeOK

\* A callback transaction ends.
LEMMA CallbackEndsTypes ==
  ASSUME TypeInv, NEW f \in Files, NEW result \in {"ok", "err"}, CallbackEnds(f, result)
  PROVE  callback' \in [Files -> CallbackTx] /\ run' \in [RunSlots -> RunState] /\ RunsHaveFiles'
<1>1. callback' \in [Files -> CallbackTx]
  BY EmptyRows DEF CallbackEnds, TypeInv, TypeOK
<1>2. \A r \in RunSlots : Answered(r, result) \in RunState /\ Answered(r, result).state # "working"
  BY AnsweredRun
<1>3. \A r \in RunSlots : run'[r] = run[r] \/ run'[r] = Answered(r, result)
  BY DEF CallbackEnds
<1>4. run' \in [RunSlots -> RunState]
  BY <1>2 DEF CallbackEnds, TypeInv, TypeOK
<1>5. RunsHaveFiles'
  BY <1>2, <1>3 DEF RunsHaveFiles, TypeInv
<1> QED BY <1>1, <1>4, <1>5

\* A callback's transaction commits.
LEMMA StoredTypes ==
  ASSUME TypeInv, NEW f \in Files, CallbackStored(f)
  PROVE  /\ file' \in [Files -> FileRow]
         /\ chunks' \in [Files -> 0..MaxVersion]
         /\ job' \in [JobIds -> JobRow]
         /\ AttemptsLeft' /\ JobsHaveFiles'
<1>1. file' \in [Files -> FileRow]
  BY StatusRow DEF CallbackStored, TypeInv, TypeOK
<1>2. callback[f] \in CallbackTx
  BY DEF TypeInv, TypeOK
<1>3. callback[f].version \in 0..MaxVersion
      /\ \A j \in JobIds : callback[f].rows[j] \in JobRow /\ callback[f].rows[j].status \in {"NONE", "SUCCESS"}
  BY <1>2 DEF CallbackTx
<1>4. chunks' \in [Files -> 0..MaxVersion]
  BY <1>3 DEF CallbackStored, TypeInv, TypeOK
<1>5. job' = [j \in JobIds |-> IF callback[f].rows[j].status # "NONE"
                              THEN callback[f].rows[j] ELSE job[j]]
  BY DEF CallbackStored
<1>6. /\ job' \in [JobIds -> JobRow]
      /\ \A j \in JobIds : \/ job'[j] = job[j]
                           \/ job'[j].status = "SUCCESS" /\ JobExists(j)
  BY <1>3, <1>5 DEF TypeInv, TypeOK, CallbackStored
<1>7. UNCHANGED <<jobFile, viewJob>>
  BY DEF CallbackStored, workerVars
<1>8. \A j \in JobIds : JobExists(j) => jobFile[j] \in Files
  BY DEF TypeInv, JobsHaveFiles
<1>9. AttemptsLeft' /\ JobsHaveFiles'
  BY <1>6, <1>7, <1>8, JobsInOrder
<1> QED BY <1>1, <1>4, <1>6, <1>9

\* One job's row is replaced, one that is there or of a file.
LEMMA JobWritten ==
  ASSUME TypeInv, NEW j \in JobIds, NEW row \in JobRow, JobExists(j),
         row.status \in {"PENDING", "RETRY_WAIT"} => row.attempts < MaxAttempts,
         job' = [job EXCEPT ![j] = row], UNCHANGED jobFile,
         \A w \in Workers, k \in JobIds :
           viewJob'[w][k].status # "NONE" => viewJob[w][k].status # "NONE"
  PROVE  job' \in [JobIds -> JobRow] /\ AttemptsLeft' /\ JobsHaveFiles'
<1>1. job \in [JobIds -> JobRow]
  BY DEF TypeInv, TypeOK
<1>2. jobFile[j] \in Files
  BY DEF TypeInv, JobsHaveFiles
<1>3. job' \in [JobIds -> JobRow]
  BY <1>1
<1>4. \A k \in JobIds : k # j => job'[k] = job[k]
  BY <1>1
<1>5. job'[j] = row
  BY <1>1
<1> QED BY <1>2, <1>3, <1>4, <1>5, JobsInOrder

\* The lease of a row runs out.
LEMMA ExpiredRow ==
  ASSUME NEW row \in JobRow
  PROVE  /\ [row EXCEPT !.lease = "expired"] \in JobRow
         /\ [row EXCEPT !.lease = "expired"].status = row.status
         /\ [row EXCEPT !.lease = "expired"].attempts = row.attempts
  BY DEF JobRow, Leases

\* The initial state is typed, its jobs and runs in order.
LEMMA TypeInit == Init => TypeInv
  BY ConstantsOK, EmptyRows
     DEF Init, TypeInv, TypeOK, AttemptsLeft, JobsHaveFiles, RunsHaveFiles, RequestsHaveFiles,
         PcStates, JobExists, JobIds

\* Every step keeps the types, the attempts and the jobs', runs' and requests' files.
LEMMA TypeStep ==
  ASSUME TypeInv, [Next]_vars
  PROVE  TypeInv'
<1> USE ConstantsOK
    DEF TypeInv, TypeOK, AttemptsLeft, JobsHaveFiles, RunsHaveFiles, RequestsHaveFiles, JobExists
<1>1. ASSUME NEW f \in Files, Upload(f) PROVE TypeInv'
  <2>1. file' \in [Files -> FileRow]
    BY <1>1, StatusRow DEF Upload
  <2>2. EnqueueIngest(f) /\ UNCHANGED <<chunks, meta, outbox, workerVars, ragVars, client>>
    BY <1>1 DEF Upload
  <2> QED BY <2>1, <2>2, EnqueueTypes DEF workerVars, ragVars
<1>2. ASSUME NEW w \in Workers, ClaimBatch(w) PROVE TypeInv'
  BY <1>2, ClaimedRowType
     DEF ClaimBatch, ragVars, Candidates, Claimable, PcStates
<1>3. ASSUME NEW w \in Workers, PrepareBegin(w) PROVE TypeInv'
  BY <1>3, BeginTxViews
     DEF PrepareBegin, dbVars, ragVars, BeginJobTx, Current, PcStates
<1>4. ASSUME NEW w \in Workers, NEW j \in JobIds, PrepareSkip(w, j) PROVE TypeInv'
  BY <1>4, AdvanceViews, EndTxViews
     DEF PrepareSkip, dbVars, ragVars, PcStates
<1>5. ASSUME NEW w \in Workers, NEW j \in JobIds, PrepareEnd(w, j) PROVE TypeInv'
  BY <1>5, EndedRow, AdvanceViews, EndTxViews
     DEF PrepareEnd, Final, NotOwned, ragVars, PcStates
<1>6. ASSUME NEW w \in Workers, NEW j \in JobIds, NEW r \in RunSlots, PrepareHandoff(w, j,
       r) PROVE TypeInv'
  <2> DEFINE f == jobFile[j]
  <2>1. f \in Files
    BY <1>6 DEF PrepareHandoff, NotOwned
  <2>2. file' \in [Files -> FileRow]
    <3>0. viewFile[w][f] \in FileRow
      BY <2>1
    <3>1. [viewFile[w][f] EXCEPT !.status = "PROCESSING"] \in FileRow
      BY <3>0, StatusRow, Zenon
    <3>2. file' = file \/ file' = [file EXCEPT ![f] = [viewFile[w][f] EXCEPT !.status = "PROCESSING"]]
      BY <1>6 DEF PrepareHandoff
    <3> QED BY <3>1, <3>2
  <2>3. run' \in [RunSlots -> RunState] /\ RunsHaveFiles'
    BY <1>6, <2>1 DEF PrepareHandoff, RunState
  <2>4. viewJob' \in [Workers -> [JobIds -> JobRow]] /\ viewFile' \in [Workers -> [Files -> FileRow]]
        /\ JobsHaveFiles'
    BY <1>6, EndTxViews DEF PrepareHandoff
  <2>5. meta' \in [Files -> {"NONE", "PROCESSING", "FAILED"}] /\ pc' \in [Workers -> PcStates]
        /\ slot' \in [Workers -> RunSlots \cup {NoRun}]
    BY <1>6 DEF PrepareHandoff, PcStates
  <2> QED BY <1>6, <2>2, <2>3, <2>4, <2>5 DEF PrepareHandoff
<1>7. ASSUME NEW w \in Workers, PushSucceeded(w) PROVE TypeInv'
  BY <1>7, EmptyRows, BeginTxViews
     DEF PushSucceeded, FreeSlot, BeginJobTx, Current, PcStates, dbVars
<1>8. ASSUME NEW w \in Workers, PushFailed(w) PROVE TypeInv'
  BY <1>8, EmptyRows
     DEF PushFailed, FreeSlot, PcStates, dbVars
<1>9. ASSUME NEW w \in Workers, PushTimedOut(w) PROVE TypeInv'
  BY <1>9, EmptyRows
     DEF PushTimedOut, PcStates, dbVars
<1>10. ASSUME NEW w \in Workers, NEW j \in JobIds, Finalize(w, j) PROVE TypeInv'
  <2>1. viewJob[w][j] \in JobRow
    OBVIOUS
  <2>2. CASE job' = job
    BY <1>10, <2>2, AdvanceViews, EndTxViews DEF Finalize, PcStates, ragVars
  <2>3. CASE job' # job
    <3>1. JobExists(j) /\ viewFile[w][jobFile[j]] \in FileRow
      BY <1>10, <2>3 DEF Finalize
    <3> DEFINE new == FinalizedRow(viewJob[w][j], viewFile[w][jobFile[j]])
    <3>2. new \in JobRow /\ new.status \in {"SUCCESS", "FAILED", "WAITING_CALLBACK"}
      BY <2>1, <3>1, FinalizedRowType
    <3>3. job' = [job EXCEPT ![j] = new]
      BY <1>10, <2>3 DEF Finalize
    <3> HIDE DEF new
    <3> QED BY <1>10, <3>1, <3>2, <3>3, AdvanceViews, EndTxViews DEF Finalize, PcStates, ragVars
  <2> QED BY <2>2, <2>3
<1>11. ASSUME NEW w \in Workers, FailBegin(w) PROVE TypeInv'
  BY <1>11, BeginTxViews
     DEF FailBegin, BeginJobTx, Current, PcStates, dbVars, ragVars
<1>12. ASSUME NEW w \in Workers, NEW j \in JobIds, FailRetry(w, j) PROVE TypeInv'
  BY <1>12, RetriedRow, AdvanceViews, EndTxViews
     DEF FailRetry, PcStates, ragVars
<1>13. ASSUME NEW w \in Workers, NEW j \in JobIds, FailForGood(w, j) PROVE TypeInv'
  <2> DEFINE new == Ended(viewJob[w][j], "FAILED")
  <2>1. new \in JobRow /\ new.status = "FAILED"
    BY EndedRow DEF Final
  <2>2. job' = [job EXCEPT ![j] = new] /\ JobExists(j)
    BY <1>13 DEF FailForGood
  <2> HIDE DEF new
  <2>3. file' \in [Files -> FileRow] /\ meta' \in [Files -> {"NONE", "PROCESSING", "FAILED"}]
    <3> DEFINE f == jobFile[j]
               old == viewFile[w][f]
    <3>1. f \in Files /\ old \in FileRow
      BY <2>2
    <3>2. [old EXCEPT !.status = "FAILED"] \in FileRow
      BY <3>1, StatusRow, Zenon
    <3>3. /\ file' = file \/ file' = [file EXCEPT ![f] = [old EXCEPT !.status = "FAILED"]]
          /\ meta' = meta \/ meta' = [meta EXCEPT ![f] = "FAILED"]
      BY <1>13 DEF FailForGood
    <3>4. file \in [Files -> FileRow] /\ meta \in [Files -> {"NONE", "PROCESSING", "FAILED"}]
      OBVIOUS
    <3> HIDE DEF TypeInv, TypeOK, AttemptsLeft, JobsHaveFiles, RunsHaveFiles, RequestsHaveFiles,
                 f, old
    <3>5. file' \in [Files -> FileRow]
      BY <3>1, <3>2, <3>3, <3>4
    <3>6. meta' \in [Files -> {"NONE", "PROCESSING", "FAILED"}]
      BY <3>1, <3>3, <3>4
    <3> QED BY <3>5, <3>6
  <2> QED BY <1>13, <2>1, <2>2, <2>3, AdvanceViews, EndTxViews DEF FailForGood, PcStates, ragVars
<1>14. ASSUME NEW w \in Workers, NEW j \in JobIds, RollBack(w, j) PROVE TypeInv'
  BY <1>14, AdvanceViews, EndTxViews
     DEF RollBack, PcStates, dbVars, ragVars
<1>15. ASSUME NEW w \in Workers, ReconcileList(w) PROVE TypeInv'
  BY <1>15
     DEF ReconcileList, PcStates, dbVars, ragVars
<1>16. ASSUME NEW w \in Workers, ReconcileBegin(w) PROVE TypeInv'
  BY <1>16, BeginTxViews
     DEF ReconcileBegin, BeginJobTx, Current, PcStates, dbVars, ragVars
<1>17. ASSUME NEW w \in Workers, NEW j \in JobIds, Reconcile(w, j) PROVE TypeInv'
  <2> DEFINE row == viewJob[w][j]
             ended(status) == Ended(row, status)
  <2>1. /\ row \in JobRow /\ Retried(row) \in JobRow /\ Retried(row).status = "RETRY_WAIT"
        /\ Retried(row).attempts = row.attempts
        /\ \A status \in {"SUCCESS", "FAILED"} : ended(status) \in JobRow /\ ended(status).status = status
    BY EndedRow, RetriedRow DEF Final
  <2>2. \/ UNCHANGED job
        \/ /\ JobExists(j)
           /\ \/ \E status \in {"SUCCESS", "FAILED"} : job' = [job EXCEPT ![j] = ended(status)]
              \/ row.attempts < MaxAttempts /\ job' = [job EXCEPT ![j] = Retried(row)]
    BY <1>17, <2>1 DEF Reconcile, JobRow
  <2>3. file' \in [Files -> FileRow] /\ meta' \in [Files -> {"NONE", "PROCESSING", "FAILED"}]
    <3> DEFINE f == jobFile[j]
    <3>1. /\ file' = file \/ file' = [file EXCEPT ![f].status = "FAILED"]
          /\ meta' = meta \/ meta' = [meta EXCEPT ![f] = "FAILED"]
      BY <1>17 DEF Reconcile
    <3>2. CASE f \in Files
      <4>1. file[f] \in FileRow
        BY <3>2
      <4>2. [file[f] EXCEPT !.status = "FAILED"] \in FileRow
        BY <4>1, StatusRow, Zenon
      <4>3. file \in [Files -> FileRow] /\ meta \in [Files -> {"NONE", "PROCESSING", "FAILED"}]
        OBVIOUS
      <4> HIDE DEF TypeInv, TypeOK, AttemptsLeft, JobsHaveFiles, RunsHaveFiles, RequestsHaveFiles,
                   f
      <4>4. file' \in [Files -> FileRow]
        BY <3>1, <3>2, <4>2, <4>3
      <4>5. meta' \in [Files -> {"NONE", "PROCESSING", "FAILED"}]
        BY <3>1, <3>2, <4>3
      <4> QED BY <4>4, <4>5
    <3>3. CASE f \notin Files
      BY <3>1, <3>3
    <3> QED BY <3>2, <3>3
  <2>4. job' \in [JobIds -> JobRow] /\ AttemptsLeft' /\ JobsHaveFiles'
    <3>1. UNCHANGED jobFile /\ Advance(w, j, "reconcile")
      BY <1>17 DEF Reconcile
    <3>2. \A v \in Workers, k \in JobIds :
            viewJob'[v][k].status # "NONE" => viewJob[v][k].status # "NONE"
      BY <3>1, AdvanceViews, EndTxViews DEF PcStates
    <3> HIDE DEF ended, row, TypeInv
    <3>3. CASE UNCHANGED job
      BY <3>1, <3>2, <3>3, JobsInOrder DEF TypeInv
    <3>4. ASSUME NEW status \in {"SUCCESS", "FAILED"}, JobExists(j), job' = [job EXCEPT ![j] = ended(status)]
          PROVE  job' \in [JobIds -> JobRow] /\ AttemptsLeft' /\ JobsHaveFiles'
      BY <2>1, <3>1, <3>2, <3>4, JobWritten
    <3>5. ASSUME JobExists(j), row.attempts < MaxAttempts, job' = [job EXCEPT ![j] = Retried(row)]
          PROVE  job' \in [JobIds -> JobRow] /\ AttemptsLeft' /\ JobsHaveFiles'
      BY <2>1, <3>1, <3>2, <3>5, JobWritten
    <3> QED BY <2>2, <3>3, <3>4, <3>5
  <2> QED BY <1>17, <2>3, <2>4, AdvanceViews, EndTxViews DEF Reconcile, PcStates, ragVars
<1>18. ASSUME NEW w \in Workers, ReapBegin(w) PROVE TypeInv'
  BY <1>18, BeginTxViews
     DEF ReapBegin, PcStates, dbVars, ragVars
<1>19. ASSUME NEW w \in Workers, ReapCommit(w) PROVE TypeInv'
  <2>1. \A j \in JobIds : Ended(viewJob[w][j], "FAILED") \in JobRow
                         /\ Ended(viewJob[w][j], "FAILED").status = "FAILED"
    BY EndedRow DEF Final
  <2>2. /\ job' \in [JobIds -> JobRow]
        /\ \A j \in JobIds : \/ job'[j] = job[j]
                             \/ job'[j].status = "FAILED" /\ jobFile[j] \in Files
    <3>1. /\ \A j \in todo[w] : jobFile[j] \in Files
          /\ job' = [j \in JobIds |-> IF j \in todo[w] THEN Ended(viewJob[w][j], "FAILED") ELSE job[j]]
      BY <1>19 DEF ReapCommit
    <3>2. job \in [JobIds -> JobRow]
      OBVIOUS
    <3> HIDE DEF TypeInv, TypeOK, AttemptsLeft, JobsHaveFiles, RunsHaveFiles, RequestsHaveFiles
    <3> QED BY <2>1, <3>1, <3>2
  <2>3. file' \in [Files -> FileRow] /\ meta' \in [Files -> {"NONE", "PROCESSING", "FAILED"}]
    <3>1. PICK files \in SUBSET Files :
            /\ file' = [f \in Files |-> IF f \in files
                                        THEN [viewFile[w][f] EXCEPT !.status = "FAILED"] ELSE file[f]]
            /\ meta' = [f \in Files |-> IF f \in files THEN "FAILED" ELSE meta[f]]
      BY <1>19 DEF ReapCommit
    <3>2. \A f \in Files : [viewFile[w][f] EXCEPT !.status = "FAILED"] \in FileRow
      <4>1. \A f \in Files : viewFile[w][f] \in FileRow
        OBVIOUS
      <4> QED BY <4>1, StatusRow, Zenon
    <3> QED BY <3>1, <3>2
  <2>4. pc' \in [Workers -> PcStates] /\ todo' \in [Workers -> SUBSET JobIds]
    BY <1>19 DEF ReapCommit, PcStates
  <2>5. EndTx(w) /\ UNCHANGED <<chunks, outbox, jobFile, nextJob, slot, ragVars, client>>
    BY <1>19 DEF ReapCommit
  <2> QED BY <2>2, <2>3, <2>4, <2>5, EndTxViews DEF ragVars
<1>20. ASSUME NEW j \in JobIds, Expire(j) PROVE TypeInv'
  <2> DEFINE new == [job[j] EXCEPT !.lease = "expired"]
  <2>1. new \in JobRow /\ new.status = job[j].status /\ new.attempts = job[j].attempts
    BY ExpiredRow
  <2>2. job' = [job EXCEPT ![j] = new]
        /\ UNCHANGED <<file, chunks, meta, outbox, jobFile, nextJob, workerVars, ragVars, client>>
    BY <1>20 DEF Expire
  <2>3. job[j].status = "RUNNING" \/ job[j].status = "WAITING_CALLBACK"
    BY <1>20 DEF Expire
  <2> HIDE DEF new
  <2>4. job' \in [JobIds -> JobRow] /\ AttemptsLeft' /\ JobsHaveFiles'
    BY <2>1, <2>2, <2>3, JobWritten DEF workerVars
  <2> QED BY <2>2, <2>4 DEF workerVars, ragVars
<1>21. ASSUME NEW w \in Workers, Crash(w) PROVE TypeInv'
  BY <1>21, EmptyRows, EndTxViews
     DEF Crash, PcStates, dbVars
<1>22. ASSUME NEW f \in Files, CallbackStored(f) PROVE TypeInv'
  <2>1. CallbackEnds(f, "ok") /\ UNCHANGED <<meta, outbox, jobFile, nextJob, workerVars, ragVersion, late, client>>
    BY <1>22 DEF CallbackStored
  <2> QED BY <1>22, <2>1, StoredTypes, CallbackEndsTypes DEF workerVars
<1>23. ASSUME NEW f \in Files, CallbackRolledBack(f) PROVE TypeInv'
  BY <1>23, CallbackEndsTypes DEF CallbackRolledBack, dbVars, workerVars
<1>24. ASSUME NEW r \in RunSlots, NEW v \in 1..MaxVersion, RunCalls(r, v) PROVE TypeInv'
  <2>1. run' \in [RunSlots -> RunState] /\ RunsHaveFiles'
    BY <1>24 DEF RunCalls, RunState
  <2>2. callback' \in [Files -> CallbackTx]
    BY <1>24, CallbackBeginsTypes DEF RunCalls
  <2> QED BY <1>24, <2>1, <2>2 DEF RunCalls, dbVars, workerVars
<1>25. ASSUME NEW r \in RunSlots, CallbackIgnored(r) PROVE TypeInv'
  BY <1>25, AnsweredRun
     DEF CallbackIgnored, Answer, workerVars, dbVars
<1>26. ASSUME NEW r \in RunSlots, RunFailed(r) PROVE TypeInv'
  BY <1>26, AnsweredRun
     DEF RunFailed, Answer, workerVars, dbVars
<1>27. ASSUME NEW r \in RunSlots, NEW v \in 1..MaxVersion, CallbackDelayed(r, v) PROVE TypeInv'
  BY <1>27, AnsweredRun
     DEF CallbackDelayed, Answer, Callback, workerVars, dbVars
<1>28. ASSUME NEW m \in Callback, LateCallbackBegins(m) PROVE TypeInv'
  <2>1. m.file \in Files /\ m.version \in 1..MaxVersion
    BY DEF Callback
  <2>2. callback' \in [Files -> CallbackTx]
    BY <1>28, <2>1, CallbackBeginsTypes DEF LateCallbackBegins
  <2> QED BY <1>28, <2>2 DEF LateCallbackBegins, dbVars, workerVars
<1>29. ASSUME NEW m \in Callback, LateCallbackDropped(m) PROVE TypeInv'
  BY <1>29
     DEF LateCallbackDropped, workerVars, dbVars
<1>30. ASSUME Redeploy PROVE TypeInv'
  BY <1>30
     DEF Redeploy, workerVars, dbVars
<1>31. ASSUME NEW c \in Clients, NEW f \in Files, NEW op \in {"delete", "restore", "purge",
       "edit"}, RequestBegin(c, f, op) PROVE TypeInv'
  BY <1>31, EmptyRows
     DEF RequestBegin, ClientState, workerVars, ragVars, dbVars
<1>32. ASSUME NEW c \in Clients, SoftDelete(c) PROVE TypeInv'
  BY <1>32, EmptyRows
     DEF SoftDelete, WriteBack, FileRow, workerVars, ragVars
<1>33. ASSUME NEW c \in Clients, Edit(c) PROVE TypeInv'
  BY <1>33, EmptyRows
     DEF Edit, WriteBack, ClientState, workerVars, ragVars
<1>34. ASSUME NEW c \in Clients, RestoreReady(c) PROVE TypeInv'
  BY <1>34, EmptyRows
     DEF RestoreReady, WriteBack, FileRow, workerVars, ragVars
<1>35. ASSUME NEW c \in Clients, RestoreAndIngest(c) PROVE TypeInv'
  <2> DEFINE f == client[c].file
  <2>1. f \in Files
    BY <1>35 DEF RestoreAndIngest
  <2>2. file' \in [Files -> FileRow]
    BY <1>35 DEF RestoreAndIngest, WriteBack, FileRow
  <2>3. client' \in [Clients -> ClientState] /\ RequestsHaveFiles'
    BY <1>35, EmptyRows DEF RestoreAndIngest
  <2>4. EnqueueIngest(f) \/ UNCHANGED <<job, jobFile, nextJob>>
    BY <1>35 DEF RestoreAndIngest
  <2>5. UNCHANGED <<chunks, meta, outbox, workerVars, ragVars>>
    BY <1>35 DEF RestoreAndIngest
  <2> HIDE DEF f
  <2>6. CASE EnqueueIngest(f)
    BY <2>1, <2>2, <2>3, <2>5, <2>6, EnqueueTypes DEF workerVars, ragVars
  <2>7. CASE UNCHANGED <<job, jobFile, nextJob>>
    BY <2>2, <2>3, <2>5, <2>7 DEF workerVars, ragVars
  <2> QED BY <2>4, <2>6, <2>7
<1>36. ASSUME NEW c \in Clients, PermanentDelete(c) PROVE TypeInv'
  <2>1. client' \in [Clients -> ClientState] /\ RequestsHaveFiles'
    BY <1>36, EmptyRows DEF PermanentDelete
  <2> DEFINE f == client[c].file
  <2>5. f \in Files
    BY <1>36 DEF PermanentDelete
  <2>2. /\ job' \in [JobIds -> JobRow]
        /\ \A j \in JobIds : job'[j] = job[j] \/ job'[j].status = "NONE"
    <3>1. \/ job' = job
          \/ job' = [j \in JobIds |-> IF jobFile[j] = f THEN NoJob ELSE job[j]]
      BY <1>36 DEF PermanentDelete
    <3>2. job \in [JobIds -> JobRow]
      OBVIOUS
    <3> HIDE DEF TypeInv, TypeOK, AttemptsLeft, JobsHaveFiles, RunsHaveFiles, RequestsHaveFiles, f
    <3> QED BY <3>1, <3>2, EmptyRows
  <2>3. /\ outbox' \subseteq Files /\ chunks' \in [Files -> 0..MaxVersion]
        /\ meta' \in [Files -> {"NONE", "PROCESSING", "FAILED"}]
        /\ file' \in [Files -> FileRow]
    <3>1. \/ UNCHANGED <<outbox, meta, chunks, file>>
          \/ /\ outbox' = outbox \cup {f} /\ meta' = [meta EXCEPT ![f] = "NONE"]
             /\ chunks' = [chunks EXCEPT ![f] = 0]
             /\ file' = [file EXCEPT ![f] = [status |-> "GONE", deleted |-> TRUE]]
      BY <1>36 DEF PermanentDelete
    <3>2. [status |-> "GONE", deleted |-> TRUE] \in FileRow
      BY DEF FileRow
    <3>3. /\ outbox \subseteq Files /\ chunks \in [Files -> 0..MaxVersion]
          /\ meta \in [Files -> {"NONE", "PROCESSING", "FAILED"}] /\ file \in [Files -> FileRow]
      OBVIOUS
    <3> HIDE DEF TypeInv, TypeOK, AttemptsLeft, JobsHaveFiles, RunsHaveFiles, RequestsHaveFiles, f
    <3>4. outbox' \subseteq Files /\ meta' \in [Files -> {"NONE", "PROCESSING", "FAILED"}]
      BY <2>5, <3>1, <3>3
    <3>5. chunks' \in [Files -> 0..MaxVersion]
      BY <2>5, <3>1, <3>3, ConstantsOK
    <3>6. file' \in [Files -> FileRow]
      BY <2>5, <3>1, <3>2, <3>3
    <3> QED BY <3>4, <3>5, <3>6
  <2>4. UNCHANGED <<jobFile, nextJob, workerVars, ragVars>>
    BY <1>36 DEF PermanentDelete
  <2> QED BY <2>1, <2>2, <2>3, <2>4 DEF workerVars, ragVars
<1>37. CASE UNCHANGED vars
  BY <1>37 DEF vars, dbVars, workerVars, ragVars
<1> HIDE DEF TypeInv, TypeOK, AttemptsLeft, JobsHaveFiles, RunsHaveFiles, RequestsHaveFiles, JobExists
<1> QED
  BY <1>1, <1>2, <1>3, <1>4, <1>5, <1>6, <1>7, <1>8, <1>9, <1>10, <1>11, <1>12, <1>13,
     <1>14, <1>15, <1>16, <1>17, <1>18, <1>19, <1>20, <1>21, <1>22, <1>23, <1>24, <1>25,
     <1>26, <1>27, <1>28, <1>29, <1>30, <1>31, <1>32, <1>33, <1>34, <1>35, <1>36, <1>37
     DEF Next, Scheduler, RagService, RagRun, CallbackTxEnds, Owner, Environment

\* Every variable keeps its type.
THEOREM TypeCorrect == Spec => []TypeOK
<1>1. TypeInv => TypeOK
  BY DEF TypeInv
<1> QED
  BY <1>1, TypeInit, TypeStep, PTL DEF Spec

(***************************************************************************)
(* Safety.  Most steps leave the chunks and the purged files as they are;  *)
(* what is asked of such a step is that the rows it writes are backed by   *)
(* chunks where they say so.                                               *)
(***************************************************************************)

Safe == /\ ReadyHasChunks /\ SuccessHasChunks /\ PurgeLeavesNothing
        /\ ViewsBacked /\ RequestsBacked

\* IInv is what TypeStep, SafeStep, NumbersStep and CallbacksStep keep.
LEMMA IInvParts == IInv <=> TypeInv /\ Safe /\ JobsNumbered /\ CallbacksApply
  BY DEF IInv, TypeInv, Safe

Gone(f) == file[f].status = "GONE"

FilesKept ==
  /\ UNCHANGED <<chunks, outbox>>
  /\ \A f \in Files : /\ Gone(f)' <=> Gone(f)
                      /\ file'[f].status = "READY" => Backed(f)
                      /\ Gone(f) => meta'[f] = meta[f]

JobsKept ==
  \A j \in JobIds :
    \/ job'[j] = job[j] /\ jobFile'[j] = jobFile[j]
    \/ /\ jobFile'[j] \in Files /\ ~Gone(jobFile'[j])
       /\ job'[j].status = "SUCCESS" => Backed(jobFile'[j])

ViewsKept ==
  \A w \in Workers, f \in Files :
    viewFile'[w][f].status = "READY" => viewFile[w][f].status = "READY" \/ file[f].status = "READY"

RequestsKept ==
  \A c \in Clients :
    \/ client'[c] = client[c]
    \/ client'[c].row.status # "READY" /\ client'[c].row.status # "GONE" /\ client'[c].chunks = 0
    \/ /\ client'[c].file \in Files
       /\ client'[c].row.status # "GONE"
       /\ client'[c].row.status = "READY" => client'[c].op = "edit" /\ Backed(client'[c].file)
       /\ client'[c].chunks > 0 => client'[c].op = "restore" /\ Backed(client'[c].file)

\* What a step does to the content of the files.
Stored(f, v) ==
  /\ ~Gone(f) /\ v >= chunks[f]
  /\ chunks' = [chunks EXCEPT ![f] = v]
  /\ file' = [file EXCEPT ![f].status = "READY"]
  /\ ~Locked(f)'

Removed(f) ==
  /\ ~Gone(f) /\ ~Locked(f)
  /\ chunks' = [chunks EXCEPT ![f] = 0]
  /\ file' = [file EXCEPT ![f] = [status |-> "GONE", deleted |-> TRUE]]

ContentStep ==
  \/ FilesKept
  \/ \E f \in Files, v \in 1..MaxVersion : Stored(f, v)
  \/ \E f \in Files : Removed(f)

\* What every step has to bring about.
SafeNext == Safe' /\ ContentStep

\* A step that keeps content and jobs as described, and the views backed, is safe.
LEMMA KeepsSafe ==
  ASSUME IInv, FilesKept, JobsKept, ViewsKept, RequestsKept
  PROVE  SafeNext
<1>1. TypeOK /\ JobsHaveFiles /\ RequestsHaveFiles /\ Safe
  BY DEF IInv, Safe
<1>2. \A f \in Files : chunks[f] \in Nat /\ (Backed(f)' <=> Backed(f))
  BY <1>1, ConstantsOK DEF FilesKept, Backed, Gone, TypeOK
<1>3. ReadyHasChunks'
  BY <1>1 DEF FilesKept, Backed, Gone, ReadyHasChunks
<1>4. SuccessHasChunks'
  <2> SUFFICES ASSUME NEW j \in JobIds, job'[j].status = "SUCCESS"
               PROVE  chunks'[jobFile'[j]] > 0
    BY DEF SuccessHasChunks
  <2>1. CASE job'[j] = job[j] /\ jobFile'[j] = jobFile[j]
    BY <1>1, <2>1 DEF Safe, SuccessHasChunks, FilesKept
  <2>2. CASE ~(job'[j] = job[j] /\ jobFile'[j] = jobFile[j])
    BY <2>2 DEF JobsKept, Backed, Gone, FilesKept
  <2> QED BY <2>1, <2>2
<1>5. PurgeLeavesNothing'
  <2>1. ASSUME NEW f \in Files
        PROVE  (Gone(f)' <=> f \in outbox') /\ (f \in outbox' => chunks'[f] = 0 /\ meta'[f] = "NONE")
    BY <1>1 DEF Safe, PurgeLeavesNothing, FilesKept, Gone
  <2>2. ASSUME NEW f \in Files, f \in outbox', NEW j \in JobIds, jobFile'[j] = f
        PROVE  job'[j].status = "NONE"
    BY <1>1, <2>2 DEF Safe, PurgeLeavesNothing, FilesKept, JobsKept, Gone, JobExists
  <2> QED BY <2>1, <2>2 DEF PurgeLeavesNothing, Gone, JobExists
<1>6. ViewsBacked'
  BY <1>1, <1>2 DEF Safe, ViewsBacked, ViewsKept, ReadyHasChunks, Backed
<1>7. RequestsBacked'
  <2> DEFINE after(f) == chunks'[f] > 0 \/ file'[f].status = "GONE"
  <2>1. \A f \in Files : after(f) <=> Backed(f)
    BY <1>2 DEF Backed
  <2>2. ASSUME NEW c \in Clients
        PROVE  /\ client'[c].row.status # "GONE"
               /\ client'[c].row.status = "READY" => client'[c].op = "edit" /\ after(client'[c].file)
               /\ client'[c].chunks > 0 => client'[c].op = "restore" /\ after(client'[c].file)
    <3> HIDE DEF after
    <3>1. CASE client'[c] = client[c]
      <4>1. client[c].op # "idle" => client[c].file \in Files
        BY <1>1 DEF RequestsHaveFiles
      <4> QED BY <1>1, <2>1, <3>1, <4>1 DEF Safe, RequestsBacked
    <3>2. CASE client'[c] # client[c]
      BY <2>1, <3>2 DEF RequestsKept
    <3> QED BY <3>1, <3>2
  <2> QED BY <2>2 DEF RequestsBacked, Backed
<1> QED BY <1>3, <1>4, <1>5, <1>6, <1>7 DEF Safe, SafeNext, ContentStep

\* A step that leaves the files and their content alone keeps them.
LEMMA SameFiles ==
  ASSUME IInv, UNCHANGED <<file, chunks, meta, outbox>>
  PROVE  FilesKept
  BY DEF FilesKept, Gone, IInv, ReadyHasChunks, Backed

\* A step that leaves the database alone keeps content and jobs.
LEMMA SameDb ==
  ASSUME IInv, UNCHANGED dbVars
  PROVE  FilesKept /\ JobsKept
  BY SameFiles DEF dbVars, JobsKept

\* A transaction that ends leaves its thread no view to be wrong about.
LEMMA EndTxKept ==
  ASSUME IInv, NEW w \in Workers, EndTx(w)
  PROVE  ViewsKept
  BY EmptyRows DEF ViewsKept, EndTx, IInv, TypeOK

\* A transaction that begins sees rows that are true as they are read.
LEMMA BeginTxKept ==
  ASSUME IInv, NEW w \in Workers, NEW ids, BeginTx(w, ids)
  PROVE  ViewsKept
  BY EmptyRows DEF ViewsKept, BeginTx, IInv, TypeOK

\* A thread that moves on ends its transaction.
LEMMA AdvanceKept ==
  ASSUME IInv, NEW w \in Workers, NEW j, NEW loop, Advance(w, j, loop)
  PROVE  ViewsKept
  BY EndTxKept DEF Advance

\* A step without a request leaves what the requests have read alone.
LEMMA SameClient ==
  ASSUME UNCHANGED client
  PROVE  RequestsKept
  BY DEF RequestsKept

\* The request's thread is done with it.
LEMMA IdleAgain ==
  ASSUME IInv, NEW c \in Clients, client' = [client EXCEPT ![c] = IdleClient]
  PROVE  RequestsKept
  BY EmptyRows DEF RequestsKept, IInv, TypeOK

\* A job that is there has a file that is not gone.
LEMMA JobsOfFiles ==
  ASSUME IInv, NEW j \in JobIds, JobExists(j)
  PROVE  jobFile[j] \in Files /\ ~Gone(jobFile[j])
  BY DEF IInv, JobsHaveFiles, PurgeLeavesNothing, Gone

\* One job is written, and says SUCCESS only where there are chunks.
LEMMA JobKept ==
  ASSUME IInv, NEW j \in JobIds, NEW row, JobExists(j), UNCHANGED jobFile,
         job' = [job EXCEPT ![j] = row],
         row.status = "SUCCESS" => Backed(jobFile[j])
  PROVE  JobsKept
<1>1. job \in [JobIds -> JobRow]
  BY DEF IInv, TypeOK
<1>2. job'[j] = row /\ \A k \in JobIds : k # j => job'[k] = job[k]
  BY <1>1
<1> QED BY <1>2, JobsOfFiles DEF JobsKept

\* A request writes its file's row back.
LEMMA WriteBackKept ==
  ASSUME IInv, NEW c \in Clients, client[c].op # "idle", NEW row, row.status # "GONE",
         row.status = "READY" => Backed(client[c].file),
         WriteBack(c, row), UNCHANGED <<chunks, meta, outbox>>
  PROVE  FilesKept
<1>1. client[c].file \in Files /\ file \in [Files -> FileRow]
  BY DEF IInv, TypeOK, RequestsHaveFiles
<1>2. CASE file' = file
  BY <1>2, SameFiles
<1>3. CASE RowExists(file[client[c].file]) /\ file' = [file EXCEPT ![client[c].file] = row]
  <2>1. file'[client[c].file] = row /\ \A f \in Files : f # client[c].file => file'[f] = file[f]
    BY <1>1, <1>3
  <2> QED BY <1>3, <2>1 DEF FilesKept, Gone, RowExists, IInv, ReadyHasChunks, Backed
<1> QED BY <1>2, <1>3 DEF WriteBack

\* A job is enqueued for a file that is not gone.
LEMMA EnqueueKept ==
  ASSUME IInv, NEW f \in Files, ~Gone(f), EnqueueIngest(f), UNCHANGED viewJob
  PROVE  JobsKept
<1>1. TypeInv
  BY IInvParts
<1> QED BY <1>1, EnqueueTypes DEF JobsKept

\* A callback that commits brings what it claims.
LEMMA StoreSafe ==
  ASSUME IInv, NEW f \in Files, CallbackStored(f)
  PROVE  SafeNext
<1> DEFINE v == callback[f].version
<1>1. TypeInv /\ Safe /\ CallbacksApply
  BY IInvParts
<1>2. /\ file \in [Files -> FileRow] /\ chunks \in [Files -> 0..MaxVersion]
      /\ callback \in [Files -> CallbackTx]
  BY <1>1 DEF TypeInv, TypeOK
<1>3. Locked(f) /\ ~Locked(f)' /\ v \in 1..MaxVersion
  BY <1>2, ConstantsOK, EmptyRows DEF CallbackStored, CallbackEnds, Locked, CallbackTx
<1>4. /\ ~Gone(f) /\ v >= chunks[f]
      /\ \A j \in JobIds : callback[f].rows[j].status # "NONE" => jobFile[j] = f
  BY <1>1, <1>3 DEF CallbacksApply, Gone
<1>5. /\ chunks' = [chunks EXCEPT ![f] = v]
      /\ file' = [file EXCEPT ![f].status = "READY"]
      /\ UNCHANGED <<meta, outbox, jobFile, viewFile, client>>
  BY DEF CallbackStored, workerVars
<1>6. /\ \A j \in JobIds : callback[f].rows[j].status # "NONE" => JobExists(j)
      /\ job' = [j \in JobIds |-> IF callback[f].rows[j].status # "NONE"
                                 THEN callback[f].rows[j] ELSE job[j]]
  BY DEF CallbackStored
<1>7. \A j \in JobIds : job'[j] = job[j] \/ (jobFile[j] = f /\ JobExists(j))
  BY <1>4, <1>6
<1>8. Stored(f, v)
  BY <1>3, <1>4, <1>5 DEF Stored
<1> HIDE DEF v
<1>9. /\ chunks'[f] > 0
      /\ \A g \in Files : g # f => chunks'[g] = chunks[g] /\ file'[g] = file[g]
  BY <1>2, <1>3, <1>5
<1>10. file'[f].status = "READY"
  BY <1>2, <1>5, StatusRow
<1>11. ReadyHasChunks'
  BY <1>1, <1>9 DEF Safe, ReadyHasChunks
<1>12. SuccessHasChunks'
  BY <1>1, <1>5, <1>7, <1>9 DEF Safe, SuccessHasChunks, TypeInv, JobsHaveFiles, JobExists
<1>13. PurgeLeavesNothing'
  <2>1. \A g \in Files : Gone(g)' <=> Gone(g)
    BY <1>4, <1>9, <1>10 DEF Gone
  <2>2. f \notin outbox
    BY <1>1, <1>4 DEF Safe, PurgeLeavesNothing, Gone
  <2>3. \A g \in Files : g \in outbox => chunks'[g] = 0 /\ meta'[g] = "NONE"
    BY <1>1, <1>5, <1>9, <2>2 DEF Safe, PurgeLeavesNothing
  <2>4. \A g \in Files, j \in JobIds : g \in outbox /\ jobFile[j] = g => job'[j].status = "NONE"
    BY <1>1, <1>7, <2>2 DEF Safe, PurgeLeavesNothing, JobExists
  <2> QED BY <1>1, <1>5, <2>1, <2>3, <2>4 DEF Safe, PurgeLeavesNothing, Gone, JobExists
<1>14. \A g \in Files : Backed(g) => chunks'[g] > 0 \/ file'[g].status = "GONE"
  BY <1>9 DEF Backed
<1>15. ViewsBacked'
  BY <1>1, <1>5, <1>14 DEF Safe, ViewsBacked, Backed
<1>16. RequestsBacked'
  BY <1>1, <1>5, <1>14 DEF Safe, RequestsBacked, Backed, TypeInv, RequestsHaveFiles
<1> QED BY <1>3, <1>8, <1>11, <1>12, <1>13, <1>15, <1>16 DEF Safe, SafeNext, ContentStep

\* A purge takes the chunks, and every row that could claim there are some.
LEMMA PurgeSafe ==
  ASSUME IInv, NEW c \in Clients, PermanentDelete(c)
  PROVE  SafeNext
<1> DEFINE f == client[c].file
<1>1. f \in Files
  BY DEF PermanentDelete, IInv, RequestsHaveFiles
<1>2. /\ client' = [client EXCEPT ![c] = IdleClient]
      /\ UNCHANGED <<jobFile, viewFile>>
  BY DEF PermanentDelete, workerVars
<1>3. CASE UNCHANGED <<outbox, job, meta, chunks, file>>
  BY <1>2, <1>3, KeepsSafe, SameFiles, IdleAgain DEF JobsKept, ViewsKept
<1>4. ASSUME /\ outbox' = outbox \cup {f}
           /\ job' = [j \in JobIds |-> IF jobFile[j] = f THEN NoJob ELSE job[j]]
           /\ meta' = [meta EXCEPT ![f] = "NONE"]
           /\ chunks' = [chunks EXCEPT ![f] = 0]
           /\ file' = [file EXCEPT ![f] = [status |-> "GONE", deleted |-> TRUE]]
      PROVE Safe'
  <2>1. /\ TypeOK /\ JobsHaveFiles /\ RequestsHaveFiles
        /\ ReadyHasChunks /\ SuccessHasChunks /\ PurgeLeavesNothing /\ ViewsBacked /\ RequestsBacked
    BY DEF IInv
  <2> HIDE DEF f
  <2>2. /\ file'[f].status = "GONE" /\ chunks'[f] = 0 /\ meta'[f] = "NONE"
        /\ \A g \in Files : g # f => file'[g] = file[g] /\ chunks'[g] = chunks[g] /\ meta'[g] = meta[g]
    BY <1>1, <1>4, <2>1 DEF TypeOK
  <2>3. \A j \in JobIds : IF jobFile[j] = f THEN job'[j].status = "NONE" ELSE job'[j] = job[j]
    BY <1>4, EmptyRows
  <2>4. ReadyHasChunks'
    BY <2>1, <2>2 DEF ReadyHasChunks
  <2>5. SuccessHasChunks'
    BY <1>2, <2>1, <2>2, <2>3 DEF SuccessHasChunks, JobsHaveFiles, JobExists
  <2>6. PurgeLeavesNothing'
    BY <1>1, <1>2, <1>4, <2>1, <2>2, <2>3 DEF PurgeLeavesNothing, JobExists
  <2>7. \A g \in Files : Backed(g) => chunks'[g] > 0 \/ file'[g].status = "GONE"
    BY <2>2 DEF Backed
  <2>8. ViewsBacked'
    BY <1>2, <2>1, <2>7 DEF ViewsBacked, Backed
  <2>9. client'[c] = IdleClient /\ \A d \in Clients : d # c => client'[d] = client[d]
    BY <1>2, <2>1 DEF TypeOK
  <2>10. RequestsBacked'
    BY <2>1, <2>7, <2>9, EmptyRows DEF RequestsBacked, Backed, RequestsHaveFiles
  <2> QED BY <2>4, <2>5, <2>6, <2>8, <2>10 DEF Safe
<1>5. CASE RowExists(file[f])
  <2>1. Removed(f) /\ Safe'
    BY <1>4, <1>5 DEF PermanentDelete, Removed, Gone, RowExists
  <2> QED BY <1>1, <2>1 DEF SafeNext, ContentStep
<1>6. CASE ~RowExists(file[f])
  BY <1>3, <1>6 DEF PermanentDelete
<1> QED BY <1>5, <1>6

\* Every step keeps the content's promises, and does one of three things to it.
LEMMA SafeStep ==
  ASSUME IInv, [Next]_vars
  PROVE  SafeNext
<1>1. ASSUME NEW w \in Workers, PrepareBegin(w) PROVE SafeNext
  BY <1>1, KeepsSafe, SameDb, SameClient, BeginTxKept
     DEF PrepareBegin, BeginJobTx, ragVars
<1>2. ASSUME NEW w \in Workers, NEW j \in JobIds, PrepareSkip(w, j) PROVE SafeNext
  BY <1>2, KeepsSafe, SameDb, SameClient, AdvanceKept
     DEF PrepareSkip, ragVars
<1>3. ASSUME NEW w \in Workers, PushSucceeded(w) PROVE SafeNext
  BY <1>3, KeepsSafe, SameDb, SameClient, BeginTxKept
     DEF PushSucceeded, BeginJobTx
<1>4. ASSUME NEW w \in Workers, PushFailed(w) PROVE SafeNext
  BY <1>4, KeepsSafe, SameDb, SameClient
     DEF PushFailed, ViewsKept
<1>5. ASSUME NEW w \in Workers, PushTimedOut(w) PROVE SafeNext
  BY <1>5, KeepsSafe, SameDb, SameClient
     DEF PushTimedOut, ViewsKept
<1>6. ASSUME NEW w \in Workers, FailBegin(w) PROVE SafeNext
  BY <1>6, KeepsSafe, SameDb, SameClient, BeginTxKept
     DEF FailBegin, BeginJobTx, ragVars
<1>7. ASSUME NEW w \in Workers, NEW j \in JobIds, RollBack(w, j) PROVE SafeNext
  BY <1>7, KeepsSafe, SameDb, SameClient, AdvanceKept, EndTxKept
     DEF RollBack, ragVars
<1>8. ASSUME NEW w \in Workers, ReconcileList(w) PROVE SafeNext
  BY <1>8, KeepsSafe, SameDb, SameClient
     DEF ReconcileList, ViewsKept, ragVars
<1>9. ASSUME NEW w \in Workers, ReconcileBegin(w) PROVE SafeNext
  BY <1>9, KeepsSafe, SameDb, SameClient, BeginTxKept
     DEF ReconcileBegin, BeginJobTx, ragVars
<1>10. ASSUME NEW w \in Workers, ReapBegin(w) PROVE SafeNext
  BY <1>10, KeepsSafe, SameDb, SameClient, BeginTxKept
     DEF ReapBegin, ragVars
<1>11. ASSUME NEW w \in Workers, Crash(w) PROVE SafeNext
  BY <1>11, KeepsSafe, SameDb, SameClient, EndTxKept
     DEF Crash
<1>12. ASSUME NEW r \in RunSlots, CallbackIgnored(r) PROVE SafeNext
  BY <1>12, KeepsSafe, SameDb, SameClient
     DEF CallbackIgnored, ViewsKept, workerVars
<1>13. ASSUME NEW r \in RunSlots, RunFailed(r) PROVE SafeNext
  BY <1>13, KeepsSafe, SameDb, SameClient
     DEF RunFailed, ViewsKept, workerVars
<1>14. ASSUME NEW r \in RunSlots, NEW v \in 1..MaxVersion, CallbackDelayed(r, v) PROVE SafeNext
  BY <1>14, KeepsSafe, SameDb, SameClient
     DEF CallbackDelayed, ViewsKept, workerVars
<1>15. ASSUME NEW m \in Callback, LateCallbackDropped(m) PROVE SafeNext
  BY <1>15, KeepsSafe, SameDb, SameClient
     DEF LateCallbackDropped, ViewsKept, workerVars
<1>16. ASSUME Redeploy PROVE SafeNext
  BY <1>16, KeepsSafe, SameDb, SameClient
     DEF Redeploy, ViewsKept, workerVars
<1>17. ASSUME NEW w \in Workers, ClaimBatch(w) PROVE SafeNext
  <2>1. \A j \in JobIds : \/ job'[j] = job[j]
                          \/ JobExists(j) /\ job'[j].status = "RUNNING"
    <3>1. \A j \in Candidates : job[j].attempts < MaxAttempts /\ JobExists(j)
      BY DEF Candidates, Claimable, IInv, AttemptsLeft, JobExists
    <3>2. \A j \in JobIds : job[j] \in JobRow
      BY DEF IInv, TypeOK
    <3>3. \A j \in Candidates : j \in JobIds
      BY DEF Candidates
    <3>4. \A j \in Candidates : ClaimedRow(job[j], w).status = "RUNNING"
      BY <3>1, <3>2, <3>3, ClaimedRowType
    <3> QED BY <1>17, <3>1, <3>4 DEF ClaimBatch
  <2>2. JobsKept
    BY <1>17, <2>1, JobsOfFiles DEF ClaimBatch, JobsKept
  <2> QED BY <1>17, <2>2, KeepsSafe, SameFiles, SameClient DEF ClaimBatch, ViewsKept
<1>18. ASSUME NEW w \in Workers, NEW j \in JobIds, PrepareEnd(w, j) PROVE SafeNext
  <2> DEFINE row == viewJob[w][j]
             f == viewFile[w][jobFile[j]]
             result == IF Live(f) THEN "SUCCESS" ELSE "CANCELLED"
  <2>1. JobExists(j) /\ row \in JobRow /\ UNCHANGED jobFile
        /\ job' = [job EXCEPT ![j] = Ended(row, result)]
    BY <1>18 DEF PrepareEnd, IInv, TypeOK
  <2>2. Ended(row, result).status = result
    BY <2>1, EndedRow DEF Final
  <2>3. result = "SUCCESS" => Backed(jobFile[j])
    BY <1>18, <2>1, JobsOfFiles DEF PrepareEnd, IInv, ViewsBacked
  <2>4. JobsKept
    <3> HIDE DEF row, result, f
    <3> QED BY <2>1, <2>2, <2>3, JobKept
  <2> QED BY <1>18, <2>4, KeepsSafe, SameFiles, SameClient, AdvanceKept DEF PrepareEnd, ragVars
<1>19. ASSUME NEW w \in Workers, NEW j \in JobIds, NEW r \in RunSlots, PrepareHandoff(w, j,
       r) PROVE SafeNext
  <2> DEFINE f == jobFile[j]
             row == [viewFile[w][f] EXCEPT !.status = "PROCESSING"]
  <2>1. f \in Files /\ ~Gone(f)
    BY <1>19 DEF PrepareHandoff, NotOwned, RowExists, Gone, IInv, JobsHaveFiles
  <2>2. viewFile[w][f] \in FileRow
    BY <2>1 DEF IInv, TypeOK
  <2>3. row.status = "PROCESSING"
    BY <2>2, StatusRow
  <2>4. /\ file' = file \/ file' = [file EXCEPT ![f] = row]
        /\ meta' = [meta EXCEPT ![f] = "PROCESSING"]
        /\ UNCHANGED <<chunks, outbox>>
    BY <1>19 DEF PrepareHandoff
  <2>5. file \in [Files -> FileRow] /\ meta \in [Files -> {"NONE", "PROCESSING", "FAILED"}]
    BY DEF IInv, TypeOK
  <2>6. \A g \in Files : /\ file'[g] = file[g] \/ (g = f /\ file'[g].status = "PROCESSING")
                         /\ g # f => meta'[g] = meta[g]
    <3> HIDE DEF f, row
    <3> QED BY <2>1, <2>3, <2>4, <2>5
  <2>7. FilesKept
    BY <2>1, <2>4, <2>6 DEF FilesKept, Gone, IInv, ReadyHasChunks, Backed
  <2> QED BY <1>19, <2>7, KeepsSafe, SameClient, EndTxKept DEF PrepareHandoff, JobsKept
<1>20. ASSUME NEW w \in Workers, NEW j \in JobIds, Finalize(w, j) PROVE SafeNext
  <2> DEFINE row == viewJob[w][j]
             f == viewFile[w][jobFile[j]]
             new == FinalizedRow(row, f)
  <2>1. JobsKept
    <3>1. CASE job' = job
      BY <1>20, <3>1 DEF Finalize, JobsKept
    <3>2. CASE job' # job
      <4>1. JobExists(j) /\ job' = [job EXCEPT ![j] = new] /\ UNCHANGED jobFile
        BY <1>20, <3>2 DEF Finalize
      <4>2. row \in JobRow /\ f \in FileRow /\ jobFile[j] \in Files
        BY <4>1, JobsOfFiles DEF IInv, TypeOK
      <4>3. new.status = "SUCCESS" => f.status = "READY"
        BY <4>2, FinalizedRowType
      <4>4. new.status = "SUCCESS" => Backed(jobFile[j])
        BY <4>2, <4>3 DEF IInv, ViewsBacked
      <4> HIDE DEF new
      <4> QED BY <4>1, <4>4, JobKept
    <3> QED BY <3>1, <3>2
  <2> QED BY <1>20, <2>1, KeepsSafe, SameFiles, SameClient, AdvanceKept DEF Finalize, ragVars
<1>21. ASSUME NEW w \in Workers, NEW j \in JobIds, FailRetry(w, j) PROVE SafeNext
  <2> DEFINE new == Retried(viewJob[w][j])
  <2>1. new.status = "RETRY_WAIT"
    BY RetriedRow DEF IInv, TypeOK
  <2>2. \/ UNCHANGED <<job, jobFile>>
        \/ JobExists(j) /\ job' = [job EXCEPT ![j] = new] /\ UNCHANGED jobFile
    BY <1>21 DEF FailRetry
  <2>3. JobsKept
    <3> HIDE DEF new
    <3>1. CASE UNCHANGED <<job, jobFile>>
      BY <3>1 DEF JobsKept
    <3> QED BY <2>1, <2>2, <3>1, JobKept
  <2> QED BY <1>21, <2>3, KeepsSafe, SameFiles, SameClient, AdvanceKept DEF FailRetry, ragVars
<1>22. ASSUME NEW w \in Workers, NEW j \in JobIds, FailForGood(w, j) PROVE SafeNext
  <2> DEFINE new == Ended(viewJob[w][j], "FAILED")
             f == jobFile[j]
             row == [viewFile[w][f] EXCEPT !.status = "FAILED"]
  <2>1. new.status = "FAILED"
    BY EndedRow DEF IInv, TypeOK, Final
  <2>2. JobExists(j) /\ job' = [job EXCEPT ![j] = new] /\ UNCHANGED jobFile
    BY <1>22 DEF FailForGood
  <2>3. JobsKept
    <3> HIDE DEF new
    <3> QED BY <2>1, <2>2, JobKept
  <2>4. f \in Files /\ ~Gone(f)
    BY <2>2, JobsOfFiles
  <2>5. row.status = "FAILED"
    <3>1. viewFile[w][f] \in FileRow
      BY <2>4 DEF IInv, TypeOK
    <3> QED BY <3>1, StatusRow
  <2>6. /\ file' = file \/ file' = [file EXCEPT ![f] = row]
        /\ meta' = meta \/ meta' = [meta EXCEPT ![f] = "FAILED"]
        /\ UNCHANGED <<chunks, outbox>>
    BY <1>22 DEF FailForGood
  <2>7. file \in [Files -> FileRow] /\ meta \in [Files -> {"NONE", "PROCESSING", "FAILED"}]
    BY DEF IInv, TypeOK
  <2>8. \A g \in Files : /\ file'[g] = file[g] \/ (g = f /\ file'[g].status = "FAILED")
                         /\ g # f => meta'[g] = meta[g]
    <3> HIDE DEF f, row
    <3> QED BY <2>4, <2>5, <2>6, <2>7
  <2>9. FilesKept
    BY <2>4, <2>6, <2>8 DEF FilesKept, Gone, IInv, ReadyHasChunks, Backed
  <2> QED BY <1>22, <2>3, <2>9, KeepsSafe, SameClient, AdvanceKept DEF FailForGood, ragVars
<1>23. ASSUME NEW w \in Workers, NEW j \in JobIds, Reconcile(w, j) PROVE SafeNext
  <2> DEFINE row == viewJob[w][j]
             f == jobFile[j]
  <2>1. row \in JobRow
    BY DEF IInv, TypeOK
  <2>2. /\ Ended(row, "SUCCESS").status = "SUCCESS" /\ Ended(row, "FAILED").status = "FAILED"
        /\ Retried(row).status = "RETRY_WAIT"
    BY <2>1, EndedRow, RetriedRow DEF Final
  <2>3. UNCHANGED <<jobFile, chunks, outbox, ragVars, client>> /\ ViewsKept
    BY <1>23, AdvanceKept DEF Reconcile
  <2>4. CASE row.status # "WAITING_CALLBACK"
    BY <1>23, <2>3, <2>4, KeepsSafe, SameFiles, SameClient DEF Reconcile, JobsKept
  <2>5. CASE row.status = "WAITING_CALLBACK"
    <3>1. JobExists(j)
      BY <1>23, <2>5 DEF Reconcile
    <3>2. f \in Files /\ ~Gone(f)
      BY <3>1, JobsOfFiles
    <3>3. CASE Live(file[f]) /\ file[f].status = "READY"
      <4>1. job' = [job EXCEPT ![j] = Ended(row, "SUCCESS")] /\ UNCHANGED <<file, meta>>
        BY <1>23, <2>5, <3>3 DEF Reconcile
      <4>2. Backed(f)
        BY <3>2, <3>3 DEF IInv, ReadyHasChunks, Backed
      <4>3. JobsKept
        <5> HIDE DEF row
        <5> QED BY <2>2, <2>3, <3>1, <4>1, <4>2, JobKept
      <4> QED BY <2>3, <4>1, <4>3, KeepsSafe, SameFiles, SameClient
    <3>4. CASE ~(Live(file[f]) /\ file[f].status = "READY")
      <4>1. job' = [job EXCEPT ![j] = Ended(row, "FAILED")] \/ job' = [job EXCEPT ![j] = Retried(row)]
        BY <1>23, <2>5, <3>4 DEF Reconcile
      <4>2. JobsKept
        <5> HIDE DEF row
        <5> QED BY <2>2, <2>3, <3>1, <4>1, JobKept
      <4>3. /\ file' = file \/ file' = [file EXCEPT ![f].status = "FAILED"]
            /\ meta' = meta \/ meta' = [meta EXCEPT ![f] = "FAILED"]
        BY <1>23, <2>5, <3>4 DEF Reconcile
      <4>4. file \in [Files -> FileRow] /\ meta \in [Files -> {"NONE", "PROCESSING", "FAILED"}]
        BY DEF IInv, TypeOK
      <4>5. [file[f] EXCEPT !.status = "FAILED"].status = "FAILED"
        BY <3>2, <4>4, StatusRow
      <4>6. \A g \in Files : /\ file'[g] = file[g] \/ (g = f /\ file'[g].status = "FAILED")
                             /\ g # f => meta'[g] = meta[g]
        <5> HIDE DEF f
        <5> QED BY <3>2, <4>3, <4>4, <4>5
      <4>7. FilesKept
        BY <2>3, <3>2, <4>6 DEF FilesKept, Gone, IInv, ReadyHasChunks, Backed
      <4> QED BY <2>3, <4>2, <4>7, KeepsSafe, SameClient
    <3> QED BY <3>3, <3>4
  <2> QED BY <2>4, <2>5
<1>24. ASSUME NEW w \in Workers, ReapCommit(w) PROVE SafeNext
  <2>1. \A j \in JobIds : Ended(viewJob[w][j], "FAILED").status = "FAILED"
    BY EndedRow DEF Final, IInv, TypeOK
  <2>2. \A j \in todo[w] : j \in JobIds /\ JobExists(j)
    BY <1>24 DEF ReapCommit, IInv, TypeOK
  <2>3. \A j \in JobIds : \/ job'[j] = job[j]
                          \/ JobExists(j) /\ job'[j].status = "FAILED"
    BY <1>24, <2>1, <2>2 DEF ReapCommit
  <2>4. JobsKept
    BY <1>24, <2>3, JobsOfFiles DEF ReapCommit, JobsKept
  <2>5. PICK files \in SUBSET Files :
          /\ \A f \in files : \E j \in todo[w] : jobFile[j] = f
          /\ file' = [f \in Files |-> IF f \in files
                                      THEN [viewFile[w][f] EXCEPT !.status = "FAILED"] ELSE file[f]]
          /\ meta' = [f \in Files |-> IF f \in files THEN "FAILED" ELSE meta[f]]
    BY <1>24 DEF ReapCommit
  <2>6. \A f \in Files : [viewFile[w][f] EXCEPT !.status = "FAILED"].status = "FAILED"
    <3>1. \A f \in Files : viewFile[w][f] \in FileRow
      BY DEF IInv, TypeOK
    <3> QED BY <3>1, StatusRow, Zenon
  <2>7. \A f \in files : ~Gone(f)
    BY <2>2, <2>5, JobsOfFiles
  <2>8. FilesKept
    <3>1. UNCHANGED <<chunks, outbox>>
      BY <1>24 DEF ReapCommit
    <3>2. ASSUME NEW f \in Files
          PROVE  \/ file'[f].status = "FAILED" /\ ~Gone(f)
                 \/ file'[f] = file[f] /\ meta'[f] = meta[f]
      <4>1. CASE f \in files
        BY <2>5, <2>6, <2>7, <4>1
      <4>2. CASE f \notin files
        BY <2>5, <4>2
      <4> QED BY <4>1, <4>2
    <3>3. \A f \in Files : file[f].status = "READY" => Backed(f)
      BY DEF IInv, ReadyHasChunks, Backed
    <3> QED BY <3>1, <3>2, <3>3 DEF FilesKept, Gone
  <2> QED BY <1>24, <2>4, <2>8, KeepsSafe, SameClient, EndTxKept DEF ReapCommit, ragVars
<1>25. ASSUME NEW j \in JobIds, Expire(j) PROVE SafeNext
  <2> DEFINE new == [job[j] EXCEPT !.lease = "expired"]
  <2>1. new.status = job[j].status
    BY ExpiredRow DEF IInv, TypeOK
  <2>2. /\ job[j].status # "SUCCESS" /\ JobExists(j) /\ UNCHANGED jobFile
        /\ job' = [job EXCEPT ![j] = new]
    BY <1>25 DEF Expire, JobExists
  <2>3. JobsKept
    <3> HIDE DEF new
    <3> QED BY <2>1, <2>2, JobKept
  <2> QED BY <1>25, <2>3, KeepsSafe, SameFiles, SameClient DEF Expire, ViewsKept, workerVars
<1>26. ASSUME NEW f \in Files, Upload(f) PROVE SafeNext
  <2>1. ~Gone(f) /\ EnqueueIngest(f) /\ UNCHANGED <<chunks, meta, outbox, workerVars, client>>
    BY <1>26 DEF Upload, Gone
  <2>2. JobsKept
    BY <2>1, EnqueueKept DEF workerVars
  <2>3. file \in [Files -> FileRow] /\ [file[f] EXCEPT !.status = "UPLOADED"].status = "UPLOADED"
    BY StatusRow DEF IInv, TypeOK
  <2>4. \A g \in Files : file'[g] = file[g] \/ (g = f /\ file'[g].status = "UPLOADED")
    BY <1>26, <2>3 DEF Upload
  <2>5. FilesKept
    BY <2>1, <2>4 DEF FilesKept, Gone, IInv, ReadyHasChunks, Backed
  <2> QED BY <2>1, <2>2, <2>5, KeepsSafe, SameClient DEF ViewsKept, workerVars
<1>27. ASSUME NEW c \in Clients, NEW f \in Files, NEW op \in {"delete", "restore", "purge",
       "edit"}, RequestBegin(c, f, op) PROVE SafeNext
  <2> DEFINE new == client'[c]
  <2>1. /\ new.op = op /\ new.file = f
        /\ new.row = IF op = "edit" THEN file[f] ELSE NewFile
        /\ new.chunks = IF op = "restore" THEN chunks[f] ELSE 0
        /\ \A d \in Clients : d # c => client'[d] = client[d]
    BY <1>27 DEF RequestBegin, IInv, TypeOK
  <2>2. RowExists(file[f])
    BY <1>27 DEF RequestBegin, Live
  <2>3. file[f].status # "GONE" /\ (file[f].status = "READY" => Backed(f)) /\ (chunks[f] > 0 => Backed(f))
    BY <2>2 DEF RowExists, IInv, ReadyHasChunks, Backed
  <2>4. RequestsKept
    BY <2>1, <2>3, EmptyRows DEF RequestsKept
  <2> QED BY <1>27, <2>4, KeepsSafe, SameDb DEF RequestBegin, ViewsKept, workerVars
<1>28. ASSUME NEW c \in Clients, SoftDelete(c) PROVE SafeNext
  <2> DEFINE row == [status |-> "DELETED", deleted |-> TRUE]
  <2>1. /\ client[c].op # "idle" /\ WriteBack(c, row)
        /\ UNCHANGED <<chunks, meta, outbox, job, jobFile, workerVars>>
        /\ client' = [client EXCEPT ![c] = IdleClient]
    BY <1>28 DEF SoftDelete
  <2>2. row.status # "GONE" /\ (row.status = "READY" => Backed(client[c].file))
    BY <1>28 DEF SoftDelete, IInv, RequestsBacked
  <2>3. FilesKept
    <3> HIDE DEF row
    <3> QED BY <2>1, <2>2, WriteBackKept
  <2> QED BY <2>1, <2>3, KeepsSafe, IdleAgain DEF JobsKept, ViewsKept, workerVars
<1>29. ASSUME NEW c \in Clients, Edit(c) PROVE SafeNext
  <2> DEFINE row == client[c].row
  <2>1. /\ client[c].op # "idle" /\ WriteBack(c, row)
        /\ UNCHANGED <<chunks, meta, outbox, job, jobFile, workerVars>>
        /\ client' = [client EXCEPT ![c] = IdleClient]
    BY <1>29 DEF Edit
  <2>2. row.status # "GONE" /\ (row.status = "READY" => Backed(client[c].file))
    BY <1>29 DEF Edit, IInv, RequestsBacked
  <2>3. FilesKept
    <3> HIDE DEF row
    <3> QED BY <2>1, <2>2, WriteBackKept
  <2> QED BY <2>1, <2>3, KeepsSafe, IdleAgain DEF JobsKept, ViewsKept, workerVars
<1>30. ASSUME NEW c \in Clients, RestoreReady(c) PROVE SafeNext
  <2> DEFINE row == [status |-> "READY", deleted |-> FALSE]
  <2>1. /\ client[c].op # "idle" /\ WriteBack(c, row)
        /\ UNCHANGED <<chunks, meta, outbox, job, jobFile, workerVars>>
        /\ client' = [client EXCEPT ![c] = IdleClient]
    BY <1>30 DEF RestoreReady
  <2>2. row.status # "GONE" /\ (row.status = "READY" => Backed(client[c].file))
    BY <1>30 DEF RestoreReady, IInv, RequestsBacked
  <2>3. FilesKept
    <3> HIDE DEF row
    <3> QED BY <2>1, <2>2, WriteBackKept
  <2> QED BY <2>1, <2>3, KeepsSafe, IdleAgain DEF JobsKept, ViewsKept, workerVars
<1>31. ASSUME NEW c \in Clients, RestoreAndIngest(c) PROVE SafeNext
  <2> DEFINE row == [status |-> "UPLOADED", deleted |-> FALSE]
             f == client[c].file
  <2>1. /\ client[c].op # "idle" /\ WriteBack(c, row)
        /\ UNCHANGED <<chunks, meta, outbox, workerVars>>
        /\ client' = [client EXCEPT ![c] = IdleClient]
        /\ \/ RowExists(file[f]) /\ EnqueueIngest(f)
           \/ UNCHANGED <<job, jobFile>>
    BY <1>31 DEF RestoreAndIngest
  <2>2. FilesKept
    BY <2>1, WriteBackKept
  <2>3. f \in Files
    BY <2>1 DEF IInv, RequestsHaveFiles
  <2>4. JobsKept
    <3>1. CASE RowExists(file[f]) /\ EnqueueIngest(f)
      BY <2>1, <2>3, <3>1, EnqueueKept DEF RowExists, Gone, workerVars
    <3>2. CASE UNCHANGED <<job, jobFile>>
      BY <3>2 DEF JobsKept
    <3> QED BY <2>1, <3>1, <3>2
  <2> QED BY <2>1, <2>2, <2>4, KeepsSafe, IdleAgain DEF ViewsKept, workerVars
<1>32. ASSUME NEW f \in Files, CallbackStored(f) PROVE SafeNext
  BY <1>32, StoreSafe
<1>33. ASSUME NEW f \in Files, CallbackRolledBack(f) PROVE SafeNext
  BY <1>33, KeepsSafe, SameDb, SameClient
     DEF CallbackRolledBack, ViewsKept, workerVars
<1>36. ASSUME NEW r \in RunSlots, NEW v \in 1..MaxVersion, RunCalls(r, v) PROVE SafeNext
  BY <1>36, KeepsSafe, SameDb, SameClient
     DEF RunCalls, ViewsKept, workerVars
<1>37. ASSUME NEW m \in Callback, LateCallbackBegins(m) PROVE SafeNext
  BY <1>37, KeepsSafe, SameDb, SameClient
     DEF LateCallbackBegins, ViewsKept, workerVars
<1>34. ASSUME NEW c \in Clients, PermanentDelete(c) PROVE SafeNext
  BY <1>34, PurgeSafe
<1>35. CASE UNCHANGED vars
  BY <1>35, KeepsSafe, SameDb, SameClient DEF vars, ViewsKept, workerVars
<1> QED
  BY <1>1, <1>2, <1>3, <1>4, <1>5, <1>6, <1>7, <1>8, <1>9, <1>10, <1>11, <1>12, <1>13,
     <1>14, <1>15, <1>16, <1>17, <1>18, <1>19, <1>20, <1>21, <1>22, <1>23, <1>24, <1>25,
     <1>26, <1>27, <1>28, <1>29, <1>30, <1>31, <1>32, <1>33, <1>34, <1>35, <1>36, <1>37
     DEF Next, Scheduler, RagService, RagRun, CallbackTxEnds, Owner, Environment

\* A job once enqueued stays with its file.
LEMMA NumbersStep ==
  ASSUME IInv, [Next]_vars
  PROVE  JobsNumbered' /\ \A j \in JobIds : jobFile[j] # NoFile => jobFile'[j] = jobFile[j]
<1>1. ASSUME UNCHANGED <<jobFile, nextJob>>
      PROVE  JobsNumbered' /\ \A j \in JobIds : jobFile[j] # NoFile => jobFile'[j] = jobFile[j]
  BY <1>1 DEF JobsNumbered, IInv
<1>2. ASSUME NEW f, EnqueueIngest(f)
      PROVE  JobsNumbered' /\ \A j \in JobIds : jobFile[j] # NoFile => jobFile'[j] = jobFile[j]
  BY <1>2, ConstantsOK DEF EnqueueIngest, JobsNumbered, IInv, TypeOK, JobIds
<1>3. ASSUME NEW w \in Workers, Scheduler(w) PROVE UNCHANGED <<jobFile, nextJob>>
  BY <1>3
     DEF Scheduler, ClaimBatch, PrepareBegin, PushSucceeded, PushFailed, FailBegin, ReconcileList,
         ReconcileBegin, ReapBegin, ReapCommit, PrepareSkip, PrepareEnd, PrepareHandoff, Finalize,
         FailRetry, FailForGood, Reconcile, RollBack, dbVars
<1>4. ASSUME RagService PROVE UNCHANGED <<jobFile, nextJob>>
  BY <1>4
     DEF RagService, RagRun, CallbackIgnored, RunFailed, RunCalls, CallbackDelayed,
         LateCallbackBegins, LateCallbackDropped, CallbackTxEnds, CallbackStored,
         CallbackRolledBack, Redeploy, dbVars
<1>5. ASSUME NEW c \in Clients, Owner(c)
      PROVE  UNCHANGED <<jobFile, nextJob>> \/ \E f : EnqueueIngest(f)
  BY <1>5
     DEF Owner, RequestBegin, SoftDelete, Edit, RestoreReady, RestoreAndIngest, PermanentDelete, dbVars
<1>6. ASSUME Environment
      PROVE  UNCHANGED <<jobFile, nextJob>> \/ \E f : EnqueueIngest(f)
  BY <1>6 DEF Environment, Upload, Expire, PushTimedOut, Crash, dbVars
<1>7. CASE UNCHANGED vars
  BY <1>1, <1>7 DEF vars, dbVars
<1> QED BY <1>1, <1>2, <1>3, <1>4, <1>5, <1>6, <1>7 DEF Next

\* A callback transaction begins, or none is open that was not open before.
LEMMA CallbackNext ==
  ASSUME IInv, [Next]_vars
  PROVE  \/ \A f \in Files : Locked(f)' => callback'[f] = callback[f]
         \/ \E f \in Files, v \in 1..MaxVersion : CallbackBegins(f, v) /\ UNCHANGED dbVars
<1>1. ASSUME NEW w \in Workers, Scheduler(w) PROVE UNCHANGED callback
  BY <1>1
     DEF Scheduler, ClaimBatch, PrepareBegin, PushSucceeded, PushFailed, FailBegin, ReconcileList,
         ReconcileBegin, ReapBegin, ReapCommit, PrepareSkip, PrepareEnd, PrepareHandoff, Finalize,
         FailRetry, FailForGood, Reconcile, RollBack, ragVars
<1>2. ASSUME NEW f \in Files, CallbackTxEnds(f)
      PROVE  \A g \in Files : Locked(g)' => callback'[g] = callback[g]
  BY <1>2, EmptyRows
     DEF CallbackTxEnds, CallbackStored, CallbackRolledBack, CallbackEnds, Locked, IInv, TypeOK
<1>3. ASSUME NEW r \in RunSlots, NEW v \in 1..MaxVersion, RunCalls(r, v)
      PROVE  run[r].file \in Files /\ CallbackBegins(run[r].file, v) /\ UNCHANGED dbVars
  BY <1>3 DEF RunCalls, IInv, RunsHaveFiles
<1>4. ASSUME NEW m \in Callback, LateCallbackBegins(m)
      PROVE  m.file \in Files /\ m.version \in 1..MaxVersion
             /\ CallbackBegins(m.file, m.version) /\ UNCHANGED dbVars
  BY <1>4 DEF LateCallbackBegins, Callback
<1>5. ASSUME RagService
      PROVE  \/ UNCHANGED callback \/ \E f \in Files : CallbackTxEnds(f)
             \/ \E r \in RunSlots, v \in 1..MaxVersion : RunCalls(r, v)
             \/ \E m \in Callback : LateCallbackBegins(m)
  BY <1>5
     DEF RagService, RagRun, CallbackIgnored, RunFailed, CallbackDelayed, LateCallbackDropped, Redeploy
<1>6. ASSUME NEW c \in Clients, Owner(c) PROVE UNCHANGED callback
  BY <1>6
     DEF Owner, RequestBegin, SoftDelete, Edit, RestoreReady, RestoreAndIngest, PermanentDelete, ragVars
<1>7. ASSUME Environment PROVE UNCHANGED callback
  BY <1>7 DEF Environment, Upload, Expire, PushTimedOut, Crash, ragVars
<1>8. CASE UNCHANGED vars
  BY <1>8 DEF vars, ragVars
<1> QED BY <1>1, <1>2, <1>3, <1>4, <1>5, <1>6, <1>7, <1>8 DEF Next

\* What a callback has read stays true until it commits.
LEMMA CallbacksStep ==
  ASSUME IInv, [Next]_vars
  PROVE  CallbacksApply'
<1>1. ContentStep
  BY SafeStep DEF SafeNext
<1>2. /\ CallbacksApply /\ callback \in [Files -> CallbackTx]
      /\ file \in [Files -> FileRow] /\ chunks \in [Files -> 0..MaxVersion]
  BY DEF IInv, TypeOK
<1>3. \A j \in JobIds : jobFile[j] # NoFile => jobFile'[j] = jobFile[j]
  BY NumbersStep
<1>4. CASE \A f \in Files : Locked(f)' => callback'[f] = callback[f]
  <2> SUFFICES ASSUME NEW f \in Files, Locked(f)'
               PROVE  /\ file'[f].status # "GONE" /\ callback'[f].version >= chunks'[f]
                      /\ \A j \in JobIds : callback'[f].rows[j].status # "NONE" => jobFile'[j] = f
    BY DEF CallbacksApply
  <2>1. callback'[f] = callback[f] /\ Locked(f)
    BY <1>4 DEF Locked
  <2>2. /\ file[f].status # "GONE" /\ callback[f].version >= chunks[f]
        /\ \A j \in JobIds : callback[f].rows[j].status # "NONE" => jobFile[j] = f
    BY <1>2, <2>1 DEF CallbacksApply
  <2>3. \A j \in JobIds : callback'[f].rows[j].status # "NONE" => jobFile'[j] = f
    BY <1>3, <2>1, <2>2, ConstantsOK
  <2>4. CASE FilesKept
    BY <2>1, <2>2, <2>3, <2>4 DEF FilesKept, Gone
  <2>5. ASSUME NEW g \in Files, NEW v \in 1..MaxVersion, Stored(g, v)
        PROVE  file'[f] = file[f] /\ chunks'[f] = chunks[f]
    BY <1>2, <2>5 DEF Stored
  <2>6. ASSUME NEW g \in Files, Removed(g)
        PROVE  file'[f] = file[f] /\ chunks'[f] = chunks[f]
    BY <1>2, <2>1, <2>6 DEF Removed
  <2> QED BY <1>1, <2>1, <2>2, <2>3, <2>4, <2>5, <2>6 DEF ContentStep
<1>5. ASSUME NEW f \in Files, NEW v \in 1..MaxVersion, CallbackBegins(f, v), UNCHANGED dbVars
      PROVE  CallbacksApply'
  <2>1. /\ callback'[f].version = v
        /\ \A j \in JobIds : callback'[f].rows[j].status # "NONE" => j \in Newest(f)
        /\ \A g \in Files : g # f => callback'[g] = callback[g]
    BY <1>2, <1>5, EmptyRows DEF CallbackBegins
  <2>2. file[f].status # "GONE" /\ v >= chunks[f]
    BY <1>5 DEF CallbackBegins, Accepted, Live, RowExists
  <2> QED BY <1>2, <1>5, <2>1, <2>2 DEF CallbacksApply, Locked, Newest, dbVars
<1> QED BY <1>4, <1>5, CallbackNext

(***************************************************************************)
(* Theorems                                                                *)
(***************************************************************************)

\* IInv holds initially.
LEMMA IInvInit == Init => IInv
<1>1. Init => Safe /\ JobsNumbered /\ CallbacksApply
  BY EmptyRows
     DEF Init, Safe, ReadyHasChunks, SuccessHasChunks, PurgeLeavesNothing, ViewsBacked,
         RequestsBacked, JobExists, JobsNumbered, CallbacksApply, Locked
<1> QED BY <1>1, TypeInit, IInvParts

\* Every step keeps IInv.
LEMMA IInvStep == IInv /\ [Next]_vars => IInv'
<1>1. (TypeInv /\ Safe /\ JobsNumbered /\ CallbacksApply)' <=> IInv'
  BY DEF IInv, TypeInv, Safe
<1> QED BY <1>1, IInvParts, TypeStep, SafeStep, NumbersStep, CallbacksStep DEF SafeNext

\* IInv is an invariant of the pipeline.
THEOREM Invariant == Spec => []IInv
  BY IInvInit, IInvStep, PTL DEF Spec

\* A READY file has chunks, whatever was read before it was last written.
THEOREM ReadyFilesHaveChunks == Spec => []ReadyHasChunks
<1>1. IInv => ReadyHasChunks
  BY DEF IInv
<1> QED BY <1>1, Invariant, PTL

\* A SUCCESS job has stored its file's chunks.
THEOREM SuccessfulJobsHaveChunks == Spec => []SuccessHasChunks
<1>1. IInv => SuccessHasChunks
  BY DEF IInv
<1> QED BY <1>1, Invariant, PTL

\* No claim takes a job beyond Max_Attempts, not even when a stale row was
\* written over a newer one.
THEOREM ClaimsHaveAttemptsLeft == Spec => []RetryHasAttemptsLeft
<1>1. IInv => RetryHasAttemptsLeft
  BY DEF IInv, RetryHasAttemptsLeft, AttemptsLeft, Claimable
<1> QED BY <1>1, Invariant, PTL

\* Nothing under way brings back a row of a file that has been purged.
THEOREM PurgedFilesLeaveNothing == Spec => []PurgeLeavesNothing
<1>1. IInv => PurgeLeavesNothing
  BY DEF IInv
<1> QED BY <1>1, Invariant, PTL

\* The pipeline starts where PublishedContent starts.
LEMMA PublishedInit == Init => Published!Init
  BY DEF Init, Published!Init, NoFiles, NewFile

\* A step of the pipeline publishes, offers or purges a file, or changes nothing its
\* owner sees.
LEMMA PublishedStep == IInv /\ IInv' /\ [Next]_vars => [Published!Next]_(Published!vars)
<1> SUFFICES ASSUME IInv, IInv', [Next]_vars
             PROVE  [Published!Next]_(Published!vars)
  OBVIOUS
<1> DEFINE ready  == {f \in Files : file[f].status = "READY"}
           purged == {f \in Files : file[f].status = "GONE"}
<1>1. ContentStep
  BY SafeStep DEF SafeNext
<1>2. /\ file \in [Files -> FileRow] /\ chunks \in [Files -> 0..MaxVersion]
      /\ \A f \in Files : file'[f].status = "READY" => chunks'[f] > 0
  BY DEF IInv, TypeOK, ReadyHasChunks
<1>3. CASE FilesKept
  <2>1. purged' = purged /\ chunks' = chunks
    BY <1>3 DEF FilesKept, Gone
  <2>2. \A f \in ready' : chunks[f] > 0 /\ f \notin purged
    BY <1>2, <2>1
  <2>3. PICK files \in SUBSET Files : files = ready'
    OBVIOUS
  <2>4. Published!Offer(files)
    BY <2>1, <2>2, <2>3 DEF Published!Offer
  <2> QED BY <2>4 DEF Published!Next
<1>4. ASSUME NEW f \in Files, NEW v \in 1..MaxVersion, Stored(f, v)
      PROVE  Published!Publish(f, v)
  <2>1. file'[f].status = "READY" /\ \A g \in Files : g # f => file'[g] = file[g]
    BY <1>2, <1>4, StatusRow DEF Stored
  <2>2. ready' = ready \cup {f} /\ purged' = purged /\ f \notin purged
    BY <1>4, <2>1 DEF Stored, Gone
  <2> QED BY <1>4, <2>2 DEF Published!Publish, Stored
<1>5. ASSUME NEW f \in Files, Removed(f)
      PROVE  Published!Purge(f)
  <2>1. file'[f].status = "GONE" /\ \A g \in Files : g # f => file'[g] = file[g]
    BY <1>2, <1>5 DEF Removed
  <2>2. ready' = ready \ {f} /\ purged' = purged \cup {f} /\ f \notin purged
    BY <1>5, <2>1 DEF Removed, Gone
  <2> QED BY <1>5, <2>2 DEF Published!Purge, Removed
<1> QED BY <1>1, <1>3, <1>4, <1>5 DEF ContentStep, Published!Next

\* The pipeline, with its stale rows, late callbacks and crashes, implements
\* PublishedContent.
THEOREM Refinement == Spec => ImplementsPublished
  BY PublishedInit, PublishedStep, Invariant, PTL DEF Spec, ImplementsPublished, Published!Spec

=============================================================================
