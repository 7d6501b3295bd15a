------------------------- MODULE FileIndexingProofs -------------------------
(***************************************************************************)
(* What the indexing of a file keeps true, for any number of documents,    *)
(* chunks, requests and runs, and for every combination of faults.         *)
(***************************************************************************)
EXTENDS FileIndexing, TLAPS

(***************************************************************************)
(* Rows and requests: what the operators that change them return.          *)
(***************************************************************************)

\* Rows and requests that stand for nothing.
LEMMA EmptyRecords ==
  /\ NewDoc \in DocRow /\ NewRun \in RunRow /\ IdleReq \in Request
  /\ NewDoc.status = "NONE" /\ ~NewDoc.deleted /\ NewRun.status = "NONE"
  /\ IdleReq.pc = "idle" /\ IdleReq.doc = NoDoc /\ IdleReq.chunks = {} /\ IdleReq.run = 0
  BY IndexingConstants
     DEF NewDoc, DocRow, NewRun, RunRow, IdleReq, Request, PcStates, Critical, Working

\* A request goes on to another place of the code.
LEMMA GotoRequest ==
  ASSUME TypeOK, NEW r \in Reqs, NEW pc \in PcStates, Goto(r, pc)
  PROVE  /\ req' \in [Reqs -> Request]
         /\ req'[r].pc = pc /\ req'[r].doc = req[r].doc /\ req'[r].chunks = req[r].chunks
         /\ req'[r].run = req[r].run /\ req'[r].prev = req[r].prev
         /\ req'[r].reuse = req[r].reuse
         /\ \A q \in Reqs \ {r} : req'[q] = req[q]
  BY DEF TypeOK, Goto, Request

\* A request is over.
LEMMA IdleRequest ==
  ASSUME TypeOK, NEW r \in Reqs, req' = [req EXCEPT ![r] = IdleReq]
  PROVE  /\ req' \in [Reqs -> Request] /\ req'[r].pc = "idle"
         /\ \A q \in Reqs \ {r} : req'[q] = req[q]
  BY EmptyRecords DEF TypeOK

\* What a run that is inserted leaves behind.
LEMMA InsertedRun ==
  ASSUME TypeOK, NEW r \in Reqs, req[r].doc \in Docs, NEW reuse \in BOOLEAN, InsertRun(r, reuse)
  PROVE  /\ req' \in [Reqs -> Request] /\ run' \in [Runs -> RunRow]
         /\ nextRun \in Runs /\ nextRun' = nextRun + 1 /\ nextRun' \in 1..(MaxRuns + 1)
         /\ run'[nextRun].status = "RUNNING" /\ run'[nextRun].doc = req[r].doc
         /\ \A k \in Runs \ {nextRun} : run'[k] = run[k]
         /\ req'[r].pc = "stage" /\ req'[r].doc = req[r].doc /\ req'[r].chunks = req[r].chunks
         /\ req'[r].run = nextRun /\ req'[r].prev = PreviousOf(req[r].doc)
         /\ req'[r].reuse = reuse
         /\ \A q \in Reqs \ {r} : req'[q] = req[q]
<1>1. nextRun \in Runs /\ nextRun \in 0..MaxRuns /\ nextRun + 1 \in 1..(MaxRuns + 1)
  BY IndexingConstants DEF TypeOK, InsertRun, Runs
<1>2. PreviousOf(req[r].doc) \in SUBSET Docs
  BY DEF PreviousOf
<1>3. [status |-> "RUNNING", doc |-> req[r].doc] \in RunRow
  BY DEF RunRow
<1>4. "stage" \in PcStates
  BY DEF PcStates, Critical, Working
<1> QED BY <1>1, <1>2, <1>3, <1>4 DEF TypeOK, InsertRun, Request

\* A confirmed run is SUCCESS, its document INDEXED, the previous ones deleted.
LEMMA ConfirmedRows ==
  ASSUME TypeOK, NEW r \in Reqs, req[r].doc \in Docs, req[r].run \in Runs, Confirmed(r)
  PROVE  /\ doc' \in [Docs -> DocRow] /\ run' \in [Runs -> RunRow] /\ nextRun' = nextRun
         /\ run'[req[r].run].status = "SUCCESS" /\ run'[req[r].run].doc = run[req[r].run].doc
         /\ \A k \in Runs \ {req[r].run} : run'[k] = run[k]
         /\ doc'[req[r].doc].status = "INDEXED" /\ ~doc'[req[r].doc].deleted
         /\ doc'[req[r].doc].chunks = doc[req[r].doc].chunks
         /\ \A d \in Docs \ {req[r].doc} :
              /\ doc'[d].chunks = doc[d].chunks /\ doc'[d].status = doc[d].status
              /\ (d \in req[r].prev /\ Indexed(d)) \/ doc'[d] = doc[d]
              /\ d \in req[r].prev /\ Indexed(d) => doc'[d].deleted
<1>1. /\ run' \in [Runs -> RunRow] /\ nextRun' = nextRun
      /\ run'[req[r].run].status = "SUCCESS" /\ run'[req[r].run].doc = run[req[r].run].doc
      /\ \A k \in Runs \ {req[r].run} : run'[k] = run[k]
  BY DEF TypeOK, Confirmed, RunRow
<1>2. /\ doc'[req[r].doc] \in DocRow /\ doc'[req[r].doc].status = "INDEXED"
      /\ doc'[req[r].doc].deleted = FALSE /\ doc'[req[r].doc].chunks = doc[req[r].doc].chunks
  BY DEF TypeOK, Confirmed, DocRow
<1>3. ASSUME NEW d \in Docs \ {req[r].doc}
      PROVE  /\ doc'[d] \in DocRow
             /\ doc'[d].chunks = doc[d].chunks /\ doc'[d].status = doc[d].status
             /\ (d \in req[r].prev /\ Indexed(d)) \/ doc'[d] = doc[d]
             /\ d \in req[r].prev /\ Indexed(d) => doc'[d].deleted
  <2>1. CASE d \in req[r].prev /\ Indexed(d)
    <3>1. doc'[d] = [doc[d] EXCEPT !.deleted = TRUE]
      BY <2>1 DEF Confirmed
    <3> QED BY <2>1, <3>1 DEF TypeOK, DocRow
  <2>2. CASE ~(d \in req[r].prev /\ Indexed(d))
    BY <2>2 DEF TypeOK, Confirmed
  <2> QED BY <2>1, <2>2
<1>4. doc' \in [Docs -> DocRow]
  BY <1>2, <1>3 DEF Confirmed
<1> QED BY <1>1, <1>2, <1>3, <1>4 DEF Indexed

\* A run fails only if it is RUNNING.
LEMMA FailedRun ==
  ASSUME TypeOK, NEW k \in Runs, FailRun(k)
  PROVE  /\ run' \in [Runs -> RunRow]
         /\ \A m \in Runs : run'[m].doc = run[m].doc
         /\ \A m \in Runs \ {k} : run'[m] = run[m]
         /\ run'[k].status # "RUNNING"
         /\ run[k].status # "RUNNING" => run' = run
  BY DEF TypeOK, FailRun, RunRow

(***************************************************************************)
(* Most steps leave the Local RAG DB alone and move one request on.        *)
(***************************************************************************)

Kept(q) ==
  /\ req'[q].doc = req[q].doc /\ req'[q].chunks = req[q].chunks /\ req'[q].run = req[q].run
  /\ req'[q].prev = req[q].prev /\ req'[q].reuse = req[q].reuse

\* What such a step does to a request: nothing, or it goes on with what it has,
\* or ends its work on the index.
Moves(q) ==
  \/ req'[q] = req[q]
  \/ req'[q].pc \notin Working \cup {"disown", "waiting", "prepare", "notify"}
  \/ req'[q].pc \in {"waiting", "notify"} /\ req'[q].doc \in Docs
  \/ /\ Kept(q)
     /\ \/ req[q].pc \in Working /\ req'[q].pc \in Working \cup {"disown"}
        \/ req[q].pc = "waiting" /\ req'[q].pc = "prepare"
        \/ req[q].pc = "notify" /\ req'[q].pc = "notify"

QuietStep == UNCHANGED localDb /\ req' \in [Reqs -> Request] /\ \A q \in Reqs : Moves(q)

\* A request that goes on.
LEMMA GotoMoves ==
  ASSUME TypeOK, NEW r \in Reqs, NEW pc \in PcStates, Goto(r, pc), UNCHANGED localDb,
         \/ pc \notin Working \cup {"disown", "waiting", "prepare", "notify"}
         \/ req[r].pc \in Working /\ pc \in Working \cup {"disown"}
         \/ req[r].pc = "waiting" /\ pc = "prepare"
         \/ req[r].pc = "notify" /\ pc = "notify"
  PROVE  QuietStep
  BY GotoRequest DEF QuietStep, Moves, Kept

\* A request that is over.
LEMMA IdleMoves ==
  ASSUME TypeOK, NEW r \in Reqs, req' = [req EXCEPT ![r] = IdleReq], UNCHANGED localDb
  PROVE  QuietStep
<1>1. "idle" \notin Working \cup {"disown", "waiting", "prepare", "notify"}
  BY DEF Working
<1> QED BY <1>1, IdleRequest DEF QuietStep, Moves

\* The steps that do not: a run is inserted, confirmed, or fails.
LEMMA StepKinds ==
  ASSUME TypeOK, Next
  PROVE  \/ QuietStep
         \/ \E r \in Reqs : PrepareReuse(r) \/ PrepareNew(r)
         \/ \E r \in Reqs : Confirm(r) \/ ConfirmUnknown(r)
         \/ \E r \in Reqs : Record(r) \/ Disown(r)
<1> USE DEF PcStates, Critical, Working, At
<1>1. ASSUME NEW r \in Reqs, NEW d \in Docs, NEW chunks \in SUBSET Chunks, Arrive(r, d, chunks)
      PROVE  QuietStep
  <2>1. /\ req' \in [Reqs -> Request] /\ req'[r].pc = "waiting" /\ req'[r].doc = d
        /\ \A q \in Reqs \ {r} : req'[q] = req[q]
    BY <1>1, EmptyRecords DEF Arrive, TypeOK, Request
  <2> QED BY <1>1, <2>1 DEF Arrive, QuietStep, Moves
<1>2. ASSUME NEW r \in Reqs, Acquire(r) PROVE QuietStep
  <2>1. CASE At(r, "waiting")
    BY <1>2, <2>1, GotoMoves DEF Acquire
  <2>2. CASE At(r, "indexed")
    BY <1>2, <2>2, GotoMoves DEF Acquire
  <2> QED BY <1>2, <2>1, <2>2 DEF Acquire
<1>3. ASSUME NEW r \in Reqs, AcquireFails(r) \/ ReleaseFails(r) \/ Crash(r) PROVE QuietStep
  BY <1>3, IdleMoves DEF AcquireFails, ReleaseFails, Crash, localDb
<1>4. ASSUME NEW r \in Reqs, Release(r) PROVE QuietStep
  <2>1. CASE req[r].ok /\ holder = r
    <3>1. req' = [req EXCEPT ![r] = [IdleReq EXCEPT !.pc = "indexed"]]
      BY <1>4, <2>1 DEF Release
    <3>2. [IdleReq EXCEPT !.pc = "indexed"] \in Request /\ [IdleReq EXCEPT !.pc = "indexed"].pc = "indexed"
      BY EmptyRecords DEF Request
    <3> QED BY <1>4, <3>1, <3>2 DEF Release, QuietStep, Moves, TypeOK
  <2>2. CASE ~(req[r].ok /\ holder = r)
    BY <1>4, <2>2, IdleMoves DEF Release
  <2> QED BY <2>1, <2>2
<1>5. ASSUME NEW r \in Reqs,
             \/ PrepareFails(r) \/ Activate(r) \/ Deactivate(r) \/ ConfirmDisowned(r)
             \/ ConfirmFails(r) \/ Retract(r) \/ Unstage(r) \/ RecordFails(r)
             \/ ReadSnapshotFails(r) \/ Notify(r) \/ NotifyFails(r)
      PROVE  QuietStep
  BY <1>5, GotoMoves
     DEF PrepareFails, Activate, Deactivate, ConfirmDisowned, ConfirmFails, Retract, Unstage,
         RecordFails, ReadSnapshotFails, Notify, NotifyFails, localDb
<1>6. ASSUME NEW r \in Reqs, Stage(r) \/ Restore(r) PROVE QuietStep
  BY <1>6, GotoMoves DEF Stage, AfterStaging, Restore, AfterRestore, localDb
<1>7. ASSUME NEW r \in Reqs, NEW points,
             \/ StageFails(r, points) \/ ActivateFails(r, points) \/ DeactivateFails(r, points)
             \/ RestoreFails(r, points) \/ RetractFails(r, points) \/ UnstageFails(r, points)
      PROVE  QuietStep
  BY <1>7, GotoMoves
     DEF StageFails, ActivateFails, DeactivateFails, RestoreFails, AfterRestore, RetractFails,
         UnstageFails, localDb
<1>8. ASSUME NEW r \in Reqs, NEW d \in Docs, ReadSnapshot(r, d) PROVE QuietStep
  <2>1. /\ req' \in [Reqs -> Request] /\ req'[r].pc = "notify" /\ req'[r].doc = d
        /\ \A q \in Reqs \ {r} : req'[q] = req[q]
    BY <1>8, EmptyRecords DEF ReadSnapshot, TypeOK, Request
  <2> QED BY <1>8, <2>1 DEF ReadSnapshot, QuietStep, Moves, localDb
<1>9. ASSUME NEW r \in Reqs, NotifyLate(r) PROVE QuietStep
  BY <1>9, GotoMoves DEF NotifyLate, localDb
<1>10. ASSUME (\E d \in Docs : LateArrives(d)) \/ LoseLock PROVE QuietStep
  BY <1>10 DEF LateArrives, LoseLock, QuietStep, Moves, localDb, TypeOK
<1> QED BY <1>1, <1>2, <1>3, <1>4, <1>5, <1>6, <1>7, <1>8, <1>9, <1>10
        DEF Next, Ingest, Index, Compensate, Synchronize

(***************************************************************************)
(* The Local RAG DB: runs, and who knows of which document.                *)
(***************************************************************************)

LocalInv == TypeOK /\ RequestsHaveRuns /\ OwnerKnowsPrevious /\ OneIndexed

\* The rows and the requests keep their types.
LEMMA RowsTyped ==
  ASSUME TypeOK, RequestsHaveRuns, Next
  PROVE  /\ doc' \in [Docs -> DocRow] /\ run' \in [Runs -> RunRow]
         /\ nextRun' \in 1..(MaxRuns + 1) /\ req' \in [Reqs -> Request]
<1> USE DEF PcStates, Critical, Working, At
<1>1. CASE QuietStep
  BY <1>1 DEF QuietStep, localDb, TypeOK
<1>2. ASSUME NEW r \in Reqs, PrepareReuse(r)
      PROVE  /\ doc' \in [Docs -> DocRow] /\ run' \in [Runs -> RunRow]
             /\ nextRun' \in 1..(MaxRuns + 1) /\ req' \in [Reqs -> Request]
  BY <1>2, InsertedRun DEF PrepareReuse, RequestsHaveRuns, TypeOK
<1>3. ASSUME NEW r \in Reqs, PrepareNew(r)
      PROVE  /\ doc' \in [Docs -> DocRow] /\ run' \in [Runs -> RunRow]
             /\ nextRun' \in 1..(MaxRuns + 1) /\ req' \in [Reqs -> Request]
  <2>1. req[r].doc \in Docs /\ req[r].chunks \subseteq Chunks
    BY <1>3 DEF PrepareNew, RequestsHaveRuns, TypeOK, Request
  <2>2. [status |-> "INDEXING", deleted |-> FALSE, chunks |-> req[r].chunks] \in DocRow
    BY <2>1 DEF DocRow
  <2> QED BY <1>3, <2>1, <2>2, InsertedRun DEF PrepareNew, TypeOK
<1>4. ASSUME NEW r \in Reqs, Confirm(r) \/ ConfirmUnknown(r)
      PROVE  /\ doc' \in [Docs -> DocRow] /\ run' \in [Runs -> RunRow]
             /\ nextRun' \in 1..(MaxRuns + 1) /\ req' \in [Reqs -> Request]
  <2>1. req[r].doc \in Docs /\ req[r].run \in 1..(nextRun - 1)
    BY <1>4 DEF Confirm, ConfirmUnknown, RequestsHaveRuns
  <2>2. req[r].run \in Runs
    BY <2>1, IndexingConstants DEF TypeOK, Runs
  <2>3. Confirmed(r)
    BY <1>4 DEF Confirm, ConfirmUnknown
  <2>4. req' \in [Reqs -> Request]
    <3>1. CASE Confirm(r)
      <4>1. [req[r] EXCEPT !.pc = "release", !.ok = TRUE] \in Request
        BY DEF TypeOK, Request
      <4> QED BY <3>1, <4>1 DEF Confirm, TypeOK
    <3>2. CASE ConfirmUnknown(r)
      BY <3>2, GotoRequest DEF ConfirmUnknown
    <3> QED BY <1>4, <3>1, <3>2
  <2> QED BY <2>1, <2>2, <2>3, <2>4, ConfirmedRows DEF TypeOK
<1>5. ASSUME NEW r \in Reqs, Record(r) \/ Disown(r)
      PROVE  /\ doc' \in [Docs -> DocRow] /\ run' \in [Runs -> RunRow]
             /\ nextRun' \in 1..(MaxRuns + 1) /\ req' \in [Reqs -> Request]
  <2>1. req[r].doc \in Docs /\ req[r].run \in 1..(nextRun - 1)
    BY <1>5 DEF Record, Disown, RequestsHaveRuns
  <2>2. req[r].run \in Runs
    BY <2>1, IndexingConstants DEF TypeOK, Runs
  <2>3. FailRun(req[r].run) /\ nextRun' = nextRun /\ Goto(r, "release")
    BY <1>5 DEF Record, Disown
  <2>4. doc' \in [Docs -> DocRow]
    <3>1. [doc[req[r].doc] EXCEPT !.status = "FAILED"] \in DocRow
      BY <2>1 DEF TypeOK, DocRow
    <3> QED BY <1>5, <2>1, <3>1 DEF Record, Disown, TypeOK
  <2> QED BY <2>2, <2>3, <2>4, FailedRun, GotoRequest DEF TypeOK
<1> QED BY <1>1, <1>2, <1>3, <1>4, <1>5, StepKinds

\* So do points, lock, callbacks and faults.
LEMMA TypeStep ==
  ASSUME TypeOK, RequestsHaveRuns, Next
  PROVE  TypeOK'
<1> USE DEF At, Fault
<1>1. stored' \subseteq Docs \X Chunks /\ active' \subseteq stored'
  <2>1. \A r \in Reqs : req[r].pc \in Working => Staged(r) \subseteq Docs \X Chunks
    BY DEF TypeOK, RequestsHaveRuns, Request, Staged
  <2>2. ASSUME NEW docs PROVE PointsOf(docs) \subseteq stored
    BY DEF PointsOf
  <2>3. CASE UNCHANGED qdrant
    BY <2>3 DEF qdrant, TypeOK
  <2>4. ASSUME NEW r \in Reqs, NEW points \in SUBSET (Docs \X Chunks),
               Stage(r) \/ StageFails(r, points)
        PROVE  stored' \subseteq Docs \X Chunks /\ active' \subseteq stored'
    BY <2>1, <2>4 DEF Stage, StageFails, Upsert, TypeOK, Working
  <2>5. ASSUME NEW r \in Reqs, NEW points \in SUBSET (Docs \X Chunks),
               \/ Activate(r) \/ Deactivate(r) \/ Restore(r) \/ Retract(r)
               \/ ActivateFails(r, points) \/ DeactivateFails(r, points)
               \/ RestoreFails(r, points) \/ RetractFails(r, points)
        PROVE  stored' \subseteq Docs \X Chunks /\ active' \subseteq stored'
    BY <2>2, <2>5
       DEF Activate, Deactivate, Restore, Retract, ActivateFails, DeactivateFails,
           RestoreFails, RetractFails, TypeOK
  <2>6. ASSUME NEW r \in Reqs, NEW points \in SUBSET (Docs \X Chunks),
               Unstage(r) \/ UnstageFails(r, points)
        PROVE  stored' \subseteq Docs \X Chunks /\ active' \subseteq stored'
    BY <2>6 DEF Unstage, UnstageFails, Delete, TypeOK
  <2>7. CASE \E r \in Reqs : Index(r)
    BY <2>3, <2>4, <2>5, <2>7
       DEF Index, PrepareReuse, PrepareNew, PrepareFails, Confirm, ConfirmDisowned,
           ConfirmFails, ConfirmUnknown
  <2>8. CASE \E r \in Reqs : Compensate(r)
    BY <2>3, <2>5, <2>6, <2>8 DEF Compensate, Record, Disown, RecordFails
  <2>9. CASE \E r \in Reqs : Synchronize(r)
    BY <2>3, <2>9
       DEF Synchronize, ReadSnapshot, ReadSnapshotFails, Notify, NotifyFails, NotifyLate
  <2> QED BY <2>3, <2>7, <2>8, <2>9
          DEF Next, Ingest, Arrive, Acquire, AcquireFails, Release, ReleaseFails, Crash,
              LateArrives, LoseLock
<1>2. holder' \in Reqs \cup {NoReq} /\ faults' \subseteq Faults
  BY DEF Next, Ingest, Arrive, Acquire, AcquireFails, Release, ReleaseFails, Crash,
         LateArrives, LoseLock, Index, PrepareReuse, PrepareNew, PrepareFails, Confirm,
         ConfirmDisowned, ConfirmFails, ConfirmUnknown, Stage, Activate, Deactivate,
         StageFails, ActivateFails, DeactivateFails, Compensate, Restore, Retract, Unstage,
         Record, Disown, RecordFails, RestoreFails, RetractFails, UnstageFails, Synchronize,
         ReadSnapshot, ReadSnapshotFails, Notify, NotifyFails, NotifyLate, TypeOK
<1>3. synced' \in Docs \cup {NoDoc} /\ late' \subseteq Docs
  <2>1. CASE UNCHANGED callback
    BY <2>1 DEF callback, TypeOK
  <2>2. ASSUME NEW r \in Reqs, Notify(r) \/ NotifyFails(r) \/ NotifyLate(r)
        PROVE  synced' \in Docs \cup {NoDoc} /\ late' \subseteq Docs
    BY <2>2 DEF Notify, NotifyFails, NotifyLate, TypeOK, RequestsHaveRuns
  <2>3. ASSUME NEW d \in Docs, LateArrives(d)
        PROVE  synced' \in Docs \cup {NoDoc} /\ late' \subseteq Docs
    BY <2>3 DEF LateArrives, TypeOK
  <2>4. CASE \E r \in Reqs : Index(r) \/ Compensate(r)
    BY <2>1, <2>4
       DEF Index, PrepareReuse, PrepareNew, PrepareFails, Confirm, ConfirmDisowned,
           ConfirmFails, ConfirmUnknown, Stage, Activate, Deactivate, StageFails,
           ActivateFails, DeactivateFails, Compensate, Restore, Retract, Unstage, Record,
           Disown, RecordFails, RestoreFails, RetractFails, UnstageFails
  <2> QED BY <2>1, <2>2, <2>3, <2>4
          DEF Next, Ingest, Synchronize, Arrive, Acquire, AcquireFails, Release, ReleaseFails,
              Crash, LoseLock, ReadSnapshot, ReadSnapshotFails
<1> QED BY <1>1, <1>2, <1>3, RowsTyped DEF TypeOK

\* A step that confirms or ends a run, as far as runs and requests go.
LEMMA ClosingStep ==
  ASSUME LocalInv, NEW r \in Reqs,
         Confirm(r) \/ ConfirmUnknown(r) \/ Record(r) \/ Disown(r)
  PROVE  /\ nextRun' = nextRun /\ req[r].run \in Runs /\ req[r].doc \in Docs
         /\ \A k \in Runs : run'[k].doc = run[k].doc
         /\ \A k \in Runs : run'[k].status = "RUNNING" => run[k].status = "RUNNING"
         /\ run'[req[r].run].status # "RUNNING"
         /\ \A q \in Reqs \ {r} : req'[q] = req[q]
         /\ Kept(r) /\ req'[r].pc \in {"release", "restore"}
         /\ req[r].pc \in Working \cup {"disown"}
<1> USE DEF At, PcStates, Critical, Working
<1>1. req[r].doc \in Docs /\ req[r].run \in 1..(nextRun - 1)
  BY DEF Confirm, ConfirmUnknown, Record, Disown, LocalInv, RequestsHaveRuns
<1>2. req[r].run \in Runs
  BY <1>1, IndexingConstants DEF LocalInv, TypeOK, Runs
<1>3. CASE Confirm(r)
  <2>1. /\ req'[r] = [req[r] EXCEPT !.pc = "release", !.ok = TRUE]
        /\ \A q \in Reqs \ {r} : req'[q] = req[q]
    BY <1>3 DEF Confirm, LocalInv, TypeOK
  <2>2. Kept(r) /\ req'[r].pc = "release"
    BY <2>1 DEF Kept, LocalInv, TypeOK, Request
  <2> QED BY <1>1, <1>2, <1>3, <2>1, <2>2, ConfirmedRows DEF Confirm, LocalInv
<1>4. CASE ConfirmUnknown(r)
  BY <1>1, <1>2, <1>4, ConfirmedRows, GotoRequest DEF ConfirmUnknown, LocalInv, Kept
<1>5. CASE Record(r) \/ Disown(r)
  <2>1. FailRun(req[r].run) /\ nextRun' = nextRun /\ Goto(r, "release")
    BY <1>5 DEF Record, Disown
  <2> QED BY <1>1, <1>2, <1>5, <2>1, FailedRun, GotoRequest DEF Record, Disown, LocalInv, Kept
<1> QED BY <1>3, <1>4, <1>5

\* A run is inserted: its request is the only one that works on it.
LEMMA OpeningStep ==
  ASSUME LocalInv, NEW r \in Reqs, PrepareReuse(r) \/ PrepareNew(r)
  PROVE  /\ req[r].doc \in Docs /\ nextRun \in Runs /\ nextRun' = nextRun + 1
         /\ run'[nextRun].status = "RUNNING" /\ run'[nextRun].doc = req[r].doc
         /\ \A k \in Runs \ {nextRun} : run'[k] = run[k]
         /\ req'[r].pc = "stage" /\ req'[r].doc = req[r].doc /\ req'[r].chunks = req[r].chunks
         /\ req'[r].run = nextRun /\ req'[r].prev = PreviousOf(req[r].doc)
         /\ \A q \in Reqs \ {r} : req'[q] = req[q]
         /\ \A d \in Docs \ {req[r].doc} : doc'[d] = doc[d]
<1>1. req[r].doc \in Docs
  BY DEF PrepareReuse, PrepareNew, At, LocalInv, RequestsHaveRuns
<1> QED BY <1>1, InsertedRun DEF PrepareReuse, PrepareNew, LocalInv, TypeOK

\* Requests work on runs that exist, of the document they index.
LEMMA RunsStep ==
  ASSUME LocalInv, Next
  PROVE  RequestsHaveRuns'
<1> USE DEF PcStates, Critical, Working
<1>1. nextRun \in Nat /\ Runs = 1..MaxRuns /\ nextRun \in 1..(MaxRuns + 1) /\ MaxRuns \in Nat
  BY IndexingConstants DEF LocalInv, TypeOK, Runs
<1>2. CASE QuietStep
  BY <1>2 DEF QuietStep, Moves, Kept, localDb, LocalInv, RequestsHaveRuns
<1>3. ASSUME NEW r \in Reqs, PrepareReuse(r) \/ PrepareNew(r) PROVE RequestsHaveRuns'
  <2>1. ASSUME NEW q \in Reqs \ {r}
        PROVE  /\ req'[q].pc \in Working \cup {"disown", "waiting", "prepare", "notify"} => req'[q].doc \in Docs
               /\ req'[q].pc \in Working \cup {"disown"} =>
                    req'[q].run \in 1..(nextRun' - 1) /\ run'[req'[q].run].doc = req'[q].doc
    BY <1>1, <1>3, <2>1, OpeningStep DEF LocalInv, RequestsHaveRuns
  <2>2. /\ req'[r].doc \in Docs /\ req'[r].run \in 1..(nextRun' - 1)
        /\ run'[req'[r].run].doc = req'[r].doc
    BY <1>1, <1>3, OpeningStep
  <2> QED BY <2>1, <2>2 DEF RequestsHaveRuns
<1>4. ASSUME NEW r \in Reqs, Confirm(r) \/ ConfirmUnknown(r) \/ Record(r) \/ Disown(r)
      PROVE  RequestsHaveRuns'
  <2>1. \A k \in 1..(nextRun - 1) : k \in Runs
    BY <1>1
  <2> QED BY <1>4, <2>1, ClosingStep DEF Kept, LocalInv, RequestsHaveRuns
<1> QED BY <1>2, <1>3, <1>4, StepKinds DEF LocalInv

\* Whoever owns the newest run after a step has prepared it in this step or owned
\* it before.
LEMMA OwnersStay ==
  ASSUME LocalInv, Next, NEW q \in Reqs, req'[q].pc \in Working, Owns(q)'
  PROVE  \/ PrepareReuse(q) \/ PrepareNew(q)
         \/ req[q].pc \in Working /\ Owns(q) /\ Kept(q)
<1> USE DEF PcStates, Critical, Working, Owns
<1>1. nextRun \in Nat /\ Runs = 1..MaxRuns /\ nextRun \in 1..(MaxRuns + 1) /\ MaxRuns \in Nat
  BY IndexingConstants DEF LocalInv, TypeOK, Runs
<1>2. CASE QuietStep
  BY <1>2 DEF QuietStep, Moves, Kept, localDb
<1>3. ASSUME NEW r \in Reqs, PrepareReuse(r) \/ PrepareNew(r), r # q PROVE FALSE
  <2>1. req'[q] = req[q] /\ nextRun' = nextRun + 1
    BY <1>3, OpeningStep
  <2>2. req[q].run \in 1..(nextRun - 1)
    BY <2>1 DEF LocalInv, RequestsHaveRuns
  <2> QED BY <1>1, <2>1, <2>2
<1>4. ASSUME NEW r \in Reqs, Confirm(r) \/ ConfirmUnknown(r) \/ Record(r) \/ Disown(r)
      PROVE  req[q].pc \in Working /\ Owns(q) /\ Kept(q)
  <2>1. q # r
    BY <1>4, ClosingStep DEF Kept
  <2>2. req'[q] = req[q] /\ nextRun' = nextRun
    BY <1>4, <2>1, ClosingStep
  <2>3. req[q].run \in Runs
    BY <1>1, <2>2 DEF LocalInv, RequestsHaveRuns
  <2> QED BY <1>4, <2>2, <2>3, ClosingStep DEF Kept
<1> QED BY <1>2, <1>3, <1>4, StepKinds DEF LocalInv

\* A document becomes INDEXED only when its run is confirmed.
LEMMA NewlyIndexed ==
  ASSUME LocalInv, Next, NEW d \in Docs, Indexed(d)', ~Indexed(d)
  PROVE  \E r \in Reqs : d = req[r].doc /\ (Confirm(r) \/ ConfirmUnknown(r))
<1>1. CASE QuietStep
  BY <1>1 DEF QuietStep, localDb, Indexed
<1>2. ASSUME NEW r \in Reqs, PrepareReuse(r) \/ PrepareNew(r) PROVE FALSE
  <2>1. d = req[r].doc /\ d \in Docs
    BY <1>2, OpeningStep DEF Indexed
  <2>2. CASE PrepareReuse(r)
    BY <2>2 DEF PrepareReuse, Indexed
  <2>3. CASE PrepareNew(r)
    <3>1. doc'[d] = [status |-> "INDEXING", deleted |-> FALSE, chunks |-> req[r].chunks]
      BY <2>1, <2>3 DEF PrepareNew, LocalInv, TypeOK
    <3> QED BY <3>1 DEF Indexed
  <2> QED BY <1>2, <2>2, <2>3
<1>3. ASSUME NEW r \in Reqs, Confirm(r) \/ ConfirmUnknown(r) PROVE d = req[r].doc
  <2>1. req[r].run \in Runs /\ req[r].doc \in Docs
    BY <1>3, ClosingStep
  <2>2. d # req[r].doc => doc'[d] = doc[d]
    BY <1>3, <2>1, ConfirmedRows DEF Confirm, ConfirmUnknown, LocalInv
  <2> QED BY <2>2 DEF Indexed
<1>4. ASSUME NEW r \in Reqs, Record(r) \/ Disown(r) PROVE FALSE
  BY <1>4, ClosingStep DEF Record, Disown, Indexed, LocalInv, TypeOK, DocRow
<1> QED BY <1>1, <1>2, <1>3, <1>4, StepKinds DEF LocalInv

\* A confirmed run leaves its own document the only INDEXED one.
LEMMA ConfirmLeavesOne ==
  ASSUME LocalInv, NEW r \in Reqs, Confirm(r) \/ ConfirmUnknown(r), NEW d \in Docs, Indexed(d)'
  PROVE  d = req[r].doc
<1>1. req[r].run \in Runs /\ req[r].doc \in Docs
  BY ClosingStep
<1>2. PreviousOf(req[r].doc) \subseteq req[r].prev
  BY DEF Confirm, ConfirmUnknown, LocalInv, OwnerKnowsPrevious, At, Working
<1>3. Confirmed(r)
  BY DEF Confirm, ConfirmUnknown
<1>4. ASSUME d # req[r].doc PROVE FALSE
  <2>1. CASE Indexed(d)
    <3>1. d \in req[r].prev
      BY <1>2, <1>4, <2>1 DEF PreviousOf
    <3>2. doc'[d].deleted
      BY <1>1, <1>3, <1>4, <2>1, <3>1, ConfirmedRows DEF LocalInv
    <3> QED BY <3>2 DEF Indexed
  <2>2. CASE ~Indexed(d)
    <3>1. doc'[d] = doc[d]
      BY <1>1, <1>3, <1>4, <2>2, ConfirmedRows DEF LocalInv
    <3> QED BY <2>2, <3>1 DEF Indexed
  <2> QED BY <2>1, <2>2
<1> QED BY <1>4

\* The owner of the newest run knows every other INDEXED document.
LEMMA OwnerStep ==
  ASSUME LocalInv, Next
  PROVE  OwnerKnowsPrevious'
<1>1. ASSUME NEW q \in Reqs, req'[q].pc \in Working, Owns(q)',
             NEW d \in Docs, d # req'[q].doc, Indexed(d)'
      PROVE  d \in req'[q].prev
  <2>1. CASE PrepareReuse(q) \/ PrepareNew(q)
    <3>1. d # req[q].doc /\ doc'[d] = doc[d] /\ req'[q].prev = PreviousOf(req[q].doc)
      BY <1>1, <2>1, OpeningStep
    <3> QED BY <1>1, <3>1 DEF PreviousOf, Indexed
  <2>2. CASE req[q].pc \in Working /\ Owns(q) /\ Kept(q)
    <3>1. Indexed(d)
      <4>1. ASSUME NEW r \in Reqs, d = req[r].doc, Confirm(r) \/ ConfirmUnknown(r) PROVE FALSE
        <5>1. Owns(r) /\ req[r].run \in Runs /\ run'[req[r].run].status # "RUNNING"
          BY <4>1, ClosingStep DEF Confirm, ConfirmUnknown
        <5>2. req[q].run = req[r].run /\ nextRun' = nextRun
          BY <2>2, <4>1, <5>1, ClosingStep DEF Owns
        <5> QED BY <1>1, <2>2, <5>1, <5>2 DEF Owns, Kept
      <4> QED BY <1>1, <4>1, NewlyIndexed
    <3> QED BY <1>1, <2>2, <3>1 DEF Kept, LocalInv, OwnerKnowsPrevious, PreviousOf
  <2> QED BY <1>1, <2>1, <2>2, OwnersStay
<1>2. ASSUME NEW q \in Reqs, req'[q].pc \in Working, Owns(q)'
      PROVE  PreviousOf(req[q].doc)' \subseteq req'[q].prev
  BY <1>1, <1>2 DEF PreviousOf
<1> QED BY <1>2 DEF OwnerKnowsPrevious

\* At most one document is INDEXED.
LEMMA OneStep ==
  ASSUME LocalInv, Next
  PROVE  OneIndexed'
<1>1. ASSUME NEW d \in Docs, NEW e \in Docs, Indexed(d)', Indexed(e)', ~Indexed(d) PROVE d = e
  BY <1>1, NewlyIndexed, ConfirmLeavesOne
<1>2. ASSUME NEW d \in Docs, NEW e \in Docs, Indexed(d)', Indexed(e)', Indexed(d), Indexed(e)
      PROVE  d = e
  BY <1>2 DEF LocalInv, OneIndexed
<1> QED BY <1>1, <1>2 DEF OneIndexed

(***************************************************************************)
(* Points: what holds as long as the lock is kept and commits are known.   *)
(***************************************************************************)

Trusted == Without({"commit", "lock"})

LockedInv == LocalInv /\ (Trusted => LockExcludes /\ PointsFollow)

\* What has happened stays in the history.
LEMMA FaultsStay ==
  ASSUME Next
  PROVE  faults \subseteq faults'
  BY DEF Fault, Next, Ingest, Arrive, Acquire, AcquireFails, Release, ReleaseFails, Crash,
         LateArrives, LoseLock, Index, PrepareReuse, PrepareNew, PrepareFails, Confirm,
         ConfirmDisowned, ConfirmFails, ConfirmUnknown, Stage, Activate, Deactivate,
         StageFails, ActivateFails, DeactivateFails, Compensate, Restore, Retract, Unstage,
         Record, Disown, RecordFails, RestoreFails, RetractFails, UnstageFails, Synchronize,
         ReadSnapshot, ReadSnapshotFails, Notify, NotifyFails, NotifyLate

\* Nothing untrusted has happened before or in this step.
LEMMA StillTrusted ==
  ASSUME Next, Trusted'
  PROVE  Trusted /\ ~LoseLock /\ \A r \in Reqs : ~ConfirmUnknown(r)
<1>1. Trusted
  BY FaultsStay DEF Trusted, Without
<1>2. ~LoseLock /\ \A r \in Reqs : ~ConfirmUnknown(r)
  BY DEF LoseLock, ConfirmUnknown, Fault, Trusted, Without
<1> QED BY <1>1, <1>2

\* Only the request that holds the lock is at work.
LEMMA Alone ==
  ASSUME LockedInv, Trusted, NEW r \in Reqs, req[r].pc \in Critical, NEW q \in Reqs \ {r}
  PROVE  req[q].pc \notin Critical
  BY DEF LockedInv, LockExcludes

\* What LockExcludes and PointsFollow ask of one request.
Exclusive(r) ==
  /\ req[r].pc \in Critical => holder = r
  /\ req[r].pc \in Working =>
       /\ Owns(r)
       /\ req[r].doc \notin req[r].prev /\ \A e \in req[r].prev : Indexed(e)
       /\ ~doc[req[r].doc].deleted /\ doc[req[r].doc].chunks = req[r].chunks

Followed(r) ==
  /\ req[r].pc \in {"waiting", "prepare"} \cup Working => req[r].chunks # {}
  /\ req[r].pc = "activate" => Staged(r) \subseteq stored
  /\ req[r].pc \in {"deactivate", "confirm"} => Staged(r) \subseteq active
  /\ req[r].pc = "confirm" => PointsOf(req[r].prev) \cap active = {}

\* A request that stays outside the lock is not concerned by what happens inside.
LEMMA Outside ==
  ASSUME NEW q \in Reqs, req'[q] = req[q], req[q].pc \notin Critical, Exclusive(q), Followed(q)
  PROVE  Exclusive(q)' /\ Followed(q)'
  BY DEF Exclusive, Followed, Critical, Working

\* Nor is one that holds the lock by what happens outside.
LEMMA Untouched ==
  ASSUME NEW q \in Reqs, req'[q] = req[q], UNCHANGED <<localDb, qdrant, holder>>,
         Exclusive(q), Followed(q)
  PROVE  Exclusive(q)' /\ Followed(q)'
<1>1. Exclusive(q)'
  BY DEF Exclusive, localDb, Owns, Indexed
<1>2. Followed(q)'
  BY DEF Followed, qdrant, Staged, PointsOf
<1> QED BY <1>1, <1>2

\* A request that goes on inside the lock without having to show points.
LEMMA MoveOn ==
  ASSUME TypeOK, NEW r \in Reqs, NEW pc \in PcStates, Goto(r, pc),
         UNCHANGED <<localDb, holder>>, Exclusive(r), Followed(r), req[r].pc \in Critical,
         pc \in Working => req[r].pc \in Working,
         pc \notin {"waiting", "prepare", "activate", "deactivate", "confirm"}
  PROVE  Exclusive(r)' /\ Followed(r)'
<1>1. /\ req'[r].pc = pc /\ req'[r].doc = req[r].doc /\ req'[r].chunks = req[r].chunks
      /\ req'[r].run = req[r].run /\ req'[r].prev = req[r].prev
  BY GotoRequest
<1>2. Exclusive(r)'
  BY <1>1 DEF Exclusive, localDb, Owns, Indexed
<1>3. Followed(r)'
  BY <1>1 DEF Followed
<1> QED BY <1>2, <1>3

\* A request that is done with the index.
LEMMA MoveOut ==
  ASSUME NEW r \in Reqs, req'[r].pc \notin Working \cup {"waiting", "prepare"},
         req'[r].pc \in Critical => holder' = r
  PROVE  Exclusive(r)' /\ Followed(r)'
  BY DEF Exclusive, Followed, Working

\* What a request that acts keeps of its own: before it prepares and once it is
\* done.
LEMMA OwnOutside ==
  ASSUME LockedInv, Trusted, NEW r \in Reqs, Exclusive(r), Followed(r),
         \/ \E d \in Docs, chunks \in SUBSET Chunks : Arrive(r, d, chunks)
         \/ Acquire(r) \/ AcquireFails(r) \/ Release(r) \/ ReleaseFails(r) \/ Crash(r)
         \/ Synchronize(r)
  PROVE  Exclusive(r)' /\ Followed(r)'
<1> USE DEF Critical, Working, At, PcStates
<1> TypeOK
  BY DEF LockedInv, LocalInv
<1>1. ASSUME NEW d \in Docs, NEW chunks \in SUBSET Chunks, Arrive(r, d, chunks)
      PROVE  Exclusive(r)' /\ Followed(r)'
  <2>1. req'[r].pc = "waiting" /\ req'[r].chunks # {}
    BY <1>1, EmptyRecords DEF Arrive, TypeOK, Request
  <2> QED BY <2>1 DEF Exclusive, Followed
<1>2. CASE Acquire(r)
  <2>1. CASE At(r, "waiting")
    <3>1. req'[r].pc = "prepare" /\ req'[r].chunks = req[r].chunks /\ holder' = r
      BY <1>2, <2>1, GotoRequest DEF Acquire
    <3> QED BY <2>1, <3>1 DEF Exclusive, Followed
  <2>2. CASE At(r, "indexed")
    <3>1. req'[r].pc = "snapshot" /\ holder' = r
      BY <1>2, <2>2, GotoRequest DEF Acquire
    <3> QED BY <3>1, MoveOut
  <2> QED BY <1>2, <2>1, <2>2 DEF Acquire
<1>3. CASE AcquireFails(r) \/ ReleaseFails(r) \/ Crash(r)
  <2>1. req'[r].pc = "idle"
    BY <1>3, IdleRequest DEF AcquireFails, ReleaseFails, Crash
  <2> QED BY <2>1, MoveOut
<1>4. CASE Release(r)
  <2>1. req'[r].pc \in {"indexed", "idle"}
    <3>1. [IdleReq EXCEPT !.pc = "indexed"].pc = "indexed"
      BY EmptyRecords DEF Request
    <3> QED BY <1>4, <3>1, EmptyRecords DEF Release, TypeOK
  <2> QED BY <2>1, MoveOut
<1>5. ASSUME NEW d \in Docs, ReadSnapshot(r, d) PROVE Exclusive(r)' /\ Followed(r)'
  <2>1. req'[r].pc = "notify"
    BY <1>5, EmptyRecords DEF ReadSnapshot, TypeOK, Request
  <2> QED BY <1>5, <2>1, MoveOut DEF ReadSnapshot, Exclusive
<1>6. CASE ReadSnapshotFails(r) \/ Notify(r) \/ NotifyFails(r)
  BY <1>6, MoveOn DEF ReadSnapshotFails, Notify, NotifyFails, localDb
<1>7. CASE NotifyLate(r)
  BY <1>7, MoveOn DEF NotifyLate, localDb
<1> QED BY <1>1, <1>2, <1>3, <1>4, <1>5, <1>6, <1>7 DEF Synchronize

\* ... when its run is inserted ...
LEMMA OwnPrepare ==
  ASSUME LockedInv, Trusted, NEW r \in Reqs, Exclusive(r), Followed(r),
         PrepareReuse(r) \/ PrepareNew(r)
  PROVE  Exclusive(r)' /\ Followed(r)'
<1> USE DEF Critical, Working, At
<1> DEFINE d == req[r].doc
<1>1. LocalInv
  BY DEF LockedInv
<1>2. /\ d \in Docs /\ nextRun \in Runs /\ nextRun' = nextRun + 1
      /\ run'[nextRun].status = "RUNNING"
      /\ req'[r].pc = "stage" /\ req'[r].doc = d /\ req'[r].chunks = req[r].chunks
      /\ req'[r].run = nextRun /\ req'[r].prev = PreviousOf(d)
      /\ \A e \in Docs \ {d} : doc'[e] = doc[e]
  BY <1>1, OpeningStep
<1>3. ~doc'[d].deleted /\ doc'[d].chunks = req[r].chunks
  <2>1. CASE PrepareReuse(r)
    BY <2>1 DEF PrepareReuse, Indexed
  <2>2. CASE PrepareNew(r)
    <3>1. doc'[d] = [status |-> "INDEXING", deleted |-> FALSE, chunks |-> req[r].chunks]
      BY <1>2, <2>2, <1>1 DEF PrepareNew, LocalInv, TypeOK
    <3> QED BY <3>1
  <2> QED BY <2>1, <2>2
<1>4. nextRun = nextRun' - 1
  BY <1>2, IndexingConstants DEF Runs
<1>5. Owns(r)'
  BY <1>2, <1>4 DEF Owns
<1>6. holder' = r /\ req[r].chunks # {}
  BY DEF PrepareReuse, PrepareNew, Exclusive, Followed
<1>7. d \notin PreviousOf(d) /\ \A e \in PreviousOf(d) : Indexed(e)'
  BY <1>2 DEF PreviousOf, Indexed
<1>8. Exclusive(r)'
  BY <1>2, <1>3, <1>5, <1>6, <1>7 DEF Exclusive
<1>9. Followed(r)'
  BY <1>2, <1>6 DEF Followed
<1> QED BY <1>8, <1>9

\* ... while it switches points ...
LEMMA OwnSwitch ==
  ASSUME LockedInv, Trusted, NEW r \in Reqs, Exclusive(r), Followed(r),
         Stage(r) \/ Activate(r) \/ Deactivate(r)
  PROVE  Exclusive(r)' /\ Followed(r)'
<1> USE DEF Critical, Working, At, PcStates
<1> TypeOK
  BY DEF LockedInv, LocalInv
<1>1. PICK pc \in {"activate", "deactivate", "confirm"} :
        Goto(r, pc) /\ UNCHANGED <<localDb, holder>>
  BY DEF Stage, AfterStaging, Activate, Deactivate
<1>2. /\ req'[r].pc = pc /\ req'[r].doc = req[r].doc /\ req'[r].chunks = req[r].chunks
      /\ req'[r].run = req[r].run /\ req'[r].prev = req[r].prev
  BY <1>1, GotoRequest
<1>3. Exclusive(r)'
  BY <1>1, <1>2 DEF Exclusive, localDb, Owns, Indexed, Stage, Activate, Deactivate
<1>4. Staged(r)' = Staged(r)
  BY <1>2 DEF Staged
<1>5. CASE Stage(r)
  <2>1. Staged(r) \subseteq stored'
    BY <1>5 DEF Stage, Upsert
  <2>2. req'[r].pc # "activate" => req[r].reuse /\ req'[r].pc = "deactivate"
    BY <1>5, GotoRequest DEF Stage, AfterStaging
  <2>3. req[r].reuse => Staged(r) \subseteq active'
    BY <1>5 DEF Stage, Upsert
  <2> QED BY <1>2, <1>3, <1>4, <1>5, <2>1, <2>2, <2>3 DEF Followed, Stage
<1>6. CASE Activate(r)
  <2>1. Staged(r) \subseteq PointsOf({req[r].doc})
    BY <1>6 DEF Activate, Followed, Staged, PointsOf
  <2>2. Staged(r) \subseteq active' /\ req'[r].pc = "deactivate"
    BY <1>6, <2>1, GotoRequest DEF Activate
  <2> QED BY <1>2, <1>3, <1>4, <1>6, <2>2 DEF Followed, Activate
<1>7. CASE Deactivate(r)
  <2>1. Staged(r) \subseteq active /\ req[r].doc \notin req[r].prev
    BY <1>7 DEF Deactivate, Followed, Exclusive
  <2>2. Staged(r) \subseteq active'
    BY <1>7, <2>1 DEF Deactivate, Staged, PointsOf
  <2>3. PointsOf(req[r].prev)' \cap active' = {}
    BY <1>2, <1>7 DEF Deactivate, PointsOf
  <2>4. req'[r].pc = "confirm"
    BY <1>7, GotoRequest DEF Deactivate
  <2> QED BY <1>2, <1>3, <1>4, <1>7, <2>2, <2>3, <2>4 DEF Followed, Deactivate
<1> QED BY <1>5, <1>6, <1>7

\* ... and when it ends or fails.
LEMMA OwnEnd ==
  ASSUME LockedInv, Trusted, NEW r \in Reqs, Exclusive(r), Followed(r),
         \/ PrepareFails(r) \/ Confirm(r) \/ ConfirmDisowned(r) \/ ConfirmFails(r)
         \/ Compensate(r)
         \/ \E points \in SUBSET (Docs \X Chunks) :
              StageFails(r, points) \/ ActivateFails(r, points) \/ DeactivateFails(r, points)
  PROVE  Exclusive(r)' /\ Followed(r)'
<1> USE DEF Critical, Working, At, PcStates
<1> TypeOK
  BY DEF LockedInv, LocalInv
<1>1. CASE \/ PrepareFails(r) \/ ConfirmDisowned(r) \/ ConfirmFails(r) \/ Retract(r)
           \/ Unstage(r) \/ RecordFails(r)
  BY <1>1, MoveOn
     DEF PrepareFails, ConfirmDisowned, ConfirmFails, Retract, Unstage, RecordFails, localDb
<1>2. CASE Restore(r)
  BY <1>2, MoveOn DEF Restore, AfterRestore, localDb
<1>3. ASSUME NEW points \in SUBSET (Docs \X Chunks),
             \/ StageFails(r, points) \/ ActivateFails(r, points) \/ DeactivateFails(r, points)
             \/ RestoreFails(r, points) \/ RetractFails(r, points) \/ UnstageFails(r, points)
      PROVE  Exclusive(r)' /\ Followed(r)'
  BY <1>3, MoveOn
     DEF StageFails, ActivateFails, DeactivateFails, RestoreFails, AfterRestore, RetractFails,
         UnstageFails, localDb
<1>4. CASE Confirm(r)
  <2>1. req'[r].pc = "release"
    BY <1>4 DEF Confirm, TypeOK, Request
  <2> QED BY <1>4, <2>1, MoveOut DEF Confirm, Exclusive
<1>5. CASE Record(r) \/ Disown(r)
  <2>1. req'[r].pc = "release" /\ holder' = r
    BY <1>5, GotoRequest DEF Record, Disown, Exclusive
  <2> QED BY <2>1, MoveOut
<1> QED BY <1>1, <1>2, <1>3, <1>4, <1>5 DEF Compensate

\* A step of a request is not one of the others'.
LEMMA OthersWait ==
  ASSUME TypeOK, NEW r \in Reqs, Ingest(r), NEW q \in Reqs \ {r}
  PROVE  req'[q] = req[q]
  BY DEF Ingest, Arrive, Acquire, AcquireFails, Release, ReleaseFails, Crash, Index,
         PrepareReuse, PrepareNew, InsertRun, PrepareFails, Confirm, ConfirmDisowned,
         ConfirmFails, ConfirmUnknown, Stage, Activate, Deactivate, StageFails,
         ActivateFails, DeactivateFails, Compensate, Restore, Retract, Unstage, Record,
         Disown, RecordFails, RestoreFails, RetractFails, UnstageFails, Synchronize,
         ReadSnapshot, ReadSnapshotFails, Notify, NotifyFails, NotifyLate, Goto, TypeOK

\* A request outside the lock changes nothing that one inside relies on.
LEMMA OutsideLock ==
  ASSUME NEW r \in Reqs, Ingest(r), req[r].pc \notin Critical, holder \in Reqs \ {r}
  PROVE  UNCHANGED <<localDb, qdrant, holder>>
<1> USE DEF At, Critical, Working
<1>1. ~Index(r)
  BY DEF Index, PrepareReuse, PrepareNew, PrepareFails, Confirm, ConfirmDisowned,
         ConfirmFails, ConfirmUnknown, Stage, Activate, Deactivate, StageFails,
         ActivateFails, DeactivateFails
<1>2. ~Compensate(r)
  BY DEF Compensate, Restore, Retract, Unstage, Record, Disown, RecordFails, RestoreFails,
         RetractFails, UnstageFails
<1>3. ~Synchronize(r)
  BY DEF Synchronize, ReadSnapshot, ReadSnapshotFails, Notify, NotifyFails, NotifyLate
<1>4. ~Acquire(r)
  BY IndexingConstants DEF Acquire
<1> QED BY <1>1, <1>2, <1>3, <1>4
        DEF Ingest, Arrive, AcquireFails, Release, ReleaseFails, Crash

\* The lock excludes, and the points follow the switch.
LEMMA LockStep ==
  ASSUME LockedInv, Next, Trusted'
  PROVE  LockExcludes' /\ PointsFollow'
<1>1. Trusted /\ ~LoseLock /\ \A r \in Reqs : ~ConfirmUnknown(r)
  BY StillTrusted
<1>2. \A q \in Reqs : Exclusive(q) /\ Followed(q)
  BY <1>1 DEF LockedInv, LockExcludes, PointsFollow, Exclusive, Followed
<1>3. ASSUME NEW q \in Reqs PROVE Exclusive(q)' /\ Followed(q)'
  <2>1. CASE \E d \in Docs : LateArrives(d)
    BY <1>2, <2>1, Untouched DEF LateArrives
  <2>2. CASE Ingest(q)
    BY <1>1, <1>2, <2>2, OwnOutside, OwnPrepare, OwnSwitch, OwnEnd DEF Ingest, Index
  <2>3. ASSUME NEW r \in Reqs, Ingest(r), r # q PROVE Exclusive(q)' /\ Followed(q)'
    <3>1. req'[q] = req[q]
      BY <2>3, OthersWait DEF LockedInv, LocalInv
    <3>2. CASE req[q].pc \notin Critical
      BY <1>2, <3>1, <3>2, Outside
    <3>3. CASE req[q].pc \in Critical
      <4>1. req[r].pc \notin Critical
        BY <1>1, <2>3, <3>3, Alone
      <4>2. holder \in Reqs \ {r}
        BY <1>2, <2>3, <3>3 DEF Exclusive
      <4> QED BY <1>2, <2>3, <3>1, <4>1, <4>2, OutsideLock, Untouched
    <3> QED BY <3>2, <3>3
  <2> QED BY <1>1, <2>1, <2>2, <2>3 DEF Next
<1> QED BY <1>3 DEF LockExcludes, PointsFollow, Exclusive, Followed

(***************************************************************************)
(* What a search sees.                                                     *)
(***************************************************************************)

\* No point a search sees is of a superseded document.
LEMMA HiddenPoints ==
  ASSUME TypeOK
  PROVE  (\A d \in Docs : doc[d].deleted => PointsOf({d}) \cap active = {})
           <=> (\A p \in active : ~doc[p[1]].deleted)
  BY DEF TypeOK, PointsOf

\* Superseded documents stay hidden.
LEMMA HiddenStep ==
  ASSUME LockedInv, SupersededHidden, Next
  PROVE  SupersededHidden'
<1> SUFFICES ASSUME Trusted' PROVE \A p \in active' : ~doc'[p[1]].deleted
  <2>1. TypeOK'
    BY TypeStep DEF LockedInv, LocalInv
  <2>2. (\A d \in Docs : doc[d].deleted => PointsOf({d}) \cap active = {})'
          <=> (\A p \in active' : ~doc'[p[1]].deleted)
    BY <2>1 DEF TypeOK, PointsOf
  <2> QED BY <2>2 DEF SupersededHidden, Trusted
<1> USE DEF At, Working
<1>1. Trusted /\ ~LoseLock /\ \A r \in Reqs : ~ConfirmUnknown(r)
  BY StillTrusted
<1>2. TypeOK /\ \A q \in Reqs : Exclusive(q) /\ Followed(q)
  BY <1>1 DEF LockedInv, LocalInv, LockExcludes, PointsFollow, Exclusive, Followed
<1>3. \A p \in active : ~doc[p[1]].deleted
  BY <1>1, <1>2, HiddenPoints DEF SupersededHidden, Trusted
<1>4. ASSUME active' \subseteq active, doc' = doc PROVE \A p \in active' : ~doc'[p[1]].deleted
  BY <1>3, <1>4
<1>5. ASSUME NEW r \in Reqs, NEW points \in SUBSET (Docs \X Chunks),
             Stage(r) \/ StageFails(r, points)
      PROVE  \A p \in active' : ~doc'[p[1]].deleted
  <2>1. active' \subseteq active \cup Staged(r) /\ doc' = doc
    BY <1>5 DEF Stage, StageFails, Upsert, localDb
  <2>2. ~doc[req[r].doc].deleted
    BY <1>2, <1>5 DEF Stage, StageFails, Exclusive
  <2> QED BY <1>3, <2>1, <2>2 DEF Staged
<1>6. ASSUME NEW r \in Reqs, NEW points \in SUBSET (Docs \X Chunks),
             Activate(r) \/ ActivateFails(r, points)
      PROVE  \A p \in active' : ~doc'[p[1]].deleted
  <2>1. active' \subseteq active \cup PointsOf({req[r].doc}) /\ doc' = doc
    BY <1>6 DEF Activate, ActivateFails, localDb
  <2>2. ~doc[req[r].doc].deleted
    BY <1>2, <1>6 DEF Activate, ActivateFails, Exclusive
  <2> QED BY <1>3, <2>1, <2>2 DEF PointsOf
<1>7. ASSUME NEW r \in Reqs, NEW points \in SUBSET (Docs \X Chunks),
             Restore(r) \/ RestoreFails(r, points)
      PROVE  \A p \in active' : ~doc'[p[1]].deleted
  <2>1. active' \subseteq active \cup PointsOf(req[r].prev) /\ doc' = doc
    BY <1>7 DEF Restore, RestoreFails, localDb
  <2>2. \A e \in req[r].prev : ~doc[e].deleted
    BY <1>2, <1>7 DEF Restore, RestoreFails, Exclusive, Indexed
  <2> QED BY <1>3, <2>1, <2>2 DEF PointsOf
<1>8. ASSUME NEW r \in Reqs, NEW points \in SUBSET (Docs \X Chunks),
             \/ Deactivate(r) \/ DeactivateFails(r, points) \/ Retract(r)
             \/ RetractFails(r, points) \/ Unstage(r) \/ UnstageFails(r, points)
      PROVE  active' \subseteq active /\ doc' = doc
  BY <1>8
     DEF Deactivate, DeactivateFails, Retract, RetractFails, Unstage, UnstageFails, Delete,
         localDb
<1>9. ASSUME NEW r \in Reqs, Confirm(r) PROVE \A p \in active' : ~doc'[p[1]].deleted
  <2>1. req[r].run \in Runs /\ req[r].doc \in Docs
    BY <1>9, ClosingStep DEF LockedInv
  <2>2. active' = active /\ PointsOf(req[r].prev) \cap active = {}
    BY <1>2, <1>9 DEF Confirm, qdrant, Followed
  <2>3. ASSUME NEW p \in active PROVE ~doc'[p[1]].deleted
    <3>1. p[1] \in Docs /\ p[1] \notin req[r].prev
      BY <1>2, <2>2, <2>3 DEF TypeOK, PointsOf
    <3>2. p[1] # req[r].doc => doc'[p[1]] = doc[p[1]]
      BY <1>2, <1>9, <2>1, <3>1, ConfirmedRows DEF Confirm
    <3> QED BY <1>2, <1>3, <1>9, <2>1, <2>3, <3>2, ConfirmedRows DEF Confirm
  <2> QED BY <2>2, <2>3
<1>10. ASSUME NEW r \in Reqs, PrepareReuse(r) \/ PrepareNew(r)
       PROVE  \A p \in active' : ~doc'[p[1]].deleted
  <2>1. active' = active /\ req[r].doc \in Docs /\ \A d \in Docs \ {req[r].doc} : doc'[d] = doc[d]
    BY <1>10, OpeningStep DEF PrepareReuse, PrepareNew, qdrant, LockedInv
  <2>2. PrepareNew(r) => ~doc'[req[r].doc].deleted
    <3>1. PrepareNew(r) =>
            doc'[req[r].doc] = [status |-> "INDEXING", deleted |-> FALSE, chunks |-> req[r].chunks]
      BY <1>2, <2>1 DEF PrepareNew, TypeOK
    <3> QED BY <3>1
  <2>3. PrepareReuse(r) => doc' = doc
    BY DEF PrepareReuse
  <2> QED BY <1>2, <1>3, <1>10, <2>1, <2>2, <2>3 DEF TypeOK
<1>11. ASSUME NEW r \in Reqs, Record(r) PROVE \A p \in active' : ~doc'[p[1]].deleted
  <2>1. active' = active /\ \A d \in Docs : doc'[d].deleted = doc[d].deleted
    BY <1>2, <1>11 DEF Record, qdrant, TypeOK, DocRow
  <2> QED BY <1>2, <1>3, <2>1 DEF TypeOK
<1>12. ASSUME NEW r \in Reqs,
              \/ \E d \in Docs, chunks \in SUBSET Chunks : Arrive(r, d, chunks)
              \/ Acquire(r) \/ AcquireFails(r) \/ Release(r) \/ ReleaseFails(r) \/ Crash(r)
              \/ PrepareFails(r) \/ ConfirmDisowned(r) \/ ConfirmFails(r) \/ Disown(r)
              \/ RecordFails(r) \/ Synchronize(r)
       PROVE  active' \subseteq active /\ doc' = doc
  BY <1>12
     DEF Arrive, Acquire, AcquireFails, Release, ReleaseFails, Crash, PrepareFails,
         ConfirmDisowned, ConfirmFails, Disown, RecordFails, Synchronize, ReadSnapshot,
         ReadSnapshotFails, Notify, NotifyFails, NotifyLate, localDb, qdrant
<1>13. ASSUME NEW d \in Docs, LateArrives(d) PROVE active' \subseteq active /\ doc' = doc
  BY <1>13 DEF LateArrives, localDb, qdrant
<1>14. CASE \E r \in Reqs : Index(r)
  BY <1>1, <1>4, <1>5, <1>6, <1>8, <1>9, <1>10, <1>12, <1>14 DEF Index
<1>15. CASE \E r \in Reqs : Compensate(r)
  BY <1>4, <1>7, <1>8, <1>11, <1>12, <1>15 DEF Compensate
<1> QED BY <1>1, <1>4, <1>12, <1>13, <1>14, <1>15 DEF Next, Ingest

\* A run that was confirmed last and has nothing newer behind it.
NewestSucceeded == nextRun > 1 /\ run[nextRun - 1].status = "SUCCESS"

\* While it is so nobody is at work on the documents or the points.
LEMMA NobodyWorks ==
  ASSUME LockedInv, Trusted, NewestSucceeded, NEW r \in Reqs
  PROVE  req[r].pc \notin Working
  BY DEF LockedInv, LockExcludes, NewestSucceeded, Owns

\* A step that neither prepares nor works.
LEMMA IdleStep ==
  ASSUME TypeOK, Next, ~LoseLock, \A r \in Reqs : req[r].pc \notin Working,
         \A r \in Reqs : ~PrepareReuse(r) /\ ~PrepareNew(r)
  PROVE  UNCHANGED <<doc, nextRun, stored, active>>
<1> USE DEF At, Working, localDb, qdrant
<1>1. \A r \in Reqs : Index(r) => UNCHANGED <<doc, nextRun, stored, active>>
  BY DEF Index, PrepareFails, Confirm, ConfirmDisowned, ConfirmFails, ConfirmUnknown, Stage,
         Activate, Deactivate, StageFails, ActivateFails, DeactivateFails
<1>2. \A r \in Reqs : Compensate(r) => UNCHANGED <<doc, nextRun, stored, active>>
  BY DEF Compensate, Restore, Retract, Unstage, Record, Disown, RecordFails, RestoreFails,
         RetractFails, UnstageFails
<1>3. \A r \in Reqs : Synchronize(r) => UNCHANGED <<doc, nextRun, stored, active>>
  BY DEF Synchronize, ReadSnapshot, ReadSnapshotFails, Notify, NotifyFails, NotifyLate
<1> QED BY <1>1, <1>2, <1>3
        DEF Next, Ingest, Arrive, Acquire, AcquireFails, Release, ReleaseFails, Crash,
            LateArrives

\* The run that was confirmed last has made its document searchable.
LEMMA LastStep ==
  ASSUME LockedInv, LastSuccessSearchable, Next
  PROVE  LastSuccessSearchable'
<1> DEFINE d == run[nextRun - 1].doc
<1> SUFFICES ASSUME Trusted', NewestSucceeded' PROVE Indexed(d)' /\ Searchable(d)'
  BY DEF LastSuccessSearchable, Trusted, NewestSucceeded
<1>1. Trusted /\ ~LoseLock /\ \A r \in Reqs : ~ConfirmUnknown(r)
  BY StillTrusted
<1>2. TypeOK /\ LocalInv /\ \A q \in Reqs : Exclusive(q) /\ Followed(q)
  BY <1>1 DEF LockedInv, LocalInv, LockExcludes, PointsFollow, Exclusive, Followed
<1>3. nextRun \in Nat /\ Runs = 1..MaxRuns /\ nextRun \in 1..(MaxRuns + 1) /\ MaxRuns \in Nat
  BY <1>2, IndexingConstants DEF TypeOK, Runs
<1>4. ASSUME NEW r \in Reqs PROVE ~PrepareReuse(r) /\ ~PrepareNew(r)
  <2>1. ASSUME PrepareReuse(r) \/ PrepareNew(r) PROVE FALSE
    <3>1. nextRun' = nextRun + 1 /\ run'[nextRun].status = "RUNNING"
      BY <1>2, <2>1, OpeningStep
    <3>2. nextRun' - 1 = nextRun
      BY <1>3, <3>1
    <3> QED BY <3>1, <3>2 DEF NewestSucceeded
  <2> QED BY <2>1
<1>5. ASSUME NEW r \in Reqs, Confirm(r) PROVE Indexed(d)' /\ Searchable(d)'
  <2>1. req[r].run \in Runs /\ req[r].doc \in Docs
    BY <1>2, <1>5, ClosingStep
  <2>2. req[r].run = nextRun - 1 /\ nextRun' = nextRun /\ run[req[r].run].doc = req[r].doc
    BY <1>2, <1>5, <2>1
       DEF Confirm, Owns, Confirmed, At, Working, LocalInv, RequestsHaveRuns
  <2>3. /\ d' = req[r].doc /\ doc'[d'].status = "INDEXED" /\ ~doc'[d'].deleted
        /\ doc'[d'].chunks = doc[req[r].doc].chunks
    BY <1>2, <1>5, <2>1, <2>2, ConfirmedRows DEF Confirm
  <2>4. /\ doc[req[r].doc].chunks = req[r].chunks /\ req[r].chunks # {}
        /\ Staged(r) \subseteq active /\ active' = active
    BY <1>2, <1>5 DEF Confirm, At, Working, Exclusive, Followed, qdrant
  <2> QED BY <2>3, <2>4 DEF Indexed, Searchable, Staged
<1>6. ASSUME \A r \in Reqs : ~Confirm(r) PROVE Indexed(d)' /\ Searchable(d)'
  <2>1. nextRun' = nextRun /\ run'[nextRun - 1].doc = run[nextRun - 1].doc
        /\ run[nextRun - 1].status = "SUCCESS"
    <3>1. CASE QuietStep
      BY <3>1 DEF QuietStep, localDb, NewestSucceeded
    <3>2. ASSUME NEW r \in Reqs, Record(r) \/ Disown(r)
          PROVE  nextRun' = nextRun /\ run'[nextRun - 1].doc = run[nextRun - 1].doc
                 /\ run[nextRun - 1].status = "SUCCESS"
      <4>1. nextRun' = nextRun /\ FailRun(req[r].run) /\ req[r].run \in Runs
        BY <1>2, <3>2, ClosingStep DEF Record, Disown
      <4>2. nextRun - 1 \in Runs /\ run'[nextRun - 1].status = "SUCCESS"
        BY <1>3, <4>1 DEF NewestSucceeded
      <4> QED BY <1>2, <4>1, <4>2 DEF FailRun, TypeOK, RunRow
    <3> QED BY <1>1, <1>2, <1>4, <1>6, <3>1, <3>2, StepKinds
  <2>2. NewestSucceeded
    BY <2>1 DEF NewestSucceeded
  <2>3. \A r \in Reqs : req[r].pc \notin Working
    BY <1>1, <2>2, NobodyWorks
  <2>4. UNCHANGED <<doc, nextRun, stored, active>>
    BY <1>1, <1>2, <1>4, <2>3, IdleStep
  <2>5. d' = d /\ Indexed(d) /\ Searchable(d)
    BY <1>1, <2>1, <2>2 DEF LastSuccessSearchable, Trusted, NewestSucceeded
  <2> QED BY <2>4, <2>5 DEF Indexed, Searchable
<1> QED BY <1>5, <1>6

(***************************************************************************)
(* The callback: what is sent is INDEXED for as long as it is being sent.  *)
(* Only the lock is needed for this, not that commits are known.           *)
(***************************************************************************)

LockKept == Without({"lock"})

HoldsLock(r) == req[r].pc \in Critical => holder = r

SendsIndexed(r) == req[r].pc = "notify" => Indexed(req[r].doc)

CallbackInv ==
  /\ LockKept => \A r \in Reqs : HoldsLock(r) /\ SendsIndexed(r)
  /\ Without({"late"}) => late = {}

\* A document that is INDEXED ceases to be so only inside the lock, at a place
\* where nothing is being sent.
LEMMA IndexedUntilWork ==
  ASSUME LocalInv, NEW r \in Reqs, Ingest(r), NEW d \in Docs, Indexed(d), ~Indexed(d)'
  PROVE  req[r].pc \in Critical \ {"notify"}
<1> USE DEF At, Critical, Working
<1>1. CASE UNCHANGED doc
  BY <1>1 DEF Indexed
<1>2. CASE PrepareNew(r) \/ Confirm(r) \/ ConfirmUnknown(r) \/ Record(r)
  BY <1>2 DEF PrepareNew, Confirm, ConfirmUnknown, Record
<1> QED BY <1>1, <1>2
        DEF Ingest, Arrive, Acquire, AcquireFails, Release, ReleaseFails, Crash, Index,
            PrepareReuse, PrepareFails, ConfirmDisowned, ConfirmFails, Stage, Activate,
            Deactivate, StageFails, ActivateFails, DeactivateFails, Compensate, Restore,
            Retract, Unstage, Disown, RecordFails, RestoreFails, RetractFails, UnstageFails,
            Synchronize, ReadSnapshot, ReadSnapshotFails, Notify, NotifyFails, NotifyLate,
            localDb

\* The request that acts holds the lock where it is inside it, and what it goes on
\* to send is INDEXED.
LEMMA OwnLock ==
  ASSUME LocalInv, NEW r \in Reqs, HoldsLock(r), SendsIndexed(r), Ingest(r)
  PROVE  HoldsLock(r)' /\ SendsIndexed(r)'
<1> USE DEF At, PcStates, Critical, Working
<1> TypeOK
  BY DEF LocalInv
<1>1. ASSUME req'[r].pc \notin Critical PROVE HoldsLock(r)' /\ SendsIndexed(r)'
  BY <1>1 DEF HoldsLock, SendsIndexed
<1>2. ASSUME req[r].pc \in Critical, holder' = holder, req'[r].pc # "notify"
      PROVE  HoldsLock(r)' /\ SendsIndexed(r)'
  BY <1>2 DEF HoldsLock, SendsIndexed
<1>3. ASSUME NEW d \in Docs, NEW chunks \in SUBSET Chunks, Arrive(r, d, chunks)
      PROVE  req'[r].pc \notin Critical
  BY <1>3, EmptyRecords DEF Arrive, TypeOK, Request
<1>4. CASE AcquireFails(r) \/ ReleaseFails(r) \/ Crash(r)
  BY <1>1, <1>4, IdleRequest DEF AcquireFails, ReleaseFails, Crash
<1>5. CASE Release(r)
  <2>1. req'[r] = IdleReq \/ req'[r] = [IdleReq EXCEPT !.pc = "indexed"]
    BY <1>5 DEF Release, TypeOK
  <2>2. IdleReq.pc = "idle" /\ [IdleReq EXCEPT !.pc = "indexed"].pc = "indexed"
    BY EmptyRecords DEF Request
  <2>3. req'[r].pc = "idle" \/ req'[r].pc = "indexed"
    BY <2>1, <2>2
  <2> QED BY <1>1, <2>3
<1>6. CASE Acquire(r)
  <2>1. holder' = r /\ req'[r].pc \in {"prepare", "snapshot"}
    BY <1>6, GotoRequest DEF Acquire
  <2> QED BY <2>1 DEF HoldsLock, SendsIndexed
<1>7. CASE Index(r)
  <2>1. ASSUME PrepareReuse(r) \/ PrepareNew(r) PROVE req'[r].pc = "stage"
    BY <2>1, InsertedRun DEF PrepareReuse, PrepareNew, LocalInv, RequestsHaveRuns
  <2>2. ASSUME Confirm(r) PROVE req'[r].pc = "release"
    BY <2>2 DEF Confirm, TypeOK, Request
  <2>3. ASSUME \/ PrepareFails(r) \/ Stage(r) \/ Activate(r) \/ Deactivate(r)
               \/ ConfirmDisowned(r) \/ ConfirmFails(r) \/ ConfirmUnknown(r)
               \/ \E points \in SUBSET (Docs \X Chunks) :
                    \/ StageFails(r, points) \/ ActivateFails(r, points)
                    \/ DeactivateFails(r, points)
        PROVE  req'[r].pc # "notify"
    BY <2>3, GotoRequest
       DEF PrepareFails, Stage, AfterStaging, Activate, Deactivate, ConfirmDisowned,
           ConfirmFails, ConfirmUnknown, StageFails, ActivateFails, DeactivateFails
  <2>4. req[r].pc \in Critical /\ holder' = holder
    BY <1>7
       DEF Index, PrepareReuse, PrepareNew, PrepareFails, Stage, Activate, Deactivate,
           Confirm, ConfirmDisowned, ConfirmFails, ConfirmUnknown, StageFails,
           ActivateFails, DeactivateFails
  <2> QED BY <1>2, <1>7, <2>1, <2>2, <2>3, <2>4 DEF Index
<1>8. CASE Compensate(r)
  <2>1. req'[r].pc # "notify"
    BY <1>8, GotoRequest
       DEF Compensate, Restore, RestoreFails, AfterRestore, Retract, RetractFails, Unstage,
           UnstageFails, Record, RecordFails, Disown
  <2>2. req[r].pc \in Critical /\ holder' = holder
    BY <1>8
       DEF Compensate, Restore, RestoreFails, Retract, RetractFails, Unstage,
           UnstageFails, Record, RecordFails, Disown
  <2> QED BY <1>2, <2>1, <2>2
<1>9. CASE Synchronize(r)
  <2>1. req[r].pc \in {"snapshot", "notify"} /\ UNCHANGED <<localDb, holder>>
    BY <1>9 DEF Synchronize, ReadSnapshot, ReadSnapshotFails, Notify, NotifyFails, NotifyLate
  <2>2. ASSUME NEW d \in Docs, ReadSnapshot(r, d) PROVE SendsIndexed(r)'
    <3>1. req'[r].doc = d
      BY <2>2, EmptyRecords DEF ReadSnapshot, TypeOK, Request
    <3>2. Indexed(d)
      BY <2>2 DEF ReadSnapshot, Snapshots
    <3> QED BY <2>1, <3>1, <3>2 DEF SendsIndexed, Indexed, localDb
  <2>3. ASSUME ReadSnapshotFails(r) \/ Notify(r) \/ NotifyFails(r) PROVE SendsIndexed(r)'
    <3>1. Goto(r, "release")
      BY <2>3 DEF ReadSnapshotFails, Notify, NotifyFails
    <3>2. req'[r].pc = "release"
      BY <3>1, GotoRequest
    <3> QED BY <3>2 DEF SendsIndexed
  <2>4. ASSUME NotifyLate(r) PROVE SendsIndexed(r)'
    <3>1. req'[r].doc = req[r].doc /\ req[r].pc = "notify"
      BY <2>4, GotoRequest DEF NotifyLate
    <3>2. doc' = doc /\ Indexed(req[r].doc)
      BY <2>1, <3>1 DEF SendsIndexed, localDb
    <3> QED BY <3>1, <3>2 DEF SendsIndexed, Indexed
  <2>5. SendsIndexed(r)'
    BY <1>9, <2>2, <2>3, <2>4 DEF Synchronize
  <2> QED BY <2>1, <2>5 DEF HoldsLock
<1> QED BY <1>1, <1>3, <1>4, <1>5, <1>6, <1>7, <1>8, <1>9 DEF Ingest

\* Another request keeps the lock, and what it sends stays INDEXED.
LEMMA OthersLock ==
  ASSUME LocalInv, NEW r \in Reqs, NEW q \in Reqs \ {r}, Ingest(r),
         HoldsLock(r), HoldsLock(q), SendsIndexed(q)
  PROVE  HoldsLock(q)' /\ SendsIndexed(q)'
<1>1. req'[q] = req[q]
  BY OthersWait DEF LocalInv
<1>2. CASE req[q].pc \notin Critical
  BY <1>1, <1>2 DEF HoldsLock, SendsIndexed, Critical
<1>3. CASE req[q].pc \in Critical
  <2>1. holder = q /\ req[r].pc \notin Critical
    BY <1>3 DEF HoldsLock
  <2>2. UNCHANGED <<localDb, holder>>
    BY <2>1, OutsideLock
  <2> QED BY <1>1, <2>1, <2>2 DEF HoldsLock, SendsIndexed, localDb, Indexed
<1> QED BY <1>2, <1>3

\* The lock excludes, and what is sent is INDEXED, after every step.
LEMMA CallbackStep ==
  ASSUME LocalInv, CallbackInv, [Next]_vars
  PROVE  CallbackInv'
<1>1. CASE Next
  <2>1. faults \subseteq faults'
    BY <1>1, FaultsStay
  <2>2. ASSUME LockKept', NEW q \in Reqs PROVE HoldsLock(q)' /\ SendsIndexed(q)'
    <3>1. LockKept /\ ~LoseLock
      BY <2>1, <2>2 DEF LockKept, Without, LoseLock, Fault
    <3>2. \A r \in Reqs : HoldsLock(r) /\ SendsIndexed(r)
      BY <3>1 DEF CallbackInv
    <3>3. CASE \E d \in Docs : LateArrives(d)
      BY <3>2, <3>3 DEF LateArrives, localDb, HoldsLock, SendsIndexed, Indexed
    <3>4. CASE Ingest(q)
      BY <3>2, <3>4, OwnLock
    <3>5. ASSUME NEW r \in Reqs \ {q}, Ingest(r) PROVE HoldsLock(q)' /\ SendsIndexed(q)'
      BY <3>2, <3>5, OthersLock
    <3> QED BY <1>1, <3>1, <3>3, <3>4, <3>5 DEF Next
  <2>3. ASSUME Without({"late"})' PROVE late' = {}
    <3>1. Without({"late"}) /\ late = {}
      BY <2>1, <2>3 DEF Without, CallbackInv
    <3>2. \A r \in Reqs : ~NotifyLate(r)
      BY <2>3 DEF NotifyLate, Fault, Without
    <3> QED BY <1>1, <3>1, <3>2
            DEF Next, Ingest, Arrive, Acquire, AcquireFails, Release, ReleaseFails, Crash,
                LateArrives, LoseLock, Index, PrepareReuse, PrepareNew, PrepareFails,
                Confirm, ConfirmDisowned, ConfirmFails, ConfirmUnknown, Stage, Activate,
                Deactivate, StageFails, ActivateFails, DeactivateFails, Compensate,
                Restore, Retract, Unstage, Record, Disown, RecordFails, RestoreFails,
                RetractFails, UnstageFails, Synchronize, ReadSnapshot, ReadSnapshotFails,
                Notify, NotifyFails, callback
  <2> QED BY <2>2, <2>3 DEF CallbackInv
<1>2. CASE UNCHANGED vars
  BY <1>2 DEF vars, CallbackInv, LockKept, HoldsLock, SendsIndexed, Without, Indexed
<1> QED BY <1>1, <1>2

\* What the backend is given by a step is INDEXED after it.
LEMMA SentIsIndexed ==
  ASSUME CallbackInv, [Next]_vars
  PROVE  Without({"late", "lock"}) /\ synced' # synced => Indexed(synced')
<1> SUFFICES ASSUME Without({"late", "lock"}), synced' # synced PROVE Indexed(synced')
  OBVIOUS
<1>1. late = {} /\ \A r \in Reqs : SendsIndexed(r)
  BY DEF CallbackInv, LockKept, Without
<1>2. CASE \E r \in Reqs : Notify(r) \/ NotifyFails(r)
  BY <1>1, <1>2 DEF SendsIndexed, Notify, NotifyFails, At
<1>3. CASE UNCHANGED synced
  BY <1>3
<1> QED BY <1>1, <1>2, <1>3
        DEF Next, Ingest, Arrive, Acquire, AcquireFails, Release, ReleaseFails, Crash,
            LateArrives, LoseLock, Index, PrepareReuse, PrepareNew, PrepareFails,
            Confirm, ConfirmDisowned, ConfirmFails, ConfirmUnknown, Stage, Activate,
            Deactivate, StageFails, ActivateFails, DeactivateFails, Compensate,
            Restore, Retract, Unstage, Record, Disown, RecordFails, RestoreFails,
            RetractFails, UnstageFails, Synchronize, ReadSnapshot, ReadSnapshotFails,
            NotifyLate, callback, vars

(***************************************************************************)
(* What a search sees, as long as every fault is undone: SearchNeverLost   *)
(* and QuietMeansExact.                                                    *)
(***************************************************************************)

Settled == Without({"crash", "compensation", "commit", "lock"})

\* The places where the previous document may be hidden already.
Switching == {"deactivate", "confirm", "restore"}

\* The document's points are there, to be found or to be found again.
Whole(d) == doc[d].chunks # {} /\ {d} \X doc[d].chunks \subseteq stored

AllSearchable == \A d \in Docs : Indexed(d) => Searchable(d)

\* A request knows whether its document is INDEXED, and undoes only a new one.
ReuseKnown(r) ==
  /\ req[r].pc \in Working /\ req[r].reuse => Indexed(req[r].doc)
  /\ req[r].pc \in Working /\ ~req[r].reuse => ~Indexed(req[r].doc)
  /\ req[r].pc \in {"retract", "unstage"} => ~req[r].reuse

\* The new document can be found before the previous one is hidden.
SearchInv ==
  Settled =>
    /\ \A d \in Docs : Indexed(d) => Whole(d)
    /\ \A r \in Reqs : ReuseKnown(r)
    /\ AllSearchable \/ \E r \in Reqs : req[r].pc \in Switching /\ Searchable(req[r].doc)

\* The points of the documents the Local RAG DB offers.
Shown == {p \in Docs \X Chunks : Indexed(p[1]) /\ p[2] \in doc[p[1]].chunks}

\* What a search sees on top of them, at each place of the switch.
ShownAnd(r) ==
  /\ req[r].pc = "deactivate" => active = Shown \cup Staged(r)
  /\ req[r].pc = "confirm" => active = Staged(r)
  /\ req[r].pc \in {"restore", "retract"} => active \subseteq Shown \cup Staged(r)
  /\ req[r].pc = "restore" /\ req[r].reuse => Staged(r) \subseteq active
  /\ req[r].pc = "retract" => Shown \subseteq active

Full(r) == req[r].pc \in {"waiting", "prepare"} \cup Working => req[r].chunks = Chunks

ExactInv ==
  Settled /\ Without({"chunks"}) =>
    /\ \A d \in Docs : Indexed(d) => doc[d].chunks = Chunks
    /\ \A r \in Reqs : Full(r) /\ ShownAnd(r)
    /\ (\A r \in Reqs : req[r].pc \notin Switching \cup {"retract"}) => active = Shown

\* The steps of a request inside its indexing that change what is stored, shown or
\* known, when nothing happens that is not undone.
Works(r) ==
  \/ PrepareReuse(r) \/ PrepareNew(r) \/ Stage(r) \/ Activate(r) \/ Deactivate(r)
  \/ Confirm(r) \/ ConfirmFails(r) \/ Restore(r) \/ Retract(r) \/ Unstage(r) \/ Record(r)
  \/ \E points \in SUBSET (Docs \X Chunks) :
       StageFails(r, points) \/ ActivateFails(r, points) \/ DeactivateFails(r, points)

\* All others leave documents and points alone and are not at work.
Aside ==
  /\ UNCHANGED <<doc, qdrant>>
  /\ \A q \in Reqs :
       req'[q] = req[q] \/ (req[q].pc \notin Working /\ req'[q].pc \notin Working)

\* One or the other is all that happens then.
LEMMA SettledStep ==
  ASSUME LockedInv, Next, Settled'
  PROVE  Settled /\ Trusted /\ Trusted' /\ (Aside \/ \E r \in Reqs : Works(r))
<1> USE DEF At, Fault, Settled, Without
<1>1. faults \subseteq faults'
  BY FaultsStay
<1>2. Settled /\ Trusted /\ Trusted'
  BY <1>1 DEF Trusted
<1>3. TypeOK /\ LocalInv
  BY DEF LockedInv, LocalInv
<1>4. ASSUME NEW d \in Docs, LateArrives(d) PROVE Aside
  BY <1>4 DEF LateArrives, Aside, localDb
<1>5. ~LoseLock
  BY DEF LoseLock
<1>6. ASSUME NEW r \in Reqs, Ingest(r), ~Works(r) PROVE Aside
  <2>1. \A q \in Reqs \ {r} : req'[q] = req[q]
    BY <1>3, <1>6, OthersWait
  <2>2. ~Crash(r) /\ ~ConfirmUnknown(r)
    BY DEF Crash, ConfirmUnknown
  <2>3. req[r].pc \in Working => Owns(r)
    BY <1>2 DEF LockedInv, LockExcludes
  <2>4. ASSUME NEW d \in Docs, NEW chunks \in SUBSET Chunks, Arrive(r, d, chunks)
        PROVE  /\ UNCHANGED <<doc, qdrant>>
               /\ req[r].pc \notin Working /\ req'[r].pc \notin Working
    <3>1. req'[r].pc = "waiting"
      BY <1>3, <2>4, EmptyRecords DEF Arrive, TypeOK, Request
    <3> QED BY <2>4, <3>1 DEF Arrive, localDb, Working
  <2>5. ASSUME AcquireFails(r) \/ ReleaseFails(r)
        PROVE  /\ UNCHANGED <<doc, qdrant>>
               /\ req[r].pc \notin Working /\ req'[r].pc \notin Working
    BY <1>3, <2>5, IdleRequest DEF AcquireFails, ReleaseFails, localDb, Working
  <2>6. ASSUME Release(r)
        PROVE  /\ UNCHANGED <<doc, qdrant>>
               /\ req[r].pc \notin Working /\ req'[r].pc \notin Working
    <3>1. req'[r] = IdleReq \/ req'[r] = [IdleReq EXCEPT !.pc = "indexed"]
      BY <1>3, <2>6 DEF Release, TypeOK
    <3>2. IdleReq.pc = "idle" /\ [IdleReq EXCEPT !.pc = "indexed"].pc = "indexed"
      BY EmptyRecords DEF Request
    <3>3. req'[r].pc = "idle" \/ req'[r].pc = "indexed"
      BY <3>1, <3>2
    <3> QED BY <2>6, <3>3 DEF Release, localDb, Working
  <2>7. ASSUME Acquire(r) \/ PrepareFails(r) \/ Disown(r)
        PROVE  /\ UNCHANGED <<doc, qdrant>>
               /\ req[r].pc \notin Working /\ req'[r].pc \notin Working
    <3>1. PICK pc \in {"prepare", "snapshot", "release"} : Goto(r, pc)
      BY <2>7 DEF Acquire, PrepareFails, Disown
    <3>2. req'[r].pc = pc
      BY <1>3, <3>1, GotoRequest DEF PcStates, Critical
    <3> QED BY <2>7, <3>2 DEF Acquire, PrepareFails, Disown, localDb, Working
  <2>8. ASSUME Synchronize(r)
        PROVE  /\ UNCHANGED <<doc, qdrant>>
               /\ req[r].pc \notin Working /\ req'[r].pc \notin Working
    <3>1. req[r].pc \in {"snapshot", "notify"} /\ UNCHANGED <<doc, qdrant>>
      BY <2>8
         DEF Synchronize, ReadSnapshot, ReadSnapshotFails, Notify, NotifyFails, NotifyLate,
             localDb
    <3>2. ASSUME NEW d \in Docs, ReadSnapshot(r, d) PROVE req'[r].pc = "notify"
      BY <1>3, <3>2, EmptyRecords DEF ReadSnapshot, TypeOK, Request
    <3>3. ASSUME Goto(r, "notify") \/ Goto(r, "release")
          PROVE  req'[r].pc \in {"notify", "release"}
      BY <1>3, <3>3, GotoRequest DEF PcStates, Critical
    <3>4. req'[r].pc \in {"notify", "release"}
      BY <2>8, <3>2, <3>3 DEF Synchronize, ReadSnapshotFails, Notify, NotifyFails, NotifyLate
    <3> QED BY <3>1, <3>4 DEF Working
  <2>9. ~ConfirmDisowned(r)
    BY <2>3 DEF ConfirmDisowned, Working
  <2>10. \A points :
           ~RestoreFails(r, points) /\ ~RetractFails(r, points) /\ ~UnstageFails(r, points)
    BY DEF RestoreFails, RetractFails, UnstageFails
  <2>11. ~RecordFails(r)
    BY DEF RecordFails
  <2>12. Index(r) \/ Compensate(r) => PrepareFails(r) \/ Disown(r)
    BY <1>6, <2>2, <2>9, <2>10, <2>11 DEF Index, Compensate, Works
  <2> QED BY <1>6, <2>1, <2>2, <2>4, <2>5, <2>6, <2>7, <2>8, <2>12 DEF Ingest, Aside
<1> QED BY <1>2, <1>4, <1>5, <1>6 DEF Next

\* A request that works is alone in it, and keeps what it works with.
LEMMA WorksAlone ==
  ASSUME LockedInv, Trusted, NEW r \in Reqs, Works(r)
  PROVE  /\ req[r].pc \in Working \cup {"prepare"} /\ req[r].doc \in Docs
         /\ \A q \in Reqs \ {r} : req'[q] = req[q] /\ req[q].pc \notin Critical
         /\ req'[r].doc = req[r].doc /\ req'[r].chunks = req[r].chunks
         /\ ~PrepareReuse(r) /\ ~PrepareNew(r) =>
              req'[r].reuse = req[r].reuse /\ req'[r].prev = req[r].prev
<1> USE DEF At, Working, Critical
<1>1. TypeOK /\ LocalInv
  BY DEF LockedInv, LocalInv
<1>2. req[r].pc \in Working \cup {"prepare"} /\ req[r].doc \in Docs
  <2>1. req[r].pc \in Working \cup {"prepare"}
    BY DEF Works, PrepareReuse, PrepareNew, Stage, Activate, Deactivate, Confirm, ConfirmFails,
           Restore, Retract, Unstage, Record, StageFails, ActivateFails, DeactivateFails
  <2> QED BY <1>1, <2>1 DEF LocalInv, RequestsHaveRuns
<1>3. \A q \in Reqs \ {r} : req[q].pc \notin Critical
  BY <1>2, Alone
<1>4. \A q \in Reqs \ {r} : req'[q] = req[q]
  BY <1>1, OthersWait DEF Works, Ingest, Index, Compensate
<1>5. CASE PrepareReuse(r) \/ PrepareNew(r)
  BY <1>1, <1>2, <1>3, <1>4, <1>5, InsertedRun DEF PrepareReuse, PrepareNew
<1>6. CASE Confirm(r)
  <2>1. req'[r] = [req[r] EXCEPT !.pc = "release", !.ok = TRUE]
    BY <1>1, <1>6 DEF Confirm, TypeOK
  <2>2. /\ req'[r].doc = req[r].doc /\ req'[r].chunks = req[r].chunks
        /\ req'[r].reuse = req[r].reuse /\ req'[r].prev = req[r].prev
    BY <1>1, <2>1 DEF TypeOK, Request
  <2> QED BY <1>2, <1>3, <1>4, <2>2
<1>7. CASE ~PrepareReuse(r) /\ ~PrepareNew(r) /\ ~Confirm(r)
  <2>1. PICK pc \in PcStates : Goto(r, pc)
    BY <1>7
       DEF Works, Stage, Activate, Deactivate, ConfirmFails, Restore, Retract, Unstage, Record,
           StageFails, ActivateFails, DeactivateFails, AfterStaging, AfterRestore, PcStates
  <2> QED BY <1>1, <1>2, <1>3, <1>4, <2>1, GotoRequest
<1> QED BY <1>5, <1>6, <1>7

\* Where a request goes on to.
LEMMA WorksTo ==
  ASSUME TypeOK, NEW r \in Reqs, req[r].doc \in Docs, Works(r)
  PROVE  /\ PrepareReuse(r) \/ PrepareNew(r) => req'[r].pc = "stage"
         /\ Stage(r) => req'[r].pc = IF req[r].reuse THEN "deactivate" ELSE "activate"
         /\ Activate(r) => req'[r].pc = "deactivate"
         /\ Deactivate(r) => req'[r].pc = "confirm"
         /\ Confirm(r) \/ Record(r) => req'[r].pc = "release"
         /\ ConfirmFails(r) => req'[r].pc = "restore"
         /\ Restore(r) => req'[r].pc = IF req[r].reuse THEN "record" ELSE "retract"
         /\ Retract(r) => req'[r].pc = "unstage"
         /\ Unstage(r) => req'[r].pc = "record"
         /\ \A points \in SUBSET (Docs \X Chunks) :
              /\ StageFails(r, points) =>
                   req'[r].pc = IF req[r].reuse THEN "record" ELSE "unstage"
              /\ ActivateFails(r, points) \/ DeactivateFails(r, points) =>
                   req'[r].pc = "restore"
<1> USE DEF PcStates, Critical, Working
<1>1. PrepareReuse(r) \/ PrepareNew(r) => req'[r].pc = "stage"
  BY InsertedRun DEF PrepareReuse, PrepareNew
<1>2. Confirm(r) => req'[r].pc = "release"
  BY DEF Confirm, TypeOK, Request
<1>3. ASSUME NEW pc \in PcStates, Goto(r, pc) PROVE req'[r].pc = pc
  BY <1>3, GotoRequest
<1>4. Stage(r) => req'[r].pc = IF req[r].reuse THEN "deactivate" ELSE "activate"
  BY <1>3 DEF Stage, AfterStaging
<1>5. Restore(r) => req'[r].pc = IF req[r].reuse THEN "record" ELSE "retract"
  BY <1>3 DEF Restore, AfterRestore
<1>6. ASSUME NEW points \in SUBSET (Docs \X Chunks)
      PROVE  /\ StageFails(r, points) =>
                  req'[r].pc = IF req[r].reuse THEN "record" ELSE "unstage"
             /\ ActivateFails(r, points) \/ DeactivateFails(r, points) =>
                  req'[r].pc = "restore"
  BY <1>3 DEF StageFails, ActivateFails, DeactivateFails
<1>7. /\ Activate(r) => req'[r].pc = "deactivate"
      /\ Deactivate(r) => req'[r].pc = "confirm"
      /\ Record(r) => req'[r].pc = "release"
      /\ ConfirmFails(r) => req'[r].pc = "restore"
      /\ Retract(r) => req'[r].pc = "unstage"
      /\ Unstage(r) => req'[r].pc = "record"
  BY <1>3 DEF Activate, Deactivate, Record, ConfirmFails, Retract, Unstage
<1> QED BY <1>1, <1>2, <1>4, <1>5, <1>6, <1>7

\* Only a run that is confirmed changes which documents are INDEXED, and nothing
\* changes the chunks of one that is.
LEMMA IndexedStays ==
  ASSUME TypeOK, NEW r \in Reqs, req[r].doc \in Docs, Works(r), ~Confirm(r)
  PROVE  \A d \in Docs : /\ Indexed(d)' <=> Indexed(d)
                         /\ Indexed(d) => doc'[d].chunks = doc[d].chunks
<1>1. CASE UNCHANGED doc
  BY <1>1 DEF Indexed
<1>2. CASE PrepareNew(r)
  <2>1. /\ ~Indexed(req[r].doc) /\ doc'[req[r].doc].status = "INDEXING"
        /\ \A d \in Docs \ {req[r].doc} : doc'[d] = doc[d]
    BY <1>2 DEF PrepareNew, TypeOK
  <2> QED BY <2>1 DEF Indexed
<1>3. CASE Record(r)
  <2>1. CASE UNCHANGED doc
    BY <2>1 DEF Indexed
  <2>2. CASE /\ doc' = [doc EXCEPT ![req[r].doc].status = "FAILED"]
             /\ doc[req[r].doc].status = "INDEXING"
    <3>1. /\ ~Indexed(req[r].doc) /\ doc'[req[r].doc].status = "FAILED"
          /\ \A d \in Docs \ {req[r].doc} : doc'[d] = doc[d]
      BY <2>2 DEF TypeOK, DocRow, Indexed
    <3> QED BY <3>1 DEF Indexed
  <2> QED BY <1>3, <2>1, <2>2 DEF Record
<1> QED BY <1>1, <1>2, <1>3
        DEF Works, PrepareReuse, Stage, Activate, Deactivate, ConfirmFails, Restore, Retract,
            Unstage, StageFails, ActivateFails, DeactivateFails, localDb

\* A request knows whether its document is INDEXED.
LEMMA ReuseStep ==
  ASSUME LockedInv, Trusted, NEW r \in Reqs, Works(r), \A q \in Reqs : ReuseKnown(q)
  PROVE  \A q \in Reqs : ReuseKnown(q)'
<1> USE DEF At, Working, Critical
<1>1. TypeOK /\ LocalInv
  BY DEF LockedInv, LocalInv
<1>2. \A q \in Reqs \ {r} : ReuseKnown(q)'
  BY WorksAlone DEF ReuseKnown
<1>3. ASSUME Confirm(r) \/ Record(r) PROVE ReuseKnown(r)'
  BY <1>1, <1>3, WorksAlone, WorksTo DEF ReuseKnown
<1>4. ASSUME PrepareReuse(r) \/ PrepareNew(r) PROVE ReuseKnown(r)'
  <2>1. req'[r].pc = "stage" /\ req'[r].doc = req[r].doc /\ req[r].doc \in Docs
    BY <1>1, <1>4, WorksAlone, WorksTo
  <2>2. /\ PrepareReuse(r) => req'[r].reuse /\ Indexed(req[r].doc)
        /\ PrepareNew(r) => ~req'[r].reuse /\ ~Indexed(req[r].doc)
    BY <1>1, <2>1, InsertedRun DEF PrepareReuse, PrepareNew
  <2>3. Indexed(req[r].doc)' <=> Indexed(req[r].doc)
    <3>1. ~Confirm(r)
      BY <1>4 DEF PrepareReuse, PrepareNew, Confirm
    <3> QED BY <1>1, <2>1, <3>1, IndexedStays
  <2> QED BY <1>4, <2>1, <2>2, <2>3 DEF ReuseKnown, Indexed
<1>5. ASSUME ~PrepareReuse(r), ~PrepareNew(r), ~Confirm(r), ~Record(r) PROVE ReuseKnown(r)'
  <2>1. /\ req[r].pc \in Working /\ req[r].doc \in Docs
        /\ req'[r].doc = req[r].doc /\ req'[r].reuse = req[r].reuse
    BY <1>5, WorksAlone
       DEF Works, Stage, Activate, Deactivate, ConfirmFails, Restore, Retract, Unstage,
           StageFails, ActivateFails, DeactivateFails
  <2>2. Indexed(req[r].doc)' <=> Indexed(req[r].doc)
    BY <1>1, <1>5, <2>1, IndexedStays
  <2>3. req'[r].pc \in {"retract", "unstage"} => ~req[r].reuse
    BY <1>1, <1>5, <2>1, WorksTo DEF Works, Retract, ReuseKnown
  <2> QED BY <2>1, <2>2, <2>3 DEF ReuseKnown, Indexed
<1> QED BY <1>2, <1>3, <1>4, <1>5

\* The documents that are INDEXED, and points that are not taken from them.
LEMMA SearchableStays ==
  ASSUME TypeOK, NEW r \in Reqs, req[r].doc \in Docs, Works(r), ~Confirm(r), AllSearchable,
         \A d \in Docs : Indexed(d) =>
           \A c \in doc[d].chunks : <<d, c>> \in active => <<d, c>> \in active'
  PROVE  AllSearchable'
<1> SUFFICES ASSUME NEW d \in Docs, Indexed(d)' PROVE Searchable(d)'
  BY DEF AllSearchable
<1>1. Indexed(d) /\ doc'[d].chunks = doc[d].chunks
  BY IndexedStays
<1>2. doc[d].chunks # {} /\ \A c \in doc[d].chunks : <<d, c>> \in active
  BY <1>1 DEF AllSearchable, Searchable
<1>3. \A c \in doc'[d].chunks : <<d, c>> \in active'
  BY <1>1, <1>2
<1> QED BY <1>1, <1>2, <1>3 DEF Searchable

\* Where the previous document is not hidden yet, or is shown again.
LEMMA NotSwitching ==
  ASSUME LockedInv, Trusted, SearchInv, Settled, NEW r \in Reqs, Works(r),
         req[r].pc \notin Switching
  PROVE  AllSearchable
<1>1. \A q \in Reqs : req[q].pc \notin Switching
  BY WorksAlone DEF Switching, Critical, Working
<1> QED BY <1>1 DEF SearchInv

\* The points of an INDEXED document stay stored.
LEMMA WholeStep ==
  ASSUME LockedInv, Trusted, SearchInv, Settled, NEW r \in Reqs, Works(r)
  PROVE  \A d \in Docs : Indexed(d)' => Whole(d)'
<1> USE DEF At, Working
<1>1. TypeOK /\ LocalInv /\ req[r].doc \in Docs /\ Exclusive(r) /\ Followed(r) /\ ReuseKnown(r)
  BY WorksAlone
     DEF LockedInv, LocalInv, LockExcludes, PointsFollow, Exclusive, Followed, SearchInv
<1>2. CASE Confirm(r)
  <2>1. \A d \in Docs : Indexed(d)' => d = req[r].doc
    BY <1>1, <1>2, ConfirmLeavesOne
  <2>2. doc'[req[r].doc].chunks = req[r].chunks /\ req[r].chunks # {}
    <3>1. req[r].run \in Runs
      BY <1>1, <1>2, ClosingStep
    <3>2. doc'[req[r].doc].chunks = doc[req[r].doc].chunks
      BY <1>1, <1>2, <3>1, ConfirmedRows DEF Confirm
    <3> QED BY <1>1, <1>2, <3>2 DEF Confirm, Exclusive, Followed
  <2>3. Staged(r) \subseteq stored'
    BY <1>1, <1>2 DEF Confirm, Followed, TypeOK, qdrant
  <2> QED BY <2>1, <2>2, <2>3 DEF Whole, Staged
<1>3. CASE ~Confirm(r)
  <2>1. ASSUME NEW d \in Docs, Indexed(d)' PROVE Whole(d)'
    <3>1. Indexed(d) /\ doc'[d].chunks = doc[d].chunks
      BY <1>1, <1>3, <2>1, IndexedStays
    <3>2. doc[d].chunks # {} /\ \A c \in doc[d].chunks : <<d, c>> \in stored
      BY <3>1 DEF SearchInv, Whole
    <3>3. CASE stored \subseteq stored'
      BY <3>1, <3>2, <3>3 DEF Whole
    <3>4. CASE Unstage(r)
      <4>1. d # req[r].doc
        BY <1>1, <3>1, <3>4 DEF Unstage, ReuseKnown
      <4>2. \A c \in doc[d].chunks : <<d, c>> \in stored'
        BY <3>2, <3>4, <4>1 DEF Unstage, Delete, Staged
      <4> QED BY <3>1, <3>2, <4>2 DEF Whole
    <3> QED BY <1>3, <3>3, <3>4
            DEF Works, PrepareReuse, PrepareNew, Stage, Upsert, Activate, Deactivate,
                ConfirmFails, Restore, Retract, Record, StageFails, ActivateFails,
                DeactivateFails, qdrant
  <2> QED BY <2>1
<1> QED BY <1>2, <1>3

\* Some document can be found whole while points are switched.
LEMMA SwitchStep ==
  ASSUME LockedInv, Trusted, SearchInv, Settled, NEW r \in Reqs, Works(r)
  PROVE  AllSearchable' \/ (req'[r].pc \in Switching /\ Searchable(req[r].doc)')
<1> DEFINE d == req[r].doc
<1> USE DEF At, Working
<1>1. /\ TypeOK /\ LocalInv /\ d \in Docs /\ Exclusive(r) /\ Followed(r) /\ ReuseKnown(r)
      /\ \A e \in Docs : Indexed(e) => Whole(e)
  BY WorksAlone
     DEF LockedInv, LocalInv, LockExcludes, PointsFollow, Exclusive, Followed, SearchInv
<1>2. req[r].pc \notin Switching => AllSearchable
  BY NotSwitching
<1>3. ASSUME req[r].pc \in {"deactivate", "confirm"} PROVE Searchable(d)
  BY <1>1, <1>3 DEF Exclusive, Followed, Searchable, Staged
<1>4. CASE \/ PrepareReuse(r) \/ PrepareNew(r) \/ Stage(r) \/ Activate(r) \/ Retract(r)
           \/ Unstage(r) \/ Record(r)
           \/ \E points \in SUBSET (Docs \X Chunks) :
                StageFails(r, points) \/ ActivateFails(r, points)
  <2>1. AllSearchable /\ ~Confirm(r)
    BY <1>2, <1>4
       DEF PrepareReuse, PrepareNew, Stage, Activate, Retract, Unstage, Record, StageFails,
           ActivateFails, Switching, Confirm
  <2>2. CASE active \subseteq active'
    BY <1>1, <2>1, <2>2, SearchableStays
  <2>3. CASE ~Indexed(d) /\ \A p \in active \ active' : p[1] = d
    BY <1>1, <2>1, <2>3, SearchableStays
  <2>4. ASSUME NEW points \in SUBSET (Docs \X Chunks), Stage(r) \/ StageFails(r, points)
        PROVE  \/ active \subseteq active'
               \/ ~Indexed(d) /\ \A p \in active \ active' : p[1] = d
    <3>1. \A p \in Staged(r) : p[1] = d
      BY DEF Staged
    <3>2. ~req[r].reuse => ~Indexed(d)
      BY <1>1, <2>4 DEF Stage, StageFails, ReuseKnown
    <3> QED BY <2>4, <3>1, <3>2 DEF Stage, StageFails, Upsert
  <2>5. ASSUME Retract(r) \/ Unstage(r)
        PROVE  ~Indexed(d) /\ \A p \in active \ active' : p[1] = d
    <3>1. ~Indexed(d)
      BY <1>1, <2>5 DEF Retract, Unstage, ReuseKnown
    <3> QED BY <2>5, <3>1 DEF Retract, Unstage, Delete, Staged, PointsOf
  <2>6. ASSUME NEW points \in SUBSET (Docs \X Chunks),
               \/ PrepareReuse(r) \/ PrepareNew(r) \/ Activate(r) \/ Record(r)
               \/ ActivateFails(r, points)
        PROVE  active \subseteq active'
    BY <2>6 DEF PrepareReuse, PrepareNew, Activate, Record, ActivateFails, qdrant
  <2> QED BY <1>4, <2>2, <2>3, <2>4, <2>5, <2>6
<1>5. CASE \/ Deactivate(r) \/ ConfirmFails(r)
           \/ \E points \in SUBSET (Docs \X Chunks) : DeactivateFails(r, points)
  <2>1. req[r].pc \in {"deactivate", "confirm"} /\ req'[r].pc \in Switching /\ doc' = doc
    BY <1>1, <1>5, WorksTo
       DEF Deactivate, ConfirmFails, DeactivateFails, Switching, localDb
  <2>2. \A p \in active \ active' : p[1] # d
    <3>1. d \notin req[r].prev
      BY <1>1, <2>1 DEF Exclusive
    <3> QED BY <1>5, <3>1 DEF Deactivate, ConfirmFails, DeactivateFails, PointsOf, qdrant
  <2>3. doc[d].chunks # {} /\ \A c \in doc[d].chunks : <<d, c>> \in active
    BY <1>3, <2>1 DEF Searchable
  <2>4. req'[r].doc = d
    BY WorksAlone
  <2> QED BY <2>1, <2>2, <2>3, <2>4 DEF Searchable
<1>6. CASE Confirm(r)
  <2>1. \A e \in Docs : Indexed(e)' => e = d
    BY <1>1, <1>6, ConfirmLeavesOne
  <2>2. req[r].run \in Runs
    BY <1>1, <1>6, ClosingStep
  <2>3. doc'[d].chunks = doc[d].chunks /\ active' = active
    BY <1>1, <1>6, <2>2, ConfirmedRows DEF Confirm, qdrant
  <2>4. Searchable(d)
    BY <1>3, <1>6 DEF Confirm
  <2> QED BY <2>1, <2>3, <2>4 DEF AllSearchable, Searchable
<1>7. CASE Restore(r)
  <2>1. ASSUME NEW e \in Docs, Indexed(e) PROVE Searchable(e)'
    <3>1. CASE e # d
      <4>1. e \in req[r].prev
        BY <1>1, <1>7, <2>1, <3>1
           DEF Restore, Exclusive, LocalInv, OwnerKnowsPrevious, PreviousOf
      <4>2. \A c \in doc[e].chunks : <<e, c>> \in PointsOf(req[r].prev)
        BY <1>1, <2>1, <4>1 DEF Whole, PointsOf
      <4>3. doc' = doc /\ active' = active \cup PointsOf(req[r].prev) /\ doc[e].chunks # {}
        BY <1>1, <1>7, <2>1 DEF Restore, localDb, Whole
      <4> QED BY <4>2, <4>3 DEF Searchable
    <3>2. CASE e = d
      <4>1. Searchable(d)
        <5>1. CASE AllSearchable
          BY <1>1, <2>1, <3>2, <5>1 DEF AllSearchable
        <5>2. CASE \E q \in Reqs : req[q].pc \in Switching /\ Searchable(req[q].doc)
          BY <5>2, WorksAlone DEF Switching, Critical
        <5> QED BY <5>1, <5>2 DEF SearchInv
      <4> QED BY <1>7, <3>2, <4>1 DEF Restore, localDb, Searchable
    <3> QED BY <3>1, <3>2
  <2> QED BY <1>7, <2>1 DEF AllSearchable, Restore, localDb, Indexed
<1> QED BY <1>4, <1>5, <1>6, <1>7 DEF Works

\* What a search needs is there after every step.
LEMMA SearchStep ==
  ASSUME LockedInv, SearchInv, Next
  PROVE  SearchInv'
<1> SUFFICES ASSUME Settled'
             PROVE  /\ \A d \in Docs : Indexed(d)' => Whole(d)'
                    /\ \A r \in Reqs : ReuseKnown(r)'
                    /\ \/ AllSearchable'
                       \/ \E r \in Reqs : req'[r].pc \in Switching /\ Searchable(req[r].doc)'
  BY DEF SearchInv
<1>1. Settled /\ Trusted /\ Trusted' /\ (Aside \/ \E r \in Reqs : Works(r))
  BY SettledStep
<1>2. ASSUME NEW r \in Reqs, Works(r)
      PROVE  /\ \A d \in Docs : Indexed(d)' => Whole(d)'
             /\ \A q \in Reqs : ReuseKnown(q)'
             /\ \/ AllSearchable'
                \/ \E q \in Reqs : req'[q].pc \in Switching /\ Searchable(req[q].doc)'
  <2>1. \A q \in Reqs : ReuseKnown(q)'
    BY <1>1, <1>2, ReuseStep DEF SearchInv
  <2> QED BY <1>1, <1>2, <2>1, WholeStep, SwitchStep
<1>3. CASE Aside
  <2>1. UNCHANGED <<doc, stored, active>>
    BY <1>3 DEF Aside, qdrant
  <2>2. \A d \in Docs : Indexed(d)' => Whole(d)'
    BY <1>1, <2>1 DEF SearchInv, Indexed, Whole
  <2>3. ASSUME NEW r \in Reqs PROVE ReuseKnown(r)'
    BY <1>1, <1>3, <2>1 DEF SearchInv, Aside, ReuseKnown, Indexed, Working
  <2>4. AllSearchable => AllSearchable'
    BY <2>1 DEF AllSearchable, Indexed, Searchable
  <2>5. ASSUME NEW r \in Reqs, req[r].pc \in Switching, Searchable(req[r].doc)
        PROVE  req'[r].pc \in Switching /\ Searchable(req[r].doc)'
    <3>1. req'[r] = req[r]
      BY <1>3, <2>5 DEF Aside, Switching, Working
    <3> QED BY <2>1, <2>5, <3>1 DEF Searchable
  <2> QED BY <1>1, <2>2, <2>3, <2>4, <2>5 DEF SearchInv
<1> QED BY <1>1, <1>2, <1>3

\* A request waits because it has arrived.
LEMMA Waits ==
  ASSUME LocalInv, Next, NEW q \in Reqs, req'[q].pc = "waiting", req'[q] # req[q]
  PROVE  \E d \in Docs, chunks \in SUBSET Chunks : Arrive(q, d, chunks)
<1> USE DEF At, PcStates, Critical, Working
<1> TypeOK
  BY DEF LocalInv
<1>1. Ingest(q)
  BY OthersWait DEF Next, LateArrives, LoseLock
<1>2. ASSUME NEW pc \in PcStates \ {"waiting"}, Goto(q, pc) PROVE FALSE
  BY <1>2, GotoRequest
<1>3. ~AcquireFails(q) /\ ~ReleaseFails(q) /\ ~Crash(q)
  BY IdleRequest DEF AcquireFails, ReleaseFails, Crash
<1>4. ~Release(q)
  <2>1. ASSUME Release(q) PROVE FALSE
    <3>1. req'[q] = IdleReq \/ req'[q] = [IdleReq EXCEPT !.pc = "indexed"]
      BY <2>1 DEF Release, TypeOK
    <3>2. IdleReq.pc = "idle" /\ [IdleReq EXCEPT !.pc = "indexed"].pc = "indexed"
      BY EmptyRecords DEF Request
    <3> QED BY <3>1, <3>2
  <2> QED BY <2>1
<1>5. ~Acquire(q)
  BY <1>2 DEF Acquire
<1>6. ASSUME NEW d \in Docs, ReadSnapshot(q, d) PROVE FALSE
  <2>1. req'[q].pc = "notify"
    BY <1>6, EmptyRecords DEF ReadSnapshot, TypeOK, Request
  <2> QED BY <2>1
<1>7. ~Synchronize(q)
  BY <1>2, <1>6 DEF Synchronize, ReadSnapshotFails, Notify, NotifyFails, NotifyLate
<1>8. ~PrepareReuse(q) /\ ~PrepareNew(q) /\ ~Confirm(q)
  <2>1. ~PrepareReuse(q) /\ ~PrepareNew(q)
    BY OpeningStep
  <2>2. ~Confirm(q)
    BY DEF Confirm, TypeOK, Request
  <2> QED BY <2>1, <2>2
<1>9. ~Index(q)
  BY <1>2, <1>8
     DEF Index, PrepareFails, Stage, AfterStaging, Activate, Deactivate, ConfirmDisowned,
         ConfirmFails, ConfirmUnknown, StageFails, ActivateFails, DeactivateFails
<1>10. ~Compensate(q)
  BY <1>2
     DEF Compensate, Restore, RestoreFails, AfterRestore, Retract, RetractFails, Unstage,
         UnstageFails, Record, RecordFails, Disown
<1> QED BY <1>1, <1>3, <1>4, <1>5, <1>7, <1>9, <1>10 DEF Ingest

\* Without a partial parse a request has every chunk.
LEMMA FullStep ==
  ASSUME LocalInv, Next, Without({"chunks"})', NEW q \in Reqs, Full(q)
  PROVE  Full(q)'
<1> USE DEF Working
<1> TypeOK
  BY DEF LocalInv
<1>1. CASE req'[q].pc = "waiting" /\ req'[q] # req[q]
  <2>1. PICK d \in Docs, chunks \in SUBSET Chunks : Arrive(q, d, chunks)
    BY <1>1, Waits
  <2>2. chunks = Chunks
    BY <2>1 DEF Arrive, Fault, Without
  <2>3. req'[q].chunks = chunks
    BY <2>1, EmptyRecords DEF Arrive, TypeOK, Request
  <2> QED BY <2>2, <2>3 DEF Full
<1>2. CASE ~(req'[q].pc = "waiting" /\ req'[q] # req[q])
  <2>1. CASE QuietStep
    BY <1>2, <2>1 DEF QuietStep, Moves, Kept, Full
  <2>2. ASSUME NEW r \in Reqs, PrepareReuse(r) \/ PrepareNew(r) PROVE Full(q)'
    BY <2>2, OpeningStep DEF Full, PrepareReuse, PrepareNew, At
  <2>3. ASSUME NEW r \in Reqs, Confirm(r) \/ ConfirmUnknown(r) \/ Record(r) \/ Disown(r)
        PROVE  Full(q)'
    <3>1. CASE q # r
      BY <2>3, <3>1, ClosingStep DEF Full
    <3>2. Disown(q) => req'[q].pc = "release"
      BY GotoRequest DEF Disown, PcStates, Critical
    <3>3. Confirm(q) \/ ConfirmUnknown(q) \/ Record(q) => req[q].pc \in Working
      BY DEF Confirm, ConfirmUnknown, Record, At
    <3>4. CASE q = r
      BY <2>3, <3>2, <3>3, <3>4, ClosingStep DEF Full, Kept
    <3> QED BY <3>1, <3>4
  <2> QED BY <2>1, <2>2, <2>3, StepKinds
<1> QED BY <1>1, <1>2

\* Where the request that works is the only one that has something to show.
LEMMA OnlyShown ==
  ASSUME LockedInv, Trusted, ExactInv, Settled, Without({"chunks"}), NEW r \in Reqs, Works(r),
         req[r].pc \notin Switching \cup {"retract"}
  PROVE  active = Shown
<1>1. \A q \in Reqs : req[q].pc \notin Switching \cup {"retract"}
  BY WorksAlone DEF Switching, Critical, Working
<1> QED BY <1>1 DEF ExactInv

\* The INDEXED documents have all chunks.
LEMMA ChunksStep ==
  ASSUME LockedInv, Trusted, ExactInv, Settled, Without({"chunks"}), NEW r \in Reqs, Works(r)
  PROVE  \A d \in Docs : Indexed(d)' => doc'[d].chunks = Chunks
<1>1. TypeOK /\ LocalInv /\ req[r].doc \in Docs /\ Exclusive(r) /\ Full(r)
  BY WorksAlone DEF LockedInv, LocalInv, LockExcludes, Exclusive, ExactInv
<1>2. CASE Confirm(r)
  <2>1. \A d \in Docs : Indexed(d)' => d = req[r].doc
    BY <1>1, <1>2, ConfirmLeavesOne
  <2>2. doc'[req[r].doc].chunks = doc[req[r].doc].chunks
    <3>1. req[r].run \in Runs
      BY <1>1, <1>2, ClosingStep
    <3> QED BY <1>1, <1>2, <3>1, ConfirmedRows DEF Confirm
  <2>3. doc[req[r].doc].chunks = Chunks
    BY <1>1, <1>2 DEF Confirm, At, Exclusive, Full, Working
  <2> QED BY <2>1, <2>2, <2>3
<1>3. CASE ~Confirm(r)
  BY <1>1, <1>3, IndexedStays DEF ExactInv
<1> QED BY <1>2, <1>3

\* What is offered changes only when a run is confirmed.
LEMMA ShownStays ==
  ASSUME TypeOK, NEW r \in Reqs, req[r].doc \in Docs, Works(r), ~Confirm(r)
  PROVE  Shown' = Shown
  BY IndexedStays DEF Shown

\* The points a request stages are all its document may have; those it may hide are
\* the rest of what is offered.
LEMMA PointsKnown ==
  ASSUME LockedInv, Trusted, SearchInv, ExactInv, Settled, Without({"chunks"}),
         NEW r \in Reqs, Works(r)
  PROVE  /\ Staged(r) = {req[r].doc} \X Chunks /\ Staged(r)' = Staged(r)
         /\ Indexed(req[r].doc) => Staged(r) \subseteq Shown
         /\ ~Indexed(req[r].doc) => Staged(r) \cap Shown = {}
         /\ active \cap Staged(r) \subseteq PointsOf({req[r].doc})
         /\ PointsOf({req[r].doc}) \subseteq Staged(r)
         /\ req[r].pc \in Working => PointsOf(req[r].prev) = Shown \ Staged(r)
<1> DEFINE d == req[r].doc
<1>1. /\ TypeOK /\ LocalInv /\ d \in Docs /\ Exclusive(r)
      /\ \A e \in Docs : Indexed(e) => Whole(e) /\ doc[e].chunks = Chunks
  BY WorksAlone DEF LockedInv, LocalInv, LockExcludes, Exclusive, SearchInv, ExactInv
<1>2. req[r].chunks = Chunks /\ req'[r].doc = d /\ req'[r].chunks = req[r].chunks
  BY WorksAlone DEF ExactInv, Full
<1>3. Staged(r) = {d} \X Chunks /\ Staged(r)' = Staged(r)
  BY <1>2 DEF Staged
<1>4. /\ Indexed(d) => Staged(r) \subseteq Shown
      /\ ~Indexed(d) => Staged(r) \cap Shown = {}
  BY <1>1, <1>3 DEF Shown
<1>5. active \subseteq stored /\ stored \subseteq Docs \X Chunks
  BY <1>1 DEF TypeOK
<1>6. active \cap Staged(r) \subseteq PointsOf({d}) /\ PointsOf({d}) \subseteq Staged(r)
  BY <1>3, <1>5 DEF PointsOf
<1>7. ASSUME req[r].pc \in Working PROVE PointsOf(req[r].prev) = Shown \ Staged(r)
  <2>1. /\ d \notin req[r].prev /\ req[r].prev \subseteq Docs
        /\ \A e \in req[r].prev : Indexed(e)
        /\ \A e \in Docs \ {d} : Indexed(e) => e \in req[r].prev
    BY <1>1, <1>7
       DEF Exclusive, LocalInv, OwnerKnowsPrevious, PreviousOf, TypeOK, Request
  <2>2. PointsOf(req[r].prev) \subseteq Shown \ Staged(r)
    <3>1. ASSUME NEW p \in PointsOf(req[r].prev) PROVE p \in Shown /\ p \notin Staged(r)
      <4>1. p \in Docs \X Chunks /\ p[1] \in req[r].prev
        BY <1>5, <3>1 DEF PointsOf
      <4>2. Indexed(p[1]) /\ doc[p[1]].chunks = Chunks /\ p[1] # d
        BY <1>1, <2>1, <4>1
      <4> QED BY <1>3, <4>1, <4>2 DEF Shown
    <3> QED BY <3>1
  <2>3. Shown \ Staged(r) \subseteq PointsOf(req[r].prev)
    <3>1. ASSUME NEW p \in Shown, p \notin Staged(r) PROVE p \in PointsOf(req[r].prev)
      <4>1. p \in Docs \X Chunks /\ Indexed(p[1]) /\ p[2] \in doc[p[1]].chunks
        BY <3>1 DEF Shown
      <4>2. p[1] # d
        BY <1>3, <3>1, <4>1
      <4>3. p \in stored
        BY <1>1, <4>1 DEF Whole
      <4> QED BY <2>1, <4>1, <4>2, <4>3 DEF PointsOf
    <3> QED BY <3>1
  <2> QED BY <2>2, <2>3
<1> QED BY <1>3, <1>4, <1>6, <1>7

\* A search sees what is offered, but for what the request is switching.
LEMMA ShownStep ==
  ASSUME LockedInv, Trusted, SearchInv, ExactInv, Settled, Without({"chunks"}),
         NEW r \in Reqs, Works(r)
  PROVE  /\ ShownAnd(r)'
         /\ req'[r].pc \notin Switching \cup {"retract"} => active' = Shown'
<1> DEFINE d == req[r].doc
           S == Staged(r)
           Seen == /\ ShownAnd(r)'
                   /\ req'[r].pc \notin Switching \cup {"retract"} => active' = Shown'
<1> USE DEF At, Working
<1>1. TypeOK /\ LocalInv /\ d \in Docs /\ Followed(r) /\ ReuseKnown(r) /\ ShownAnd(r)
  BY WorksAlone DEF LockedInv, LocalInv, PointsFollow, Followed, SearchInv, ExactInv
<1>2. /\ S = {d} \X Chunks /\ Staged(r)' = S
      /\ Indexed(d) => S \subseteq Shown
      /\ ~Indexed(d) => S \cap Shown = {}
      /\ active \cap S \subseteq PointsOf({d}) /\ PointsOf({d}) \subseteq S
      /\ req[r].pc \in Working => PointsOf(req[r].prev) = Shown \ S
  BY PointsKnown
<1>3. ~Confirm(r) => Shown' = Shown
  BY <1>1, ShownStays
<1>4. ~PrepareReuse(r) /\ ~PrepareNew(r) => req'[r].reuse = req[r].reuse
  BY WorksAlone
<1> HIDE DEF d, S
<1>5. CASE PrepareReuse(r) \/ PrepareNew(r) \/ Record(r)
  <2>1. req'[r].pc \in {"stage", "release"} /\ ~Confirm(r) /\ active' = active
    BY <1>1, <1>5, WorksTo DEF d, PrepareReuse, PrepareNew, Record, Confirm, qdrant
  <2>2. active = Shown
    BY <1>5, OnlyShown DEF PrepareReuse, PrepareNew, Record, Switching
  <2> QED BY <1>3, <2>1, <2>2 DEF ShownAnd
<1>6. ASSUME NEW points \in SUBSET (Docs \X Chunks), Stage(r) \/ StageFails(r, points)
      PROVE  Seen
  <2>1. active = Shown
    BY <1>6, OnlyShown DEF Stage, StageFails, Switching
  <2>2. IF req[r].reuse THEN S \subseteq Shown ELSE S \cap Shown = {}
    BY <1>1, <1>2, <1>6 DEF Stage, StageFails, ReuseKnown, d
  <2>3. PICK staged \in SUBSET S :
          active' = IF req[r].reuse THEN active \cup staged ELSE active \ staged
    BY <1>6 DEF Stage, StageFails, Upsert, S
  <2>4. active' = Shown
    BY <2>1, <2>2, <2>3
  <2>5. /\ req'[r].pc \in {"activate", "deactivate", "record", "unstage"}
        /\ req'[r].pc = "deactivate" => req[r].reuse
    BY <1>1, <1>6, WorksTo DEF d
  <2>6. Shown' = Shown
    BY <1>3, <1>6 DEF Stage, StageFails, Confirm
  <2> QED BY <1>2, <2>2, <2>4, <2>5, <2>6 DEF ShownAnd, Switching
<1>7. ASSUME NEW points \in SUBSET (Docs \X Chunks), Activate(r) \/ ActivateFails(r, points)
      PROVE  Seen
  <2>1. active = Shown /\ Shown' = Shown
    BY <1>3, <1>7, OnlyShown DEF Activate, ActivateFails, Switching, Confirm
  <2>2. Activate(r) => active' = active \cup S
    <3>1. S \subseteq stored => S \subseteq PointsOf({d})
      BY <1>2 DEF PointsOf
    <3> QED BY <1>1, <1>2, <3>1 DEF Activate, Followed, S, d
  <2>3. active \subseteq active' /\ active' \subseteq active \cup S
    BY <1>2, <1>7 DEF Activate, ActivateFails, d
  <2>4. req[r].reuse => S \subseteq Shown
    BY <1>1, <1>2, <1>7 DEF Activate, ActivateFails, ReuseKnown, d
  <2>5. IF Activate(r) THEN req'[r].pc = "deactivate" ELSE req'[r].pc = "restore"
    BY <1>1, <1>7, WorksTo DEF d
  <2>6. req'[r].reuse = req[r].reuse
    BY <1>4, <1>7 DEF Activate, ActivateFails, PrepareReuse, PrepareNew
  <2> QED BY <1>2, <2>1, <2>2, <2>3, <2>4, <2>5, <2>6 DEF ShownAnd, Switching
<1>8. ASSUME NEW points \in SUBSET (Docs \X Chunks), Deactivate(r) \/ DeactivateFails(r, points)
      PROVE  Seen
  <2>1. active = Shown \cup S /\ Shown' = Shown /\ PointsOf(req[r].prev) = Shown \ S
    BY <1>1, <1>2, <1>3, <1>8 DEF Deactivate, DeactivateFails, ShownAnd, Confirm, S
  <2>2. Deactivate(r) => active' = S
    BY <2>1 DEF Deactivate
  <2>3. S \subseteq active' /\ active' \subseteq Shown \cup S
    BY <1>8, <2>1 DEF Deactivate, DeactivateFails
  <2>4. IF Deactivate(r) THEN req'[r].pc = "confirm" ELSE req'[r].pc = "restore"
    BY <1>1, <1>8, WorksTo DEF d
  <2> QED BY <1>2, <2>1, <2>2, <2>3, <2>4 DEF ShownAnd, Switching
<1>9. CASE ConfirmFails(r)
  <2>1. active = S /\ active' = S /\ (Shown' = Shown \/ Confirm(r))
    BY <1>1, <1>3, <1>9 DEF ConfirmFails, ShownAnd, qdrant, S
  <2>2. req'[r].pc = "restore" /\ ~Confirm(r)
    BY <1>1, <1>9, WorksTo DEF d
  <2> QED BY <1>2, <2>1, <2>2 DEF ShownAnd, Switching
<1>10. CASE Confirm(r)
  <2>1. active' = S /\ req'[r].pc = "release"
    BY <1>1, <1>10, WorksTo DEF Confirm, ShownAnd, qdrant, S, d
  <2>2. /\ \A e \in Docs : Indexed(e)' => e = d
        /\ \A e \in Docs : Indexed(e)' => doc'[e].chunks = Chunks
    BY <1>1, <1>10, ConfirmLeavesOne, ChunksStep DEF d
  <2>3. Indexed(d)'
    <3>1. req[r].run \in Runs
      BY <1>1, <1>10, ClosingStep
    <3>2. doc'[d].status = "INDEXED" /\ ~doc'[d].deleted
      BY <1>1, <1>10, <3>1, ConfirmedRows DEF Confirm, d
    <3> QED BY <3>2, WorksAlone DEF Indexed, d
  <2>4. Shown' = {d} \X Chunks
    BY <1>1, <2>2, <2>3, WorksAlone DEF Shown, d
  <2> QED BY <1>2, <2>1, <2>4 DEF ShownAnd, Switching
<1>11. CASE Restore(r)
  <2>1. /\ active \subseteq Shown \cup S /\ active' = active \cup (Shown \ S)
        /\ req[r].reuse => S \subseteq active
    BY <1>1, <1>2, <1>11 DEF Restore, ShownAnd, S
  <2>2. Shown' = Shown /\ req'[r].pc = IF req[r].reuse THEN "record" ELSE "retract"
    BY <1>1, <1>3, <1>11, WorksTo DEF Restore, Confirm, d
  <2>3. IF req[r].reuse THEN S \subseteq Shown ELSE S \cap Shown = {}
    BY <1>1, <1>2, <1>11 DEF Restore, ReuseKnown, d
  <2> QED BY <1>2, <2>1, <2>2, <2>3 DEF ShownAnd, Switching
<1>12. CASE Retract(r)
  <2>1. S \cap Shown = {} /\ active \subseteq Shown \cup S /\ Shown \subseteq active
    BY <1>1, <1>2, <1>12 DEF Retract, ReuseKnown, ShownAnd, S, d
  <2>2. active' = Shown
    BY <1>2, <1>12, <2>1 DEF Retract, d
  <2>3. Shown' = Shown /\ req'[r].pc = "unstage"
    BY <1>1, <1>3, <1>12, WorksTo DEF Retract, Confirm, d
  <2> QED BY <2>2, <2>3 DEF ShownAnd, Switching
<1>13. CASE Unstage(r)
  <2>1. S \cap Shown = {} /\ active = Shown
    BY <1>1, <1>2, <1>13, OnlyShown DEF Unstage, ReuseKnown, Switching, d
  <2>2. active' = Shown
    BY <1>13, <2>1 DEF Unstage, Delete, S
  <2>3. Shown' = Shown /\ req'[r].pc = "record"
    BY <1>1, <1>3, <1>13, WorksTo DEF Unstage, Confirm, d
  <2> QED BY <2>2, <2>3 DEF ShownAnd, Switching
<1> QED BY <1>5, <1>6, <1>7, <1>8, <1>9, <1>10, <1>11, <1>12, <1>13 DEF Works

\* A search sees what is offered after every step that has not failed for good.
LEMMA ExactStep ==
  ASSUME LockedInv, SearchInv, ExactInv, Next
  PROVE  ExactInv'
<1> SUFFICES ASSUME Settled', Without({"chunks"})'
             PROVE  /\ \A d \in Docs : Indexed(d)' => doc'[d].chunks = Chunks
                    /\ \A r \in Reqs : Full(r)' /\ ShownAnd(r)'
                    /\ (\A r \in Reqs : req'[r].pc \notin Switching \cup {"retract"})
                       => active' = Shown'
  BY DEF ExactInv
<1>1. Settled /\ Trusted /\ Trusted' /\ (Aside \/ \E r \in Reqs : Works(r))
  BY SettledStep
<1>2. Without({"chunks"})
  BY FaultsStay DEF Without
<1>3. \A r \in Reqs : Full(r)'
  BY <1>1, <1>2, FullStep DEF ExactInv, LockedInv
<1>4. ASSUME NEW r \in Reqs, Works(r)
      PROVE  /\ \A d \in Docs : Indexed(d)' => doc'[d].chunks = Chunks
             /\ \A q \in Reqs : ShownAnd(q)'
             /\ (\A q \in Reqs : req'[q].pc \notin Switching \cup {"retract"})
                => active' = Shown'
  <2>1. \A q \in Reqs \ {r} : ShownAnd(q)'
    BY <1>1, <1>4, WorksAlone DEF ShownAnd, Critical, Working
  <2> QED BY <1>1, <1>2, <1>4, <2>1, ChunksStep, ShownStep
<1>5. CASE Aside
  <2>1. UNCHANGED <<doc, stored, active>>
    BY <1>5 DEF Aside, qdrant
  <2>2. Shown' = Shown
    BY <2>1 DEF Shown, Indexed
  <2>3. ASSUME NEW r \in Reqs PROVE ShownAnd(r)'
    <3>1. CASE req'[r] = req[r]
      BY <1>1, <1>2, <2>1, <2>2, <3>1 DEF ExactInv, ShownAnd, Staged
    <3>2. CASE req'[r].pc \notin Working
      BY <3>2 DEF ShownAnd, Working
    <3> QED BY <1>5, <3>1, <3>2 DEF Aside
  <2>4. \A r \in Reqs : req'[r].pc \notin Switching \cup {"retract"}
                        => req[r].pc \notin Switching \cup {"retract"}
    BY <1>5 DEF Aside, Switching, Working
  <2>5. (\A r \in Reqs : req'[r].pc \notin Switching \cup {"retract"}) => active' = Shown'
    BY <1>1, <1>2, <2>1, <2>2, <2>4 DEF ExactInv
  <2>6. \A d \in Docs : Indexed(d)' => doc'[d].chunks = Chunks
    BY <1>1, <1>2, <2>1 DEF ExactInv, Indexed
  <2> QED BY <1>3, <2>3, <2>5, <2>6
<1> QED BY <1>1, <1>3, <1>4, <1>5

\* Both hold initially.
LEMMA SearchInit ==
  ASSUME Init
  PROVE  SearchInv /\ ExactInv
<1>1. /\ \A r \in Reqs : req[r].pc = "idle"
      /\ \A d \in Docs : ~Indexed(d)
      /\ active = {}
  BY EmptyRecords DEF Init, Indexed
<1>2. Shown = {}
  BY <1>1 DEF Shown
<1>3. \A r \in Reqs : ReuseKnown(r) /\ Full(r) /\ ShownAnd(r)
  BY <1>1 DEF ReuseKnown, Full, ShownAnd, Working
<1> QED BY <1>1, <1>2, <1>3 DEF SearchInv, ExactInv, AllSearchable

\* ... and every step preserves both.
LEMMA SearchNext ==
  ASSUME IInv, SearchInv, ExactInv, [Next]_vars
  PROVE  SearchInv' /\ ExactInv'
<1>1. LockedInv
  BY DEF IInv, LockedInv, LocalInv, Trusted
<1>2. CASE Next
  BY <1>1, <1>2, SearchStep, ExactStep
<1>3. CASE UNCHANGED vars
  <2>1. SearchInv'
    BY <1>3
       DEF vars, SearchInv, Settled, Without, Indexed, Whole, ReuseKnown, AllSearchable,
           Searchable
  <2>2. ExactInv'
    BY <1>3
       DEF vars, ExactInv, Settled, Without, Indexed, Full, ShownAnd, Shown, Staged
  <2> QED BY <2>1, <2>2
<1> QED BY <1>2, <1>3

\* What they say of a search.
LEMMA SearchMeans ==
  ASSUME IInv, SearchInv, ExactInv
  PROVE  SearchNeverLost /\ QuietMeansExact
<1>1. SearchNeverLost
  <2> SUFFICES ASSUME Settled, NEW e \in Docs, Indexed(e) PROVE \E d \in Docs : Searchable(d)
    BY DEF SearchNeverLost, Settled
  <2>1. CASE AllSearchable
    BY <2>1 DEF AllSearchable
  <2>2. ASSUME NEW r \in Reqs, req[r].pc \in Switching, Searchable(req[r].doc)
        PROVE  \E d \in Docs : Searchable(d)
    BY <2>2 DEF IInv, RequestsHaveRuns, Switching, Working
  <2> QED BY <2>1, <2>2 DEF SearchInv
<1>2. QuietMeansExact
  <2> SUFFICES ASSUME Settled, Without({"chunks"}), Trusted, holder = NoReq
               PROVE  active = UNION {{d} \X doc[d].chunks : d \in {e \in Docs : Indexed(e)}}
    BY DEF QuietMeansExact, Settled, Trusted, Without
  <2>1. \A r \in Reqs : req[r].pc \notin Critical
    BY IndexingConstants DEF IInv, LockExcludes, Trusted
  <2>2. active = Shown
    BY <2>1 DEF ExactInv, Switching, Critical, Working
  <2>3. \A d \in Docs : doc[d].chunks \subseteq Chunks
    BY DEF IInv, TypeOK, DocRow
  <2>4. \A p : p \in Shown <=> p \in UNION {{d} \X doc[d].chunks : d \in {e \in Docs : Indexed(e)}}
    BY <2>3 DEF Shown
  <2> QED BY <2>2, <2>4
<1> QED BY <1>1, <1>2

(***************************************************************************)
(* Theorems                                                                *)
(***************************************************************************)

\* The initial state.
LEMMA InitInv ==
  ASSUME Init
  PROVE  IInv
<1>1. TypeOK
  BY EmptyRecords, IndexingConstants DEF Init, TypeOK
<1>2. \A r \in Reqs : req[r].pc = "idle"
  BY EmptyRecords DEF Init
<1>3. RequestsHaveRuns /\ OwnerKnowsPrevious /\ LockExcludes /\ PointsFollow
  BY <1>2 DEF RequestsHaveRuns, OwnerKnowsPrevious, LockExcludes, PointsFollow, Critical, Working
<1>4. OneIndexed /\ SupersededHidden /\ LastSuccessSearchable
  BY EmptyRecords
     DEF Init, OneIndexed, Indexed, SupersededHidden, LastSuccessSearchable
<1> QED BY <1>1, <1>3, <1>4 DEF IInv

\* Every step preserves the inductive invariant, whatever fails and whatever is
\* lost: the parts about points only speak of behaviours that keep the lock.
LEMMA NextInv ==
  ASSUME IInv, [Next]_vars
  PROVE  IInv'
<1>1. CASE Next
  <2>1. LockedInv /\ SupersededHidden /\ LastSuccessSearchable
    BY DEF IInv, LockedInv, LocalInv, Trusted
  <2>2. TypeOK' /\ RequestsHaveRuns' /\ OwnerKnowsPrevious' /\ OneIndexed'
    BY <1>1, <2>1, TypeStep, RunsStep, OwnerStep, OneStep DEF LockedInv, LocalInv
  <2>3. Trusted' => LockExcludes' /\ PointsFollow'
    BY <1>1, <2>1, LockStep
  <2>4. SupersededHidden' /\ LastSuccessSearchable'
    BY <1>1, <2>1, HiddenStep, LastStep
  <2> QED BY <2>2, <2>3, <2>4 DEF IInv, Trusted
<1>2. CASE UNCHANGED vars
  BY <1>2
     DEF vars, IInv, TypeOK, RequestsHaveRuns, OwnerKnowsPrevious, OneIndexed, LockExcludes,
         PointsFollow, SupersededHidden, LastSuccessSearchable, Without, Owns, Indexed,
         PreviousOf, Staged, PointsOf, Searchable
<1> QED BY <1>1, <1>2

\* The inductive invariant of the indexing, for any number of identities, chunks,
\* requests and runs and any set of faults (FileIndexingService,
\* ConcurrentSafeLocalRagIndexRepository).
THEOREM IndexingInvariant == Spec => []IInv
  BY InitInv, NextInv, PTL DEF Spec

\* At most one document of a file is INDEXED, even when the lock is lost
\* (mark_indexed).
THEOREM OnlyOneIndexed == Spec => []OneIndexed
<1>1. IInv => OneIndexed
  BY DEF IInv
<1> QED BY <1>1, IndexingInvariant, PTL

\* A superseded document is never found again while the lock is kept and commits
\* are known (set_documents_active before mark_indexed).
THEOREM SupersededStayHidden == Spec => []SupersededHidden
<1>1. IInv => SupersededHidden
  BY DEF IInv
<1> QED BY <1>1, IndexingInvariant, PTL

\* A run confirmed last has made its document searchable as a whole, whatever
\* crashed before (FileIndexingService).
THEOREM LastSuccessStaysSearchable == Spec => []LastSuccessSearchable
<1>1. IInv => LastSuccessSearchable
  BY DEF IInv
<1> QED BY <1>1, IndexingInvariant, PTL

\* The backend is never sent chunks that have been superseded in the meantime, as
\* long as the lock is kept and no callback outlives its sender, whatever crashes
\* and whatever commit is misreported (hold_latest_active_snapshot).
THEOREM CallbackNeverStale == Spec => CallbackNotStale
<1>1. Init => CallbackInv
  <2>1. ASSUME Init PROVE \A r \in Reqs : req[r].pc = "idle"
    BY <2>1, EmptyRecords DEF Init
  <2> QED BY <2>1
          DEF Init, CallbackInv, LockKept, HoldsLock, SendsIndexed, Critical, Working
<1>2. IInv => LocalInv
  BY DEF IInv, LocalInv
<1>3. LocalInv /\ CallbackInv /\ [Next]_vars => CallbackInv'
  BY CallbackStep
<1>4. CallbackInv /\ [Next]_vars
      => [Without({"late", "lock"}) /\ synced' # synced => Indexed(synced')]_vars
  BY SentIsIndexed
<1> QED BY <1>1, <1>2, <1>3, <1>4, IndexingInvariant, PTL DEF Spec, CallbackNotStale

\* Once a document is INDEXED a search finds some document whole at every moment, as
\* long as the lock is kept, commits are known and the compensation succeeds
\* (FileIndexingService, the order of activation and deactivation).
THEOREM SearchStaysPossible == Spec => []SearchNeverLost
<1>1. Init => SearchInv /\ ExactInv
  BY SearchInit
<1>2. IInv /\ SearchInv /\ ExactInv /\ [Next]_vars => SearchInv' /\ ExactInv'
  BY SearchNext
<1>3. IInv /\ SearchInv /\ ExactInv => SearchNeverLost
  BY SearchMeans
<1> QED BY <1>1, <1>2, <1>3, IndexingInvariant, PTL DEF Spec

\* While nobody holds the lock a search sees exactly the INDEXED document, whatever
\* calls of Qdrant have failed and have been compensated
\* (_restore_previous_documents_safely, _remove_new_document_safely,
\* _delete_chunks_safely).
THEOREM QuietSearchExact == Spec => []QuietMeansExact
<1>1. Init => SearchInv /\ ExactInv
  BY SearchInit
<1>2. IInv /\ SearchInv /\ ExactInv /\ [Next]_vars => SearchInv' /\ ExactInv'
  BY SearchNext
<1>3. IInv /\ SearchInv /\ ExactInv => QuietMeansExact
  BY SearchMeans
<1> QED BY <1>1, <1>2, <1>3, IndexingInvariant, PTL DEF Spec

=============================================================================
