---------------------------- MODULE FileIndexing ----------------------------
(***************************************************************************)
(* How the RAG service indexes one file: POST /ingest requests on the same *)
(* File_IDX, the advisory lock that is to serialise them, the RAG_Document *)
(* and RAG_Index_Run rows of the Local RAG DB, the file's points in Qdrant *)
(* and the completion callback.                                            *)
(*                                                                         *)
(* A document stands for one index identity of the file (file hash, parser *)
(* version, embedding model, index version).  Chunk ids are derived from   *)
(* it, so a point is a pair <<document, chunk>>.                           *)
(*                                                                         *)
(* A transaction of the Local RAG DB is one step (it locks the rows it     *)
(* reads), a call of Qdrant another.  A call that fails may have reached   *)
(* any part of the points it is about.  Faults names what else may go      *)
(* wrong, and faults, a history variable, what did:                        *)
(*   crash         the process dies, or an exception nobody expects ends   *)
(*                 the request without compensation                        *)
(*   compensation  a step of the compensation fails                        *)
(*   commit        a commit takes effect but is reported as an error       *)
(*   lock          the connection that holds the advisory lock is lost     *)
(*   chunks        the same identity yields other chunks (OCR is partial)  *)
(*   late          a callback arrives after its sender stopped waiting     *)
(***************************************************************************)
EXTENDS Integers, FiniteSets

CONSTANTS
  Docs,      \* the index identities the file is indexed under
  Chunks,    \* the chunks a full parse yields
  Reqs,      \* concurrent /ingest requests
  MaxRuns,   \* bound: rows ever inserted into RAG_Index_Run
  MaxFaults, \* bound: the kinds of faults that occur in one behaviour
  Faults,    \* the kinds of faults that may occur
  NoReq, NoDoc

FaultKinds == {"crash", "compensation", "commit", "lock", "chunks", "late"}

ASSUME IndexingConstants ==
  /\ MaxRuns \in Nat \ {0} /\ MaxFaults \in Nat
  /\ Faults \subseteq FaultKinds
  /\ NoReq \notin Reqs /\ NoDoc \notin Docs

VARIABLES
  doc,      \* RAG_Document rows, with the RAG_Chunk rows they own
  run,      \* RAG_Index_Run rows
  nextRun,  \* the next AUTO_INCREMENT value of RAG_Index_Run
  stored,   \* the points in Qdrant
  active,   \* those with is_active = true: what a search sees
  holder,   \* who holds the file's advisory lock
  req,      \* the requests
  synced,   \* the document whose chunks the backend has
  late,     \* callbacks nobody waits for any more
  faults    \* history: the kinds of faults that have occurred

vars == <<doc, run, nextRun, stored, active, holder, req, synced, late, faults>>

Runs == 1..MaxRuns

DocRow == [status  : {"NONE", "INDEXING", "INDEXED", "FAILED"},
           deleted : BOOLEAN,
           chunks  : SUBSET Chunks]

RunRow == [status : {"NONE", "RUNNING", "SUCCESS", "FAILED"},
           doc    : Docs \cup {NoDoc}]

\* A request whose run has been inserted and is still open.
Working == {"stage", "activate", "deactivate", "confirm", "restore", "retract",
            "unstage", "record"}

\* A request inside one of its two "async with file_lock.hold" blocks.
Critical == Working \cup {"prepare", "disown", "release", "snapshot", "notify"}

PcStates == Critical \cup {"idle", "waiting", "indexed"}

Request == [pc     : PcStates,
            doc    : Docs \cup {NoDoc},   \* the identity it indexes, then the one it sends
            chunks : SUBSET Chunks,       \* PreparedLocalIndex.chunk_ids
            run    : 0..MaxRuns,          \* rag_index_run_idx
            prev   : SUBSET Docs,         \* previous_rag_document_idxs
            reuse  : BOOLEAN,             \* reuses_existing_index
            ok     : BOOLEAN]             \* indexed, the callback is still to be sent

NewDoc == [status |-> "NONE", deleted |-> FALSE, chunks |-> {}]
NewRun == [status |-> "NONE", doc |-> NoDoc]
IdleReq == [pc |-> "idle", doc |-> NoDoc, chunks |-> {}, run |-> 0, prev |-> {},
            reuse |-> FALSE, ok |-> FALSE]

TypeOK ==
  /\ doc \in [Docs -> DocRow]
  /\ run \in [Runs -> RunRow]
  /\ nextRun \in 1..(MaxRuns + 1)
  /\ stored \subseteq Docs \X Chunks
  /\ active \subseteq stored
  /\ holder \in Reqs \cup {NoReq}
  /\ req \in [Reqs -> Request]
  /\ synced \in Docs \cup {NoDoc}
  /\ late \subseteq Docs
  /\ faults \subseteq Faults

Init ==
  /\ doc = [d \in Docs |-> NewDoc]
  /\ run = [k \in Runs |-> NewRun]
  /\ nextRun = 1
  /\ stored = {} /\ active = {}
  /\ holder = NoReq
  /\ req = [r \in Reqs |-> IdleReq]
  /\ synced = NoDoc
  /\ late = {}
  /\ faults = {}

(***************************************************************************)
(* Rows and points                                                         *)
(***************************************************************************)

\* The documents the Local RAG DB offers: Index_Status INDEXED, Deleted_At NULL.
Indexed(d) == doc[d].status = "INDEXED" /\ ~doc[d].deleted

\* _SELECT_PREVIOUS_INDEXED_DOCUMENT_IDS
PreviousOf(d) == {e \in Docs \ {d} : Indexed(e)}

\* The points a request upserts, and deletes again (by chunk id).
Staged(r) == {req[r].doc} \X req[r].chunks

\* The points set_documents_active reaches: every point of these documents.
PointsOf(docs) == {p \in stored : p[1] \in docs}

At(r, pc) == req[r].pc = pc

Goto(r, pc) == req' = [req EXCEPT ![r].pc = pc]

\* What a fault step adds to the history.
Fault(kind) ==
  /\ kind \in Faults /\ Cardinality(faults \cup {kind}) <= MaxFaults
  /\ faults' = faults \cup {kind}

localDb  == <<doc, run, nextRun>>
qdrant   == <<stored, active>>
callback == <<synced, late>>

(***************************************************************************)
(* The request up to the lock                                              *)
(***************************************************************************)

\* A request has downloaded, parsed, chunked and embedded the file: one that
\* has failed so far has changed nothing.
Arrive(r, d, chunks) ==
  /\ At(r, "idle") /\ chunks # {}
  /\ IF chunks = Chunks THEN UNCHANGED faults ELSE Fault("chunks")
  /\ req' = [req EXCEPT ![r] = [IdleReq EXCEPT !.pc = "waiting", !.doc = d, !.chunks = chunks]]
  /\ UNCHANGED <<localDb, qdrant, holder, callback>>

\* Bug: Acquire takes a GET_LOCK that timed out for one that succeeded.
AcquireAnyway(r) ==
  /\ At(r, "waiting") \/ At(r, "indexed")
  /\ holder' = r
  /\ Goto(r, IF At(r, "waiting") THEN "prepare" ELSE "snapshot")
  /\ UNCHANGED <<localDb, qdrant, callback, faults>>

\* MySqlAdvisoryFileIndexLock.hold, around the indexing and again around the
\* callback.
Acquire(r) ==
  /\ At(r, "waiting") \/ At(r, "indexed")
  /\ holder = NoReq
  /\ holder' = r
  /\ Goto(r, IF At(r, "waiting") THEN "prepare" ELSE "snapshot")
  /\ UNCHANGED <<localDb, qdrant, callback, faults>>

\* GET_LOCK, or the connection for it, fails.
AcquireFails(r) ==
  /\ At(r, "waiting") \/ At(r, "indexed")
  /\ req' = [req EXCEPT ![r] = IdleReq]
  /\ UNCHANGED <<localDb, qdrant, holder, callback, faults>>

\* The lock goes free again; a request that has indexed goes on to its callback,
\* unless the lock was no longer its own (RELEASE_LOCK then answers 0 or NULL).
Release(r) ==
  /\ At(r, "release")
  /\ holder' = IF holder = r THEN NoReq ELSE holder
  /\ req' = [req EXCEPT ![r] = IF req[r].ok /\ holder = r
                               THEN [IdleReq EXCEPT !.pc = "indexed"] ELSE IdleReq]
  /\ UNCHANGED <<localDb, qdrant, callback, faults>>

\* RELEASE_LOCK fails: the connection is dropped, and the lock with it.
ReleaseFails(r) ==
  /\ At(r, "release")
  /\ holder' = IF holder = r THEN NoReq ELSE holder
  /\ req' = [req EXCEPT ![r] = IdleReq]
  /\ UNCHANGED <<localDb, qdrant, callback, faults>>

(***************************************************************************)
(* LocalRagIndexRepository.prepare_indexing                                *)
(***************************************************************************)

\* A run of the document is inserted; the request is given what the rest of the
\* indexing works with.
InsertRun(r, reuse) ==
  LET d == req[r].doc
  IN  /\ nextRun <= MaxRuns
      /\ run' = [run EXCEPT ![nextRun] = [status |-> "RUNNING", doc |-> d]]
      /\ nextRun' = nextRun + 1
      /\ req' = [req EXCEPT ![r] = [@ EXCEPT !.pc = "stage", !.run = nextRun,
                                             !.prev = PreviousOf(d), !.reuse = reuse]]

\* The same identity is INDEXED already, with the same chunks.
PrepareReuse(r) ==
  /\ At(r, "prepare")
  /\ Indexed(req[r].doc) /\ doc[req[r].doc].chunks = req[r].chunks
  /\ InsertRun(r, TRUE)
  /\ UNCHANGED <<doc, qdrant, holder, callback, faults>>

\* The document is inserted, or taken up again where a failed run or a later
\* identity has left it, and its chunks are replaced.
PrepareNew(r) ==
  /\ At(r, "prepare")
  /\ ~Indexed(req[r].doc)
  /\ doc' = [doc EXCEPT ![req[r].doc] =
               [status |-> "INDEXING", deleted |-> FALSE, chunks |-> req[r].chunks]]
  /\ InsertRun(r, FALSE)
  /\ UNCHANGED <<qdrant, holder, callback, faults>>

\* indexed_chunk_identity_mismatch, or the transaction fails.
PrepareFails(r) ==
  /\ At(r, "prepare")
  /\ Goto(r, "release")
  /\ UNCHANGED <<localDb, qdrant, holder, callback, faults>>

(***************************************************************************)
(* FileIndexingService: the switch from the previous documents to this one *)
(***************************************************************************)

\* Bug: AfterStaging hides the previous documents before the new one is active.
AfterStagingHide(r) == "deactivate"

\* A new document's points are made active once they are all there; those of a
\* document that is reused are active already.
AfterStaging(r) == IF req[r].reuse THEN "deactivate" ELSE "activate"

\* Bug: Upsert stages the points of a document that is reused, too.
UpsertStaged(points, searchable) ==
  /\ stored' = stored \cup points
  /\ active' = active \ points

\* Points are upserted, searchable or not.
Upsert(points, searchable) ==
  /\ stored' = stored \cup points
  /\ active' = IF searchable THEN active \cup points ELSE active \ points

Stage(r) ==
  /\ At(r, "stage")
  /\ Upsert(Staged(r), req[r].reuse)
  /\ Goto(r, AfterStaging(r))
  /\ UNCHANGED <<localDb, holder, callback, faults>>

\* The upsert fails: a new document's points are deleted, nothing else undone.
StageFails(r, points) ==
  /\ At(r, "stage") /\ points \subseteq Staged(r)
  /\ Upsert(points, req[r].reuse)
  /\ Goto(r, IF req[r].reuse THEN "record" ELSE "unstage")
  /\ UNCHANGED <<localDb, holder, callback, faults>>

Activate(r) ==
  /\ At(r, "activate")
  /\ active' = active \cup PointsOf({req[r].doc})
  /\ Goto(r, "deactivate")
  /\ UNCHANGED <<localDb, stored, holder, callback, faults>>

ActivateFails(r, points) ==
  /\ At(r, "activate") /\ points \subseteq PointsOf({req[r].doc})
  /\ active' = active \cup points
  /\ Goto(r, "restore")
  /\ UNCHANGED <<localDb, stored, holder, callback, faults>>

Deactivate(r) ==
  /\ At(r, "deactivate")
  /\ active' = active \ PointsOf(req[r].prev)
  /\ Goto(r, "confirm")
  /\ UNCHANGED <<localDb, stored, holder, callback, faults>>

\* Bug: DeactivateFails logs the error and goes on.
DeactivateFailsQuietly(r, points) ==
  /\ At(r, "deactivate") /\ req[r].prev # {} /\ points \subseteq PointsOf(req[r].prev)
  /\ active' = active \ points
  /\ Goto(r, "confirm")
  /\ UNCHANGED <<localDb, stored, holder, callback, faults>>

DeactivateFails(r, points) ==
  /\ At(r, "deactivate") /\ req[r].prev # {} /\ points \subseteq PointsOf(req[r].prev)
  /\ active' = active \ points
  /\ Goto(r, "restore")
  /\ UNCHANGED <<localDb, stored, holder, callback, faults>>

(***************************************************************************)
(* ConcurrentSafeLocalRagIndexRepository.mark_indexed                      *)
(***************************************************************************)

\* Bug: Owns does not look for newer runs.
OwnsRunning(r) == run[req[r].run].status = "RUNNING"

\* The run is RUNNING and no run of the file is newer.
Owns(r) == run[req[r].run].status = "RUNNING" /\ req[r].run = nextRun - 1

\* The run is SUCCESS, its document INDEXED, the previous ones soft-deleted.
Confirmed(r) ==
  /\ run' = [run EXCEPT ![req[r].run].status = "SUCCESS"]
  /\ doc' = [d \in Docs |->
               IF d = req[r].doc THEN [doc[d] EXCEPT !.status = "INDEXED", !.deleted = FALSE]
               ELSE IF d \in req[r].prev /\ Indexed(d) THEN [doc[d] EXCEPT !.deleted = TRUE]
               ELSE doc[d]]
  /\ UNCHANGED nextRun

Confirm(r) ==
  /\ At(r, "confirm") /\ Owns(r)
  /\ Confirmed(r)
  /\ req' = [req EXCEPT ![r] = [@ EXCEPT !.pc = "release", !.ok = TRUE]]
  /\ UNCHANGED <<qdrant, holder, callback, faults>>

\* IndexRunOwnershipLostError: no compensation.
ConfirmDisowned(r) ==
  /\ At(r, "confirm") /\ ~Owns(r)
  /\ Goto(r, "disown")
  /\ UNCHANGED <<localDb, qdrant, holder, callback, faults>>

\* The transaction fails and is rolled back.
ConfirmFails(r) ==
  /\ At(r, "confirm")
  /\ Goto(r, "restore")
  /\ UNCHANGED <<localDb, qdrant, holder, callback, faults>>

\* It is committed, but the answer is an error.
ConfirmUnknown(r) ==
  /\ At(r, "confirm") /\ Owns(r)
  /\ Confirmed(r)
  /\ Goto(r, "restore")
  /\ Fault("commit")
  /\ UNCHANGED <<qdrant, holder, callback>>

(***************************************************************************)
(* Compensation: every step is tried, whatever became of the one before    *)
(***************************************************************************)

\* Bug: AfterRestore leaves the new document's points.
AfterRestoreDone(r) == "record"

AfterRestore(r) == IF req[r].reuse THEN "record" ELSE "retract"

\* _restore_previous_documents_safely
Restore(r) ==
  /\ At(r, "restore")
  /\ active' = active \cup PointsOf(req[r].prev)
  /\ Goto(r, AfterRestore(r))
  /\ UNCHANGED <<localDb, stored, holder, callback, faults>>

RestoreFails(r, points) ==
  /\ At(r, "restore") /\ req[r].prev # {} /\ points \subseteq PointsOf(req[r].prev)
  /\ active' = active \cup points
  /\ Goto(r, AfterRestore(r))
  /\ Fault("compensation")
  /\ UNCHANGED <<localDb, stored, holder, callback>>

\* _remove_new_document_safely
Retract(r) ==
  /\ At(r, "retract")
  /\ active' = active \ PointsOf({req[r].doc})
  /\ Goto(r, "unstage")
  /\ UNCHANGED <<localDb, stored, holder, callback, faults>>

RetractFails(r, points) ==
  /\ At(r, "retract") /\ points \subseteq PointsOf({req[r].doc})
  /\ active' = active \ points
  /\ Goto(r, "unstage")
  /\ Fault("compensation")
  /\ UNCHANGED <<localDb, stored, holder, callback>>

Delete(points) == stored' = stored \ points /\ active' = active \ points

\* _delete_chunks_safely
Unstage(r) ==
  /\ At(r, "unstage")
  /\ Delete(Staged(r))
  /\ Goto(r, "record")
  /\ UNCHANGED <<localDb, holder, callback, faults>>

UnstageFails(r, points) ==
  /\ At(r, "unstage") /\ points \subseteq Staged(r)
  /\ Delete(points)
  /\ Goto(r, "record")
  /\ Fault("compensation")
  /\ UNCHANGED <<localDb, holder, callback>>

\* _MARK_RUN_FAILED_IF_RUNNING
FailRun(k) ==
  run' = IF run[k].status = "RUNNING" THEN [run EXCEPT ![k].status = "FAILED"] ELSE run

\* _mark_failure_state_safely: a new document still INDEXING is FAILED, if no
\* newer run has taken it up (mark_failed); one that was reused stays INDEXED
\* (mark_run_failed).
Record(r) ==
  LET d == req[r].doc
      k == req[r].run
  IN  /\ At(r, "record")
      /\ FailRun(k)
      /\ doc' = IF /\ ~req[r].reuse /\ run'[k].status = "FAILED"
                   /\ doc[d].status = "INDEXING"
                   /\ \A m \in Runs : m > k => run[m].doc # d
                THEN [doc EXCEPT ![d].status = "FAILED"] ELSE doc
      /\ Goto(r, "release")
      /\ UNCHANGED <<nextRun, qdrant, holder, callback, faults>>

\* _mark_run_failure_only_safely
Disown(r) ==
  /\ At(r, "disown")
  /\ FailRun(req[r].run)
  /\ Goto(r, "release")
  /\ UNCHANGED <<doc, nextRun, qdrant, holder, callback, faults>>

RecordFails(r) ==
  /\ At(r, "record") \/ At(r, "disown")
  /\ Goto(r, "release")
  /\ Fault("compensation")
  /\ UNCHANGED <<localDb, qdrant, holder, callback>>

(***************************************************************************)
(* The completion callback (ingest_file, hold_latest_active_snapshot)      *)
(***************************************************************************)

\* The documents with a SUCCESS run that the DB offers; the snapshot is that of
\* the newest such run.
Snapshots == {d \in Docs : Indexed(d) /\ \E k \in Runs : run[k].doc = d /\ run[k].status = "SUCCESS"}

LastSuccess(d) ==
  {k \in Runs : /\ run[k].doc = d /\ run[k].status = "SUCCESS"
                /\ \A m \in Runs : run[m].doc \in Snapshots /\ run[m].status = "SUCCESS" => m <= k}

\* Bug: ReadSnapshot frees the lock once it has read.
ReadSnapshotUnlocked(r, d) ==
  /\ At(r, "snapshot") /\ d \in Snapshots /\ LastSuccess(d) # {}
  /\ req' = [req EXCEPT ![r] = [IdleReq EXCEPT !.pc = "notify", !.doc = d]]
  /\ holder' = IF holder = r THEN NoReq ELSE holder
  /\ UNCHANGED <<localDb, qdrant, callback, faults>>

\* fetch_latest_active_chunk_snapshot, whichever request has indexed it.
ReadSnapshot(r, d) ==
  /\ At(r, "snapshot") /\ d \in Snapshots /\ LastSuccess(d) # {}
  /\ req' = [req EXCEPT ![r] = [IdleReq EXCEPT !.pc = "notify", !.doc = d]]
  /\ UNCHANGED <<localDb, qdrant, holder, callback, faults>>

\* There is none, or it cannot be read.
ReadSnapshotFails(r) ==
  /\ At(r, "snapshot")
  /\ Goto(r, "release")
  /\ UNCHANGED <<localDb, qdrant, holder, callback, faults>>

\* The backend stores the chunks.
Notify(r) ==
  /\ At(r, "notify")
  /\ synced' = req[r].doc
  /\ Goto(r, "release")
  /\ UNCHANGED <<localDb, qdrant, holder, late, faults>>

\* The callback is refused or its answer lost: it is stored, or it never is.
NotifyFails(r) ==
  /\ At(r, "notify")
  /\ synced' \in {synced, req[r].doc}
  /\ Goto(r, "release")
  /\ UNCHANGED <<localDb, qdrant, holder, late, faults>>

\* The sender stops waiting, and tries again or gives up; what it has sent is
\* still on its way.
NotifyLate(r) ==
  /\ At(r, "notify")
  /\ late' = late \cup {req[r].doc}
  /\ Goto(r, "notify") \/ Goto(r, "release")
  /\ Fault("late")
  /\ UNCHANGED <<localDb, qdrant, holder, synced>>

LateArrives(d) ==
  /\ d \in late
  /\ synced' = d
  /\ late' = late \ {d}
  /\ UNCHANGED <<localDb, qdrant, holder, req, faults>>

(***************************************************************************)
(* Faults                                                                  *)
(***************************************************************************)

\* The request ends where it is.  Its connections are closed, the lock is free.
Crash(r) ==
  /\ ~At(r, "idle")
  /\ req' = [req EXCEPT ![r] = IdleReq]
  /\ holder' = IF holder = r THEN NoReq ELSE holder
  /\ Fault("crash")
  /\ UNCHANGED <<localDb, qdrant, callback>>

\* The connection that holds the lock is lost: MySQL frees the lock, the request
\* learns of it only when it releases it.
LoseLock ==
  /\ holder # NoReq
  /\ holder' = NoReq
  /\ Fault("lock")
  /\ UNCHANGED <<localDb, qdrant, req, callback>>

(***************************************************************************)
(* Specification                                                           *)
(***************************************************************************)

Index(r) ==
  \/ PrepareReuse(r) \/ PrepareNew(r) \/ PrepareFails(r)
  \/ Stage(r) \/ Activate(r) \/ Deactivate(r)
  \/ Confirm(r) \/ ConfirmDisowned(r) \/ ConfirmFails(r) \/ ConfirmUnknown(r)
  \/ \E points \in SUBSET (Docs \X Chunks) :
       StageFails(r, points) \/ ActivateFails(r, points) \/ DeactivateFails(r, points)

Compensate(r) ==
  \/ Restore(r) \/ Retract(r) \/ Unstage(r) \/ Record(r) \/ Disown(r) \/ RecordFails(r)
  \/ \E points \in SUBSET (Docs \X Chunks) :
       RestoreFails(r, points) \/ RetractFails(r, points) \/ UnstageFails(r, points)

Synchronize(r) ==
  \/ \E d \in Docs : ReadSnapshot(r, d)
  \/ ReadSnapshotFails(r) \/ Notify(r) \/ NotifyFails(r) \/ NotifyLate(r)

Ingest(r) ==
  \/ \E d \in Docs, chunks \in SUBSET Chunks : Arrive(r, d, chunks)
  \/ Acquire(r) \/ AcquireFails(r) \/ Release(r) \/ ReleaseFails(r)
  \/ Index(r) \/ Compensate(r) \/ Synchronize(r) \/ Crash(r)

Next ==
  \/ \E r \in Reqs : Ingest(r)
  \/ \E d \in Docs : LateArrives(d)
  \/ LoseLock

Spec == Init /\ [][Next]_vars

(***************************************************************************)
(* Properties                                                              *)
(***************************************************************************)

Without(kinds) == faults \cap kinds = {}

\* The document's chunks are all in what a search sees.
Searchable(d) == doc[d].chunks # {} /\ {d} \X doc[d].chunks \subseteq active

\* At most one document of the file is offered by the Local RAG DB, even when the
\* lock is lost and two runs index at once: each soft-deletes only what it found
\* INDEXED when it was prepared (mark_indexed).
OneIndexed == \A d, e \in Docs : Indexed(d) /\ Indexed(e) => d = e

\* A failure of the new indexing does not take the previous state from the search:
\* once a document is INDEXED some document can be found whole at every moment,
\* while points are switched and while a failed switch is undone.
SearchNeverLost ==
  Without({"crash", "compensation", "commit", "lock"}) =>
    ((\E d \in Docs : Indexed(d)) => \E d \in Docs : Searchable(d))

\* Whenever nobody holds the lock, a search sees exactly the INDEXED document,
\* whatever calls have failed: nothing of a failed or superseded run is left.
\* (A document whose chunks change may be given points of an earlier parse back:
\* set_documents_active goes by document.)
QuietMeansExact ==
  /\ Without({"crash", "compensation", "commit", "lock", "chunks"})
  /\ holder = NoReq
  => active = UNION {{d} \X doc[d].chunks : d \in {e \in Docs : Indexed(e)}}

\* A superseded (soft-deleted) document is never found again, not even after
\* crashes and failed compensations: it was hidden before it was deleted, and only
\* what is still INDEXED is reactivated.
SupersededHidden ==
  Without({"commit", "lock"}) =>
    \A d \in Docs : doc[d].deleted => PointsOf({d}) \cap active = {}

\* A run that was confirmed last has made its document searchable, whatever crashed
\* before it: a retry heals what earlier runs have left.
LastSuccessSearchable ==
  /\ Without({"commit", "lock"})
  /\ nextRun > 1 /\ run[nextRun - 1].status = "SUCCESS"
  => Indexed(run[nextRun - 1].doc) /\ Searchable(run[nextRun - 1].doc)

(***************************************************************************)
(* The inductive invariant behind OneIndexed, SupersededHidden and         *)
(* LastSuccessSearchable.                                                  *)
(***************************************************************************)

\* The run a request works on is that of its document.
RequestsHaveRuns ==
  \A r \in Reqs :
    /\ req[r].pc \in Working \cup {"disown", "waiting", "prepare", "notify"} => req[r].doc \in Docs
    /\ req[r].pc \in Working \cup {"disown"} =>
         req[r].run \in 1..(nextRun - 1) /\ run[req[r].run].doc = req[r].doc

\* Lock or not, the owner of the newest run knows every other INDEXED document.
OwnerKnowsPrevious ==
  \A r \in Reqs :
    req[r].pc \in Working /\ Owns(r) => PreviousOf(req[r].doc) \subseteq req[r].prev

\* A run is the newest, and the documents are as it has prepared them, as long as
\* the lock is kept.
LockExcludes ==
  \A r \in Reqs :
    /\ req[r].pc \in Critical => holder = r
    /\ req[r].pc \in Working =>
         /\ Owns(r)
         /\ req[r].doc \notin req[r].prev /\ \A e \in req[r].prev : Indexed(e)
         /\ ~doc[req[r].doc].deleted /\ doc[req[r].doc].chunks = req[r].chunks

\* How far the points are.
PointsFollow ==
  \A r \in Reqs :
    /\ req[r].pc \in {"waiting", "prepare"} \cup Working => req[r].chunks # {}
    /\ req[r].pc = "activate" => Staged(r) \subseteq stored
    /\ req[r].pc \in {"deactivate", "confirm"} => Staged(r) \subseteq active
    /\ req[r].pc = "confirm" => PointsOf(req[r].prev) \cap active = {}

IInv ==
  /\ TypeOK /\ RequestsHaveRuns /\ OwnerKnowsPrevious /\ OneIndexed
  /\ Without({"commit", "lock"}) => LockExcludes /\ PointsFollow
  /\ SupersededHidden /\ LastSuccessSearchable

\* The backend is never sent the chunks of a document that has been superseded in
\* the meantime: the snapshot is read and sent under the lock.
CallbackNotStale ==
  [][Without({"late", "lock"}) /\ synced' # synced => Indexed(synced')]_vars

\* What the newest run has upserted stays in Qdrant until it has confirmed it or
\* given it up: no older run deletes it
\* (docs/operations/ingest-recovery-policy.md, 6).
StagedPointsStay ==
  \A r \in Reqs : req[r].pc \in {"activate", "deactivate", "confirm"} /\ Owns(r) => Staged(r) \subseteq stored

\* Once a document is INDEXED some document can be found whole, whatever happens
\* (docs/operations/ingest-recovery-policy.md, 2).
AlwaysSearchable == (\E d \in Docs : Indexed(d)) => \E d \in Docs : Searchable(d)

=============================================================================
