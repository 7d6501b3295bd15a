# Jipsa, verified

TLA+ models, model-checking runs and machine-checked proofs for Jipsa, an
assistant that stores a user's documents, indexes them and answers questions
from them. Paths are relative to the repository; `B/` stands for
`backend/src/main/java/com/jipsa/`, `R/` for `RAG/src/jipsa_rag/` and `P/` for
`RAG-Performance/src/jipsa_rag_benchmark/`.

    tlc -config Upload.cfg MCUpload      # a run: PROJECT.json names module and cfg of each
    tlapm UploadProofs.tla               # a proof module

Contents: [1 The system](#1-the-system) · [2 The modules](#2-the-modules) ·
[3 The runs](#3-the-runs) · [4 Fairness](#4-fairness) · [5 What is
proved](#5-what-is-proved) · [6 What the models leave
out](#6-what-the-models-leave-out) · [7 Where code and documents
disagree](#7-where-code-and-documents-disagree) · [8 Plan](#8-plan)

## 1 The system

A React frontend talks to a Spring Boot **backend** (MySQL, S3), the backend to
a FastAPI **RAG service** (a MySQL database of its own, Qdrant, an embedding
server, OCR, Claude). A document travels like this:

1. *Upload.* The backend writes a batch, the File rows and the S3 objects, then
   enqueues one Job per file.
2. *Ingest.* A scheduled thread in every backend instance claims jobs and posts
   a manifest to the RAG service's `/ingest`.
3. *Index.* The RAG service downloads, parses, chunks and embeds the file,
   replaces the points of its previous version in Qdrant, and calls the backend
   back with the chunks.
4. *Callback.* The backend stores the chunks and the file is READY; another
   scheduled thread has its metadata generated.
5. The owner searches, asks, trashes, restores, edits, organizes and purges. A
   purge puts tasks in two outboxes, which delete the points and the object.
6. *Answer.* A question is routed as a lookup or a comparison, embedded, searched
   and answered by Claude within a budget, with citations of the chunks.

Beside the product, **RAG-Performance** measures a RAG service it starts itself,
breaks it on purpose and promises to leave nothing behind; it also puts staged load
on a service that is already running and says in a README how much it bore.

| Part | State it keeps | Operations | Talks to | What is hard |
|---|---|---|---|---|
| Upload `B/upload` | Uploads, File, S3 objects, a lock per user and JVM | upload, reconcile | jobs (enqueue), S3 | a crash between any two of its steps, retries with one Idempotency-Key, a reconciler that races with a slow upload |
| Ingest pipeline `B/job`, `B/internal`, `B/chunk`, `B/file` | Job, File, Chunk, File_Metadata | claim, prepare, push, finalize, fail, reap, reconcile callbacks, callback, trash, restore, edit, purge | RAG service (HTTP both ways), outboxes | whole rows written back from stale snapshots, leases shorter than calls, late and duplicate callbacks |
| RAG indexing `R/services/file_indexing.py`, `R/infrastructure/indexing` | RAG_Document, RAG_Chunk, RAG_Index_Run, Qdrant points, advisory lock | prepare, stage, switch, confirm, compensate, snapshot | Qdrant, callback | no transaction spans MySQL and Qdrant; a lock that can be lost; compensation that can fail |
| Reading a document `R/api/ingest.py`, `R/infrastructure/document`, `ocr`, `chunking`, `file`, `embedding`, `app_server` | a temporary file, an OCR pool of worker processes, one lock for the Office applications | manifest, download, parse, extract images, render, recognise, chunk, embed, report with retries | store, OCR workers, PowerPoint and Excel, embedding server, backend | coroutines that give up while their threads and processes go on; places that count from 0 or from 1; an answer that is lost after its effect |
| Answers `R/services/query_routing.py`, `rag_answer.py`, `R/infrastructure/generation` | slots of one semaphore, a token budget per answer | search, context, prompt, partial and final answers, citations | embedding server, Qdrant, Claude | citations that are renumbered twice, an index that is being replaced, cancellation while a call is under way |
| Benchmark campaign `P/runner.py`, `P/reliability_runner.py`, `P/target_server.py` | target processes and their wrapper, containers, test data, verdicts | two sessions of measurements and probes, cleanup, verification, restore | Docker, the target over HTTP, MySQL, Qdrant | processes that outlive the runner's patience, probes that stop services, Ctrl-C at any moment |
| Staged stress `P/stress_runner.py`, `P/stress_analysis.py`, `P/stress_models.py`, `P/verification_readme.py` | futures and results of a stage, request records, summaries, stop reasons | stages of six modes, summary, capacity limit, verdict | a RAG service over HTTP, the host's memory | stages that end by time, cap, memory guard or Ctrl-C with requests under way; verdicts about what was not tried |
| Purge outbox `B/purge` | Rag_Purge_Task, S3_Delete_Task | enqueue, recover, claim, call, record | RAG service, S3 | outcomes written without asking whose claim it is |
| AI metadata `B/metadata`, `MetadataCallbackService` | File_Metadata | claim by token, complete, fail, reap | Claude, callback | two writers of one row and a reaper |
| Folders, organizing `B/folder`, `B/organize` | Folder, File.Folder_IDX | create, move, trash, restore, purge, apply | files | cycle check and write in different snapshots; restore by equal timestamps |
| Auth, admin, users `B/auth`, `B/admin`, `B/user` | Users, sanctions, refresh tokens, role cache | login, refresh, suspend, change role | Google | a cache that is filled while it is updated, read-modify-write of a user |
| Chat, search of the backend `B/chat`, `B/search` | Conversation, messages, rate limiter | ask, rate, search | RAG service | a limiter whose entries are cleaned up concurrently |

What makes each part correct, in one line each:

- *Upload*: a batch ends COMPLETED with all its objects or FAILED with nothing
  left behind, whatever crashes; no object is forgotten; one key, one upload;
  the quota is kept.
- *Ingest*: a READY file has content; content never goes back to an older
  version; every job settles; a purge is final.
- *Indexing*: one version is current; a failure of the new version does not take
  the old one from the search; a superseded version never comes back.
- *Outbox*: a task is done only if the data is gone, given up only for a reason,
  and settled in the end; a task is called for once per attempt.
- *Reading*: an image gets its own text and no other; no slot of the pool and no
  Office process is lost; a chunk is cited where its content stands; no text is
  lost to a picture; a request reports one outcome and ends.
- *Answers*: an answer keeps its budget and gives back its slot; a number in a text
  keeps its meaning; a comparison never mixes two versions of a file.
- *Campaign*: what is reported clean is clean and stays so; the containers are as
  they were found; the campaign ends.
- *Staged stress*: what is reported is what was sent; a verdict claims no more than was
  tried; the suite ends.
- *Metadata* (planned): what is generated from one version's chunks does not replace what
  is known of a later one, and what the owner chose is kept.
- *Folders* (planned): the parent relation is a forest; a restore brings back what that
  deletion took, no more.
- *Auth, admin* (planned): a role change holds from the next request on; lifting a
  suspension restores the status before it.

`PROJECT.json` lists every part under `components` (with the ones that are not
modelled, and why) and every hazard at its line under `hazards`.

## 2 The modules

| Module | Models | Lines of code behind it |
|---|---|---|
| `IngestPipeline` | jobs, files and chunks of the backend, its scheduler threads, the RAG service as seen by them, the owner's requests | `B/job`, `B/internal/IngestCallbackService`, `B/chunk/ChunkSyncService`, `B/file/FileService` |
| `PublishedContent` | what the pipeline promises: the abstract specification it implements | none, it is a promise |
| `FileIndexing` | `/ingest` requests on one file inside the RAG service | `R/services/file_indexing.py`, `active_chunk_snapshot.py`, `R/infrastructure/indexing` |
| `PurgeOutbox` | the two outboxes (one algorithm) | `B/purge` |
| `Upload` | the uploads of one user and their reconciliation | `B/upload` |
| `OcrPool` | the pool of OCR worker processes, its coroutines, threads and pipes | `R/infrastructure/ocr/process_manager.py` |
| `OfficeRendering` | the lock of PowerPoint and Excel, the thread, worker and Office process of each rendering | `R/infrastructure/document/rendering/microsoft_office.py` |
| `DocumentText` | pure: units, images, OCR units, chunks and citations of a document | parsers, image extractors, `ocr/enrichment.py`, `chunking/`, `schemas/source_locator.py` |
| `DocumentReading` | composes the three: `/ingest` of several documents from the manifest to the report | `R/api/ingest.py`, `R/api/v1/endpoints/file_processing.py`, download, embedding, callback client |
| `GenerationLimiter` | slots and budgets of answer generation | `R/infrastructure/generation/limited.py` |
| `RagAnswers` | composes it with search, prompts and answers | `R/services/query_routing.py`, `rag_answer.py`, `search.py`, prompt builder, Claude client |
| `BenchmarkCampaign` | the life of a campaign and its target processes | `P/runner.py`, `P/reliability_runner.py`, `P/target_server.py` |
| `StagedStress` | the runner of staged load, its pool, summaries and verdict | `P/stress_runner.py`, `P/stress_analysis.py`, `P/stress_models.py`, `P/verification_readme.py` |
| `MC...` | constants and bodies of the runs | |
| `...Proofs` | theorems and proofs | |

### IngestPipeline

A transaction that reads rows without a lock and writes them back is **two
steps**: *Begin* takes the snapshot, the commit writes. The entities have no
`@Version` and no `@DynamicUpdate`, so the commit writes the *whole row as it
was read* plus the change. That is where most of this module's behaviours come
from. `viewJob` and `viewFile` are what a thread has read, `client` what a
request has read. JPQL updates (`JobRepository.claim`) are one step. The callback
is two steps as well, `CallbackBegins` and `CallbackStored` (or
`CallbackRolledBack`): it has the file's row locked in between (`findForUpdate`,
`Locked`), so that whoever writes that row waits, but the job's row it has only
read, and it rewrites that row whole.

A scheduler thread goes through `ClaimBatch` (claim of up to `BatchSize` jobs),
then for each job `PrepareBegin` and one of `PrepareSkip`, `PrepareEnd`,
`PrepareHandoff`; `PushSucceeded`, `PushFailed` or `PushTimedOut`; `Finalize`, or
`FailBegin` and `FailRetry` or `FailForGood`; in between `ReconcileList ...
Reconcile` (callbacks that never came) and `ReapBegin/ReapCommit` (leases that
ended). `Crash` kills an instance at any of these and starts it again. The RAG
service is `run`: a request that is working calls back (`RunCalls`), or is ignored,
fails, or has its callback delayed into `late`, and then answers. The owner's
requests are `RequestBegin` and `SoftDelete`, `Edit`, `RestoreReady`,
`RestoreAndIngest` or `PermanentDelete`. Clocks are abstracted: `Expire` ends a
lease at any time, and a retry is due at any time.

`PublishedContent` says what all this is for: the content of a file moves to the
same or a later version, is offered only when it is there, and is gone for good
after a purge. `IngestPipeline!Published` is the refinement mapping.

### FileIndexing

One file; a *document* is one index identity of it. Chunk ids are a function of
document and content, so a point is `<<document, chunk>>`. A transaction of the
Local RAG DB is one step, a call of Qdrant another; a call that fails may have
reached **any part** of the points it was about. `Faults` names what else a run
lets go wrong, the history variable `faults` records what did, and each property
says under which faults it is claimed (`Without(...)`).

A request goes `idle -> waiting` (`Arrive`) `-> prepare` (`Acquire`), `stage`,
`activate`, `deactivate`, `confirm`, then releases the lock, takes it again, reads
the snapshot of the current document and calls back. Failures lead to `restore`,
`retract`, `unstage`, `record`, the code's compensation.

### PurgeOutbox

A worker is one scheduled thread: `Recover` (claims whose lease is over), `List`,
then per task `Claim`, a call that succeeds, fails (retryable; it may have
deleted the data) or is refused, and one of the UPDATEs `MarkDone`,
`ScheduleRetry`, `MarkFailed`, which ask for status PROCESSING and *not* for
whose claim that is. `due` abstracts Next_Attempt_At, which is both the time of a
retry and the end of a lease. A lease ends under a worker that is busy only if
that worker stalls (`stalls`): it is configured longer than the call's timeout
(`RagPurgeService.java:46`).

### Upload

`upload` is followed step by step: look the key up, lock, look again, quota, batch,
rows, unlock, each put, completion; or the deletions and `failUpload`. The
reconciler reads the stuck batches, and for each its files, deletes the objects and
then the rows. Every transaction may fail or be committed unanswered; every put
may fail with or without effect; a deletion may fail (`deleteQuietly` logs it,
`leaked`). The owner sees the rows from the moment they are committed: `Trash`,
`Restore`, `Edit`, `PermanentDelete` are their effects on what upload and
reconciler rely on (a row that Job or File_Metadata refer to cannot be deleted:
`referenced`). Four history variables name the situations a property makes an
exception for, so that each exception is visible and as small as it can be:
`doubtful` (the upload outlived `stale-ms`, or its completion was committed but
not answered), `leaked`, `touched` and `restored`.

### OcrPool, OfficeRendering, DocumentText and DocumentReading

`DocumentReading` EXTENDS the other three. A document (`doc[d]`) goes `manifest ->
download -> images -> (render) -> text -> ocr -> embed -> index -> publish ->
ended`, or ends with the error code of the stage that refuses it; `unknown` is a
file whose manifest cannot be had. `Recognise` enters the pool with one call per
different image; everything else the pool does is interleaved freely.

*The pool.* Cancelling a coroutine does not stop its thread, so a call has three
parts: `call[c]` (the coroutine in `recognize`), `exchange[c]` (the thread in
`_exchange_with_worker_sync`) and `repair[c]` (the thread in
`_replace_worker_sync`), and the last two may outlive the first. A worker is a
process with two pipes, `inbox` and `outbox`; a reply is the id of its request,
because all that matters is whose it is. Two threads may then read one pipe.
`LeavesWith` is the `finally` that decides whether a slot goes back.

*Office.* `render[d]` is the thread, `office[d]` the Office process (`"known"` once
its pid is written), `outcome[d]` the coroutine, `source` the copies with an Office
suffix. Each has a timeout of its own; a timeout may pass at any moment.

*Text.* A body is a sequence of parts with a place, a kind and a size; a text is its
length, with white space at the offsets `Blanks`. The operators are the code's
algorithms: what the parsers keep, which images are appended (count, bytes,
duplicates), which pages are images (`ImageOnlyPage`: drawn without text, or with
hardly any under their pictures), where the OCR units are merged, which heading a
DOCX block stands under, `_split_text` with overlap, preferred ends and its trimming
(`Trimmed`), the document offsets, and `build_source_locator`. A slide has its place
(`at`) and the number in the name of its part (`file`), which are not the same once
slides have been moved.
`CitesItsPlaceIn` and `Covered` are the reference definitions, written from what a
reader sees in the document.

### GenerationLimiter and RagAnswers

`GenerationLimiter` is `LimitedGenerationClient` alone: `Reserve`, `Enter` (the
semaphore serves in the order of arrival), `Commit`, `Release`, `Leave`. In
`RagAnswers` a question goes `receive -> embed -> search -> prompt -> reserve -> wait
-> call -> done`; a comparison repeats search and call per file before it asks for
the final answer. A hit list is any list of points, so that the index may return
what the search has to refuse: a foreign point, a wrong order, a duplicate, too
many. A text is the sequence of SOURCE numbers it cites, which is all that the
renumbering is about. Every failure has its error code, and a failure of one
partial answer only leaves that answer out.

### BenchmarkCampaign

The runner is one thread: `pc` is where it is in a session, `Script(session)` what
the session measures. Beside it run a target process per session (`cleaning ->
checking -> serving -> draining -> gone`), the `uv` wrapper it is started by, and
the operator. The runner knows the wrapper's pid and the target's health answer,
no more; `Terminate` and `Kill` hit the wrapper, which may pass a signal on, die
alone, or take the target with it. `rows` are shared by the sessions, `collections`
and `temp` are each session's own. `container` has the class of each container's
status, `initial` what was captured, `restored` what is reported. Ctrl-C may come in
every place and in the middle of a Docker command (`CutShort`); in the stop of a probed
service its `finally` still starts the service again (`StopCutShort`). The probe of an
abnormal termination may be disabled or fail, and then the target lives on.

### StagedStress

`pc` is where the runner's thread is: a health check, one of the loops (`interval`,
`batch`, `soak`/`refill`, `chaos`/`tick`/`reap`, `waiting` for a first future), `collect`
for the futures that are left, `summarize`, `after` a stage, the reports. Burst and
ramp submit everything at once and begin at `collect`. Requests are counted, not
named: `queued` waits for a worker, `flying` is under way, `finished` is done and
not yet taken, `records` is what the stage has taken. `sent` is what the service was
asked, `logged` what is in the list of requests. `Send` and `Answer` are the
workers, and go on in every place, also when the runner has left the pool. Clocks
are abstracted to `due`: the time of a stage may be over at any moment. A request
that arrives after the client is closed by a second Ctrl-C leaves no record.
`Summarize` asks for the memory again, as the code does, so a stage may have been cut
short for want of memory and be reported as if it had not.

## 3 The runs

| Run | Bounds | Properties | What it shows |
|---|---|---|---|
| `IngestHandoff` | 1 file, 2 instances, 1 job, 2 attempts, 2 RAG requests, 2 index versions | `IInv` `SuccessHasChunks` `ImplementsPublished` | Leases, lost answers, late callbacks, redeployments and crashes leave rows and chunks in agreement. |
| `IngestOwner` | 1 file, 1 instance, 1 owner's request at a time, 2 jobs, 2 versions | `ReadyHasChunks` `PurgeLeavesNothing` | The same against trash, restore, edit and purge; a restore may enqueue a second job. |
| `IngestLiveness` | 2 files, 2 jobs, 1 instance that crashes and restarts at will, 1 RAG request at a time | `JobsSettle` | Every job settles. |
| `IngestClaimRefused` | 1 file, 1 instance | `NoClaimRefused`, violated | See 7. |
| `FileIndexing` | 2 identities, 2 chunks, 2 requests, 3 runs, any 2 of the 6 kinds of faults, each as often as it likes (6.2 million states) | `OneIndexed` `SupersededHidden` `LastSuccessSearchable` `SearchNeverLost` `QuietMeansExact` `CallbackNotStale` | What a search sees at every moment and between requests, and what survives which faults. |
| `PurgeOutbox` | 2 tasks, 2 workers, 2 attempts, 1 failure, 1 stall | `DoneMeansGone` `GivenUpForAReason` `OneCallPerAttempt` `TasksSettle` | Every task settles, for a reason, with bounded calls. |
| `Upload` | 2 requests (two files that fill the quota; one file), 2 instances, 1 of them reconciles, 1 fault, 1 act of the owner | `CompletedHasObjects` `FailedLeavesNothing` `NoOrphans` `QuotaPerInstance` `UploadedOnce` `BatchesSettle` | Uploads end whole or without a trace. |
| `DocumentReading` | 2 documents out of 13 bodies, 2 images, 1 OCR worker, 2 attempts; chunks of 4 with overlap 1, a blank at 2 | `RepliesMatch` `SlotsAccounted` `OfficeSerialized` `CitesUnlessMoved` `TextSurvives` `ReportsAgree` `DocumentsEnd` | Reading a document survives its workers, its pictures and its services. |
| `CitedSlide` | the deck whose slides were moved | `CitesItsPlace`, violated | See 7. |
| `RagAnswers` | 2 questions (one may compare 2 files), 5 points, 1 slot, 3 calls, 2 hits, 9 replies | `BudgetKept` `SlotsAndReservations` `CitationsKeepMeaning` `SynthesisOneVersion` `QuestionsEnd` | An answer keeps its budget and its citations keep their meaning, whatever fails. |
| `BenchmarkCampaign` | both sessions, both probes, 2 windows of the soak, 2 Docker faults, 2 crashes or failures, 1 Ctrl-C (2.1 million states) | `ReportedCleanIsClean` `RestoredAsFound` `CampaignEnds` | A clean report is true and stays true; the containers come back; the campaign ends. |
| `StagedStress` | 7 plans with every mode, at most 6 requests, 2 failures in a row, 1 outage, 1 shortage of memory, 2 Ctrl-C (3.6 million states) | `TrafficAccounted` `VerdictIsTrue` `SuiteEnds` | Reports agree with the traffic, the verdict with the reports, and the suite ends. |

Why these bounds are enough to be interesting:

- *Ingest.* Two instances and one job are the smallest instance in which a thread
  writes a row that another has claimed since; two attempts distinguish the retry
  from the last failure; two versions let a late callback be stale. With a second
  file nothing new happens to a row: files meet only in a batch, which
  `IngestLiveness` has.
- *Indexing.* Two identities give a previous and a new document and, with three
  runs, a third generation that returns to the first. Two chunks let a document be
  found in part. Two kinds of faults in one behaviour let any two meet that a property has
  to survive together.
- *Outbox.* Two workers and one stall are what it takes for an outcome to be written
  onto another's claim; two attempts separate a retry from giving up; two tasks
  make a worker's list go stale.
- *Upload.* The first batch has two files so that a put can fail between them, and
  fills the quota so that the second request is only accepted if the first is not
  counted. The second request either retries the key in the other instance or
  competes for the quota in the same one. `IInv` has also been checked with two
  acts of the owner and more reconcilers (6.7 million states).

- *Reading.* One OCR worker and two calls are what it takes for a reply to be left
  in a pipe for another call, and for a slot to be lost or given twice. The bodies
  are chosen one per rule of the text algorithms: a chart with notes on the same
  slide, a deck whose slides were moved, a chart on a sheet without rows, a page that
  is a picture, one that is drawn and one with a stamp under its picture, a picture
  twice and under a heading, a heading that is too long, sections, text just over a
  chunk with a separator near the overlap, an empty document, pictures only. Two decks compete for Office. What goes
  wrong is bounded to the first document (`Unlucky`), one fault of each kind, so
  that the second shows what it does to a bystander; the classes of failures that
  end a request are one step each.
- *Answers.* One slot for two questions makes one wait while the other calls, fails or
  is cancelled. Three calls are two partial answers and the final one, and with an
  estimate of 2 of 6 input tokens and an overrun of 1 the budget runs out before
  the last. One file has a point of its old and one of its new version. The
  replies include an order of citations that is not that of their numbers, a
  number that does not exist, and each contradiction the schema refuses.
- *Campaign.* Two crashes or failed requests and one Ctrl-C at every place of the
  whole script and in every Docker command, two Docker commands that fail (a probe
  and its restore). Two
  sessions are what the program has.

- *Stress.* Each plan brings a mode to its limits: an interval whose fourth future is one
  too many, a batch with a smaller last wave, a ramp of two levels before and after
  other stages, a soak without a cap and one that uses it up, a chaos whose spike
  finds no room and one that reaches `max_total_requests`, three stages for two
  failures in a row. A second Ctrl-C is what closes the client under the workers.

Deadlock is checked except where the system may really stop: when jobs are
exhausted, files purged and bounds used up (ingest), when all uploads have
ended (upload), when all documents have been read (their request and the pool are
over), all questions answered, and when the campaign or the suite has ended.

## 4 Fairness

- *Scheduled threads* (`@Scheduled(fixedDelay...)`) run again and again, also after a
  restart: weak fairness of each thread's steps. In the ingest pipeline one
  thread has three periodic tasks; a task whose turn comes round again and again
  runs, hence strong fairness of the beginning of each.
- *Transactions* that are tried again and again commit in the end (strong fairness of
  the reaper's and the reconciler's commit), also when the instance dies in some of
  the attempts. Failures and crashes are not fair. In the ingest pipeline nothing
  bounds them; in the outbox and the upload they are bounded.
- *Clocks run*: leases end, read timeouts pass, retries become due, batches grow stale.
- *The event loop of the RAG service* runs every task that can go on, each call it awaits
  has a timeout, and each thread of the pool and of Office has one as well
  (`DocumentStep`, `CallStep`, `RenderStep`, `Step`). Nothing is assumed of the OCR
  workers, of the Office processes, or of what a service answers.
- *The runner of the campaign* is one thread whose every wait has a timeout; a target
  goes on as far as it does not wait (`RunnerStep`, `TargetStep`). Crashes, Docker
  failures and Ctrl-C are not fair.
- *The runner of the stress suite and its workers* are threads that are scheduled, an HTTP
  request has a timeout, and the time of a stage passes (`RunnerStep`, `Send`, `Answer`,
  `TimePasses`). Outages, memory and Ctrl-C are not fair, nor is a recovery.
- *Remote services*: a RAG request ends some time. Nothing is assumed of late
  callbacks, of calls' outcomes, or of the owner.

`JobsSettle` is claimed for one instance, through any number of crashes and
restarts of it. With two instances it does not hold without a
bound on lost leases: a thread that was slow writes back a lower attempts count,
and a job can be claimed again for ever (`JobProcessingService.java:211` writes attempts back
from a stale row).
`TasksSettle` and `BatchesSettle` hold with two workers and two instances.

## 5 What is proved

All theorems hold for every value of the constants that satisfies the module's
ASSUME (positive bounds, distinct dummies, finitely many slots; nothing about
sizes). Each proof is the usual one: an inductive invariant holds initially, every
action preserves it, and each property follows from it. `PROJECT.json` lists them
under `theorems`.

- **IngestPipelineProofs**: `Invariant`, with `TypeCorrect`, `ReadyFilesHaveChunks`,
  `SuccessfulJobsHaveChunks`, `ClaimsHaveAttemptsLeft`, `PurgedFilesLeaveNothing`, and
  `Refinement` (`Spec => Published!Spec`). The properties are not inductive: a
  thread or a request may hold a READY it has read long ago. `ViewsBacked` and
  `RequestsBacked` say that such a READY is still backed by chunks or the file is
  gone, in which case the write finds no row. This rests on the fact that chunks
  are deleted by a purge only. `CallbacksApply` says the same of an open callback:
  its file cannot be purged under its lock and no newer chunks can be stored, and the
  row it will write is of a job of that file, which no other job's id can become
  (`JobsNumbered`).
- **FileIndexingProofs**: `IndexingInvariant`, with `OnlyOneIndexed`,
  `SupersededStayHidden`, `LastSuccessStaysSearchable`. `OneIndexed` holds even when
  the lock is lost, from `OwnerKnowsPrevious`: the newest run's request knows every
  other INDEXED document. The other two need `LockExcludes` and `PointsFollow`,
  which hold as long as no lock is lost and no commit is misreported; crashes and
  failed compensations are allowed. `CallbackNeverStale` proves the action property
  `CallbackNotStale` from `CallbackInv`, which needs the lock only: a document ceases to
  be INDEXED inside the lock, where nobody else is sending. `SearchStaysPossible` and
  `QuietSearchExact` prove `SearchNeverLost` and `QuietMeansExact`, from `SearchInv` (an
  INDEXED document keeps its points; a request knows whether its own is INDEXED; until
  the previous one can be found again the new one can) and `ExactInv` (what a search
  sees at each place of the switch, in terms of what is offered and what the request has
  staged). Both speak of behaviours in which every fault is compensated.
- **PurgeOutboxProofs**: `OutboxInvariant`, with `DoneTasksAreGone`,
  `GivenUpTasksHaveAReason`, `CallsAreBounded`, `LeasesExclude` and the action property
  `SettledTasksStay`. `WorkersKnow` is the heart: what a worker knows of a task
  stays true of the *row* even when the claim has passed to another, which is why
  an UPDATE that does not ask whose claim it is does no harm.
- **UploadProofs**: `UploadInvariant`, with `CompletedBatchesHaveObjects`,
  `FailedBatchesLeaveNothing`, `ObjectsHaveRows`, `KeysUploadOnce`. `RequestsKnow` and
  `ReconcilersKnow` say what each side may rely on as long as the upload is not
  doubtful: a request at work has a batch that is not stale, so no reconciler
  has it in its list, and one that is in a list belongs to a request that has ended.
  `QuotaKeptPerInstance` proves `QuotaPerInstance`, for any sizes and any number of
  instances, from `QuotaInv`: in each instance one request at a time is between the look
  at the quota and its rows, what it found free then still is as far as its own
  instance is concerned, and what an instance has stored stays within one quota. The
  quota of all is the sum of these.
- **RagAnswersProofs**: `LimiterSafe` proves `LimiterInv` of
  the limiter's own specification: the queue is injective and disjoint from the
  calls, a request holds something exactly while it waits or calls, and never more
  than it has left. `AnswersUseLimiter` (`Spec => LimiterSpec`) shows that whatever a
  question does, what it does to the limiter is a step of the limiter; so
  `AnswersKeepBudget` and `AnswersReserve` follow, with `AnswersTyped`. The link is that
  a question is at `wait` or `call` exactly if the limiter has it in its queue or
  in a slot. `AnswersKeepMeaning` and `SynthesesKeepVersion` prove `CitationsKeepMeaning` and
  `SynthesisOneVersion`, for any points, hit lists and replies, from `GoodRuns`: what a
  question has at each place (chunks, groups, partial answers, sources) is made of
  valid points of its files; the sources of the partial answers, one after the other
  and without repetition, are the list a number refers to; and a number that is
  carried from a partial answer into the next prompt names the same point there.
- **DocumentReadingProofs**: `ReadingUsesPool` (`Spec => PoolSpec`) and `PoolSafe`
  (`PoolInv`) in the same manner, for any number of documents, calls and slots, with
  `RepliesAlwaysMatch` and `SlotsAlwaysAccounted`. The heart is `CallsInv`: who has a
  slot while which of its threads still runs, that one thread at most holds the
  state lock, and that a pool that is down has nobody in it.
  `OfficeAlwaysSerialized`: a process with a known pid belongs to the holder of the
  lock. `ReportsAlwaysAgree` rests on `ReportsInv`: before `publish` nothing has been
  sent, in it only successes, one less than the attempt it is at, and the
  temporary file exists in the four stages that read it, no longer.
  `TextAlwaysSurvives`: for bodies of any size, any chunk size, overlap and separators,
  and whatever is read in the images or fails. `TextInv` keeps from stage to stage what
  a request's images and units were computed from (`ReadSoFar`); the rest is about the
  operators of `DocumentText`: `SlicesCover` (the slices of a text have it from end to end),
  `ChunksCover` (so have the chunks of units in a row, at ascending offsets),
  `TextUnitsHaveText` (every text is in a unit of the parsers), `MergedKeeps` and
  `PreparedKeeps` (OCR and the headings leave the units as they are). The assumption
  about the cases is `InPlace`: a part stands at one of the places of its body, and only
  of a PDF are pages rendered (`images/pdf.py`); an image that says of itself a place
  the body does not have still gets a unit at the end, so nothing is assumed of `file`.
  `AlwaysCitesUnlessMoved` proves `CitesUnlessMoved` from the same invariant, for all
  documents: the place and the heading are right for every chunk but that of a
  picture on a moved slide (`OnMovedSlide`, which is what `CitedSlide` shows to go
  wrong), and a chunk is refused only for the heading it stands under, if that is
  longer than a section title (`RefusedForHeading`). `InPlace` also says that a block of
  a DOCX is a heading or not, as `parsers/docx.py` reads it. The proof follows the
  order of the units: what OCR finds comes
  behind the block it stands at (`MergedInOrder`), so that the last heading in the row
  of units is the last in the document (`HeadingNext`, `TitlesInOrder`), and a section
  that begins has none yet (`SectionsGrow`).
- **BenchmarkCampaignProofs**: `ReportedCleanStaysClean`, for any list of probes and any
  number of windows, faults and interrupts. `CampaignInv` says that a session
  begins when the target of the last one is gone (`TargetsInv`), and that without an
  error nothing is verified before the session's target is gone (`VerifiedInv`), so
  nobody is left to undo it. The proof needs that a thread that does not join ends
  in an error: without `JoinFails` a target that outlived its wrapper would write
  after the verification. `ContainersComeBack` proves `RestoredAsFound` from
  `ContainersInv`: what a session remembers of a container is how it found it or that
  it does not know, a container it found is never gone, nothing is restored before the
  restore, and one service is worked on at a time.

- **StagedStressProofs**: `TrafficAlwaysAccounted` and `VerdictAlwaysTrue`, for every set of
  valid plans, any number of stages, requests, outages and interrupts. `StressInv` has
  seven parts. `Typed` says how far each loop is in what its stage declares; `Flow` and
  `Counts`, where a request is that was submitted: queued, on its way, finished, in
  the records of the stage or in a summary; `Reported` and `Clean`, what the reports
  make of that; `Rows`, that each stage behind has its rows and, if none is bad and
  memory never ran short, that they count what it declares. `Budget` adds what was
  summarized and what the plan has left (`Left`: the levels of the ramp and the stages
  to come). That `sent` stays within the plan after an error too is `Bounded`: nobody
  submits any more then (`SubmitsNoMore`). `VerdictFollows` also needs that of the rows of
  the ramps that are bad one comes before all others (`NoFailure`).

Only proved, in no run: `RetryHasAttemptsLeft`, a consequence of `IInv`; `OneCaller`;
`SettledTasksStay`; and that the whole pipeline with the owner's requests implements
`PublishedContent` (`IngestHandoff` checks it without them).

What looks like induction over data is done without it where it can be: a sum is the
number of its pairs (`SumOver`, `Bytes`), so that it grows with its set by the laws of
cardinality; and what holds of every length of a list is shown from a least
counterexample, which the well-foundedness of < on the natural numbers provides
(`Least`, `FlatExists`, `Counting`). The recursive functions of `DocumentText` are followed
in the same way: that there is a function that satisfies the equation (`Recursion`,
`SplitExists`), and what holds of it at each step (`Steps`).

Only model-checked is liveness (`JobsSettle`, `TasksSettle`, `BatchesSettle`, `DocumentsEnd`,
`QuestionsEnd`, `CampaignEnds`, `SuiteEnds`), which is out of TLAPS's reach.

## 6 What the models leave out

- *Ingest.* `claimBatch` is one step (it is one transaction of JPQL updates).
  Leases are live or over. A job's error texts, stages and times other than
  Finished_At are left out.
- *Indexing.* Download, parsing, chunking and embedding are in `DocumentReading` and are
  the guard of `Arrive` here; there, the index is one step that works or fails. A write
  of Qdrant that timed out has been applied before the compensation begins. The backend accepts the callback (its side is in
  IngestPipeline); the failure callback is in `DocumentReading`.
- *Outbox.* The limit of 50 tasks per run, their order and the length of the
  backoff. A deletion that reaches the remote system late does no more than
  the one that was answered.
- *Upload.* The order of the files in a loop (any order). A request without a key
  has one nobody else uses. Validation and the folder check only refuse. A put
  still under way when the instance crashes has taken effect or not.
- *Reading.* File formats: a body is what a library makes of it. The characters of a text,
  the wording OCR finds, the clock of a download, the waits between attempts; the
  failure report is one step, sent or not. LibreOffice rendering, which nothing in
  the service uses. A `taskkill` that fails is left out, and so are the Office processes
  of the user, which the worker's cleanup spares (`microsoft_office.py:870-873`): of
  those `OfficeSerialized` says nothing. An embedding batch is one step. The pool's own timeout is as
  long as that of the enricher, which began earlier, and never comes first.
- *Answers.* Vectors, prompts and texts but for their lengths and numbers. The patterns of
  the query classifier are one Boolean of the question. How many tokens a prompt is
  estimated at is any member of `Estimates`.
- *Campaign.* What is measured and how it is reported, the fixtures. One ingest at a time stands for the batch a
  target is at. A container that is paused, exited or created is "stopped".
  `restore_infrastructure` is on, as in every shipped plan. What a Docker command does
  after it was given up or cut short (the daemon goes on without its client) is done
  before the runner's next step.
- *Parts that are not modelled* are listed with their reasons in `PROJECT.json`. Those
  that keep state are in the plan: AI metadata, folders and organizing, the role
  cache, sanctions, first login, the chat rate limiter. What they are exposed to
  (`FileMetadataRepository.java:86`, `FolderService.java:94`,
  `JwtAuthenticationFilter.java:95`, `AdminService.java:75`, `ChatRateLimiter.java:39`) is
  described in section 8. The embedding server computes without state, logging and
  configuration are plumbing, and the frontend is a client.

## 7 Where code and documents disagree

Two runs end in a counterexample; `PROJECT.json`, `findings`, quotes the lines.
`IngestClaimRefused`: a retry written over a finished job keeps Finished_At. The
next claim violates `CK_Job_TimeRange`, and as a batch is claimed in one transaction,
so does every poll whose candidates include that row.
`CitedSlide`: a picture goes by the number in the name of its slide's part
(`images/pptx.py:135-141`), text by the place of the slide (`parsers/pptx.py:163`), which
is what the glossary calls a slide number (`RAG/docs/glossary.md:111`). After slides
were moved the two differ, and what OCR reads in the picture is cited as another slide.

Met while modelling, without a run of their own. *Backend:*

- An `/ingest` answer that is lost after the callback was stored makes the last attempt
  write FAILED over a READY file (`JobProcessingService.java:219-221`). The RAG service
  sends no failure after a success has begun so that just this does not happen
  (`RAG/docs/operations/ingest-recovery-policy.md:150-153`).
- `CK_Job_Status` of the shipped schema does not allow WAITING_CALLBACK, the status every
  successful handoff ends in (`SchemaJobStatuses` is a parameter of the model; the
  runs use the statuses of the code).
- Attempts are written back from a stale row (`JobProcessingService.java:211`): with two
  instances a late failure lowers them below what a later claim has counted.
- A retry with the Idempotency-Key of a batch that has FAILED is answered as if it
  had been uploaded, with an empty list of files (`UploadService.java:74-76`); the
  frontend keeps an item's key when the user retries it and shows it as
  UPLOADED (`frontend/src/upload/UploadProvider.tsx:108-115`). A retry that
  comes between the batch and its rows is answered alike.
- If the completion of a batch is committed but reported as an error, the objects of a
  COMPLETED batch are deleted (`UploadService.java:119`; `doubtful` in the model).
- If the owner restores or edits a file of a batch that is still UPLOADING and the
  upload then fails, the reconciler is refused by a foreign key in every round
  and the batch stays UPLOADING (the exception in `BatchesSettle`).
- Restoring from the trash does not look at the quota.
- The RAG service has no endpoint for the purge the backend calls
  (`RagIngestClient.java:49-54`), so these tasks end FAILED with the first call.
- A file whose chunks a chat cites cannot have them replaced: MessageCitation
  refers to Chunk, and the callback of a re-ingestion is refused
  (`ChunkSyncService.java:24`).

*RAG service:*

- When the process dies between the deactivation of the previous document
  (`file_indexing.py:147-150`) and `mark_indexed`, the retry finds its document INDEXING
  and stages over the only active points (lines 103-111): until it activates them the
  file is not found, although `RAG/docs/operations/ingest-recovery-policy.md:6` promises
  that a new failure does not remove the previous state from the search. `AlwaysSearchable` is
  violated as soon as `Faults` has a crash; `SearchNeverLost` is what holds without one.
- After the loss of the advisory lock an older run's compensation deletes the points a
  newer run of the same identity has staged. If the commit of `mark_indexed` takes
  effect but is reported as an error, the compensation deletes the points of the
  current document (`file_indexing.py:152`); the properties name this fault.
- A reply of Claude that was billed and cannot be used (cut off, refused, no JSON) gives
  its whole reservation back (`limited.py:232-240`), so an answer may be billed for more
  than the limits of `generation_config.py:112-114`; `BudgetKept` is about what is
  committed and reserved.
- A DOCX heading of more than 500 characters is indexed in full
  (`chunking/structured.py:167`), and `SourceLocator` refuses a
  section title of that length (`source_locator.py:105`): every search that finds a
  chunk under it fails as a whole (`Citable`; the exception `RefusedForHeading` of
  `CitesUnlessMoved`).
- `_render_with_timeout` keeps what was rendered for the caller only as long as the
  caller waits: when the outer timeout passes first, a result the worker had saved
  is lost, although the docstring at `microsoft_office.py:216-219` has a rendering that
  was completed used.
- The ordinal of an image counts through the document, although it is cited together
  with a page (`source_locator.py:145`).
- A call that is cancelled in `start()` forgets the thread that spawns the pool
  (`process_manager.py:246`): the next call spawns a second set of workers, and the
  processes of the first are nobody's (`CancelWaiting`; they are not in the model).

*Benchmark* (`RAG-Performance/RELIABILITY_TEST_GUIDE.md`):

- The seven checks of section 8 can all be true although a target process is still alive
  and writes afterwards: the wrapper was killed, the target drains behind an ingest.
  `target_process_stopped` asks its health only. What tells is the execution error
  of the thread that did not join, and that is why `ReportedCleanIsClean` speaks of
  campaigns without an error. That orphan's rows remain if it then crashes, or if
  its final cleanup meets a Qdrant the restore has stopped.
- A cleanup request that fails means that no shutdown is posted (`runner.py:526`): the
  target ends by signals only. A baseline that raises is never cleanup-verified, so its
  collection may remain, against section 6 of the guide.
- Ctrl-C in the ending of a session leaves the target running; in the restore it leaves
  the containers. A `docker inspect` that hangs in the restore ends the campaign
  without a report and leaves the services after it unrestored (`RestoreHangs`).
- The verdict "dirty" stops nothing: the exit code is 0. The flags `verify_*` of the
  plan are never read. The timeout probe records "unexpected_success" for a
  connection error. Three failed waves end a window of the soak, not the soak
  (comment near `reliability_runner.py:543`).

*Staged stress* (`RAG-Performance/README.md`; these are the exceptions in `VerdictIsTrue`
and `TrafficAccounted`):

- A health check that fails once after a stage stops the suite; if the service is back for
  the last check, the record in the README says PASSED although the remaining stages
  never ran. Section 16 (lines 601-603) has stops recorded as well; the stop
  reason of the suite is kept in the log only.
- The memory guard cuts a stage short and is asked again in `_summarize`
  (`stress_runner.py:645`). If the memory is free again by then, the stage is reported as
  passed, with fewer requests.
- A stage that is cut before its first request is "skipped". That counts as normal for
  the capacity (`stress_analysis.py:182`) and sets the count of failures in a row back.
- A suite that stops before its ramp takes the limit of the capacity from the other
  stages and may report "no failure up to the limit of the plan".
- A soak whose cap is used up early is "failed" (`stress_analysis.py:242-250` does not know
  the reason), where line 595 has it `stopped`.
- A second Ctrl-C while the first waits for the pool closes the client; requests that
  still end are missing in `requests.json`.

## 8 Plan

Done, in the order in which a document meets danger: ingest, index, purge, upload,
reading, answers, each with its proofs; the benchmark campaign, which starts and
stops the service that all of this runs in, and the staged stress.

Next, in this order:

1. `AutoMetadata`: claim by token, reaper, metadata callback, re-ingestion and
   the owner's edits on one File_Metadata row. Properties: no generation from
   older chunks replaces newer metadata, the owner's document type stays,
   no row is GENERATING for ever (`FileMetadataRepository.java:86`).
2. `FolderTree`: move, trash, restore, purge of folders with their files, each
   transaction in two steps. Properties: the parent relation stays a forest (the
   cycle check and the write see different snapshots, `FolderService.java:94`), a
   restore brings back what its deletion took; then an organizing proposal.
3. `Access`: role cache, refresh tokens, suspension and role changes, first login.
   Properties: a revoked role is not used after the next request (the cache is filled
   while it is invalidated, `JwtAuthenticationFilter.java:95`), lifting a sanction
   restores the status before it (`AdminService.java:75`), one account per identity.
4. `ChatRateLimiter`: its entries are cleaned up while they are used
   (`ChatRateLimiter.java:39`).
5. `PurgeEndToEnd`: IngestPipeline's RAG side, FileIndexing and PurgeOutbox
   composed, for a purge that overtakes an ingest (`RagPurgeService.java:114`, the one
   hazard of `PROJECT.json` without a property).
