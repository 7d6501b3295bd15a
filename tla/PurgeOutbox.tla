----------------------------- MODULE PurgeOutbox -----------------------------
(***************************************************************************)
(* The outbox through which a purged file's data leaves the other systems: *)
(* FileService.permanentDelete inserts a task in the transaction that      *)
(* deletes the file, and a scheduled worker in every backend instance      *)
(* claims tasks, makes the call and records its outcome.  RagPurgeService  *)
(* (the file's points) and S3DeleteService (its object) are one algorithm: *)
(* they differ in the answer that means "already gone", 410 and 404.       *)
(*                                                                         *)
(* The answer of a call may be lost; a worker may die, or fail to write    *)
(* the outcome, at any point.  A claim is a lease longer than the call can *)
(* take; a worker that stalls may outlive it nevertheless.                 *)
(***************************************************************************)
EXTENDS Integers

CONSTANTS
  Tasks,        \* rows of Rag_Purge_Task, or of S3_Delete_Task
  Workers,      \* the scheduled thread of each backend instance
  MaxAttempts,  \* max-attempts
  MaxFailures,  \* bound: crashes of workers, and transactions that fail before a call
  MaxStalls,    \* bound: leases that end before their call does
  NoTask

ASSUME OutboxConstants ==
  /\ MaxAttempts \in Nat \ {0}
  /\ MaxFailures \in Nat /\ MaxStalls \in Nat
  /\ NoTask \notin Tasks

VARIABLES
  task,     \* the rows
  worker,   \* the workers
  gone,     \* the tasks whose data has been deleted
  called,   \* history: the attempts a call was made for
  refused,  \* history: the tasks a call of which was refused for good
  failures, stalls

vars == <<task, worker, gone, called, refused, failures, stalls>>

TaskRow == [status   : {"NONE", "PENDING", "PROCESSING", "DONE", "FAILED"},
            attempts : 0..MaxAttempts,
            due      : BOOLEAN]   \* Next_Attempt_At <= now: retry, or end of the lease

\* A worker between the claim of a task and the end of its call is at "call"; at
\* "markDone", "scheduleRetry" or "markFailed" it has the outcome to write.
Worker == [pc      : {"idle", "list", "drain", "call", "markDone", "scheduleRetry", "markFailed"},
           todo    : SUBSET Tasks,        \* the tasks drainOnce has found
           task    : Tasks \cup {NoTask}, \* ClaimedTask
           attempt : 0..MaxAttempts]

Outcomes == {"markDone", "scheduleRetry", "markFailed"}

IdleWorker == [pc |-> "idle", todo |-> {}, task |-> NoTask, attempt |-> 0]

TypeOK ==
  /\ task \in [Tasks -> TaskRow]
  /\ worker \in [Workers -> Worker]
  /\ gone \subseteq Tasks
  /\ called \in [Tasks -> SUBSET (1..MaxAttempts)]
  /\ refused \subseteq Tasks
  /\ failures \in 0..MaxFailures
  /\ stalls \in 0..MaxStalls

Init ==
  /\ task = [t \in Tasks |-> [status |-> "NONE", attempts |-> 0, due |-> FALSE]]
  /\ worker = [w \in Workers |-> IdleWorker]
  /\ gone = {}
  /\ called = [t \in Tasks |-> {}]
  /\ refused = {}
  /\ failures = 0 /\ stalls = 0

history == <<called, refused, failures, stalls>>

At(w, pc) == worker[w].pc = pc

\* The worker is in a call for the task, or has its outcome to write.
Busy(w, t) == worker[w].pc \in {"call"} \cup Outcomes /\ worker[w].task = t

\* The row at a new status: Next_Attempt_At is null, in the future or now.
Moved(t, status, due) == [task[t] EXCEPT !.status = status, !.due = due]

Failure == failures < MaxFailures /\ failures' = failures + 1

(***************************************************************************)
(* The file is purged                                                      *)
(***************************************************************************)

\* enqueue, in the transaction of permanentDelete.
Enqueue(t) ==
  /\ task[t].status = "NONE"
  /\ task' = [task EXCEPT ![t] = Moved(t, "PENDING", TRUE)]
  /\ UNCHANGED <<worker, gone, history>>

(***************************************************************************)
(* drainOnce                                                               *)
(***************************************************************************)

\* Bug: Recovered puts a claim that has expired back with its attempts reset.
RecoveredAfresh(t) ==
  IF task[t].status = "PROCESSING" /\ task[t].due
  THEN [status |-> "PENDING", attempts |-> 0, due |-> TRUE] ELSE task[t]

\* Bug: Recovered gives up at the first claim that expires.
RecoveredFailed(t) ==
  IF task[t].status = "PROCESSING" /\ task[t].due THEN Moved(t, "FAILED", FALSE) ELSE task[t]

\* Bug: Recovered puts a claim that has expired back whatever its attempts.
RecoveredAlways(t) ==
  IF task[t].status = "PROCESSING" /\ task[t].due THEN Moved(t, "PENDING", TRUE) ELSE task[t]

\* failExpiredClaims, requeueExpiredClaims, failExhaustedPending
Recovered(t) ==
  LET expired   == task[t].status = "PROCESSING" /\ task[t].due
      exhausted == task[t].attempts >= MaxAttempts
  IN  IF exhausted /\ (expired \/ task[t].status = "PENDING") THEN Moved(t, "FAILED", FALSE)
      ELSE IF expired THEN Moved(t, "PENDING", TRUE)
      ELSE task[t]

\* recoverExpiredTasks
Recover(w) ==
  /\ At(w, "idle")
  /\ task' = [t \in Tasks |-> Recovered(t)]
  /\ worker' = [worker EXCEPT ![w].pc = "list"]
  /\ UNCHANGED <<gone, history>>

\* findTop50ByStatusAndNextAttemptAtBeforeOrderByNextAttemptAt
List(w) ==
  /\ At(w, "list")
  /\ worker' = [worker EXCEPT ![w].pc = "drain",
                              ![w].todo = {t \in Tasks : task[t].status = "PENDING" /\ task[t].due}]
  /\ UNCHANGED <<task, gone, history>>

\* The query fails: drainOnce returns.
ListFails(w) ==
  /\ At(w, "list") /\ Failure
  /\ worker' = [worker EXCEPT ![w] = IdleWorker]
  /\ UNCHANGED <<task, gone, called, refused, stalls>>

\* The conditions of the UPDATE that claims.
Claimable(t) == task[t].status = "PENDING" /\ task[t].due /\ task[t].attempts < MaxAttempts

Claim(w, t) ==
  /\ At(w, "drain") /\ t \in worker[w].todo /\ Claimable(t)
  /\ task' = [task EXCEPT ![t] = [status |-> "PROCESSING", attempts |-> @.attempts + 1, due |-> FALSE]]
  /\ worker' = [worker EXCEPT ![w] = [pc |-> "call", todo |-> @.todo \ {t}, task |-> t,
                                      attempt |-> task[t].attempts + 1]]
  /\ UNCHANGED <<gone, history>>

Skip(w, t) ==
  /\ At(w, "drain") /\ t \in worker[w].todo
  /\ worker' = [worker EXCEPT ![w].todo = @ \ {t}]
  /\ UNCHANGED <<task, gone, called, refused, stalls>>

\* Another worker was faster: no row is updated.
ClaimMissed(w, t) == Skip(w, t) /\ ~Claimable(t) /\ UNCHANGED failures

\* The transaction fails.
ClaimFails(w, t) == Skip(w, t) /\ Failure

\* The next run of the schedule starts after fixedDelay.
Drained(w) ==
  /\ At(w, "drain") /\ worker[w].todo = {}
  /\ worker' = [worker EXCEPT ![w] = IdleWorker]
  /\ UNCHANGED <<task, gone, history>>

(***************************************************************************)
(* process: the call                                                       *)
(***************************************************************************)

Returned(w, pc) ==
  /\ worker' = [worker EXCEPT ![w].pc = pc]
  /\ called' = [called EXCEPT ![worker[w].task] = @ \cup {worker[w].attempt}]
  /\ UNCHANGED <<task, failures, stalls>>

\* The call deletes the data, or finds it gone.
CallSucceeds(w) ==
  /\ At(w, "call")
  /\ gone' = gone \cup {worker[w].task}
  /\ Returned(w, "markDone")
  /\ UNCHANGED refused

\* Bug: AfterFailure takes a lost answer for a success.
AfterFailureDone(w) == "markDone"

\* handleFailure: whether there is a retry goes by the attempt that was claimed.
AfterFailure(w) == IF worker[w].attempt < MaxAttempts THEN "scheduleRetry" ELSE "markFailed"

\* A timeout, a lost answer, 408, 425, 429 or 5xx: the data may be gone.
CallFails(w) ==
  /\ At(w, "call")
  /\ gone' \in {gone, gone \cup {worker[w].task}}
  /\ Returned(w, AfterFailure(w))
  /\ UNCHANGED refused

\* Any other status.
CallRefused(w) ==
  /\ At(w, "call")
  /\ refused' = refused \cup {worker[w].task}
  /\ Returned(w, "markFailed")
  /\ UNCHANGED gone

(***************************************************************************)
(* process: the outcome.  The UPDATEs ask for PROCESSING, not for the      *)
(* worker's own claim.                                                     *)
(***************************************************************************)

\* Bug: Update does not ask for the status.
UpdateAny(w, status) ==
  task' = [task EXCEPT ![worker[w].task] = Moved(worker[w].task, status, FALSE)]

Update(w, status) ==
  LET t == worker[w].task
  IN  task' = IF task[t].status = "PROCESSING"
              THEN [task EXCEPT ![t] = Moved(t, status, FALSE)] ELSE task

Resume(w) == worker' = [worker EXCEPT ![w] = [@ EXCEPT !.pc = "drain", !.task = NoTask, !.attempt = 0]]

MarkDone(w) ==
  /\ At(w, "markDone")
  /\ Update(w, "DONE")
  /\ Resume(w)
  /\ UNCHANGED <<gone, history>>

ScheduleRetry(w) ==
  /\ At(w, "scheduleRetry")
  /\ Update(w, "PENDING")
  /\ Resume(w)
  /\ UNCHANGED <<gone, history>>

MarkFailed(w) ==
  /\ At(w, "markFailed")
  /\ Update(w, "FAILED")
  /\ Resume(w)
  /\ UNCHANGED <<gone, history>>

\* The transaction fails: logged, the claim is left to expire.
WriteFails(w) ==
  /\ worker[w].pc \in Outcomes
  /\ Resume(w)
  /\ UNCHANGED <<task, gone, history>>

(***************************************************************************)
(* Time and crashes                                                        *)
(***************************************************************************)

\* A retry is due, or a lease ends.  It is longer than the timeouts of the call:
\* it ends under a worker only if that stalls.
Pass(t) ==
  /\ task[t].status \in {"PENDING", "PROCESSING"} /\ ~task[t].due
  /\ task' = [task EXCEPT ![t].due = TRUE]
  /\ IF task[t].status = "PROCESSING" /\ \E w \in Workers : Busy(w, t)
     THEN stalls < MaxStalls /\ stalls' = stalls + 1
     ELSE UNCHANGED stalls
  /\ UNCHANGED <<worker, gone, called, refused, failures>>

\* The process restarts; its call may have been made.
Crash(w) ==
  /\ ~At(w, "idle") /\ Failure
  /\ gone' \in IF At(w, "call") THEN {gone, gone \cup {worker[w].task}} ELSE {gone}
  /\ worker' = [worker EXCEPT ![w] = IdleWorker]
  /\ UNCHANGED <<task, called, refused, stalls>>

(***************************************************************************)
(* Specification                                                           *)
(***************************************************************************)

Drain(w) ==
  \/ Recover(w) \/ List(w) \/ ListFails(w) \/ Drained(w)
  \/ \E t \in Tasks : Claim(w, t) \/ ClaimMissed(w, t) \/ ClaimFails(w, t)
  \/ CallSucceeds(w) \/ CallFails(w) \/ CallRefused(w)
  \/ MarkDone(w) \/ ScheduleRetry(w) \/ MarkFailed(w) \/ WriteFails(w)

Next ==
  \/ \E t \in Tasks : Enqueue(t) \/ Pass(t)
  \/ \E w \in Workers : Drain(w) \/ Crash(w)

Spec == Init /\ [][Next]_vars

\* The scheduled thread goes on, also after a restart; time passes.
Fairness ==
  /\ \A w \in Workers : WF_vars(Drain(w))
  /\ \A t \in Tasks : WF_vars(Pass(t))

FairSpec == Spec /\ Fairness

(***************************************************************************)
(* Properties                                                              *)
(***************************************************************************)

\* A task is DONE only if its data is gone, whoever's claim it was.
DoneMeansGone == \A t \in Tasks : task[t].status = "DONE" => t \in gone

\* A task is given up only for a reason: a call was refused for good, or every
\* attempt was made.  A worker that stalled cannot give it up early.
GivenUpForAReason ==
  \A t \in Tasks : task[t].status = "FAILED" => t \in refused \/ task[t].attempts = MaxAttempts

\* No attempt is called for twice, so that the other system is called at most
\* MaxAttempts times for a task, whatever crashes, stalls and is claimed again.
OneCallPerAttempt ==
  \A w \in Workers : At(w, "call") =>
    /\ worker[w].attempt \notin called[worker[w].task]
    /\ \A v \in Workers \ {w} :
         At(v, "call") /\ worker[v].task = worker[w].task => worker[v].attempt # worker[w].attempt

\* As long as no lease ends under its worker, one worker at a time is busy with a
\* task, from the claim to the outcome, even if other instances list it too.
OneCaller ==
  stalls = 0 => \A t \in Tasks, v, w \in Workers : Busy(v, t) /\ Busy(w, t) => v = w

(***************************************************************************)
(* The inductive invariant                                                 *)
(***************************************************************************)

\* What a worker knows of the task it is busy with stays true of the row.
WorkersKnow ==
  \A w \in Workers, t \in Tasks : Busy(w, t) =>
    /\ worker[w].attempt \in 1..task[t].attempts
    /\ At(w, "markDone") => t \in gone
    /\ At(w, "markFailed") => t \in refused \/ worker[w].attempt = MaxAttempts

BusyHasTask == \A w \in Workers : worker[w].pc \in {"call"} \cup Outcomes => worker[w].task \in Tasks

CalledWereClaimed == \A t \in Tasks : called[t] \subseteq 1..task[t].attempts

\* The lease of a worker that is busy has not ended.
LeaseCovers ==
  stalls = 0 => \A w \in Workers, t \in Tasks :
    Busy(w, t) => task[t].status = "PROCESSING" /\ ~task[t].due

IInv ==
  /\ TypeOK /\ BusyHasTask /\ WorkersKnow /\ CalledWereClaimed /\ LeaseCovers
  /\ DoneMeansGone /\ GivenUpForAReason /\ OneCallPerAttempt /\ OneCaller

\* What is DONE or FAILED stays so: a late outcome does not reopen a task.
SettledStays ==
  [][\A t \in Tasks : task[t].status \in {"DONE", "FAILED"} => task'[t] = task[t]]_vars

\* Every task is settled in the end, whatever is lost, crashes or stalls.
TasksSettle == \A t \in Tasks : task[t].status = "PENDING" ~> task[t].status \in {"DONE", "FAILED"}

=============================================================================
