-------------------------- MODULE PurgeOutboxProofs --------------------------
(***************************************************************************)
(* Proofs about PurgeOutbox: the invariant IInv is inductive, for any      *)
(* number of tasks, workers, attempts, failures and stalls.  The steps of  *)
(* a worker that is not, or no longer, busy with a task are one lemma, the *)
(* return of a call is another, the writing of an outcome a third.         *)
(***************************************************************************)
EXTENDS PurgeOutbox, TLAPS

USE OutboxConstants

BusyPc == {"call"} \cup Outcomes

\* A worker that gives up, or never had, a task disturbs nothing.
LEMMA LetGo ==
  ASSUME IInv, NEW w \in Workers, NEW x \in Worker, x.pc \notin BusyPc,
         worker' = [worker EXCEPT ![w] = x],
         task' = task, gone \subseteq gone', gone' \subseteq Tasks,
         called' = called, refused' = refused, failures' \in 0..MaxFailures, stalls' = stalls
  PROVE  IInv'
<1> USE DEF IInv, TypeOK, BusyPc, Outcomes, At, Busy
<1>1. \A v \in Workers : worker'[v] = IF v = w THEN x ELSE worker[v]
  OBVIOUS
<1>2. TypeOK'
  OBVIOUS
<1>3. BusyHasTask'
  BY <1>1 DEF BusyHasTask
<1>4. WorkersKnow'
  BY <1>1 DEF WorkersKnow
<1>5. CalledWereClaimed' /\ DoneMeansGone' /\ GivenUpForAReason'
  BY DEF CalledWereClaimed, DoneMeansGone, GivenUpForAReason
<1>6. LeaseCovers'
  BY <1>1 DEF LeaseCovers
<1>7. OneCallPerAttempt'
  BY <1>1 DEF OneCallPerAttempt
<1>8. OneCaller'
  BY <1>1 DEF OneCaller
<1>9. QED
  BY <1>2, <1>3, <1>4, <1>5, <1>6, <1>7, <1>8

\* A call returns: the worker has an outcome to write, and reason to.
LEMMA CallReturns ==
  ASSUME IInv, NEW w \in Workers, At(w, "call"), NEW pc \in Outcomes, Returned(w, pc),
         gone \subseteq gone', gone' \subseteq Tasks,
         refused \subseteq refused', refused' \subseteq Tasks,
         pc = "markDone" => worker[w].task \in gone',
         pc = "markFailed" => worker[w].task \in refused' \/ worker[w].attempt = MaxAttempts
  PROVE  IInv'
<1> USE DEF IInv, TypeOK, Outcomes, At, Busy, Returned
<1>t. worker[w].task \in Tasks /\ worker[w].attempt \in 1..task[worker[w].task].attempts
      /\ task[worker[w].task].attempts \in 0..MaxAttempts
  BY DEF BusyHasTask, WorkersKnow, TaskRow
<1>w. \A v \in Workers : /\ v # w => worker'[v] = worker[v]
                         /\ worker'[v].task = worker[v].task
                         /\ worker'[v].attempt = worker[v].attempt
  BY DEF Worker
<1>p. worker'[w].pc = pc
  BY DEF Worker
<1>c. \A t \in Tasks : called'[t] = IF t = worker[w].task THEN called[t] \cup {worker[w].attempt}
                                    ELSE called[t]
  BY <1>t
<1>1. TypeOK'
  <2>1. worker' \in [Workers -> Worker]
    BY DEF Worker
  <2>2. called' \in [Tasks -> SUBSET (1..MaxAttempts)]
    BY <1>t
  <2>3. QED
    BY <2>1, <2>2
<1>2. BusyHasTask'
  BY <1>w, <1>t DEF BusyHasTask
<1>3. WorkersKnow'
  BY <1>w, <1>p DEF WorkersKnow
<1>4. CalledWereClaimed'
  BY <1>c, <1>t DEF CalledWereClaimed
<1>5. DoneMeansGone' /\ GivenUpForAReason'
  BY DEF DoneMeansGone, GivenUpForAReason
<1>6. LeaseCovers'
  BY <1>w, <1>p DEF LeaseCovers
<1>7. OneCallPerAttempt'
  BY <1>w, <1>p, <1>c DEF OneCallPerAttempt
<1>8. OneCaller'
  BY <1>w, <1>p DEF OneCaller
<1>9. QED
  BY <1>1, <1>2, <1>3, <1>4, <1>5, <1>6, <1>7, <1>8

\* An outcome is written, on whatever claim the row is at.
LEMMA OutcomeWritten ==
  ASSUME IInv, NEW w \in Workers, worker[w].pc \in Outcomes,
         NEW status \in {"DONE", "PENDING", "FAILED"},
         status = "DONE" => At(w, "markDone"), status = "FAILED" => At(w, "markFailed"),
         Update(w, status), Resume(w), UNCHANGED <<gone, history>>
  PROVE  IInv'
<1> DEFINE t == worker[w].task
<1> USE DEF IInv, TypeOK, Outcomes, At, Busy
<1>t. t \in Tasks /\ worker[w].attempt \in 1..task[t].attempts /\ task[t].attempts \in 0..MaxAttempts
  BY DEF BusyHasTask, WorkersKnow, TaskRow
<1>u. gone' = gone /\ called' = called /\ refused' = refused /\ failures' = failures /\ stalls' = stalls
  BY DEF history
<1>w. \A v \in Workers \ {w} : worker'[v] = worker[v]
  BY DEF Resume
<1>p. worker'[w].pc = "drain"
  BY DEF Resume, Worker
<1>r. /\ \A s \in Tasks : s # t => task'[s] = task[s]
      /\ \A s \in Tasks : task'[s].attempts = task[s].attempts
      /\ task'[t].status \in {task[t].status, status}
  BY <1>t DEF Update, Moved, TaskRow
<1>1. TypeOK'
  <2>1. worker' \in [Workers -> Worker]
    <3>1. worker[w] \in Worker /\ 0 \in 0..MaxAttempts
      OBVIOUS
    <3>2. [worker[w] EXCEPT !.pc = "drain", !.task = NoTask, !.attempt = 0] \in Worker
      BY <3>1 DEF Worker
    <3>3. QED
      BY <3>2 DEF Resume
  <2>2. task' \in [Tasks -> TaskRow]
    BY <1>t DEF TaskRow, Update, Moved
  <2>3. QED
    BY <2>1, <2>2, <1>u
<1>2. BusyHasTask'
  BY <1>w, <1>p DEF BusyHasTask
<1>3. WorkersKnow'
  BY <1>w, <1>p, <1>r, <1>u DEF WorkersKnow
<1>4. CalledWereClaimed'
  BY <1>r, <1>u DEF CalledWereClaimed
<1>5. DoneMeansGone'
  BY <1>r, <1>u, <1>t DEF DoneMeansGone, WorkersKnow
<1>6. GivenUpForAReason'
  BY <1>r, <1>u, <1>t DEF GivenUpForAReason, WorkersKnow
<1>7. LeaseCovers'
  <2> SUFFICES ASSUME stalls = 0, NEW v \in Workers, NEW s \in Tasks, Busy(v, s)'
               PROVE  task'[s].status = "PROCESSING" /\ ~task'[s].due
    BY <1>u DEF LeaseCovers
  <2>1. v # w /\ Busy(v, s)
    BY <1>w, <1>p
  <2>2. s # t
    BY <2>1, <1>t DEF OneCaller
  <2>3. QED
    BY <2>1, <2>2, <1>r DEF LeaseCovers
<1>8. OneCallPerAttempt'
  BY <1>w, <1>p, <1>u DEF OneCallPerAttempt
<1>9. OneCaller'
  BY <1>w, <1>p, <1>u DEF OneCaller
<1>10. QED
  BY <1>1, <1>2, <1>3, <1>4, <1>5, <1>6, <1>7, <1>8, <1>9

\* Rows change that nobody's lease covers: no attempts are added, none is DONE anew.
LEMMA RowsChange ==
  ASSUME IInv, task' \in [Tasks -> TaskRow],
         \A t \in Tasks : /\ task'[t].attempts = task[t].attempts
                          /\ task'[t].status = "DONE" => task[t].status = "DONE"
                          /\ task'[t].status = "FAILED" =>
                               task[t].status = "FAILED" \/ task[t].attempts = MaxAttempts,
         stalls' \in 0..MaxStalls, stalls' = 0 => stalls = 0,
         \A t \in Tasks : stalls' = 0 /\ (\E w \in Workers : Busy(w, t)) => task'[t] = task[t],
         NEW x, worker' = x, x \in [Workers -> Worker],
         \A w \in Workers : x[w].pc # worker[w].pc => x[w].pc \notin BusyPc,
         \A w \in Workers : x[w].task = worker[w].task /\ x[w].attempt = worker[w].attempt,
         gone' = gone, called' = called, refused' = refused, failures' = failures
  PROVE  IInv'
<1> USE DEF IInv, TypeOK, Outcomes, At, Busy, BusyPc
<1>1. TypeOK'
  OBVIOUS
<1>2. BusyHasTask'
  BY DEF BusyHasTask
<1>3. WorkersKnow'
  BY DEF WorkersKnow
<1>4. CalledWereClaimed'
  BY DEF CalledWereClaimed
<1>5. DoneMeansGone' /\ GivenUpForAReason'
  BY DEF DoneMeansGone, GivenUpForAReason
<1>6. LeaseCovers'
  BY DEF LeaseCovers
<1>7. OneCallPerAttempt'
  BY DEF OneCallPerAttempt
<1>8. OneCaller'
  BY DEF OneCaller
<1>9. QED
  BY <1>1, <1>2, <1>3, <1>4, <1>5, <1>6, <1>7, <1>8

\* Tasks that are not yet, or no more, in the hands of a worker.
LEMMA RecoveredRow ==
  ASSUME TypeOK, NEW t \in Tasks
  PROVE  /\ Recovered(t) \in TaskRow
         /\ Recovered(t).attempts = task[t].attempts
         /\ Recovered(t).status = "DONE" => task[t].status = "DONE"
         /\ Recovered(t).status = "FAILED" =>
              task[t].status = "FAILED" \/ task[t].attempts = MaxAttempts
         /\ task[t].status = "PROCESSING" /\ ~task[t].due => Recovered(t) = task[t]
<1>1. task[t] \in TaskRow /\ (task[t].attempts >= MaxAttempts => task[t].attempts = MaxAttempts)
  BY DEF TypeOK, TaskRow
<1>2. \A due \in BOOLEAN : /\ Moved(t, "FAILED", due) \in TaskRow /\ Moved(t, "PENDING", due) \in TaskRow
                            /\ Moved(t, "FAILED", due).attempts = task[t].attempts
                            /\ Moved(t, "PENDING", due).attempts = task[t].attempts
                            /\ Moved(t, "FAILED", due).status = "FAILED"
                            /\ Moved(t, "PENDING", due).status = "PENDING"
  BY <1>1 DEF Moved, TaskRow
<1>3. QED
  BY <1>1, <1>2 DEF Recovered

LEMMA Recovers == ASSUME IInv, NEW w \in Workers, Recover(w) PROVE IInv'
<1>1. \A t \in Tasks : task'[t] = Recovered(t)
  BY DEF Recover
<1>2. task' \in [Tasks -> TaskRow]
  BY RecoveredRow DEF Recover, IInv
<1>3. \A t \in Tasks : stalls = 0 /\ (\E v \in Workers : Busy(v, t)) => task'[t] = task[t]
  BY <1>1, RecoveredRow DEF IInv, LeaseCovers
<1>4. /\ worker' = [worker EXCEPT ![w].pc = "list"] /\ worker' \in [Workers -> Worker]
      /\ \A v \in Workers : worker'[v].pc # worker[v].pc => worker'[v].pc \notin BusyPc
      /\ \A v \in Workers : worker'[v].task = worker[v].task /\ worker'[v].attempt = worker[v].attempt
  BY DEF Recover, IInv, TypeOK, Worker, BusyPc, Outcomes
<1>5. QED
  BY <1>1, <1>2, <1>3, <1>4, RecoveredRow, RowsChange DEF Recover, history, IInv, TypeOK

LEMMA Enqueued == ASSUME IInv, NEW t \in Tasks, Enqueue(t) PROVE IInv'
<1>1. task[t].status = "NONE" /\ task[t] \in TaskRow
  BY DEF Enqueue, IInv, TypeOK
<1>2. /\ task' \in [Tasks -> TaskRow]
      /\ \A s \in Tasks : /\ task'[s].attempts = task[s].attempts
                          /\ task'[s].status = "DONE" => task[s].status = "DONE"
                          /\ task'[s].status = "FAILED" => task[s].status = "FAILED"
                          /\ s # t => task'[s] = task[s]
  BY <1>1 DEF Enqueue, Moved, TaskRow, IInv, TypeOK
<1>3. \A s \in Tasks : stalls = 0 /\ (\E v \in Workers : Busy(v, s)) => task'[s] = task[s]
  BY <1>1, <1>2 DEF IInv, LeaseCovers
<1>4. QED
  BY <1>2, <1>3, RowsChange DEF Enqueue, history, IInv, TypeOK

LEMMA Passes == ASSUME IInv, NEW t \in Tasks, Pass(t) PROVE IInv'
<1>1. /\ task' \in [Tasks -> TaskRow]
      /\ \A s \in Tasks : /\ task'[s].attempts = task[s].attempts
                          /\ task'[s].status = task[s].status
                          /\ s # t => task'[s] = task[s]
  BY DEF Pass, TaskRow, IInv, TypeOK
<1>2. stalls' \in 0..MaxStalls /\ (stalls' = 0 => stalls = 0)
  BY DEF Pass, IInv, TypeOK
<1>3. \A s \in Tasks : stalls' = 0 /\ (\E v \in Workers : Busy(v, s)) => task'[s] = task[s]
  <2> SUFFICES ASSUME stalls' = 0, NEW v \in Workers, Busy(v, t) PROVE FALSE
    BY <1>1
  <2>1. stalls = 0 /\ task[t].status = "PROCESSING"
    BY <1>2 DEF IInv, LeaseCovers
  <2>2. stalls' = stalls + 1
    BY <2>1 DEF Pass
  <2>3. QED
    BY <2>1, <2>2
<1>4. QED
  BY <1>1, <1>2, <1>3, RowsChange DEF Pass, IInv, TypeOK

\* A claim: the attempt is new, and nobody is busy with a PENDING task unless a
\* lease has ended under its worker.
LEMMA Claims == ASSUME IInv, NEW w \in Workers, NEW t \in Tasks, Claim(w, t) PROVE IInv'
<1> DEFINE k == task[t].attempts + 1
<1> USE DEF IInv, TypeOK, Outcomes, At, Busy, Claim, Claimable
<1>u. gone' = gone /\ called' = called /\ refused' = refused /\ failures' = failures /\ stalls' = stalls
  BY DEF history
<1>k. k \in 1..MaxAttempts /\ task[t].attempts \in 0..MaxAttempts /\ task[t].status = "PENDING"
  BY DEF TaskRow
<1>w. /\ \A v \in Workers \ {w} : worker'[v] = worker[v]
      /\ worker'[w].pc = "call" /\ worker'[w].task = t /\ worker'[w].attempt = k
  OBVIOUS
<1>r. /\ \A s \in Tasks \ {t} : task'[s] = task[s]
      /\ task'[t].status = "PROCESSING" /\ task'[t].attempts = k /\ ~task'[t].due
  OBVIOUS
<1>1. TypeOK'
  <2>1. task' \in [Tasks -> TaskRow]
    BY <1>k DEF TaskRow
  <2>2. worker' \in [Workers -> Worker]
    BY <1>k DEF Worker
  <2>3. QED
    BY <2>1, <2>2, <1>u
<1>2. BusyHasTask'
  BY <1>w DEF BusyHasTask
<1>3. WorkersKnow'
  <2> SUFFICES ASSUME NEW v \in Workers, NEW s \in Tasks, Busy(v, s)'
               PROVE  /\ worker'[v].attempt \in 1..task'[s].attempts
                      /\ worker'[v].pc = "markDone" => s \in gone
                      /\ worker'[v].pc = "markFailed" => s \in refused \/ worker'[v].attempt = MaxAttempts
    BY <1>u DEF WorkersKnow
  <2>1. CASE v = w
    BY <2>1, <1>w, <1>r, <1>k
  <2>2. CASE v # w
    <3>1. worker'[v] = worker[v] /\ Busy(v, s)
      BY <2>2, <1>w
    <3>2. task[s].attempts \in 0..MaxAttempts /\ task'[s].attempts \in {task[s].attempts, task[s].attempts + 1}
      BY <1>r, <1>k DEF TaskRow
    <3>3. QED
      BY <3>1, <3>2 DEF WorkersKnow
  <2>3. QED
    BY <2>1, <2>2
<1>4. CalledWereClaimed'
  BY <1>r, <1>k, <1>u DEF CalledWereClaimed
<1>5. DoneMeansGone' /\ GivenUpForAReason'
  BY <1>r, <1>u DEF DoneMeansGone, GivenUpForAReason
<1>n. stalls = 0 => \A v \in Workers : ~Busy(v, t)
  BY <1>k DEF LeaseCovers
<1>6. LeaseCovers'
  BY <1>w, <1>r, <1>n, <1>u DEF LeaseCovers
<1>7. OneCallPerAttempt'
  <2>1. k \notin called[t]
    BY <1>k DEF CalledWereClaimed
  <2>2. \A v \in Workers : Busy(v, t) => worker[v].attempt # k
    BY <1>k DEF WorkersKnow
  <2>3. QED
    BY <2>1, <2>2, <1>w, <1>u DEF OneCallPerAttempt
<1>8. OneCaller'
  BY <1>w, <1>n, <1>u DEF OneCaller
<1>9. QED
  BY <1>1, <1>2, <1>3, <1>4, <1>5, <1>6, <1>7, <1>8

THEOREM OutboxInvariant == Spec => []IInv
<1>1. Init => IInv
  <2> SUFFICES ASSUME Init PROVE IInv
    OBVIOUS
  <2> USE DEF Init, IdleWorker, Outcomes, At, Busy
  <2>1. TypeOK
    BY DEF TypeOK, TaskRow, Worker
  <2>2. BusyHasTask /\ WorkersKnow /\ LeaseCovers /\ OneCallPerAttempt /\ OneCaller
    BY DEF BusyHasTask, WorkersKnow, LeaseCovers, OneCallPerAttempt, OneCaller
  <2>3. CalledWereClaimed /\ DoneMeansGone /\ GivenUpForAReason
    BY DEF CalledWereClaimed, DoneMeansGone, GivenUpForAReason
  <2>4. QED
    BY <2>1, <2>2, <2>3 DEF IInv
<1>2. IInv /\ [Next]_vars => IInv'
  <2> SUFFICES ASSUME IInv, [Next]_vars PROVE IInv'
    OBVIOUS
  <2> DEFINE LetsGo(w, x) ==
        /\ x \in Worker /\ x.pc \notin BusyPc /\ worker' = [worker EXCEPT ![w] = x]
        /\ task' = task /\ gone \subseteq gone' /\ gone' \subseteq Tasks
        /\ called' = called /\ refused' = refused /\ failures' \in 0..MaxFailures /\ stalls' = stalls
  <2>l. ASSUME NEW w \in Workers, NEW x, LetsGo(w, x) PROVE IInv'
    BY <2>l, LetGo
  <2>i. IdleWorker \in Worker /\ \A w \in Workers : worker[w] \in Worker
    BY DEF IdleWorker, Worker, IInv, TypeOK
  <2>f. failures \in 0..MaxFailures /\ gone \subseteq Tasks /\ (Failure => failures' \in 0..MaxFailures)
    BY DEF Failure, IInv, TypeOK
  <2> HIDE DEF LetsGo
  <2>1. ASSUME NEW t \in Tasks, Enqueue(t) PROVE IInv'
    BY <2>1, Enqueued
  <2>2. ASSUME NEW t \in Tasks, Pass(t) PROVE IInv'
    BY <2>2, Passes
  <2>3. ASSUME NEW w \in Workers, Recover(w) PROVE IInv'
    BY <2>3, Recovers
  <2>4. ASSUME NEW w \in Workers, List(w) PROVE IInv'
    <3> DEFINE x == [worker[w] EXCEPT !.pc = "drain", !.todo = {t \in Tasks : task[t].status = "PENDING" /\ task[t].due}]
    <3>1. x \in Worker /\ x.pc \notin BusyPc /\ worker' = [worker EXCEPT ![w] = x]
      BY <2>4, <2>i DEF List, Worker, BusyPc, Outcomes
    <3>2. LetsGo(w, x)
      BY <2>4, <2>f, <3>1 DEF List, history, LetsGo
    <3>3. QED
      BY <3>2, <2>l
  <2>5. ASSUME NEW w \in Workers, ListFails(w) \/ Drained(w) \/ Crash(w) PROVE IInv'
    <3>1. gone' \subseteq Tasks /\ gone \subseteq gone'
      <4>1. At(w, "call") => worker[w].task \in Tasks
        BY DEF IInv, BusyHasTask, At
      <4>2. QED
        BY <2>5, <2>f, <4>1 DEF ListFails, Drained, Crash
    <3>2. LetsGo(w, IdleWorker)
      BY <2>5, <2>i, <2>f, <3>1 DEF ListFails, Drained, Crash, history, LetsGo,
         IdleWorker, BusyPc, Outcomes
    <3>3. QED
      BY <3>2, <2>l
  <2>6. ASSUME NEW w \in Workers, NEW t \in Tasks, Claim(w, t) PROVE IInv'
    BY <2>6, Claims
  <2>7. ASSUME NEW w \in Workers, NEW t \in Tasks, ClaimMissed(w, t) \/ ClaimFails(w, t) PROVE IInv'
    <3> DEFINE x == [worker[w] EXCEPT !.todo = @ \ {t}]
    <3>1. x \in Worker /\ x.pc \notin BusyPc /\ worker' = [worker EXCEPT ![w] = x]
      BY <2>7, <2>i DEF ClaimMissed, ClaimFails, Skip, Worker, At, BusyPc, Outcomes
    <3>2. LetsGo(w, x)
      BY <2>7, <2>f, <3>1 DEF ClaimMissed, ClaimFails, Skip, LetsGo
    <3>3. QED
      BY <3>2, <2>l
  <2>8. ASSUME NEW w \in Workers, CallSucceeds(w) \/ CallFails(w) \/ CallRefused(w) PROVE IInv'
    <3>1. worker[w].task \in Tasks /\ worker[w].attempt \in 0..MaxAttempts /\ At(w, "call")
      BY <2>8, <2>i DEF IInv, BusyHasTask, At, CallSucceeds, CallFails, CallRefused, Worker
    <3>2. gone \subseteq Tasks /\ refused \subseteq Tasks
      BY DEF IInv, TypeOK
    <3>3. CASE CallSucceeds(w)
      BY <3>1, <3>2, <3>3, CallReturns DEF CallSucceeds, Outcomes
    <3>4. CASE CallRefused(w)
      BY <3>1, <3>2, <3>4, CallReturns DEF CallRefused, Outcomes
    <3>5. CASE CallFails(w)
      <4>1. /\ AfterFailure(w) \in Outcomes /\ AfterFailure(w) # "markDone"
            /\ AfterFailure(w) = "markFailed" => worker[w].attempt = MaxAttempts
        BY <3>1 DEF AfterFailure, Outcomes
      <4>2. QED
        BY <3>1, <3>2, <3>5, <4>1, CallReturns DEF CallFails
    <3>6. QED
      BY <2>8, <3>3, <3>4, <3>5
  <2>9. ASSUME NEW w \in Workers, MarkDone(w) \/ ScheduleRetry(w) \/ MarkFailed(w) PROVE IInv'
    BY <2>9, OutcomeWritten DEF MarkDone, ScheduleRetry, MarkFailed, At, Outcomes
  <2>10. ASSUME NEW w \in Workers, WriteFails(w) PROVE IInv'
    <3> DEFINE x == [worker[w] EXCEPT !.pc = "drain", !.task = NoTask, !.attempt = 0]
    <3>1. 0 \in 0..MaxAttempts
      OBVIOUS
    <3>2. x \in Worker /\ x.pc \notin BusyPc
      BY <2>i, <3>1 DEF Worker, BusyPc, Outcomes
    <3>3. LetsGo(w, x)
      BY <2>10, <2>f, <3>2 DEF WriteFails, Resume, history, LetsGo
    <3>4. QED
      BY <3>3, <2>l
  <2>11. ASSUME UNCHANGED vars PROVE IInv'
    BY <2>11 DEF vars, IInv, TypeOK, BusyHasTask, WorkersKnow, CalledWereClaimed, LeaseCovers,
                 DoneMeansGone, GivenUpForAReason, OneCallPerAttempt, OneCaller, Busy, At
  <2>12. QED
    BY <2>1, <2>2, <2>3, <2>4, <2>5, <2>6, <2>7, <2>8, <2>9, <2>10, <2>11 DEF Next, Drain
<1>3. QED
  BY <1>1, <1>2, PTL DEF Spec

\* A DONE task's data is gone.
THEOREM DoneTasksAreGone == Spec => []DoneMeansGone
<1>1. IInv => DoneMeansGone
  BY DEF IInv
<1>2. QED
  BY <1>1, OutboxInvariant, PTL

\* A FAILED task was refused for good or has used its attempts up.
THEOREM GivenUpTasksHaveAReason == Spec => []GivenUpForAReason
<1>1. IInv => GivenUpForAReason
  BY DEF IInv
<1>2. QED
  BY <1>1, OutboxInvariant, PTL

\* At most one call is made for an attempt.
THEOREM CallsAreBounded == Spec => []OneCallPerAttempt
<1>1. IInv => OneCallPerAttempt
  BY DEF IInv
<1>2. QED
  BY <1>1, OutboxInvariant, PTL

\* One worker at a time is busy with a task unless a lease ends under its worker.
THEOREM LeasesExclude == Spec => []OneCaller
<1>1. IInv => OneCaller
  BY DEF IInv
<1>2. QED
  BY <1>1, OutboxInvariant, PTL

\* A settled task is never touched again.
THEOREM SettledTasksStay == Spec => SettledStays
<1> DEFINE Settled(t) == task[t].status \in {"DONE", "FAILED"}
<1> DEFINE Keeps == \A t \in Tasks : Settled(t) => task'[t] = task[t]
<1>1. TypeOK /\ [Next]_vars => Keeps
  <2> SUFFICES ASSUME TypeOK, [Next]_vars, NEW t \in Tasks, Settled(t) PROVE task'[t] = task[t]
    OBVIOUS
  <2>1. ASSUME NEW s \in Tasks, Enqueue(s) \/ Pass(s) PROVE task'[t] = task[t]
    BY <2>1 DEF Enqueue, Pass, TypeOK
  <2>2. ASSUME NEW w \in Workers, Recover(w) PROVE task'[t] = task[t]
    BY <2>2 DEF Recover, Recovered
  <2>3. ASSUME NEW w \in Workers, NEW s \in Tasks, Claim(w, s) PROVE task'[t] = task[t]
    BY <2>3 DEF Claim, Claimable, TypeOK
  <2>4. ASSUME NEW w \in Workers, MarkDone(w) \/ ScheduleRetry(w) \/ MarkFailed(w) PROVE task'[t] = task[t]
    BY <2>4 DEF MarkDone, ScheduleRetry, MarkFailed, Update, TypeOK
  <2>5. ASSUME NEW w \in Workers, NEW s \in Tasks,
               ClaimMissed(w, s) \/ ClaimFails(w, s) PROVE task'[t] = task[t]
    BY <2>5 DEF ClaimMissed, ClaimFails, Skip
  <2>6. ASSUME NEW w \in Workers,
               \/ List(w) \/ ListFails(w) \/ Drained(w) \/ CallSucceeds(w) \/ CallFails(w)
               \/ CallRefused(w) \/ WriteFails(w) \/ Crash(w)
        PROVE  task'[t] = task[t]
    BY <2>6 DEF List, ListFails, Drained, CallSucceeds, CallFails, CallRefused,
       WriteFails, Crash, Returned
  <2>7. ASSUME UNCHANGED vars PROVE task'[t] = task[t]
    BY <2>7 DEF vars
  <2>8. QED
    BY <2>1, <2>2, <2>3, <2>4, <2>5, <2>6, <2>7 DEF Next, Drain
<1>2. IInv => TypeOK
  BY DEF IInv
<1>3. Keeps => [\A t \in Tasks : task[t].status \in {"DONE", "FAILED"} => task'[t] = task[t]]_vars
  OBVIOUS
<1> HIDE DEF Keeps
<1>4. QED
  BY <1>1, <1>2, <1>3, OutboxInvariant, PTL DEF Spec, SettledStays

===============================================================================
