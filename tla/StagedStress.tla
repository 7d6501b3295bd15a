---------------------------- MODULE StagedStress ----------------------------
(***************************************************************************)
(* The staged stress campaign of RAG-Performance (stress_runner.py): a     *)
(* thread that takes the stages of a plan in turn and submits searches to  *)
(* a pool, the workers of the pool, and what it says of them afterwards:   *)
(* the summary of a stage, the limit of the capacity and the verdict in    *)
(* the README.  Beside it are the service, which may be down for a while,  *)
(* the memory of the host, which may be short for a while, and Ctrl-C.     *)
(*                                                                         *)
(* Requests are counted, not named, and clocks are not modelled: the time  *)
(* of a stage may be over at any moment, a wait may time out at any.       *)
(***************************************************************************)
EXTENDS Naturals, Sequences, FiniteSetsExt

CONSTANTS
  Plans,              \* the enabled stages of each plan
  MaxErrorPercent,    \* stop_policy.max_error_rate
  ConsecutiveFailed,  \* stop_policy.consecutive_failed_stages
  MaxTotalRequests,   \* max_total_requests
  MaxSoak,            \* bound: requests of a soak without a cap
  MaxOutages,         \* bound: times the service goes down
  MaxPressure,        \* bound: times the host runs short of memory
  MaxInterrupts       \* bound: Ctrl-C

Results == {"ok", "slow", "error"}  \* a success within sla_seconds, one beyond, the rest
None == [r \in Results |-> 0]
Total(results) == results["ok"] + results["slow"] + results["error"]
Plus(a, b) == [r \in Results |-> a[r] + b[r]]

Fixed == {"burst", "ramp"}  \* the modes whose requests are all submitted at once
Timed == {"soak", "chaos"}  \* the modes that end with their time

(* The sum of the numbers n[x]: they are as many as these pairs.                *)
SumOf(n) == Cardinality(UNION {{x} \X (1..n[x]) : x \in DOMAIN n})

(* What the fields of a stage may hold, mode by mode.                           *)
Stage ==
  [mode : {"burst", "interval"}, total : Nat, workers : Nat]
    \cup [mode : {"batch"}, total : Nat, size : Nat, workers : Nat]
    \cup [mode : {"ramp"}, start : Nat, step : Nat, max : Nat, perWorker : Nat]
    \cup [mode : {"soak"}, workers : Nat, cap : Nat]
    \cup [mode : {"chaos"}, workers : Nat, tps : Nat, spike : Nat, ticks : Nat, spikes : Nat, multiplier : Nat]

(* Concurrency a ramp goes through.                                             *)
Levels(s) == {c \in s.start..s.max : (c - s.start) % s.step = 0}

DeclaredRequests(s) ==
  CASE s.mode \in {"burst", "interval", "batch"} -> s.total
    [] s.mode = "ramp" -> SumOf([c \in Levels(s) |-> c * s.perWorker])
    [] s.mode = "soak" -> s.cap
    [] s.mode = "chaos" -> s.ticks * s.tps + s.spikes * s.spike

ValidStage(s) ==
  CASE s.mode \in {"burst", "interval"} -> s.total > 0 /\ s.workers > 0
    [] s.mode = "batch" -> s.total > 0 /\ s.size > 0 /\ s.workers > 0
    [] s.mode = "ramp" -> s.start > 0 /\ s.step > 0 /\ s.start <= s.max /\ s.perWorker > 0
    [] s.mode = "soak" -> s.workers > 0
    [] s.mode = "chaos" -> s.ticks > 0 /\ s.tps > 0 /\ s.spike > 0 /\ s.workers > 0 /\ s.multiplier > 0

Declared(plan) == SumOf([i \in DOMAIN plan |-> DeclaredRequests(plan[i])])
ValidPlan(plan) ==
  plan \in Seq(Stage) /\ plan # <<>> /\ (\A i \in DOMAIN plan : ValidStage(plan[i])) /\ Declared(plan) <= MaxTotalRequests

ASSUME StressConstants ==
  /\ \A plan \in Plans : ValidPlan(plan)
  /\ MaxErrorPercent \in 0..100 /\ ConsecutiveFailed \in 1..100 /\ MaxTotalRequests \in Nat \ {0}
  /\ MaxSoak \in Nat /\ MaxOutages \in Nat /\ MaxPressure \in Nat /\ MaxInterrupts \in Nat

VARIABLES
  plan, stage,     \* the plan and the number of its stage
  pc,              \* where the thread of the runner is
  level,           \* declared concurrency: the workers of the pool
  submitted,       \* requests submitted in this stage, a ramp's in this level
  left, ticks, spikes,  \* of a chaos: requests of this second to submit, seconds and spikes so far
  due, capped,     \* is the time of the stage over; was a soak's cap used up before
  queued, flying,  \* futures whose request waits for a worker, and is on its way
  finished,        \* futures that are done
  records,         \* results the stage has taken from its futures
  sent, logged,    \* _request_index, and per result the size of _request_records
  summaries, failedInRow, stopReason,
  health, error,   \* the checks before and after, execution_error
  written, readme, \* the records in requests.json, the verdict in the README
  up, memoryLow, outages, pressure, interrupts

planVars == <<plan, stage, pc, level>>
loopVars == <<submitted, left, ticks, spikes, capped>>
poolVars == <<queued, flying, finished>>
trafficVars == <<sent, logged>>
suiteVars == <<summaries, failedInRow, stopReason, health, error>>
reportVars == <<written, readme>>
worldVars == <<up, memoryLow, outages, pressure, interrupts>>
vars == <<planVars, loopVars, due, poolVars, records, trafficVars, suiteVars, reportVars, worldVars>>

Now == plan[stage]
Pending == queued + flying + Total(finished)
Over == {"outputs", "campaign", "done", "aborted"}
ClientOpen == pc \notin Over
InStage == {"interval", "batch", "soak", "refill", "waiting", "chaos", "tick", "reap", "collect"}

Init ==
  /\ plan \in Plans /\ stage = 1 /\ pc = "preflight" /\ level = 0
  /\ submitted = 0 /\ left = 0 /\ ticks = 0 /\ spikes = 0 /\ due = FALSE /\ capped = FALSE
  /\ queued = 0 /\ flying = 0 /\ finished = None /\ records = None
  /\ sent = 0 /\ logged = None
  /\ summaries = <<>> /\ failedInRow = 0 /\ stopReason = "none"
  /\ health = [preflight |-> FALSE, postflight |-> FALSE] /\ error = FALSE
  /\ written = 0 /\ readme = "none"
  /\ up = TRUE /\ memoryLow = FALSE /\ outages = 0 /\ pressure = 0 /\ interrupts = 0

Goes(to) == pc' = to /\ UNCHANGED <<plan, stage, level>>

-----------------------------------------------------------------------------
(* The suite: health, the stages in turn                                        *)

(* A health that is fine may be followed by a readiness that is not: the check  *)
(* is recorded as a success, and the campaign has failed.                       *)
RequireHealth(label, next) ==
  /\ pc = label
  /\ health' = [health EXCEPT ![label] = up]
  /\ \E ready \in BOOLEAN :
       /\ error' = (error \/ ~(up /\ ready))
       /\ Goes(IF up /\ ready THEN next ELSE "outputs")
  /\ UNCHANGED <<loopVars, due, poolVars, records, trafficVars, summaries, failedInRow, stopReason,
                 reportVars, worldVars>>

FixedCount(concurrency) == IF Now.mode = "burst" THEN Now.total ELSE concurrency * Now.perWorker

(* The pool of a stage, or of a level of a ramp; burst and ramp submit at once. *)
Enter(concurrency) ==
  /\ level' = concurrency
  /\ due' = FALSE /\ left' = 0 /\ ticks' = 0 /\ spikes' = 0 /\ capped' = FALSE
  /\ records' = None
  /\ IF Now.mode \in Fixed
       THEN queued' = FixedCount(concurrency) /\ submitted' = FixedCount(concurrency) /\ pc' = "collect"
       ELSE queued' = 0 /\ submitted' = 0 /\ pc' = Now.mode
  /\ UNCHANGED <<flying, finished>>

FirstLevel(s) == IF s.mode = "ramp" THEN s.start ELSE s.workers

NextStage ==
  /\ pc = "next"
  /\ IF stage > Len(plan) \/ stopReason # "none"
       THEN Goes("postflight") /\ UNCHANGED <<loopVars, due, poolVars, records>>
       ELSE Enter(FirstLevel(Now)) /\ UNCHANGED <<plan, stage>>
  /\ UNCHANGED <<trafficVars, suiteVars, reportVars, worldVars>>

-----------------------------------------------------------------------------
(* The loops of the stages                                                      *)

Submit(n) == queued' = queued + n /\ submitted' = submitted + n
TakeFinished == records' = Plus(records, finished) /\ finished' = None

(* One request each interval; four times as many futures as workers are too     *)
(* many, then it waits for the first.                                           *)
IntervalLoop ==
  /\ pc = "interval"
  /\ IF submitted = Now.total \/ memoryLow
       THEN Goes("collect") /\ UNCHANGED <<queued, submitted>>
       ELSE Submit(1) /\ Goes(IF Pending + 1 >= 4 * level THEN "waiting" ELSE "interval")
  /\ UNCHANGED <<left, ticks, spikes, capped, due, flying, finished, records, trafficVars, suiteVars,
                 reportVars, worldVars>>

(* A wave is submitted and collected before the next.                           *)
BatchLoop ==
  /\ pc = "batch"
  /\ IF memoryLow
       THEN Goes("summarize") /\ UNCHANGED <<queued, submitted>>
       ELSE Submit(Min({Now.size, Now.total - submitted})) /\ Goes("collect")
  /\ UNCHANGED <<left, ticks, spikes, capped, due, flying, finished, records, trafficVars, suiteVars,
                 reportVars, worldVars>>

CapReached == Now.cap > 0 /\ submitted >= Now.cap

(* It ends with its time or, long enough before, with its cap.                  *)
LeaveSoak ==
  /\ capped' \in {CapReached /\ ~due, FALSE}
  /\ Goes("collect")

SoakLoop ==
  /\ pc = "soak"
  /\ IF due \/ CapReached \/ memoryLow THEN LeaveSoak ELSE Goes("refill") /\ capped' = capped
  /\ UNCHANGED <<submitted, left, ticks, spikes, due, poolVars, records, trafficVars, suiteVars,
                 reportVars, worldVars>>

SoakRefill ==
  /\ pc = "refill"
  /\ IF Pending < level /\ ~CapReached /\ ~due /\ (Now.cap = 0 => submitted < MaxSoak)
       THEN Submit(1) /\ Goes("refill") /\ capped' = capped
       ELSE /\ UNCHANGED <<queued, submitted>>
            /\ IF Pending = 0 /\ (CapReached \/ due) THEN LeaveSoak ELSE Goes("waiting") /\ capped' = capped
  /\ UNCHANGED <<left, ticks, spikes, due, flying, finished, records, trafficVars, suiteVars,
                 reportVars, worldVars>>

(* wait(FIRST_COMPLETED); a soak waits for a second at most.                    *)
WaitFirst ==
  /\ pc = "waiting"
  /\ Total(finished) > 0 \/ Now.mode = "soak"
  /\ TakeFinished
  /\ Goes(Now.mode)
  /\ UNCHANGED <<loopVars, due, queued, flying, trafficVars, suiteVars, reportVars, worldVars>>

(* A second of a chaos, with or without a spike. A second takes longer if there *)
(* is no room for its requests.                                                 *)
ChaosLoop ==
  /\ pc = "chaos"
  /\ IF due \/ ticks = Now.ticks \/ memoryLow
       THEN Goes("collect") /\ UNCHANGED <<left, ticks, spikes>>
       ELSE /\ ticks' = ticks + 1
            /\ \/ left' = Now.tps /\ spikes' = spikes
               \/ spikes < Now.spikes /\ left' = Now.tps + Now.spike /\ spikes' = spikes + 1
            /\ Goes("tick")
  /\ UNCHANGED <<submitted, capped, due, poolVars, records, trafficVars, suiteVars, reportVars, worldVars>>

PendingLimit == level * Now.multiplier
ForgetsDone == Pending < PendingLimit  \* a broken Room
Room == Pending < PendingLimit \/ Total(finished) > 0

(* With too many futures it waits for the first; the requests of all stages     *)
(* are as many as one may submit.                                               *)
ChaosSubmit ==
  /\ pc = "tick"
  /\ Room
  /\ IF Pending < PendingLimit THEN UNCHANGED <<finished, records>> ELSE TakeFinished
  /\ Submit(1)
  /\ left' = left - 1
  /\ Goes(IF submitted' >= MaxTotalRequests THEN "collect" ELSE IF left' = 0 THEN "reap" ELSE "tick")
  /\ UNCHANGED <<ticks, spikes, capped, due, flying, trafficVars, suiteVars, reportVars, worldVars>>

ChaosReap ==
  /\ pc = "reap"
  /\ TakeFinished
  /\ Goes("chaos")
  /\ UNCHANGED <<loopVars, due, queued, flying, trafficVars, suiteVars, reportVars, worldVars>>

DropsPending ==  \* a broken Collect
  /\ pc = "collect" /\ Goes("summarize")
  /\ queued' = 0 /\ flying' = 0 /\ finished' = None
  /\ UNCHANGED <<loopVars, due, records, trafficVars, suiteVars, reportVars, worldVars>>

(* Every future is waited for, when the loop is over or the wave is submitted.  *)
Collect ==
  /\ pc = "collect"
  /\ queued = 0 /\ flying = 0
  /\ TakeFinished
  /\ Goes(IF Now.mode = "batch" /\ submitted < Now.total THEN "batch" ELSE "summarize")
  /\ UNCHANGED <<loopVars, due, queued, flying, trafficVars, suiteVars, reportVars, worldVars>>

-----------------------------------------------------------------------------
(* What a stage is summarized as, and what follows                              *)

TooManyErrors(results) == results["error"] * 100 > MaxErrorPercent * Total(results)

(* Why a stage is stopped. The p95 is that of the successes.                    *)
StopReason(results, late) ==
  IF capped THEN "soak_max_requests_reached_before_duration"
  ELSE IF memoryLow THEN "client_memory_guard_triggered"
  ELSE IF TooManyErrors(results) THEN "error_rate_exceeded"
  ELSE IF late THEN "p95_latency_exceeded"
  ELSE "none"

StageStatus(results, reason) ==
  IF Total(results) = 0 THEN "skipped"
  ELSE IF reason = "client_memory_guard_triggered" THEN "stopped"
  ELSE IF reason # "none" THEN "failed"
  ELSE IF results["slow"] + results["error"] > 0 THEN "degraded"
  ELSE "passed"

OnlyFailed == {"failed"}  \* a broken Bad
Bad == {"failed", "stopped"}

Summary(results, late) ==
  [stage |-> stage, level |-> level, count |-> Total(results), errors |-> results["error"],
   status |-> StageStatus(results, StopReason(results, late))]

(* A ramp goes on to its next level until one is bad.                           *)
RampGoesOn(status) == Now.mode = "ramp" /\ status \notin Bad /\ level + Now.step <= Now.max

(* Whether the memory is short is asked again here.                             *)
Summarize ==
  /\ pc = "summarize"
  /\ \E late \in {Total(records) > records["error"], FALSE} :
       LET summary == Summary(records, late) IN
       /\ summaries' = Append(summaries, summary)
       /\ IF RampGoesOn(summary.status)
            THEN Enter(level + Now.step) /\ UNCHANGED <<plan, stage>>
            ELSE Goes("after") /\ UNCHANGED <<loopVars, due, poolVars, records>>
  /\ UNCHANGED <<trafficVars, failedInRow, stopReason, health, error, reportVars, worldVars>>

Latest == summaries[Len(summaries)]

AfterStage ==
  /\ pc = "after"
  /\ failedInRow' = IF Latest.status \in Bad THEN failedInRow + 1 ELSE 0
  /\ stopReason' = IF failedInRow' >= ConsecutiveFailed THEN "consecutive_failed_stages_exceeded"
                   ELSE IF ~up THEN "external_health_failed" ELSE stopReason
  /\ stage' = stage + 1 /\ pc' = "next"
  /\ UNCHANGED <<plan, level, loopVars, due, poolVars, records, trafficVars, summaries, health, error,
                 reportVars, worldVars>>

-----------------------------------------------------------------------------
(* The workers of the pool                                                      *)

(* A request is sent unless the client is closed, which leaves no record.       *)
Send ==
  /\ queued > 0 /\ flying < level
  /\ queued' = queued - 1
  /\ IF ClientOpen THEN flying' = flying + 1 /\ sent' = sent + 1 ELSE UNCHANGED <<flying, sent>>
  /\ UNCHANGED <<planVars, loopVars, due, finished, records, logged, suiteVars, reportVars, worldVars>>

(* Whatever comes of it is recorded; without a service or a client, an error.   *)
Answer ==
  /\ flying > 0
  /\ flying' = flying - 1
  /\ \E r \in IF up /\ ClientOpen THEN Results ELSE {"error"} :
       finished' = [finished EXCEPT ![r] = @ + 1] /\ logged' = [logged EXCEPT ![r] = @ + 1]
  /\ UNCHANGED <<planVars, loopVars, due, queued, records, sent, suiteVars, reportVars, worldVars>>

-----------------------------------------------------------------------------
(* Ctrl-C and the reports                                                       *)

(* In a stage the pool is left, which waits for all that was submitted; Ctrl-C  *)
(* again, and the client is closed under the workers.                           *)
Interrupt ==
  /\ pc \notin {"done", "aborted"}
  /\ interrupts < MaxInterrupts /\ interrupts' = interrupts + 1
  /\ error' = TRUE
  /\ Goes(CASE pc \in InStage -> "shutdown" [] pc = "outputs" -> "campaign" [] pc = "campaign" -> "aborted"
            [] pc \notin InStage \cup Over -> "outputs")
  /\ UNCHANGED <<loopVars, due, poolVars, records, trafficVars, summaries, failedInRow, stopReason, health,
                 reportVars, up, memoryLow, outages, pressure>>

Shutdown ==
  /\ pc = "shutdown"
  /\ queued = 0 /\ flying = 0
  /\ Goes("outputs")
  /\ UNCHANGED <<loopVars, due, poolVars, records, trafficVars, suiteVars, reportVars, worldVars>>

WriteOutputs ==
  /\ pc = "outputs"
  /\ written' = Total(logged)
  /\ Goes("campaign")
  /\ UNCHANGED <<loopVars, due, poolVars, records, trafficVars, suiteVars, readme, worldVars>>

(* Ramps alone tell the limit, other stages only in a plan without one; they    *)
(* are sorted by concurrency, then by their order.                              *)
RampSummaries == {i \in DOMAIN summaries : plan[summaries[i].stage].mode = "ramp"}
Candidates == IF RampSummaries # {} THEN RampSummaries ELSE DOMAIN summaries
Before(i, j) ==
  summaries[i].level < summaries[j].level \/ (summaries[i].level = summaries[j].level /\ i < j)
BadOnes == {i \in Candidates : summaries[i].status \in Bad}
FirstFailure == {i \in BadOnes : \A j \in BadOnes \ {i} : Before(i, j)}
Censored == FirstFailure = {}  \* upper_bound_censored
NormalLevels == {summaries[i].level : i \in {k \in Candidates : \A j \in FirstFailure : Before(k, j)}}

(* The status of the record in the README.                                      *)
Verdict ==
  LET statuses == {summaries[i].status : i \in DOMAIN summaries} IN
  IF error \/ ~health.preflight \/ ~health.postflight \/ statuses \cap Bad # {} THEN "failed"
  ELSE IF "degraded" \in statuses \/ \E i \in DOMAIN summaries : summaries[i].errors > 0 THEN "degraded"
  ELSE "passed"

UpdateReadme ==
  /\ pc = "campaign"
  /\ readme' = Verdict
  /\ Goes("done")
  /\ UNCHANGED <<loopVars, due, poolVars, records, trafficVars, suiteVars, written, worldVars>>

-----------------------------------------------------------------------------
(* The world                                                                    *)

TimePasses ==
  /\ pc \in InStage /\ Now.mode \in Timed /\ ~due
  /\ due' = TRUE
  /\ UNCHANGED <<planVars, loopVars, poolVars, records, trafficVars, suiteVars, reportVars, worldVars>>

GoesDown ==
  /\ up /\ outages < MaxOutages /\ pc \notin {"done", "aborted"}
  /\ up' = FALSE /\ outages' = outages + 1
  /\ UNCHANGED <<memoryLow, pressure, interrupts>>

ComesBack == ~up /\ up' = TRUE /\ UNCHANGED <<memoryLow, outages, pressure, interrupts>>

RunsShort ==
  /\ ~memoryLow /\ pressure < MaxPressure /\ pc \notin {"done", "aborted"}
  /\ memoryLow' = TRUE /\ pressure' = pressure + 1
  /\ UNCHANGED <<up, outages, interrupts>>

Relaxes == memoryLow /\ memoryLow' = FALSE /\ UNCHANGED <<up, outages, pressure, interrupts>>

World ==
  /\ GoesDown \/ ComesBack \/ RunsShort \/ Relaxes
  /\ UNCHANGED <<planVars, loopVars, due, poolVars, records, trafficVars, suiteVars, reportVars>>

-----------------------------------------------------------------------------
RunnerStep ==
  \/ RequireHealth("preflight", "next") \/ NextStage
  \/ IntervalLoop \/ BatchLoop \/ SoakLoop \/ SoakRefill \/ WaitFirst
  \/ ChaosLoop \/ ChaosSubmit \/ ChaosReap \/ Collect \/ Summarize \/ AfterStage
  \/ RequireHealth("postflight", "outputs") \/ Shutdown \/ WriteOutputs \/ UpdateReadme

Next == RunnerStep \/ Send \/ Answer \/ TimePasses \/ Interrupt \/ World

Spec == Init /\ [][Next]_vars

(* Threads are scheduled, a request times out if it is not answered, and time   *)
(* goes on.                                                                     *)
FairSpec == Spec /\ WF_vars(RunnerStep) /\ WF_vars(Send) /\ WF_vars(Answer) /\ WF_vars(TimePasses)

-----------------------------------------------------------------------------
Counted == SumOf([i \in DOMAIN summaries |-> summaries[i].count])

(* What a stage reports is what the service was sent, no more and no less,      *)
(* whoever waited for which future; so is what the campaign reports and records *)
(* unless Ctrl-C came twice, and it is no more than the plan has declared       *)
(* (_run_soak: futures thrown away would bend throughput and error rate).       *)
TrafficAccounted ==
  /\ pc = "after" => Counted = sent
  /\ pc = "done" /\ ~error => Counted = sent /\ written = sent
  /\ pc = "done" /\ interrupts < 2 /\ written > 0 => written = sent
  /\ (\A i \in DOMAIN plan : plan[i].mode = "soak" => plan[i].cap > 0) => sent <= Declared(plan)

(* The verdict and the limit in the README are true. A campaign that has passed *)
(* had no request that failed or was slow and, unless the host ran short of     *)
(* memory or the suite was stopped, sent all that was planned; a limit that is  *)
(* above the plan is that of a ramp that has reached its top                    *)
(* (ReadmeVerificationRecord.status, analyze_capacity_boundaries).              *)
VerdictIsTrue ==
  pc = "done" =>
    /\ readme = "passed" =>
         /\ logged["slow"] = 0 /\ logged["error"] = 0
         /\ pressure = 0 /\ stopReason = "none" =>
              \A i \in DOMAIN plan :
                LET counts == {k \in DOMAIN summaries : summaries[k].stage = i} IN
                /\ counts # {}
                /\ plan[i].mode \notin Timed =>
                     SumOf([k \in counts |-> summaries[k].count]) = DeclaredRequests(plan[i])
    /\ ~error /\ stopReason = "none" /\ Censored =>
         \A i \in DOMAIN plan : plan[i].mode = "ramp" => Max(Levels(plan[i])) \in NormalLevels

(* Whatever is slow, fails or is interrupted, the campaign comes to its end.    *)
SuiteEnds == <>(pc \in {"done", "aborted"})

=============================================================================
