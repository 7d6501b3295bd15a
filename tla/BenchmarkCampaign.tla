-------------------------- MODULE BenchmarkCampaign --------------------------
(***************************************************************************)
(* The reliability campaign of RAG-Performance: one runner thread          *)
(* (reliability_runner.py, runner.py) that measures a RAG service it       *)
(* starts itself, as a baseline session and a reliability session, stops   *)
(* services and kills processes on purpose, and promises to leave neither  *)
(* data nor a process behind and the containers as it found them.  Beside  *)
(* it run the target process of each session (target_server.py), the       *)
(* wrapper (uv) it is started by, and the Ctrl-C of the operator.          *)
(*                                                                         *)
(* Clocks are not modelled: a timeout may pass at any moment.  What a      *)
(* request measures is left out, and so is a failed request that the       *)
(* runner only records.                                                    *)
(***************************************************************************)
EXTENDS Naturals, Sequences

CONSTANTS
  SkipBaseline,      \* --skip-baseline
  WithAnswers,       \* answers are measured
  Probes,            \* failure_probes.external_services.services, in order; none if it is disabled
  KillsTarget,       \* failure_probes.abnormal_termination.enabled
  MaxWindows,        \* bound: windows of the soak
  MaxDockerFaults,   \* bound: Docker commands that fail or hang
  MaxFaults,         \* bound: crashes of a target, failures of the database and of requests
  MaxInterrupts      \* bound: Ctrl-C

Services == {"embedding", "qdrant"}
Sessions == {"baseline", "reliability"}
Classes == {"running", "stopped", "absent"}  \* what a container's status comes down to

ASSUME CampaignConstants ==
  /\ SkipBaseline \in BOOLEAN /\ WithAnswers \in BOOLEAN /\ KillsTarget \in BOOLEAN
  /\ Probes \in Seq(Services)
  /\ MaxWindows \in Nat \ {0} /\ MaxDockerFaults \in Nat /\ MaxFaults \in Nat /\ MaxInterrupts \in Nat

VARIABLES
  found,        \* the containers before the campaign
  container,    \* the containers
  initial,      \* InfrastructureStateManager._initial, "unknown" also where it is not captured
  restored,     \* per service "none", or whether the report says it is restored
  session,      \* the session that runs or ran last
  pc, step, window,  \* where the runner is, in the session's script and in the soak
  error,        \* execution_error
  verdict,      \* per session the outcome of its cleanup-only process
  wrapper,      \* per session "none", "alive", "gone"
  target,       \* per session "none", "cleaning", "checking", "serving", "draining", "gone"
  ingest,       \* the sessions whose target is at work on a file
  rows,         \* are there rows of the test user and files, which the sessions share
  collections, temp,  \* the sessions whose collection or temporary files are there
  dockerFaults, faults, interrupts

infraVars == <<found, container, initial, restored>>
runnerVars == <<session, pc, step, window, error, verdict>>
dataVars == <<rows, collections, temp>>
targetVars == <<wrapper, target, ingest>>
budgetVars == <<dockerFaults, faults, interrupts>>
vars == <<infraVars, runnerVars, dataVars, targetVars, budgetVars>>

IngestSteps == {"cold_warm", "formats", "concurrency", "seed"}
Script(s) ==
  IF s = "baseline"
    THEN <<"cold_warm", "formats", "concurrency", "search">> \o (IF WithAnswers THEN <<"answers">> ELSE <<>>)
    ELSE <<"isolation", "seed", "isolation", "soak", "timeout", "oom">> \o Probes \o <<"isolation", "abnormal">>
Now == Script(session)[step]

Init ==
  /\ found \in [Services -> Classes]
  /\ container = found
  /\ initial = [c \in Services |-> "unknown"]
  /\ restored = [c \in Services |-> "none"]
  /\ session = IF SkipBaseline THEN "reliability" ELSE "baseline"
  /\ pc = "capture" /\ step = 1 /\ window = 0 /\ error = FALSE
  /\ verdict = [s \in Sessions |-> "none"]
  /\ wrapper = [s \in Sessions |-> "none"]
  /\ target = [s \in Sessions |-> "none"]
  /\ ingest = {} /\ collections = {} /\ temp = {} /\ rows \in BOOLEAN
  /\ dockerFaults = 0 /\ faults = 0 /\ interrupts = 0

DockerFails == dockerFaults < MaxDockerFaults /\ dockerFaults' = dockerFaults + 1 /\ UNCHANGED <<faults, interrupts>>
Fails == faults < MaxFaults /\ faults' = faults + 1 /\ UNCHANGED <<dockerFaults, interrupts>>

Ready == container["qdrant"] = "running"  \* the vector store can be asked
AllUp == [c \in Services |-> "running"]
Live == {"cleaning", "checking", "serving", "draining"}
Healthy(s) == target[s] = "serving"  \* it answers the health request with the token of s

-----------------------------------------------------------------------------
(* cleanup_test_data: the collection and the temporary files of the session,    *)
(* the rows whoever wrote them.                                                 *)
Deleted(s) ==
  /\ rows' = FALSE
  /\ collections' = collections \ {s}
  /\ temp' = temp \ {s}

CleanupWorks(s) == Ready /\ Deleted(s) /\ UNCHANGED budgetVars

(* The vector store or the database is not there: nothing is deleted, or the    *)
(* collection, which goes first, or everything, when only the count afterwards  *)
(* fails.                                                                       *)
CleanupFails(s) ==
  \/ ~Ready /\ UNCHANGED <<dataVars, budgetVars>>
  \/ /\ Ready /\ Fails
     /\ \/ Deleted(s)
        \/ collections' \in {collections, collections \ {s}} /\ UNCHANGED <<rows, temp>>

Empty(s) == ~rows /\ s \notin collections /\ s \notin temp

(* A process that dies in an ingest may leave rows, and leaves its files.       *)
Dies(s) ==
  /\ target' = [target EXCEPT ![s] = "gone"]
  /\ ingest' = ingest \ {s}
  /\ rows' \in IF s \in ingest THEN {rows, TRUE} ELSE {rows}
  /\ UNCHANGED <<collections, temp>>

-----------------------------------------------------------------------------
(* The target process (target_server.py)                                        *)

StartupDelete(s) ==
  /\ target[s] = "cleaning"
  /\ \/ CleanupWorks(s) /\ target' = [target EXCEPT ![s] = "checking"]
     \/ CleanupFails(s) /\ target' = [target EXCEPT ![s] = "gone"]
  /\ UNCHANGED <<infraVars, runnerVars, wrapper, ingest>>

(* The rest is verified, and the port is bound: what fails to bind has its      *)
(* final cleanup.                                                               *)
StartupCheck(s) ==
  /\ target[s] = "checking"
  /\ target' = [target EXCEPT ![s] =
       IF ~ (Ready /\ Empty(s)) THEN "gone"
       ELSE IF \E other \in Sessions : Healthy(other) THEN "draining"
       ELSE "serving"]
  /\ UNCHANGED <<infraVars, runnerVars, dataVars, budgetVars, wrapper, ingest>>

(* An ingest ends, whether its client still waits or not. It creates the        *)
(* collection if there is none.                                                 *)
IngestEnds(s) ==
  /\ s \in ingest
  /\ ingest' = ingest \ {s}
  /\ temp' = temp \ {s}
  /\ \/ /\ \A c \in Services : container[c] = "running"
        /\ rows' = TRUE /\ collections' = collections \cup {s}
        /\ UNCHANGED budgetVars
     \/ /\ IF \E c \in Services : container[c] # "running" THEN UNCHANGED budgetVars ELSE Fails
        /\ rows' \in {rows, TRUE}
        /\ collections' \in IF Ready THEN {collections, collections \cup {s}} ELSE {collections}
  /\ UNCHANGED <<infraVars, runnerVars, wrapper, target>>

(* The server has finished what it was at. A failure of its final cleanup is    *)
(* logged and that is all.                                                      *)
FinalCleanup(s) ==
  /\ target[s] = "draining" /\ s \notin ingest
  /\ target' = [target EXCEPT ![s] = "gone"]
  /\ CleanupWorks(s) \/ CleanupFails(s)
  /\ UNCHANGED <<infraVars, runnerVars, wrapper, ingest>>

Crash(s) ==
  /\ target[s] \in Live /\ Fails /\ Dies(s)
  /\ UNCHANGED <<infraVars, runnerVars, wrapper>>

(* uv waits for the process it has started.                                     *)
WrapperExits(s) ==
  /\ wrapper[s] = "alive" /\ target[s] = "gone"
  /\ wrapper' = [wrapper EXCEPT ![s] = "gone"]
  /\ UNCHANGED <<infraVars, runnerVars, dataVars, budgetVars, target, ingest>>

TargetStep(s) ==
  StartupDelete(s) \/ StartupCheck(s) \/ IngestEnds(s) \/ FinalCleanup(s) \/ WrapperExits(s)

-----------------------------------------------------------------------------
(* The runner: the containers, the target and what is measured                  *)

Goes(to) == pc' = to /\ UNCHANGED <<session, step, window, error, verdict>>
GoesWrong(to) == pc' = to /\ error' = TRUE /\ UNCHANGED <<session, step, window, verdict>>
NextStep ==
  /\ step' = step + 1
  /\ pc' = IF step = Len(Script(session)) THEN "cleanup" ELSE "run"
  /\ UNCHANGED <<session, window, error, verdict>>

Container(c, class) == container' = [container EXCEPT ![c] = class]
StartsSome == container' \in {now \in [Services -> Classes] : \A c \in Services : now[c] \in {container[c], "running"}}

(* An inspect that fails is "unknown"; one that hangs ends the campaign before  *)
(* it has done anything.                                                        *)
Capture ==
  /\ pc = "capture"
  /\ \/ initial' = container /\ Goes("infra") /\ UNCHANGED budgetVars
     \/ /\ DockerFails
        /\ \/ \E c \in Services : initial' = [container EXCEPT ![c] = "unknown"] /\ Goes("infra")
           \/ initial' = initial /\ Goes("aborted")
  /\ UNCHANGED <<found, container, restored, dataVars, targetVars>>

StartInfrastructure ==
  /\ pc = "infra"
  /\ \/ container' = AllUp /\ Goes("spawn") /\ UNCHANGED budgetVars
     \/ StartsSome /\ DockerFails /\ GoesWrong("cleanup")
  /\ UNCHANGED <<found, initial, restored, dataVars, targetVars>>

StartTarget ==
  /\ pc = "spawn"
  /\ wrapper' = [wrapper EXCEPT ![session] = "alive"]
  /\ target' = [target EXCEPT ![session] = "cleaning"]
  /\ Goes("ready")
  /\ UNCHANGED <<infraVars, dataVars, budgetVars, ingest>>

(* It answers with the token of this session, or it has ended or has not        *)
(* answered for five minutes.                                                   *)
WaitTargetReady ==
  /\ pc = "ready"
  /\ IF Healthy(session) THEN Goes("run") ELSE GoesWrong("cleanup")
  /\ UNCHANGED <<infraVars, dataVars, targetVars, budgetVars>>

(* A batch of files: the runner waits for the answers or gives up waiting, the  *)
(* target goes on. Errors are recorded.                                         *)
MeasureIngest ==
  /\ pc = "run" /\ Now \in IngestSteps
  /\ IF Healthy(session)
       THEN ingest' = ingest \cup {session} /\ temp' = temp \cup {session}
       ELSE UNCHANGED <<ingest, temp>>
  /\ NextStep
  /\ UNCHANGED <<infraVars, budgetVars, wrapper, target, rows, collections>>

(* Searches and answers change nothing.                                         *)
MeasureReading ==
  /\ pc = "run" /\ Now \in {"search", "answers"}
  /\ NextStep
  /\ UNCHANGED <<infraVars, dataVars, targetVars, budgetVars>>

(* Nor do the requests that are answered too late and that let a worker run out *)
(* of memory, whose errors become events of the report, nor probes that are     *)
(* disabled.                                                                    *)
ProbeTimeout ==
  /\ pc = "run" /\ Now = "timeout"
  /\ NextStep
  /\ UNCHANGED <<infraVars, dataVars, targetVars, budgetVars>>

ProbeControlledOom ==
  /\ pc = "run" /\ Now = "oom"
  /\ NextStep
  /\ UNCHANGED <<infraVars, dataVars, targetVars, budgetVars>>

(* A window of searches, ended early by three waves of failures; the soak ends  *)
(* when its time has passed or the wrapper has exited.                          *)
RunSoak ==
  /\ pc = "run" /\ Now = "soak"
  /\ \/ NextStep
     \/ /\ wrapper[session] = "alive" /\ window + 1 < MaxWindows
        /\ window' = window + 1
        /\ UNCHANGED <<session, pc, step, error, verdict>>
  /\ UNCHANGED <<infraVars, dataVars, targetVars, budgetVars>>

(* The counts of the target, which are not caught: without them no session.     *)
CaptureIsolation ==
  /\ pc = "run" /\ Now = "isolation"
  /\ \/ Healthy(session) /\ Ready /\ NextStep /\ UNCHANGED budgetVars
     \/ /\ IF Healthy(session) /\ Ready THEN Fails ELSE UNCHANGED budgetVars
        /\ GoesWrong("cleanup")
  /\ UNCHANGED <<infraVars, dataVars, targetVars>>

(* A service is stopped, searched without, and started again in a finally.      *)
StopService ==
  /\ pc = "run" /\ Now \in Services
  /\ \/ Container(Now, "stopped") /\ Goes("probing") /\ UNCHANGED budgetVars
     \/ container' = container /\ Goes("reviving") /\ DockerFails
  /\ UNCHANGED <<found, initial, restored, dataVars, targetVars>>

SearchWithout ==
  /\ pc = "probing"
  /\ Goes("reviving")
  /\ UNCHANGED <<infraVars, dataVars, targetVars, budgetVars>>

ReviveService ==
  /\ pc = "reviving"
  /\ \/ Container(Now, "running") /\ UNCHANGED budgetVars
     \/ container' = container /\ DockerFails
  /\ IF error THEN Goes("cleanup") ELSE NextStep
  /\ UNCHANGED <<found, initial, restored, dataVars, targetVars>>

(* The process tree of the target, whose pid its health tells. Whatever fails   *)
(* is caught, and the target lives on; so it does if the probe is disabled.     *)
ProbeAbnormalTermination ==
  /\ pc = "run" /\ Now = "abnormal"
  /\ \/ KillsTarget /\ Healthy(session) /\ Dies(session) /\ UNCHANGED budgetVars
     \/ /\ IF KillsTarget /\ Healthy(session) THEN Fails ELSE UNCHANGED budgetVars
        /\ UNCHANGED <<target, ingest, dataVars>>
  /\ NextStep
  /\ UNCHANGED <<infraVars, wrapper>>

-----------------------------------------------------------------------------
(* The runner: how a session ends (_cleanup_and_stop_target)                    *)

(* What follows on the end of a session, with or without an error so far.       *)
AfterTarget(failed) ==
  /\ pc' = IF session = "reliability" THEN "ensure" ELSE IF failed THEN "restore" ELSE "verify"
  /\ error' = failed
  /\ UNCHANGED <<session, step, window, verdict>>

NeverSpawned ==
  /\ pc = "cleanup" /\ wrapper[session] = "none"
  /\ Goes("sampler")
  /\ UNCHANGED <<infraVars, dataVars, targetVars, budgetVars>>

(* Only a cleanup that was answered without an error is followed by the request *)
(* to shut down; one that is given up may have been done all the same.          *)
RequestCleanup ==
  /\ pc = "cleanup" /\ wrapper[session] # "none"
  /\ IF wrapper[session] = "alive" /\ Healthy(session)
       THEN \/ CleanupWorks(session) /\ Goes("shutdown")
            \/ CleanupFails(session) /\ Goes("wait")
       ELSE UNCHANGED <<dataVars, budgetVars>> /\ Goes("wait")
  /\ UNCHANGED <<infraVars, targetVars>>

RequestShutdown ==
  /\ pc = "shutdown"
  /\ \/ target' = [target EXCEPT ![session] = IF @ = "serving" THEN "draining" ELSE @] /\ UNCHANGED budgetVars
     \/ target' = target /\ Fails
  /\ Goes("wait")
  /\ UNCHANGED <<infraVars, dataVars, wrapper, ingest>>

WrapperGone ==
  /\ pc \in {"wait", "terminated"} /\ wrapper[session] = "gone"
  /\ Goes("join")
  /\ UNCHANGED <<infraVars, dataVars, targetVars, budgetVars>>

(* A target that is told to stop: the server drains, before it is up it dies.   *)
Told(s) == target' = [target EXCEPT ![s] = IF @ = "serving" THEN "draining" ELSE IF @ \in Live \ {"draining"} THEN "gone" ELSE @]

WaitsForever == FALSE  \* a broken Terminate

(* The wrapper has not exited in time: it is terminated, which it passes on,    *)
(* or which is the end of it alone or of the target as well.                    *)
Terminate ==
  /\ pc = "wait" /\ wrapper[session] = "alive"
  /\ Goes("terminated")
  /\ \/ Told(session) /\ UNCHANGED <<wrapper, ingest, dataVars>>
     \/ /\ wrapper' = [wrapper EXCEPT ![session] = "gone"]
        /\ Dies(session) \/ UNCHANGED <<target, ingest, dataVars>>
  /\ UNCHANGED <<infraVars, budgetVars>>

Kill ==
  /\ pc = "terminated" /\ wrapper[session] = "alive"
  /\ Goes("join")
  /\ wrapper' = [wrapper EXCEPT ![session] = "gone"]
  /\ Dies(session) \/ UNCHANGED <<target, ingest, dataVars>>
  /\ UNCHANGED <<infraVars, budgetVars>>

ForgetsLog == error  \* a broken JoinFails

(* The thread that reads the output of the target ends with the target; after   *)
(* thirty seconds without that join raises.                                     *)
JoinFails == error \/ target[session] # "gone"

JoinLog ==
  /\ pc = "join"
  /\ pc' = "sampler" /\ error' = JoinFails
  /\ UNCHANGED <<session, step, window, verdict>>
  /\ UNCHANGED <<infraVars, dataVars, targetVars, budgetVars>>

(* So does the end of the thread that samples the resources, which may hang in  *)
(* what it asks of Docker.                                                      *)
StopSampler ==
  /\ pc = "sampler"
  /\ \/ AfterTarget(error) /\ UNCHANGED budgetVars
     \/ AfterTarget(TRUE) /\ DockerFails
  /\ UNCHANGED <<infraVars, dataVars, targetVars>>

-----------------------------------------------------------------------------
(* The runner: cleanup-only, the next session, the containers                   *)

StartForCleanup ==
  /\ pc = "ensure"
  /\ \/ container' = AllUp /\ Goes("verify") /\ UNCHANGED budgetVars
     \/ /\ StartsSome /\ DockerFails
        /\ pc' = "restore" /\ error' = TRUE
        /\ verdict' = [verdict EXCEPT ![session] = "failed"]
        /\ UNCHANGED <<session, step, window>>
  /\ UNCHANGED <<found, initial, restored, dataVars, targetVars>>

(* A process of its own deletes and then counts; without its file there is no   *)
(* verification, which the campaign reports as "failed" for this session only.  *)
CleanupOnly ==
  /\ pc = "verify"
  /\ \/ CleanupWorks(session) /\ Goes("count")
     \/ /\ CleanupFails(session)
        /\ pc' = "restore" /\ error' = TRUE
        /\ verdict' = IF session = "reliability" THEN [verdict EXCEPT ![session] = "failed"] ELSE verdict
        /\ UNCHANGED <<session, step, window>>
  /\ UNCHANGED <<infraVars, targetVars>>

(* The checks of the report; whether the target answers is asked for the        *)
(* reliability session. What they say stops nothing.                            *)
Passes == Empty(session) /\ (session = "reliability" => ~Healthy(session))

CleanupVerified ==
  /\ pc = "count"
  /\ verdict' = [verdict EXCEPT ![session] = IF Passes THEN "clean" ELSE "dirty"]
  /\ IF session = "baseline"
       THEN session' = "reliability" /\ pc' = "infra" /\ step' = 1
       ELSE pc' = "restore" /\ UNCHANGED <<session, step>>
  /\ UNCHANGED <<infraVars, dataVars, targetVars, budgetVars, window, error>>

StoppedWanted(c) == IF container[c] = "running" THEN "stopped" ELSE container[c]  \* a broken Wanted

(* Each service in turn, "embedding" first; what fails is recorded and the next *)
(* follows, but an inspect that hangs ends the campaign without a report.       *)
Wanted(c) ==
  CASE initial[c] = "running" -> "running"
    [] initial[c] = "absent" -> "absent"
    [] initial[c] = "stopped" -> IF container[c] = "running" THEN "stopped" ELSE container[c]
    [] initial[c] = "unknown" -> container[c]

StateMatches(c, class) == initial[c] # "unknown" /\ class = initial[c]

Turn == IF restored["embedding"] = "none" THEN "embedding" ELSE "qdrant"

Restore ==
  /\ pc = "restore"
  /\ LET c == Turn IN
       /\ \/ /\ Container(c, Wanted(c))
             /\ restored' = [restored EXCEPT ![c] = IF StateMatches(c, Wanted(c)) THEN "yes" ELSE "no"]
             /\ UNCHANGED budgetVars
          \/ /\ container' \in {container, [container EXCEPT ![c] = Wanted(c)]}
             /\ \E seen \in {container'[c], "unknown"} :
                  restored' = [restored EXCEPT ![c] = IF StateMatches(c, seen) THEN "yes" ELSE "no"]
             /\ DockerFails
       /\ Goes(IF c = "qdrant" THEN "done" ELSE "restore")
  /\ UNCHANGED <<found, initial, dataVars, targetVars>>

RestoreHangs ==
  /\ pc = "restore" /\ DockerFails
  /\ container' \in {container, [container EXCEPT ![Turn] = Wanted(Turn)]}
  /\ Goes("aborted")
  /\ UNCHANGED <<found, initial, restored, dataVars, targetVars>>

-----------------------------------------------------------------------------
(* Ctrl-C. In the try of a session it is an error like another; in what ends    *)
(* the session it leaves everything but the containers as it is, and in the     *)
(* restore those too. The target of the terminal may get it as well.            *)
Trying == {"infra", "spawn", "ready", "run", "reviving"}
Ending == {"cleanup", "shutdown", "wait", "terminated", "join", "sampler", "ensure", "verify", "count"}

(* A Docker command that is cut short has done its work, a part of it or none.  *)
CutShort ==
  \/ container' = container
  \/ pc \in {"infra", "ensure"} /\ StartsSome
  \/ pc = "reviving" /\ Container(Now, "running")
  \/ pc = "restore" /\ Container(Turn, Wanted(Turn))

(* If it is the stop of a service, the finally still starts it again.           *)
StopCutShort ==
  /\ pc = "run" /\ Now \in Services
  /\ container' = container \/ Container(Now, "stopped")
  /\ GoesWrong("reviving")

EndsShort ==
  /\ pc \notin {"done", "aborted"}
  /\ CutShort
  /\ IF pc \in {"capture", "restore"} THEN Goes("aborted")
     ELSE GoesWrong(CASE pc \in Trying -> "cleanup" [] pc = "probing" -> "reviving" [] pc \in Ending -> "restore")

Interrupt ==
  /\ interrupts < MaxInterrupts /\ interrupts' = interrupts + 1
  /\ EndsShort \/ StopCutShort
  /\ Told(session) \/ UNCHANGED target
  /\ UNCHANGED <<found, initial, restored, dataVars, wrapper, ingest, dockerFaults, faults>>

-----------------------------------------------------------------------------
RunnerStep ==
  \/ Capture \/ StartInfrastructure \/ StartTarget \/ WaitTargetReady
  \/ MeasureIngest \/ MeasureReading \/ ProbeTimeout \/ ProbeControlledOom \/ RunSoak \/ CaptureIsolation
  \/ StopService \/ SearchWithout \/ ReviveService \/ ProbeAbnormalTermination
  \/ NeverSpawned \/ RequestCleanup \/ RequestShutdown \/ WrapperGone \/ Terminate \/ Kill \/ JoinLog \/ StopSampler
  \/ StartForCleanup \/ CleanupOnly \/ CleanupVerified \/ Restore \/ RestoreHangs

Next == RunnerStep \/ Interrupt \/ \E s \in Sessions : TargetStep(s) \/ Crash(s)

Spec == Init /\ [][Next]_vars

(* The runner is one thread and every wait of it has a timeout; the targets run *)
(* as far as they are not waiting.                                              *)
FairSpec == Spec /\ WF_vars(RunnerStep) /\ \A s \in Sessions : WF_vars(TargetStep(s))

-----------------------------------------------------------------------------
(* A campaign that reports no error has had its cleanup verified, and has left  *)
(* no target behind that could undo what was verified: what it reports clean is *)
(* clean, now and later (run_reliability, _cleanup_and_stop_target).            *)
ReportedCleanIsClean ==
  pc = "done" /\ ~error =>
    /\ verdict["reliability"] \in {"clean", "dirty"}
    /\ \A s \in Sessions :
         /\ target[s] \in {"none", "gone"}
         /\ verdict[s] = "clean" => s \notin collections \cup temp
    /\ verdict["reliability"] = "clean" => ~rows

(* A container that is reported restored is as the campaign has found it, and   *)
(* as long as Docker does what it is told, all are, whatever crashed, failed or *)
(* was interrupted in the sessions (InfrastructureStateManager.restore).        *)
RestoredAsFound ==
  pc = "done" =>
    /\ \A c \in Services : restored[c] = "yes" => container[c] = found[c]
    /\ dockerFaults = 0 => \A c \in Services : restored[c] = "yes"

(* Whatever hangs, dies or is left behind, the campaign comes to its end.       *)
CampaignEnds == <>(pc \in {"done", "aborted"})

=============================================================================
