------------------------ MODULE BenchmarkCampaignProofs ------------------------
(***************************************************************************)
(* Proofs about the benchmark campaign, for any probes, windows, faults    *)
(* and interrupts.                                                         *)
(***************************************************************************)
EXTENDS BenchmarkCampaign, TLAPS

Idle == {"none", "gone"}

CampaignTypeOK ==
  /\ session \in Sessions /\ pc \in Trying \cup Ending \cup {"capture", "probing", "restore", "done", "aborted"}
  /\ error \in BOOLEAN /\ rows \in BOOLEAN
  /\ verdict \in [Sessions -> {"none", "clean", "dirty", "failed"}]
  /\ wrapper \in [Sessions -> {"none", "alive", "gone"}]
  /\ target \in [Sessions -> Live \cup Idle]
  /\ ingest \subseteq Sessions /\ collections \subseteq Sessions /\ temp \subseteq Sessions

\* Only a target that serves is at work; a session begins when the target of the last one is gone.
TargetsInv ==
  /\ \A s \in Sessions : target[s] = "none" <=> wrapper[s] = "none"
  /\ \A s \in ingest : target[s] \in {"serving", "draining"}
  /\ pc \in {"capture", "infra", "spawn"} => target[session] = "none"
  /\ session = "baseline" => target["reliability"] = "none" /\ \A s \in Sessions : verdict[s] = "none"
  /\ session = "reliability" => target["baseline"] \in Idle
  /\ pc = "ensure" => session = "reliability"

\* Without an error, what is verified is verified after the target has gone.
VerifiedInv ==
  /\ session = "baseline" /\ pc \in {"verify", "count"} => ~error
  /\ ~error /\ pc \in {"sampler", "ensure", "verify", "count", "restore", "done"} => target[session] \in Idle
  /\ ~error /\ pc \in {"restore", "done"} =>
       /\ session = "reliability" /\ verdict["reliability"] \in {"clean", "dirty"}
       /\ verdict["reliability"] = "clean" => Empty("reliability")
  /\ verdict["baseline"] = "clean" => "baseline" \notin collections \cup temp

CampaignInv == CampaignTypeOK /\ TargetsInv /\ VerifiedInv

LEMMA CampaignTypes == CampaignTypeOK /\ [Next]_vars => CampaignTypeOK'
<1> SUFFICES ASSUME CampaignTypeOK, [Next]_vars PROVE CampaignTypeOK'
  OBVIOUS
<1> USE DEF infraVars, runnerVars, dataVars, targetVars, budgetVars, Goes, GoesWrong, NextStep,
      Services, Sessions, Live, Idle, CampaignTypeOK, Trying, Ending
<1>1. CASE UNCHANGED vars
  BY <1>1 DEF vars, infraVars, runnerVars, dataVars, targetVars, budgetVars
<1>2. CASE Capture
  BY <1>2 DEF Capture
<1>3. CASE StartInfrastructure
  BY <1>3 DEF StartInfrastructure
<1>4. CASE StartTarget
  BY <1>4 DEF StartTarget
<1>5. CASE WaitTargetReady
  BY <1>5 DEF WaitTargetReady, Healthy
<1>6. CASE MeasureIngest
  BY <1>6 DEF MeasureIngest, Healthy
<1>7. CASE MeasureReading
  BY <1>7 DEF MeasureReading
<1>8. CASE ProbeTimeout
  BY <1>8 DEF ProbeTimeout
<1>9. CASE ProbeControlledOom
  BY <1>9 DEF ProbeControlledOom
<1>10. CASE RunSoak
  BY <1>10 DEF RunSoak
<1>11. CASE CaptureIsolation
  BY <1>11 DEF CaptureIsolation, Healthy
<1>12. CASE StopService
  BY <1>12 DEF StopService
<1>13. CASE SearchWithout
  BY <1>13 DEF SearchWithout
<1>14. CASE ReviveService
  BY <1>14 DEF ReviveService
<1>15. CASE ProbeAbnormalTermination
  BY <1>15 DEF ProbeAbnormalTermination, Dies, Healthy, Fails
<1>16. CASE NeverSpawned
  BY <1>16 DEF NeverSpawned
<1>17. CASE RequestCleanup
  BY <1>17 DEF RequestCleanup, CleanupWorks, CleanupFails, Deleted, Fails, Ready
<1>18. CASE RequestShutdown
  BY <1>18 DEF RequestShutdown
<1>19. CASE WrapperGone
  BY <1>19 DEF WrapperGone
<1>20. CASE Terminate
  BY ZenonT(60), <1>20 DEF Terminate, Dies, Told
<1>21. CASE Kill
  BY <1>21 DEF Kill, Dies
<1>22. CASE JoinLog
  BY <1>22 DEF JoinLog, JoinFails
<1>23. CASE StopSampler
  BY <1>23 DEF StopSampler, AfterTarget
<1>24. CASE StartForCleanup
  BY <1>24 DEF StartForCleanup
<1>25. CASE CleanupOnly
  BY <1>25 DEF CleanupOnly, CleanupWorks, CleanupFails, Deleted, Fails, Ready
<1>26. CASE CleanupVerified
  BY <1>26 DEF CleanupVerified, Passes, Empty
<1>27. CASE Restore
  BY <1>27 DEF Restore
<1>28. CASE RestoreHangs
  BY <1>28 DEF RestoreHangs
<1>29. CASE Interrupt
  BY <1>29 DEF Interrupt, EndsShort, StopCutShort, CutShort, Container, StartsSome, Told
<1>30. ASSUME NEW s \in Sessions, StartupDelete(s) PROVE CampaignTypeOK'
  BY ZenonT(60), <1>30 DEF StartupDelete, CleanupWorks, CleanupFails, Deleted, Fails, Ready
<1>31. ASSUME NEW s \in Sessions, StartupCheck(s) PROVE CampaignTypeOK'
  BY <1>31 DEF StartupCheck, Ready, Empty, Healthy
<1>32. ASSUME NEW s \in Sessions, IngestEnds(s) PROVE CampaignTypeOK'
  BY <1>32 DEF IngestEnds, Ready
<1>33. ASSUME NEW s \in Sessions, FinalCleanup(s) PROVE CampaignTypeOK'
  BY <1>33 DEF FinalCleanup, CleanupWorks, CleanupFails, Deleted, Fails, Ready
<1>34. ASSUME NEW s \in Sessions, WrapperExits(s) PROVE CampaignTypeOK'
  BY <1>34 DEF WrapperExits
<1>35. ASSUME NEW s \in Sessions, Crash(s) PROVE CampaignTypeOK'
  BY <1>35 DEF Crash, Dies
<1>36. QED
  BY <1>1, <1>2, <1>3, <1>4, <1>5, <1>6, <1>7, <1>8, <1>9, <1>10, <1>11, <1>12, <1>13, <1>14, <1>15,
       <1>16, <1>17, <1>18, <1>19, <1>20, <1>21, <1>22, <1>23, <1>24, <1>25, <1>26, <1>27, <1>28,
       <1>29, <1>30, <1>31, <1>32, <1>33, <1>34, <1>35 DEF Next, RunnerStep, TargetStep

LEMMA TargetsStep == CampaignInv /\ [Next]_vars => TargetsInv'
<1> SUFFICES ASSUME CampaignTypeOK, TargetsInv, VerifiedInv, [Next]_vars PROVE TargetsInv'
  BY DEF CampaignInv
<1> USE DEF infraVars, runnerVars, dataVars, targetVars, budgetVars, Goes, GoesWrong, NextStep,
      Services, Sessions, Live, Idle, CampaignTypeOK, TargetsInv, Trying, Ending
<1>1. CASE UNCHANGED vars
  BY <1>1 DEF vars, infraVars, runnerVars, dataVars, targetVars, budgetVars
<1>2. CASE Capture
  BY <1>2 DEF Capture
<1>3. CASE StartInfrastructure
  BY <1>3 DEF StartInfrastructure
<1>4. CASE StartTarget
  BY <1>4 DEF StartTarget
<1>5. CASE WaitTargetReady
  BY <1>5 DEF WaitTargetReady, Healthy
<1>6. CASE MeasureIngest
  BY <1>6 DEF MeasureIngest, Healthy
<1>7. CASE MeasureReading
  BY <1>7 DEF MeasureReading
<1>8. CASE ProbeTimeout
  BY <1>8 DEF ProbeTimeout
<1>9. CASE ProbeControlledOom
  BY <1>9 DEF ProbeControlledOom
<1>10. CASE RunSoak
  BY <1>10 DEF RunSoak
<1>11. CASE CaptureIsolation
  BY <1>11 DEF CaptureIsolation, Healthy
<1>12. CASE StopService
  BY <1>12 DEF StopService
<1>13. CASE SearchWithout
  BY <1>13 DEF SearchWithout
<1>14. CASE ReviveService
  BY <1>14 DEF ReviveService
<1>15. CASE ProbeAbnormalTermination
  BY <1>15 DEF ProbeAbnormalTermination, Dies, Healthy, Fails
<1>16. CASE NeverSpawned
  BY <1>16 DEF NeverSpawned
<1>17. CASE RequestCleanup
  BY <1>17 DEF RequestCleanup, CleanupWorks, CleanupFails, Deleted, Fails, Ready
<1>18. CASE RequestShutdown
  BY <1>18 DEF RequestShutdown
<1>19. CASE WrapperGone
  BY <1>19 DEF WrapperGone
<1>20. CASE Terminate
  BY ZenonT(60), <1>20 DEF Terminate, Dies, Told
<1>21. CASE Kill
  BY <1>21 DEF Kill, Dies
<1>22. CASE JoinLog
  BY <1>22 DEF JoinLog, JoinFails
<1>23. CASE StopSampler
  BY <1>23 DEF StopSampler, AfterTarget
<1>24. CASE StartForCleanup
  <2>1. pc = "ensure" /\ pc' \in {"verify", "restore"} /\ UNCHANGED <<session, target, wrapper, ingest>>
    BY <1>24 DEF StartForCleanup
  <2>2. QED
    BY <2>1
<1>25. CASE CleanupOnly
  BY <1>25 DEF CleanupOnly, CleanupWorks, CleanupFails, Deleted, Fails, Ready
<1>26. CASE CleanupVerified
  <2>1. UNCHANGED <<target, wrapper, ingest>> /\ pc = "count"
    BY <1>26 DEF CleanupVerified
  <2>2. CASE session = "baseline"
    <3>1. session' = "reliability" /\ pc' = "infra"
      BY <1>26, <2>2 DEF CleanupVerified
    <3>2. target["baseline"] \in Idle /\ target["reliability"] = "none"
      BY <2>1, <2>2 DEF VerifiedInv
    <3>3. QED
      BY <2>1, <3>1, <3>2
  <2>3. CASE session = "reliability"
    <3>1. session' = "reliability" /\ pc' = "restore"
      BY <1>26, <2>3 DEF CleanupVerified
    <3>2. QED
      BY <2>1, <2>3, <3>1
  <2>4. QED
    BY <2>2, <2>3
<1>27. CASE Restore
  BY <1>27 DEF Restore
<1>28. CASE RestoreHangs
  BY <1>28 DEF RestoreHangs
<1>29. CASE Interrupt
  BY <1>29 DEF Interrupt, EndsShort, StopCutShort, CutShort, Container, StartsSome, Told
<1>30. ASSUME NEW s \in Sessions, StartupDelete(s) PROVE TargetsInv'
  BY <1>30 DEF StartupDelete, CleanupWorks, CleanupFails, Deleted, Fails, Ready
<1>31. ASSUME NEW s \in Sessions, StartupCheck(s) PROVE TargetsInv'
  BY <1>31 DEF StartupCheck, Ready, Empty, Healthy
<1>32. ASSUME NEW s \in Sessions, IngestEnds(s) PROVE TargetsInv'
  BY <1>32 DEF IngestEnds, Ready
<1>33. ASSUME NEW s \in Sessions, FinalCleanup(s) PROVE TargetsInv'
  BY <1>33 DEF FinalCleanup, CleanupWorks, CleanupFails, Deleted, Fails, Ready
<1>34. ASSUME NEW s \in Sessions, WrapperExits(s) PROVE TargetsInv'
  BY <1>34 DEF WrapperExits
<1>35. ASSUME NEW s \in Sessions, Crash(s) PROVE TargetsInv'
  BY <1>35 DEF Crash, Dies
<1>36. QED
  BY <1>1, <1>2, <1>3, <1>4, <1>5, <1>6, <1>7, <1>8, <1>9, <1>10, <1>11, <1>12, <1>13, <1>14, <1>15,
       <1>16, <1>17, <1>18, <1>19, <1>20, <1>21, <1>22, <1>23, <1>24, <1>25, <1>26, <1>27, <1>28,
       <1>29, <1>30, <1>31, <1>32, <1>33, <1>34, <1>35 DEF Next, RunnerStep, TargetStep

LEMMA VerifiedStep == CampaignInv /\ [Next]_vars => VerifiedInv'
<1> SUFFICES ASSUME CampaignInv, [Next]_vars PROVE VerifiedInv'
  OBVIOUS
<1> USE DEF infraVars, runnerVars, dataVars, targetVars, budgetVars, Goes, GoesWrong, NextStep,
      Services, Sessions, Live, Idle, CampaignTypeOK, TargetsInv, VerifiedInv, CampaignInv, Empty,
      Trying, Ending
<1>1. CASE UNCHANGED vars
  BY <1>1 DEF vars, infraVars, runnerVars, dataVars, targetVars, budgetVars
<1>2. CASE Capture
  BY <1>2 DEF Capture
<1>3. CASE StartInfrastructure
  BY <1>3 DEF StartInfrastructure
<1>4. CASE StartTarget
  BY <1>4 DEF StartTarget
<1>5. CASE WaitTargetReady
  BY <1>5 DEF WaitTargetReady, Healthy
<1>6. CASE MeasureIngest
  BY <1>6 DEF MeasureIngest, Healthy
<1>7. CASE MeasureReading
  BY <1>7 DEF MeasureReading
<1>8. CASE ProbeTimeout
  BY <1>8 DEF ProbeTimeout
<1>9. CASE ProbeControlledOom
  BY <1>9 DEF ProbeControlledOom
<1>10. CASE RunSoak
  BY <1>10 DEF RunSoak
<1>11. CASE CaptureIsolation
  BY <1>11 DEF CaptureIsolation, Healthy
<1>12. CASE StopService
  BY <1>12 DEF StopService
<1>13. CASE SearchWithout
  BY <1>13 DEF SearchWithout
<1>14. CASE ReviveService
  BY <1>14 DEF ReviveService
<1>15. CASE ProbeAbnormalTermination
  BY <1>15 DEF ProbeAbnormalTermination, Dies, Healthy, Fails
<1>16. CASE NeverSpawned
  BY <1>16 DEF NeverSpawned
<1>17. CASE RequestCleanup
  BY <1>17 DEF RequestCleanup, CleanupWorks, CleanupFails, Deleted, Fails, Ready
<1>18. CASE RequestShutdown
  BY <1>18 DEF RequestShutdown
<1>19. CASE WrapperGone
  BY <1>19 DEF WrapperGone
<1>20. CASE Terminate
  BY ZenonT(60), <1>20 DEF Terminate, Dies, Told
<1>21. CASE Kill
  BY <1>21 DEF Kill, Dies
<1>22. CASE JoinLog
  BY <1>22 DEF JoinLog, JoinFails
<1>23. CASE StopSampler
  BY <1>23 DEF StopSampler, AfterTarget
<1>24. CASE StartForCleanup
  <2>1. pc = "ensure" /\ session = "reliability" /\ UNCHANGED <<session, target, dataVars>>
    BY <1>24 DEF StartForCleanup
  <2>2. CASE pc' = "verify" /\ error' = error /\ verdict' = verdict
    BY <2>1, <2>2
  <2>3. CASE pc' = "restore" /\ error' = TRUE /\ verdict' = [verdict EXCEPT ![session] = "failed"]
    <3>1. verdict'["baseline"] = verdict["baseline"]
      BY <2>1, <2>3
    <3>2. QED
      BY <2>1, <2>3, <3>1
  <2>4. QED
    BY <1>24, <2>2, <2>3 DEF StartForCleanup
<1>25. CASE CleanupOnly
  BY <1>25 DEF CleanupOnly, CleanupWorks, CleanupFails, Deleted, Fails, Ready
<1>26. CASE CleanupVerified
  BY <1>26 DEF CleanupVerified, Passes, Empty
<1>27. CASE Restore
  BY <1>27 DEF Restore
<1>28. CASE RestoreHangs
  BY <1>28 DEF RestoreHangs
<1>29. CASE Interrupt
  BY <1>29 DEF Interrupt, EndsShort, StopCutShort, CutShort, Container, StartsSome, Told
<1>30. ASSUME NEW s \in Sessions, StartupDelete(s) PROVE VerifiedInv'
  BY <1>30 DEF StartupDelete, CleanupWorks, CleanupFails, Deleted, Fails, Ready
<1>31. ASSUME NEW s \in Sessions, StartupCheck(s) PROVE VerifiedInv'
  BY <1>31 DEF StartupCheck, Ready, Empty, Healthy
<1>32. ASSUME NEW s \in Sessions, IngestEnds(s) PROVE VerifiedInv'
  BY <1>32 DEF IngestEnds, Ready
<1>33. ASSUME NEW s \in Sessions, FinalCleanup(s) PROVE VerifiedInv'
  BY <1>33 DEF FinalCleanup, CleanupWorks, CleanupFails, Deleted, Fails, Ready
<1>34. ASSUME NEW s \in Sessions, WrapperExits(s) PROVE VerifiedInv'
  BY <1>34 DEF WrapperExits
<1>35. ASSUME NEW s \in Sessions, Crash(s) PROVE VerifiedInv'
  BY <1>35 DEF Crash, Dies
<1>36. QED
  BY <1>1, <1>2, <1>3, <1>4, <1>5, <1>6, <1>7, <1>8, <1>9, <1>10, <1>11, <1>12, <1>13, <1>14, <1>15,
       <1>16, <1>17, <1>18, <1>19, <1>20, <1>21, <1>22, <1>23, <1>24, <1>25, <1>26, <1>27, <1>28,
       <1>29, <1>30, <1>31, <1>32, <1>33, <1>34, <1>35 DEF Next, RunnerStep, TargetStep

LEMMA CampaignStart == Init => CampaignInv
<1> SUFFICES ASSUME Init PROVE CampaignInv
  OBVIOUS
<1>1. session \in Sessions /\ pc = "capture" /\ error = FALSE /\ rows \in BOOLEAN
  BY DEF Init, Sessions
<1>2. ingest = {} /\ collections = {} /\ temp = {}
  BY DEF Init
<1>3. /\ verdict = [s \in Sessions |-> "none"] /\ wrapper = [s \in Sessions |-> "none"]
      /\ target = [s \in Sessions |-> "none"]
  BY DEF Init
<1>4. CampaignTypeOK
  BY <1>1, <1>2, <1>3 DEF CampaignTypeOK, Idle
<1>5. TargetsInv
  BY <1>1, <1>2, <1>3 DEF TargetsInv, Sessions, Idle
<1>6. VerifiedInv
  BY <1>1, <1>2, <1>3 DEF VerifiedInv, Sessions
<1>7. QED
  BY <1>4, <1>5, <1>6 DEF CampaignInv

LEMMA CampaignStep == CampaignInv /\ [Next]_vars => CampaignInv'
BY CampaignTypes, TargetsStep, VerifiedStep DEF CampaignInv

\* What a campaign reports as clean is clean, and stays clean.
THEOREM ReportedCleanStaysClean == Spec => []ReportedCleanIsClean
<1>1. CampaignInv => ReportedCleanIsClean
  BY DEF CampaignInv, CampaignTypeOK, TargetsInv, VerifiedInv, ReportedCleanIsClean, Idle, Empty, Sessions
<1>2. QED
  BY <1>1, CampaignStart, CampaignStep, PTL DEF Spec

(***************************************************************************)
(* The containers                                                          *)
(***************************************************************************)

\* What is known of a container is what was found; what is reported restored is as it was
\* found, and without a fault of Docker all that has been restored is.
ContainersInv ==
  /\ found \in [Services -> Classes] /\ container \in [Services -> Classes] /\ dockerFaults \in Nat
  /\ initial \in [Services -> Classes \cup {"unknown"}] /\ restored \in [Services -> {"none", "yes", "no"}]
  /\ pc = "capture" => container = found
  /\ \A c \in Services : initial[c] \in {"unknown", found[c]} /\ (found[c] # "absent" => container[c] # "absent")
  /\ dockerFaults = 0 /\ pc \notin {"capture", "aborted"} => initial = found
  /\ pc \notin {"restore", "done", "aborted"} => restored = [c \in Services |-> "none"]
  /\ pc = "restore" => restored["qdrant"] = "none"
  /\ pc = "done" => \A c \in Services : restored[c] # "none"
  /\ \A c \in Services : /\ restored[c] = "yes" => container[c] = found[c]
                         /\ pc # "aborted" /\ dockerFaults = 0 /\ restored[c] # "none" => restored[c] = "yes"

\* A step that touches no container: it neither begins the campaign nor ends the restore.
NoContainer ==
  /\ UNCHANGED infraVars /\ dockerFaults' \in {dockerFaults, dockerFaults + 1}
  /\ pc' = pc \/ pc' = "aborted" \/ (pc \notin {"capture", "restore", "done", "aborted"} /\ pc' \notin {"capture", "done"})

DockerStep ==
  \/ Capture \/ StartInfrastructure \/ StopService \/ ReviveService \/ StartForCleanup \/ Restore \/ RestoreHangs
  \/ Interrupt

\* Ctrl-C never begins or ends anything by itself.
LEMMA InterruptedAt ==
  ASSUME CampaignTypeOK, EndsShort, pc \notin {"capture", "restore"}
  PROVE  pc' \notin {"capture", "done"} /\ pc \notin {"done", "aborted"}
<1>1. pc \in Trying \cup Ending \cup {"probing"}
  BY DEF CampaignTypeOK, EndsShort
<1>2. CASE pc \in Trying
  BY <1>2 DEF EndsShort, GoesWrong, Trying, Ending
<1>3. CASE pc \in Ending
  BY <1>3 DEF EndsShort, GoesWrong, Trying, Ending
<1>4. CASE pc = "probing"
  BY <1>4 DEF EndsShort, GoesWrong, Trying, Ending
<1>5. QED
  BY <1>1, <1>2, <1>3, <1>4

\* Nor does it make a container disappear that the campaign has found.
LEMMA InterruptedContainers ==
  ASSUME ContainersInv, Interrupt
  PROVE  /\ container' \in [Services -> Classes]
         /\ \A c \in Services : found[c] # "absent" => container'[c] # "absent"
         /\ pc = "capture" => container' = container
<1>1. /\ found \in [Services -> Classes] /\ container \in [Services -> Classes]
      /\ \A c \in Services : initial[c] \in {"unknown", found[c]} /\ (found[c] # "absent" => container[c] # "absent")
  BY DEF ContainersInv
<1>2. CASE container' = container
  BY <1>1, <1>2
<1>3. CASE pc \in {"infra", "ensure"} /\ StartsSome
  BY <1>1, <1>3 DEF StartsSome
<1>4. CASE pc = "reviving" /\ Container(Now, "running")
  BY <1>1, <1>4 DEF Container, Classes
<1>5. CASE pc = "restore" /\ Container(Turn, Wanted(Turn))
  BY <1>1, <1>5 DEF Container, Wanted, Turn, Services, Classes
<1>6. CASE pc = "run" /\ Container(Now, "stopped")
  BY <1>1, <1>6 DEF Container, Classes
<1>7. QED
  BY <1>2, <1>3, <1>4, <1>5, <1>6 DEF Interrupt, EndsShort, StopCutShort, CutShort

LEMMA ContainerSteps == CampaignTypeOK /\ [Next]_vars => NoContainer \/ DockerStep
<1> SUFFICES ASSUME CampaignTypeOK, [Next]_vars PROVE NoContainer \/ DockerStep
  OBVIOUS
<1> USE DEF NoContainer, infraVars, runnerVars, budgetVars, Goes, GoesWrong, NextStep
<1>1. CASE UNCHANGED vars
  BY <1>1 DEF vars
<1>2. CASE StartTarget
  BY <1>2 DEF StartTarget
<1>3. CASE WaitTargetReady
  BY <1>3 DEF WaitTargetReady
<1>4. CASE MeasureIngest
  BY <1>4 DEF MeasureIngest
<1>5. CASE MeasureReading
  BY <1>5 DEF MeasureReading
<1>6. CASE ProbeTimeout
  BY <1>6 DEF ProbeTimeout
<1>7. CASE ProbeControlledOom
  BY <1>7 DEF ProbeControlledOom
<1>8. CASE RunSoak
  BY <1>8 DEF RunSoak
<1>9. CASE CaptureIsolation
  BY <1>9 DEF CaptureIsolation, Fails
<1>10. CASE SearchWithout
  BY <1>10 DEF SearchWithout
<1>11. CASE ProbeAbnormalTermination
  BY <1>11 DEF ProbeAbnormalTermination, Fails
<1>12. CASE NeverSpawned
  BY <1>12 DEF NeverSpawned
<1>13. CASE RequestCleanup
  BY <1>13 DEF RequestCleanup, CleanupWorks, CleanupFails, Deleted, Fails
<1>14. CASE RequestShutdown
  BY <1>14 DEF RequestShutdown, Fails
<1>15. CASE WrapperGone
  BY <1>15 DEF WrapperGone
<1>16. CASE Terminate
  BY <1>16 DEF Terminate
<1>17. CASE Kill
  BY <1>17 DEF Kill
<1>18. CASE JoinLog
  BY <1>18 DEF JoinLog
<1>19. CASE StopSampler
  BY <1>19 DEF StopSampler, AfterTarget, DockerFails
<1>20. CASE CleanupOnly
  BY <1>20 DEF CleanupOnly, CleanupWorks, CleanupFails, Deleted, Fails
<1>21. CASE CleanupVerified
  BY <1>21 DEF CleanupVerified
<1>23. ASSUME NEW s \in Sessions, StartupDelete(s) PROVE NoContainer
  BY <1>23 DEF StartupDelete, CleanupWorks, CleanupFails, Deleted, Fails
<1>24. ASSUME NEW s \in Sessions, StartupCheck(s) PROVE NoContainer
  BY <1>24 DEF StartupCheck
<1>25. ASSUME NEW s \in Sessions, IngestEnds(s) PROVE NoContainer
  BY <1>25 DEF IngestEnds, Fails
<1>26. ASSUME NEW s \in Sessions, FinalCleanup(s) PROVE NoContainer
  BY <1>26 DEF FinalCleanup, CleanupWorks, CleanupFails, Deleted, Fails
<1>27. ASSUME NEW s \in Sessions, WrapperExits(s) PROVE NoContainer
  BY <1>27 DEF WrapperExits
<1>28. ASSUME NEW s \in Sessions, Crash(s) PROVE NoContainer
  BY <1>28 DEF Crash, Fails, Dies
<1>29. QED
  BY <1>1, <1>2, <1>3, <1>4, <1>5, <1>6, <1>7, <1>8, <1>9, <1>10, <1>11, <1>12, <1>13, <1>14, <1>15,
       <1>16, <1>17, <1>18, <1>19, <1>20, <1>21, <1>23, <1>24, <1>25, <1>26, <1>27, <1>28 DEF
       Next, RunnerStep, TargetStep, DockerStep

LEMMA ContainersStep == CampaignTypeOK /\ ContainersInv /\ [Next]_vars => ContainersInv'
<1> SUFFICES ASSUME CampaignTypeOK, ContainersInv, [Next]_vars PROVE ContainersInv'
  OBVIOUS
<1> USE DEF ContainersInv, infraVars, budgetVars, Goes, GoesWrong, NextStep, DockerFails, Container,
      StartsSome,
      AllUp, Classes
<1>1. CASE NoContainer
  <2>1. UNCHANGED <<found, container, initial, restored>> /\ dockerFaults' \in Nat
        /\ (dockerFaults' = 0 => dockerFaults = 0)
    BY <1>1 DEF NoContainer
  <2>2. CASE pc' = pc
    BY <2>1, <2>2
  <2>3. CASE pc' = "aborted"
    BY <2>1, <2>3
  <2>4. CASE pc \notin {"capture", "restore", "done", "aborted"} /\ pc' \notin {"capture", "done"}
    <3>1. restored' = [c \in Services |-> "none"] /\ (dockerFaults' = 0 => initial' = found')
      BY <2>1, <2>4
    <3>2. pc' = "restore" => restored'["qdrant"] = "none"
      BY <3>1 DEF Services
    <3>3. QED
      BY <2>1, <2>4, <3>1, <3>2
  <2>5. QED
    BY <1>1, <2>2, <2>3, <2>4 DEF NoContainer
<1>2. CASE Capture
  BY <1>2 DEF Capture
<1>3. CASE StartInfrastructure
  BY <1>3 DEF StartInfrastructure
<1>4. CASE StopService
  BY <1>4 DEF StopService
<1>5. CASE ReviveService
  BY <1>5 DEF ReviveService
<1>6. CASE StartForCleanup
  <2>1. pc = "ensure" /\ pc' \in {"verify", "restore"} /\ UNCHANGED <<found, initial, restored>>
    BY <1>6 DEF StartForCleanup
  <2>2. /\ container' \in [Services -> Classes]
        /\ \A c \in Services : container'[c] \in {container[c], "running"}
    BY <1>6 DEF StartForCleanup
  <2>3. dockerFaults' \in Nat /\ (dockerFaults' = 0 => dockerFaults = 0)
    BY <1>6 DEF StartForCleanup
  <2>4. restored' = [c \in Services |-> "none"] /\ (dockerFaults' = 0 => initial' = found')
    BY <2>1, <2>3
  <2>5. restored'["qdrant"] = "none" /\ \A c \in Services : restored'[c] = "none"
    BY <2>4 DEF Services
  <2>6. QED
    BY <2>1, <2>2, <2>3, <2>4, <2>5
<1>7. CASE Restore
  BY <1>7 DEF Restore, Turn, Wanted, StateMatches, Services
<1>8. CASE RestoreHangs
  BY <1>8 DEF RestoreHangs, Turn, Wanted, Services
<1>9. CASE Interrupt
  <2>1. UNCHANGED <<found, initial, restored, dockerFaults>>
    BY <1>9 DEF Interrupt
  <2>2. /\ container' \in [Services -> Classes]
        /\ \A c \in Services : found[c] # "absent" => container'[c] # "absent"
        /\ pc = "capture" => container' = container
    BY <1>9, InterruptedContainers
  <2>3. CASE pc \in {"capture", "restore"}
    <3>1. pc' = "aborted"
      BY <1>9, <2>3 DEF Interrupt, EndsShort, StopCutShort, Goes
    <3>2. \A c \in Services : restored[c] = "yes" => container'[c] = found[c]
      BY <1>9, <2>2, <2>3 DEF Interrupt, EndsShort, StopCutShort, CutShort, Container, Turn, Wanted, Services
    <3>3. QED
      BY <2>1, <2>2, <3>1, <3>2
  <2>4. CASE pc \notin {"capture", "restore"}
    <3>1. pc' \notin {"capture", "done"} /\ pc \notin {"done", "aborted"}
      <4>1. CASE EndsShort
        BY <2>4, <4>1, InterruptedAt
      <4>2. CASE StopCutShort
        BY <4>2 DEF StopCutShort, GoesWrong
      <4>3. QED
        BY <1>9, <4>1, <4>2 DEF Interrupt
    <3>2. restored' = [c \in Services |-> "none"] /\ (dockerFaults' = 0 => initial' = found')
      BY <2>1, <2>4, <3>1
    <3>3. (pc' = "restore" => restored'["qdrant"] = "none") /\ \A c \in Services : restored'[c] = "none"
      BY <3>2 DEF Services
    <3>4. QED
      BY <2>1, <2>2, <2>4, <3>1, <3>2, <3>3
  <2>5. QED
    BY <2>3, <2>4
<1>10. QED
  BY <1>1, <1>2, <1>3, <1>4, <1>5, <1>6, <1>7, <1>8, <1>9, ContainerSteps DEF DockerStep

\* A container that is reported restored is as it was found, and without a fault of Docker
\* every container is reported restored (InfrastructureStateManager.restore).
THEOREM ContainersComeBack == Spec => []RestoredAsFound
<1>1. Init => ContainersInv
  BY DEF Init, ContainersInv, Classes, Services
<1>2. ContainersInv => RestoredAsFound
  BY DEF ContainersInv, RestoredAsFound
<1>3. CampaignInv /\ ContainersInv /\ [Next]_vars => (CampaignInv /\ ContainersInv)'
  BY CampaignStep, ContainersStep DEF CampaignInv
<1>4. QED
  BY CampaignStart, <1>1, <1>2, <1>3, PTL DEF Spec

=============================================================================
