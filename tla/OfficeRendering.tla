--------------------------- MODULE OfficeRendering ---------------------------
(* Charts and SmartArt drawn by PowerPoint or Excel                             *)
(* (infrastructure/document/rendering/microsoft_office.py): a coroutine waits   *)
(* for a thread, the thread for the lock of the Office applications and for a   *)
(* worker process, the worker drives an Office process. Each has a timeout of   *)
(* its own, and each may outlive the one that started it. The clocks are not    *)
(* modelled: a timeout may pass at any moment.                                  *)
EXTENDS Naturals

CONSTANTS Documents, NoDocument

VARIABLES
  officeLock,  \* _render_lock: the document whose thread holds it
  render,      \* the thread: "none", "queued", "working", "collect", "over"
  office,      \* the Office process: "none", "up", "known" (its pid is written)
  saved,       \* the response of the worker: "none", "visuals", "unavailable"
  outcome,     \* the coroutine: "none", "awaited", "rendered", "unavailable"
  source       \* the documents whose copy with an Office suffix is on the disk

officeVars == <<officeLock, render, office, saved, outcome, source>>

OfficeInit ==
  /\ officeLock = NoDocument
  /\ render = [d \in Documents |-> "none"]
  /\ office = [d \in Documents |-> "none"]
  /\ saved = [d \in Documents |-> "none"]
  /\ outcome = [d \in Documents |-> "none"]
  /\ source = {}

(* _render_with_timeout                                                         *)
RenderAsk(d) ==
  /\ render[d] = "none"
  /\ render' = [render EXCEPT ![d] = "queued"]
  /\ outcome' = [outcome EXCEPT ![d] = "awaited"]
  /\ UNCHANGED <<officeLock, office, saved, source>>

Results(d, result) ==
  outcome' = IF outcome[d] = "awaited" THEN [outcome EXCEPT ![d] = result] ELSE outcome

RenderStarts(d) ==
  /\ render[d] = "queued" /\ officeLock = NoDocument /\ d \in source
  /\ officeLock' = d
  /\ render' = [render EXCEPT ![d] = "working"]
  /\ UNCHANGED <<office, saved, outcome, source>>

(* Not on this machine, or no worker process, or the source is gone: the lock   *)
(* is taken and given back.                                                     *)
RenderRefused(d) ==
  /\ render[d] = "queued" /\ officeLock = NoDocument
  /\ render' = [render EXCEPT ![d] = "over"]
  /\ Results(d, "unavailable")
  /\ UNCHANGED <<officeLock, office, saved, source>>

(* The worker process: Office comes up and opens the copy, its pid is written   *)
(* if it can be had, the result is saved before Office is closed.               *)
OfficeOpens(d) ==
  /\ render[d] = "working" /\ office[d] = "none" /\ saved[d] = "none"
  /\ office' = [office EXCEPT ![d] = "up"]
  /\ UNCHANGED <<officeLock, render, saved, outcome, source>>

PidWritten(d) ==
  /\ render[d] = "working" /\ office[d] = "up" /\ saved[d] = "none"
  /\ office' = [office EXCEPT ![d] = "known"]
  /\ UNCHANGED <<officeLock, render, saved, outcome, source>>

ResultSaved(d) ==
  /\ render[d] = "working" /\ saved[d] = "none"
  /\ \E result \in {"visuals", "unavailable"} :
       /\ result = "visuals" => office[d] # "none"
       /\ saved' = [saved EXCEPT ![d] = result]
  /\ UNCHANGED <<officeLock, render, office, outcome, source>>

OfficeExits(d) ==
  /\ office[d] # "none"
  /\ office' = [office EXCEPT ![d] = "none"]
  /\ UNCHANGED <<officeLock, render, saved, outcome, source>>

(* The worker returns, dies or is killed by the timeout of the thread.          *)
WorkerEnds(d) ==
  /\ render[d] = "working"
  /\ render' = [render EXCEPT ![d] = "collect"]
  /\ UNCHANGED <<officeLock, office, saved, outcome, source>>

NotCleaned(d) == office  \* a broken Cleaned

(* The thread reads the response, whatever became of the worker, ends an Office *)
(* process whose pid it knows, and gives the lock back.                         *)
Cleaned(d) == IF office[d] = "known" THEN [office EXCEPT ![d] = "none"] ELSE office

Collect(d) ==
  /\ render[d] = "collect"
  /\ office' = Cleaned(d)
  /\ officeLock' = NoDocument
  /\ render' = [render EXCEPT ![d] = "over"]
  /\ Results(d, IF saved[d] = "visuals" THEN "rendered" ELSE "unavailable")
  /\ UNCHANGED <<saved, source>>

(* wait_for gives up; the thread goes on.                                       *)
RenderTimeout(d) ==
  /\ outcome[d] = "awaited"
  /\ outcome' = [outcome EXCEPT ![d] = "unavailable"]
  /\ UNCHANGED <<officeLock, render, office, saved, source>>

-----------------------------------------------------------------------------
RenderStep(d) ==
  RenderStarts(d) \/ RenderRefused(d) \/ ResultSaved(d) \/ WorkerEnds(d) \/ Collect(d) \/ RenderTimeout(d)

OfficeNext ==
  \E d \in Documents : RenderStep(d) \/ OfficeOpens(d) \/ PidWritten(d) \/ OfficeExits(d)

(* One Office process the service knows of at a time, however late its worker   *)
(* ends: a process with a written pid belongs to the holder of the lock         *)
(* (_run_serialized, _cleanup_worker_office_process).                           *)
OfficeSerialized ==
  /\ \A d \in Documents : office[d] = "known" => officeLock = d
  /\ \A d \in Documents : (officeLock = d) <=> (render[d] \in {"working", "collect"})

=============================================================================
