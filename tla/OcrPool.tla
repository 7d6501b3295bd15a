------------------------------- MODULE OcrPool -------------------------------
(* The pool of OCR worker processes of the RAG service                          *)
(* (infrastructure/ocr/process_manager.py, EasyOcrEngine), as the coroutines of *)
(* its event loop, their threads and the processes see it. A *call* is the      *)
(* recognition of one image. Cancelling a coroutine does not stop its thread:   *)
(* exchange[c] and repair[c] are the threads of call c and may outlive it.      *)
EXTENDS Integers, SequencesExt, FiniteSets

CONSTANTS
  Calls,     \* the recognitions asked for, each once
  Slots,     \* the worker slots, ocr_max_concurrency of them
  None

ASSUME PoolAssumption == /\ IsFiniteSet(Slots) /\ Slots # {}
                         /\ None \notin Calls \cup Slots

VARIABLES
  pool,      \* "down", "up", "closing", "closed": _started, _closing, _closed
  starter,   \* the call inside start(), which holds the lifecycle lock
  free,      \* _available_workers
  worker,    \* per slot its process and what is in the pipe: alive, inbox, outbox
  lock,      \* the call whose repair thread holds _state_lock
  call,      \* per call where its coroutine is, its slot, and how a repair is to end
  exchange,  \* per call its thread in _exchange_with_worker_sync
  got,       \* per call the request_id of the reply its thread has read
  repair     \* per call its thread in _replace_worker_sync

poolVars == <<pool, starter, free, worker, lock, call, exchange, got, repair>>

Ended == {"answered", "failed", "crashed", "timeout"}
Inside == {"start", "queue", "exchange", "repair"}

Fresh == [alive |-> TRUE, inbox |-> <<>>, outbox |-> <<>>]
Stopped == [alive |-> FALSE, inbox |-> <<>>, outbox |-> <<>>]

PoolInit ==
  /\ pool = "down" /\ starter = None /\ free = <<>> /\ lock = None
  /\ worker = [s \in Slots |-> Stopped]
  /\ call = [c \in Calls |-> [pc |-> "idle", slot |-> None, then |-> "failed"]]
  /\ exchange = [c \in Calls |-> "none"]
  /\ got = [c \in Calls |-> None]
  /\ repair = [c \in Calls |-> "none"]

Goes(c, pc) == call' = [call EXCEPT ![c].pc = pc]

(* The enricher's semaphore admits as many calls as there are workers.          *)
EnterPool(c) ==
  /\ call[c].pc = "idle"
  /\ Cardinality({o \in Calls : call[o].pc \in Inside}) < Cardinality(Slots)
  /\ Goes(c, "start")
  /\ UNCHANGED <<pool, starter, free, worker, lock, exchange, got, repair>>

(* start(): the first call has the pool spawned by a thread; the others wait.   *)
StartPool(c) ==
  /\ call[c].pc = "start" /\ pool = "down" /\ starter = None
  /\ starter' = c
  /\ UNCHANGED <<pool, free, worker, lock, call, exchange, got, repair>>

PoolStarts(c) ==
  /\ starter = c
  /\ starter' = None /\ pool' = "up"
  /\ free' = SetToSeq(Slots)
  /\ worker' = [s \in Slots |-> Fresh]
  /\ UNCHANGED <<lock, call, exchange, got, repair>>

(* A worker that does not come up ends the start; what was spawned is stopped.  *)
(* An OcrError costs the image, an OSError or EOFError passes the enricher.     *)
PoolStartFails(c) ==
  /\ starter = c
  /\ starter' = None
  /\ \E how \in {"failed", "crashed"} : Goes(c, how)
  /\ UNCHANGED <<pool, free, worker, lock, exchange, got, repair>>

(* _require_available_queue, on the event loop, under the state lock.           *)
Require(c) ==
  /\ call[c].pc = "start" /\ pool # "down" /\ lock = None
  /\ Goes(c, IF pool = "up" THEN "queue" ELSE "failed")
  /\ UNCHANGED <<pool, starter, free, worker, lock, exchange, got, repair>>

(* The thread of an exchange gets the connection as it is now.                  *)
TakeSlot(c) ==
  /\ call[c].pc = "queue" /\ free # <<>>
  /\ free' = Tail(free)
  /\ call' = [call EXCEPT ![c].pc = "exchange", ![c].slot = Head(free)]
  /\ exchange' = [exchange EXCEPT ![c] = "sending"]
  /\ UNCHANGED <<pool, starter, worker, lock, got, repair>>

Send(c) ==
  /\ exchange[c] = "sending"
  /\ IF worker[call[c].slot].alive
     THEN /\ worker' = [worker EXCEPT ![call[c].slot].inbox = Append(@, c)]
          /\ exchange' = [exchange EXCEPT ![c] = "polling"]
     ELSE /\ exchange' = [exchange EXCEPT ![c] = "broken"]
          /\ UNCHANGED worker
  /\ UNCHANGED <<pool, starter, free, lock, call, got, repair>>

WorkerAnswers(s) ==
  /\ worker[s].alive /\ worker[s].inbox # <<>>
  /\ worker' = [worker EXCEPT ![s].inbox = Tail(@), ![s].outbox = Append(@, Head(worker[s].inbox))]
  /\ UNCHANGED <<pool, starter, free, lock, call, exchange, got, repair>>

WorkerDies(s) ==
  /\ worker[s].alive
  /\ worker' = [worker EXCEPT ![s].alive = FALSE]
  /\ UNCHANGED <<pool, starter, free, lock, call, exchange, got, repair>>

(* The thread reads the first reply in the pipe, whosever it is.                *)
Receive(c) ==
  /\ exchange[c] = "polling" /\ worker[call[c].slot].outbox # <<>>
  /\ got' = [got EXCEPT ![c] = Head(worker[call[c].slot].outbox)]
  /\ worker' = [worker EXCEPT ![call[c].slot].outbox = Tail(@)]
  /\ exchange' = [exchange EXCEPT ![c] = "over"]
  /\ UNCHANGED <<pool, starter, free, lock, call, repair>>

BreaksOff(c) ==
  /\ exchange[c] = "polling"
  /\ ~worker[call[c].slot].alive /\ worker[call[c].slot].outbox = <<>>
  /\ exchange' = [exchange EXCEPT ![c] = "broken"]
  /\ UNCHANGED <<pool, starter, free, worker, lock, call, got, repair>>

(* The finally of recognize: the slot goes back, unless the pool is closing or  *)
(* the call ends in an error (not a cancellation) and the worker is dead.       *)
LeavesWith(c, pc, back) ==
  /\ Goes(c, pc)
  /\ free' = IF back /\ pool \notin {"closing", "closed"} THEN Append(free, call[c].slot) ELSE free

AnyReply(c) == got[c] # None  \* a broken Matches

Matches(c) == got[c] = c

(* A success, or a protected failure of the recognition.                        *)
Answered(c) ==
  /\ call[c].pc = "exchange" /\ exchange[c] = "over" /\ Matches(c)
  /\ \/ LeavesWith(c, "answered", TRUE)
     \/ LeavesWith(c, "failed", worker[call[c].slot].alive)
  /\ UNCHANGED <<pool, starter, worker, lock, exchange, got, repair>>

(* Everything else has the worker replaced by a thread, which the call awaits.  *)
(* The pool's own timeout is as long as that of the enricher, which began       *)
(* earlier: it never comes first.                                               *)
AskRepair(c, then) ==
  /\ call[c].pc = "exchange"
  /\ call' = [call EXCEPT ![c].pc = "repair", ![c].then = then]
  /\ repair' = [repair EXCEPT ![c] = "waiting"]
  /\ UNCHANGED <<pool, starter, free, worker, lock, exchange, got>>

ExchangeFails(c) ==
  /\ exchange[c] = "broken" \/ (exchange[c] = "over" /\ ~Matches(c))
  /\ AskRepair(c, "failed")

ClosedOnly(c) == FALSE  \* a broken Closing

(* The thread of _replace_worker_sync stops the worker; this closes the         *)
(* connection under every thread that reads it.                                 *)
Closing(c) == pool \in {"closing", "closed"}

BrokenOn(S) ==
  [c \in Calls |-> IF call[c].slot \in S /\ exchange[c] \in {"sending", "polling"}
                   THEN "broken" ELSE exchange[c]]

RepairBegins(c) ==
  /\ repair[c] = "waiting" /\ lock = None
  /\ worker' = [worker EXCEPT ![call[c].slot] = Stopped]
  /\ exchange' = BrokenOn({call[c].slot})
  /\ IF Closing(c)
     THEN repair' = [repair EXCEPT ![c] = "over"] /\ UNCHANGED lock
     ELSE repair' = [repair EXCEPT ![c] = "spawning"] /\ lock' = c
  /\ UNCHANGED <<pool, starter, free, call, got>>

RepairSpawns(c) ==
  /\ repair[c] = "spawning"
  /\ worker' = [worker EXCEPT ![call[c].slot] = Fresh]
  /\ repair' = [repair EXCEPT ![c] = "over"]
  /\ lock' = None
  /\ UNCHANGED <<pool, starter, free, call, exchange, got>>

RepairFailsHolding(c) ==  \* a broken RepairFails
  /\ repair[c] = "spawning"
  /\ \E how \in {"failed", "crashed"} : repair' = [repair EXCEPT ![c] = how]
  /\ UNCHANGED <<pool, starter, free, worker, lock, call, exchange, got>>

RepairFails(c) ==
  /\ repair[c] = "spawning"
  /\ \E how \in {"failed", "crashed"} : repair' = [repair EXCEPT ![c] = how]
  /\ lock' = None
  /\ UNCHANGED <<pool, starter, free, worker, call, exchange, got>>

(* An exception of the replacement takes the place of a cancellation.           *)
Repaired(c) ==
  /\ call[c].pc = "repair"
  /\ \/ /\ repair[c] = "over"
        /\ LeavesWith(c, call[c].then, call[c].then = "timeout" \/ worker[call[c].slot].alive)
     \/ /\ repair[c] \in {"failed", "crashed"}
        /\ LeavesWith(c, repair[c], worker[call[c].slot].alive)
  /\ UNCHANGED <<pool, starter, worker, lock, exchange, got, repair>>

(* wait_for ends a call: in start() and in the queue at once (the thread that   *)
(* spawns the pool is forgotten), in an exchange after a repair.                *)
CancelWaiting(c) ==
  /\ call[c].pc \in {"start", "queue"}
  /\ Goes(c, "timeout")
  /\ starter' = IF starter = c THEN None ELSE starter
  /\ UNCHANGED <<pool, free, worker, lock, exchange, got, repair>>

CancelExchange(c) == AskRepair(c, "timeout")

(* The document's own timeout cancels a call that has not begun, or that awaits *)
(* its repair: the slot goes back although the thread is still at it.           *)
CancelRepair(c) ==
  /\ call[c].pc = "repair"
  /\ LeavesWith(c, "timeout", TRUE)
  /\ UNCHANGED <<pool, starter, worker, lock, exchange, got, repair>>

CancelIdle(c) ==
  /\ call[c].pc = "idle"
  /\ Goes(c, "timeout")
  /\ UNCHANGED <<pool, starter, free, worker, lock, exchange, got, repair>>

CloseBegins ==
  /\ pool \in {"down", "up"} /\ starter = None
  /\ pool' = "closing"
  /\ UNCHANGED <<starter, free, worker, lock, call, exchange, got, repair>>

CloseWorkers ==
  /\ pool = "closing" /\ lock = None
  /\ worker' = [s \in Slots |-> Stopped]
  /\ exchange' = BrokenOn(Slots)
  /\ pool' = "closed"
  /\ UNCHANGED <<starter, free, lock, call, got, repair>>

-----------------------------------------------------------------------------
CallStep(c) ==
  \/ StartPool(c) \/ PoolStarts(c) \/ PoolStartFails(c) \/ Require(c) \/ TakeSlot(c)
  \/ Send(c) \/ Receive(c) \/ BreaksOff(c) \/ Answered(c) \/ ExchangeFails(c)
  \/ RepairBegins(c) \/ RepairSpawns(c) \/ RepairFails(c) \/ Repaired(c)
  \/ CancelWaiting(c) \/ CancelExchange(c)

PoolNext ==
  \/ \E c \in Calls : EnterPool(c) \/ CallStep(c) \/ CancelRepair(c) \/ CancelIdle(c)
  \/ \E s \in Slots : WorkerAnswers(s) \/ WorkerDies(s)
  \/ CloseBegins \/ CloseWorkers

PoolSpec == PoolInit /\ [][PoolNext]_poolVars

PoolTypeOK ==
  /\ pool \in {"down", "up", "closing", "closed"}
  /\ starter \in Calls \cup {None}
  /\ free \in Seq(Slots)
  /\ worker \in [Slots -> [alive : BOOLEAN, inbox : Seq(Calls), outbox : Seq(Calls)]]
  /\ lock \in Calls \cup {None}
  /\ call \in [Calls -> [pc : {"idle"} \cup Inside \cup Ended, slot : Slots \cup {None},
                         then : {"failed", "timeout"}]]
  /\ exchange \in [Calls -> {"none", "sending", "polling", "over", "broken"}]
  /\ got \in [Calls -> Calls \cup {None}]
  /\ repair \in [Calls -> {"none", "waiting", "spawning", "over", "failed", "crashed"}]

Holds(c, s) == call[c].pc \in {"exchange", "repair"} /\ call[c].slot = s

(* Two threads may read one pipe, and a worker may answer a call that was given *)
(* up: an image never gets the text of another (the request_id of _exchange).   *)
RepliesMatch == \A c \in Calls : call[c].pc = "answered" => got[c] = c

(* A slot is in the queue once or with one call. It is lost only to a call that *)
(* ended in an error without a live worker, never to a timeout, and no worker   *)
(* survives the close (recognize, finally; close; _replace_worker_sync).        *)
SlotsAccounted ==
  /\ \A i, j \in 1..Len(free) : free[i] = free[j] => i = j
  /\ \A s \in Slots :
       /\ \A c \in Calls : Holds(c, s) =>
            /\ \A i \in 1..Len(free) : free[i] # s
            /\ \A o \in Calls : Holds(o, s) => o = c
       /\ pool = "up" =>
            \/ \E i \in 1..Len(free) : free[i] = s
            \/ \E c \in Calls : Holds(c, s) \/ (call[c].slot = s /\ call[c].pc \in {"failed", "crashed"})
  /\ pool = "closed" => \A s \in Slots : ~worker[s].alive

=============================================================================
