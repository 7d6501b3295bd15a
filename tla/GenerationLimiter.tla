-------------------------- MODULE GenerationLimiter --------------------------
(***************************************************************************)
(* LimitedGenerationClient of the RAG service: what one answer may ask of  *)
(* Claude.  Every answer request has a budget of its own (calls, input and *)
(* output tokens): it is reserved before a call and settled after it.  The *)
(* calls of all requests share the slots of one semaphore, which asyncio   *)
(* serves in the order of arrival.                                         *)
(*                                                                         *)
(* The provider may report more tokens than the call was allowed; what it  *)
(* bills for an answer the client then refuses is never reported at all.   *)
(***************************************************************************)
EXTENDS Integers, SequencesExt

CONSTANTS
  Requests,        \* answer requests in one process of the RAG service
  MaxConcurrency,  \* anthropic_max_concurrent_requests
  MaxCalls,        \* anthropic_max_calls_per_answer
  MaxInput,        \* anthropic_max_input_tokens_per_answer
  MaxOutput,       \* anthropic_max_output_tokens_per_answer
  PerCall,         \* anthropic_max_output_tokens
  MaxOverrun       \* bound: tokens a provider may report beyond what it was allowed

ASSUME LimiterConstants ==
  /\ MaxConcurrency \in Nat \ {0} /\ MaxCalls \in Nat \ {0}
  /\ MaxInput \in Nat \ {0} /\ MaxOutput \in Nat \ {0} /\ PerCall \in Nat \ {0}
  /\ MaxOverrun \in Nat

VARIABLES
  attempted,  \* _attempted_calls
  inUsed,     \* _committed_input_tokens
  outUsed,    \* _committed_output_tokens
  inHeld,     \* _reserved_input_tokens
  outHeld,    \* _reserved_output_tokens
  queue,      \* the waiters of the semaphore
  inCall      \* the requests that hold a slot

limiter == <<attempted, inUsed, outUsed, inHeld, outHeld, queue, inCall>>

Waiting == {queue[k] : k \in DOMAIN queue}

LimiterTypeOK ==
  /\ attempted \in [Requests -> 0..MaxCalls]
  /\ inUsed \in [Requests -> Nat] /\ outUsed \in [Requests -> Nat]
  /\ inHeld \in [Requests -> Nat] /\ outHeld \in [Requests -> Nat]
  /\ queue \in Seq(Requests)
  /\ inCall \subseteq Requests

LimiterInit ==
  /\ attempted = [r \in Requests |-> 0]
  /\ inUsed = [r \in Requests |-> 0] /\ outUsed = [r \in Requests |-> 0]
  /\ inHeld = [r \in Requests |-> 0] /\ outHeld = [r \in Requests |-> 0]
  /\ queue = <<>> /\ inCall = {}

-----------------------------------------------------------------------------

\* Bug: what is already reserved or used is not subtracted.
RemainingOutputAll(r) == MaxOutput

RemainingInput(r)  == MaxInput - (inUsed[r] + inHeld[r])
RemainingOutput(r) == MaxOutput - (outUsed[r] + outHeld[r])

\* The checks of _reserve_budget, for a call whose input is estimated at est tokens.
MayReserve(r, est) ==
  /\ attempted[r] < MaxCalls
  /\ est <= RemainingInput(r)
  /\ RemainingOutput(r) > 0

\* The max_tokens of the call; the requests of this service ask for no limit of their own.
OutputLimit(r) == Min({PerCall, RemainingOutput(r)})

\* _reserve_budget, and the request enters the semaphore's queue.
Reserve(r, est) ==
  /\ MayReserve(r, est)
  /\ attempted' = [attempted EXCEPT ![r] = @ + 1]
  /\ inHeld' = [inHeld EXCEPT ![r] = @ + est]
  /\ outHeld' = [outHeld EXCEPT ![r] = @ + OutputLimit(r)]
  /\ queue' = Append(queue, r)
  /\ UNCHANGED <<inUsed, outUsed, inCall>>

\* Bug: one slot is always kept free.
SlotFreeButOne == Cardinality(inCall) < MaxConcurrency - 1

SlotFree == Cardinality(inCall) < MaxConcurrency

\* The first waiter gets a slot.
Enter(r) ==
  /\ queue # <<>> /\ Head(queue) = r /\ SlotFree
  /\ queue' = Tail(queue)
  /\ inCall' = inCall \cup {r}
  /\ UNCHANGED <<attempted, inUsed, outUsed, inHeld, outHeld>>

\* _commit_usage
Commit(r, in, out) ==
  /\ r \in inCall
  /\ inCall' = inCall \ {r}
  /\ inUsed' = [inUsed EXCEPT ![r] = @ + in]
  /\ outUsed' = [outUsed EXCEPT ![r] = @ + out]
  /\ inHeld' = [inHeld EXCEPT ![r] = 0]
  /\ outHeld' = [outHeld EXCEPT ![r] = 0]
  /\ UNCHANGED <<attempted, queue>>

\* The limits a call has overrun, once its usage is known: limit is what it was allowed.
Exceeded(r, in, out) ==
  \/ inUsed[r] + in > MaxInput
  \/ out > outHeld[r]
  \/ outUsed[r] + out > MaxOutput

\* _release_reservation: the call failed or was cancelled; the attempt stays counted,
\* but no token of an answer that was billed and cannot be used.
Release(r) ==
  /\ r \in inCall
  /\ inCall' = inCall \ {r}
  /\ inHeld' = [inHeld EXCEPT ![r] = 0]
  /\ outHeld' = [outHeld EXCEPT ![r] = 0]
  /\ UNCHANGED <<attempted, inUsed, outUsed, queue>>

\* Bug: a waiter that is cancelled keeps its reservation.
LeaveHolding(r) ==
  /\ \E k \in DOMAIN queue : queue[k] = r /\ queue' = RemoveAt(queue, k)
  /\ UNCHANGED <<attempted, inUsed, outUsed, inHeld, outHeld, inCall>>

\* The same for a request cancelled while it waits for a slot.
Leave(r) ==
  /\ \E k \in DOMAIN queue : queue[k] = r /\ queue' = RemoveAt(queue, k)
  /\ inHeld' = [inHeld EXCEPT ![r] = 0]
  /\ outHeld' = [outHeld EXCEPT ![r] = 0]
  /\ UNCHANGED <<attempted, inUsed, outUsed, inCall>>

-----------------------------------------------------------------------------

\* The limiter alone, whatever the requests ask of it.
LimiterNext ==
  \E r \in Requests :
    \/ \E est \in Nat : r \notin Waiting \cup inCall /\ Reserve(r, est)
    \/ Enter(r)
    \/ \E in \in 0..(inHeld[r] + MaxOverrun), out \in 0..(outHeld[r] + MaxOverrun) : Commit(r, in, out)
    \/ Release(r)
    \/ Leave(r)

LimiterSpec == LimiterInit /\ [][LimiterNext]_limiter

(***************************************************************************)
(* Properties                                                              *)
(***************************************************************************)

\* However many calls an answer makes, what is committed and reserved together stays
\* within its budget, up to what the provider overran in one call: the next call is
\* refused.  (_reserve_budget, _commit_usage)
BudgetKept ==
  \A r \in Requests :
    /\ inUsed[r] + inHeld[r] <= MaxInput + MaxOverrun
    /\ outUsed[r] + outHeld[r] <= MaxOutput + MaxOverrun

\* A reservation lasts as long as its call is waiting or under way, whether the call
\* succeeds, fails or is cancelled; and the calls under way never exceed the slots.
SlotsAndReservations ==
  /\ Cardinality(inCall) <= MaxConcurrency
  /\ \A r \in Requests : r \in inCall \cup Waiting <=> outHeld[r] > 0

=============================================================================
