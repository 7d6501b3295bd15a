--------------------------- MODULE RagAnswersProofs ---------------------------
(***************************************************************************)
(* Proofs about GenerationLimiter and RagAnswers.                          *)
(*                                                                         *)
(* The limiter keeps its two safety properties for any number of requests, *)
(* slots and limits, whatever the requests ask of it.  The steps of the    *)
(* service are steps of the limiter, whatever is asked, found and answered *)
(* (AnswerInv).  What an answer cites and what the numbers in it mean is   *)
(* kept along the whole way from the index to the answer (GoodRuns).       *)
(***************************************************************************)
EXTENDS RagAnswers, FiniteSetTheorems, SequenceTheorems, WellFoundedInduction, NaturalsInduction, TLAPS

-----------------------------------------------------------------------------
(* The limiter                                                             *)

USE LimiterConstants

\* A request waits once, does not wait and call at the same time, holds something exactly
\* while it does one of both, and holds no more than it has left.
LimiterInv ==
  /\ LimiterTypeOK
  /\ IsFiniteSet(inCall)
  /\ IsInjective(queue)
  /\ Waiting \cap inCall = {}
  /\ \A r \in Requests : r \notin Waiting \cup inCall => inHeld[r] = 0
  /\ \A r \in Waiting \cup inCall : /\ inUsed[r] + inHeld[r] <= MaxInput
                                    /\ outUsed[r] + outHeld[r] <= MaxOutput
  /\ BudgetKept
  /\ SlotsAndReservations

LEMMA MinOfTwo ==
  ASSUME NEW a \in Int, NEW b \in Int
  PROVE  Min({a, b}) \in {a, b} /\ Min({a, b}) <= a /\ Min({a, b}) <= b
<1>1. \E x \in {a, b} : \A y \in {a, b} : x <= y
  <2>1. CASE a <= b
    BY <2>1
  <2>2. CASE ~(a <= b)
    BY <2>2
  <2>3. QED
    BY <2>1, <2>2
<1>2. QED
  BY <1>1 DEF Min

LEMMA LimiterStart == LimiterInit => LimiterInv
<1> SUFFICES ASSUME LimiterInit PROVE LimiterInv
  OBVIOUS
<1> USE DEF LimiterInit
<1>1. LimiterTypeOK
  BY DEF LimiterTypeOK
<1>2. IsFiniteSet(inCall) /\ Cardinality(inCall) = 0
  BY FS_EmptySet
<1>3. IsInjective(queue) /\ Waiting = {}
  BY DEF IsInjective, Waiting
<1>4. QED
  BY <1>1, <1>2, <1>3 DEF LimiterInv, BudgetKept, SlotsAndReservations

LEMMA OutputLimitFits ==
  ASSUME NEW r \in Requests, RemainingOutput(r) \in Nat \ {0}
  PROVE  OutputLimit(r) \in Nat \ {0} /\ OutputLimit(r) <= RemainingOutput(r)
<1> DEFINE m == RemainingOutput(r)
<1>1. m \in Nat \ {0} /\ m \in Int /\ PerCall \in Int
  OBVIOUS
<1> HIDE DEF m
<1>2. Min({PerCall, m}) \in {PerCall, m} /\ Min({PerCall, m}) <= m
  BY <1>1, MinOfTwo
<1>3. OutputLimit(r) = Min({PerCall, m})
  BY DEF OutputLimit, m
<1>4. QED
  BY <1>1, <1>2, <1>3 DEF m

\* A new waiter, or one less: the queue as a set.
LEMMA Joined ==
  ASSUME queue \in Seq(Requests), IsInjective(queue), NEW r \in Requests, r \notin Waiting,
         queue' = Append(queue, r)
  PROVE  queue' \in Seq(Requests) /\ IsInjective(queue') /\ Waiting' = Waiting \cup {r}
<1>1. queue' \in Seq(Requests) /\ Len(queue') = Len(queue) + 1 /\ queue'[Len(queue) + 1] = r
      /\ \A k \in 1..Len(queue) : queue'[k] = queue[k]
  OBVIOUS
<1>2. DOMAIN queue' = 1..(Len(queue) + 1) /\ DOMAIN queue = 1..Len(queue) /\ Len(queue) \in Nat
  BY <1>1
<1>3. QED
  BY <1>1, <1>2 DEF Waiting, IsInjective

LEMMA Left ==
  ASSUME queue \in Seq(Requests), IsInjective(queue), NEW k \in DOMAIN queue, queue' = RemoveAt(queue, k)
  PROVE  queue' \in Seq(Requests) /\ IsInjective(queue') /\ Waiting' = Waiting \ {queue[k]}
<1>0. k \in 1..Len(queue) /\ Len(queue) \in Nat
  OBVIOUS
<1>1. queue' = SubSeq(queue, 1, k - 1) \o SubSeq(queue, k + 1, Len(queue))
  BY DEF RemoveAt
<1> DEFINE a == SubSeq(queue, 1, k - 1)
           b == SubSeq(queue, k + 1, Len(queue))
<1>2. a \in Seq(Requests) /\ Len(a) = k - 1 /\ \A j \in 1..(k - 1) : a[j] = queue[j]
  BY <1>0, SubSeqProperties
<1>3. b \in Seq(Requests) /\ Len(b) = Len(queue) - k /\ \A j \in 1..(Len(queue) - k) : b[j] = queue[k + j]
  BY <1>0, SubSeqProperties
<1> HIDE DEF a, b
<1>4. queue' = a \o b
  BY <1>1 DEF a, b
<1>4a. queue' \in Seq(Requests) /\ Len(queue') = Len(queue) - 1
      /\ \A j \in 1..(Len(queue) - 1) : queue'[j] = IF j <= k - 1 THEN a[j] ELSE b[j - (k - 1)]
  <2>1. Len(a) \in Nat /\ Len(b) \in Nat /\ Len(a) + Len(b) = Len(queue) - 1
    BY <1>0, <1>2, <1>3
  <2>2. queue' \in Seq(Requests) /\ Len(queue') = Len(a) + Len(b)
        /\ \A j \in 1..(Len(a) + Len(b)) : queue'[j] = IF j <= Len(a) THEN a[j] ELSE b[j - Len(a)]
    BY <1>2, <1>3, <1>4, ConcatProperties
  <2>3. QED
    BY <1>2, <2>1, <2>2
<1>5. \A j \in 1..(Len(queue) - 1) : queue'[j] = IF j < k THEN queue[j] ELSE queue[j + 1]
  <2>1. SUFFICES ASSUME NEW j \in 1..(Len(queue) - 1)
                 PROVE  queue'[j] = IF j < k THEN queue[j] ELSE queue[j + 1]
    OBVIOUS
  <2>2. CASE j < k
    BY <1>0, <1>2, <1>4a, <2>2
  <2>3. CASE ~(j < k)
    <3>1. j - (k - 1) \in 1..(Len(queue) - k) /\ k + (j - (k - 1)) = j + 1
      BY <1>0, <2>3
    <3>2. QED
      BY <1>0, <1>3, <1>4a, <2>3, <3>1
  <2>4. QED
    BY <2>2, <2>3
<1>6. DOMAIN queue = 1..Len(queue) /\ DOMAIN queue' = 1..(Len(queue) - 1)
  BY <1>0, <1>4a
<1>7. IsInjective(queue')
  <2>1. SUFFICES ASSUME NEW i \in 1..(Len(queue) - 1), NEW j \in 1..(Len(queue) - 1), queue'[i] = queue'[j]
                 PROVE  i = j
    BY <1>6 DEF IsInjective
  <2> DEFINE old(h) == IF h < k THEN h ELSE h + 1
  <2>2. old(i) \in DOMAIN queue /\ old(j) \in DOMAIN queue /\ queue[old(i)] = queue[old(j)]
    BY <1>0, <1>5, <1>6, <2>1
  <2>3. old(i) = old(j)
    BY <2>2 DEF IsInjective
  <2>4. QED
    BY <1>0, <2>3
<1>8. \A j \in DOMAIN queue' : \E i \in DOMAIN queue : i # k /\ queue'[j] = queue[i]
  BY <1>0, <1>5, <1>6
<1>9. \A j \in DOMAIN queue : /\ j < k => j \in DOMAIN queue' /\ queue'[j] = queue[j]
                              /\ j > k => j - 1 \in DOMAIN queue' /\ queue'[j - 1] = queue[j]
  BY <1>0, <1>5, <1>6
<1>10. Waiting' \subseteq Waiting \ {queue[k]}
  BY <1>8 DEF Waiting, IsInjective
<1>11. Waiting \ {queue[k]} \subseteq Waiting'
  <2>1. SUFFICES ASSUME NEW j \in DOMAIN queue, queue[j] # queue[k] PROVE queue[j] \in Waiting'
    BY DEF Waiting
  <2>2. j < k \/ j > k
    BY <1>0, <1>6, <2>1
  <2>3. QED
    BY <1>9, <2>2 DEF Waiting
<1>12. QED
  BY <1>4a, <1>7, <1>10, <1>11

LEMMA Served ==
  ASSUME queue \in Seq(Requests), IsInjective(queue), queue # <<>>, queue' = Tail(queue)
  PROVE  /\ queue' \in Seq(Requests) /\ IsInjective(queue')
         /\ Head(queue) \in Waiting /\ Waiting' = Waiting \ {Head(queue)}
<1>1. queue' \in Seq(Requests) /\ Len(queue) \in Nat \ {0} /\ Len(queue') = Len(queue) - 1
      /\ \A j \in 1..(Len(queue) - 1) : queue'[j] = queue[j + 1]
      /\ Head(queue) = queue[1]
  BY HeadTailProperties
<1>2. DOMAIN queue = 1..Len(queue) /\ DOMAIN queue' = 1..(Len(queue) - 1)
  BY <1>1
<1>3. IsInjective(queue')
  BY <1>1, <1>2 DEF IsInjective
<1>4. \A j \in DOMAIN queue : j # 1 => j - 1 \in DOMAIN queue' /\ queue'[j - 1] = queue[j]
  BY <1>1, <1>2
<1>5. \A j \in DOMAIN queue' : j + 1 \in DOMAIN queue /\ j + 1 # 1 /\ queue'[j] = queue[j + 1]
  BY <1>1, <1>2
<1>6. Waiting' \subseteq Waiting \ {Head(queue)}
  BY <1>1, <1>2, <1>5 DEF Waiting, IsInjective
<1>7. Waiting \ {Head(queue)} \subseteq Waiting'
  <2>1. SUFFICES ASSUME NEW j \in DOMAIN queue, queue[j] # Head(queue) PROVE queue[j] \in Waiting'
    BY DEF Waiting
  <2>2. j # 1
    BY <1>1, <2>1
  <2>3. QED
    BY <1>4, <2>2 DEF Waiting
<1>8. QED
  BY <1>1, <1>2, <1>3, <1>6, <1>7 DEF Waiting

LEMMA ReserveKeeps ==
  ASSUME LimiterInv, NEW r \in Requests, NEW est \in Nat, r \notin Waiting \cup inCall, Reserve(r, est)
  PROVE  LimiterInv'
<1>t. LimiterTypeOK /\ Waiting \subseteq Requests
  BY DEF LimiterInv, LimiterTypeOK, Waiting
<1> DEFINE lim == OutputLimit(r)
<1>1. inUsed \in [Requests -> Nat] /\ outUsed \in [Requests -> Nat]
      /\ inHeld \in [Requests -> Nat] /\ outHeld \in [Requests -> Nat]
      /\ outHeld[r] = 0 /\ inHeld[r] = 0
  BY DEF LimiterInv, LimiterTypeOK, SlotsAndReservations
<1>2. lim \in Nat \ {0} /\ outUsed[r] + lim <= MaxOutput /\ inUsed[r] + est <= MaxInput
  <2>1. RemainingOutput(r) \in Nat \ {0} /\ RemainingOutput(r) = MaxOutput - outUsed[r]
        /\ inUsed[r] + est <= MaxInput
    BY <1>1 DEF RemainingOutput, RemainingInput, Reserve, MayReserve
  <2>2. QED
    BY <1>1, <2>1, OutputLimitFits
<1> HIDE DEF lim
<1>3. queue' \in Seq(Requests) /\ Waiting' = Waiting \cup {r} /\ IsInjective(queue')
  BY Joined DEF Reserve, LimiterInv, LimiterTypeOK
<1>4. inHeld' = [inHeld EXCEPT ![r] = est] /\ outHeld' = [outHeld EXCEPT ![r] = lim]
      /\ inUsed' = inUsed /\ outUsed' = outUsed /\ inCall' = inCall
  <2>1. inHeld' = [inHeld EXCEPT ![r] = @ + est] /\ outHeld' = [outHeld EXCEPT ![r] = @ + lim]
    BY DEF Reserve, lim
  <2>2. inHeld[r] + est = est /\ outHeld[r] + lim = lim
    BY <1>1, <1>2
  <2>3. QED
    BY <2>1, <2>2 DEF Reserve
<1>5. LimiterTypeOK'
  <2>1. attempted' \in [Requests -> 0..MaxCalls]
    BY <1>t DEF Reserve, MayReserve, LimiterTypeOK
  <2>2. inHeld' \in [Requests -> Nat] /\ outHeld' \in [Requests -> Nat]
    BY <1>1, <1>2, <1>4
  <2>3. QED
    BY <1>t, <1>3, <1>4, <2>1, <2>2 DEF Reserve, LimiterTypeOK
<1>6. \A q \in Waiting' \cup inCall' : /\ inUsed'[q] + inHeld'[q] <= MaxInput
                                       /\ outUsed'[q] + outHeld'[q] <= MaxOutput
  <2>1. SUFFICES ASSUME NEW q \in Waiting' \cup inCall'
                 PROVE  /\ inUsed'[q] + inHeld'[q] <= MaxInput
                        /\ outUsed'[q] + outHeld'[q] <= MaxOutput
    OBVIOUS
  <2>2. CASE q = r
    BY <1>1, <1>2, <1>4, <2>2
  <2>3. CASE q # r
    <3>1. q \in Waiting \cup inCall /\ q \in Requests
      BY <1>t, <1>3, <1>4, <2>3 DEF LimiterTypeOK
    <3>2. inUsed[q] + inHeld[q] <= MaxInput /\ outUsed[q] + outHeld[q] <= MaxOutput
      BY <3>1 DEF LimiterInv
    <3>3. QED
      BY <1>1, <1>4, <2>3, <3>1, <3>2
  <2>4. QED
    BY <2>2, <2>3
<1>7. BudgetKept'
  BY <1>1, <1>2, <1>4 DEF LimiterInv, BudgetKept
<1>8. SlotsAndReservations'
  BY <1>1, <1>2, <1>3, <1>4 DEF LimiterInv, SlotsAndReservations
<1>9. \A q \in Requests : q \notin Waiting' \cup inCall' => inHeld'[q] = 0
  BY <1>1, <1>3, <1>4 DEF LimiterInv
<1>10. IsFiniteSet(inCall') /\ Waiting' \cap inCall' = {}
  BY <1>3, <1>4 DEF LimiterInv
<1>11. QED
  BY <1>3, <1>5, <1>6, <1>7, <1>8, <1>9, <1>10 DEF LimiterInv

LEMMA EnterKeeps ==
  ASSUME LimiterInv, NEW r \in Requests, Enter(r)
  PROVE  LimiterInv'
<1>1. queue' \in Seq(Requests) /\ IsInjective(queue') /\ r \in Waiting /\ Waiting' = Waiting \ {r}
  BY Served DEF LimiterInv, LimiterTypeOK, Enter
<1>2. IsFiniteSet(inCall') /\ Cardinality(inCall') = Cardinality(inCall) + 1
  BY <1>1, FS_AddElement DEF LimiterInv, Enter
<1>3. Cardinality(inCall') <= MaxConcurrency
  BY <1>2, FS_CardinalityType DEF LimiterInv, Enter, SlotFree
<1>4. LimiterTypeOK'
  BY <1>1 DEF LimiterInv, LimiterTypeOK, Enter
<1>5. Waiting' \cup inCall' = Waiting \cup inCall /\ Waiting' \cap inCall' = {}
  BY <1>1 DEF LimiterInv, Enter
<1>6. BudgetKept' /\ SlotsAndReservations'
  BY <1>3, <1>5 DEF LimiterInv, Enter, BudgetKept, SlotsAndReservations
<1>7. inHeld' = inHeld /\ inUsed' = inUsed /\ outHeld' = outHeld /\ outUsed' = outUsed
  BY DEF Enter
<1>8. QED
  BY <1>1, <1>2, <1>4, <1>5, <1>6, <1>7 DEF LimiterInv

\* A call is over: what it held is given back, and out of the slot it goes.
LEMMA CallEnds ==
  ASSUME LimiterInv, NEW r \in Requests, r \in inCall,
         inCall' = inCall \ {r}, queue' = queue, attempted' = attempted,
         NEW in \in Nat, NEW out \in Nat, in <= inHeld[r] + MaxOverrun, out <= outHeld[r] + MaxOverrun,
         inUsed' = [inUsed EXCEPT ![r] = @ + in], outUsed' = [outUsed EXCEPT ![r] = @ + out],
         inHeld' = [inHeld EXCEPT ![r] = 0], outHeld' = [outHeld EXCEPT ![r] = 0]
  PROVE  LimiterInv'
<1>t. LimiterTypeOK /\ Waiting \subseteq Requests
  <2>1. LimiterTypeOK
    BY DEF LimiterInv
  <2>2. Waiting \subseteq Requests
    BY <2>1, LenProperties DEF LimiterTypeOK, Waiting
  <2>3. QED
    BY <2>1, <2>2
<1>1. IsFiniteSet(inCall') /\ Cardinality(inCall') <= MaxConcurrency
  <2>1. IsFiniteSet(inCall) /\ Cardinality(inCall) <= MaxConcurrency /\ Cardinality(inCall) \in Nat
    BY FS_CardinalityType DEF LimiterInv, SlotsAndReservations
  <2>2. IsFiniteSet(inCall \ {r}) /\ Cardinality(inCall \ {r}) = Cardinality(inCall) - 1
    BY <2>1, FS_RemoveElement
  <2>3. QED
    BY <2>1, <2>2
<1>2. Waiting' = Waiting /\ r \notin Waiting
  BY DEF Waiting, LimiterInv
<1>3. LimiterTypeOK'
  <2>1. inUsed' \in [Requests -> Nat] /\ outUsed' \in [Requests -> Nat]
    BY <1>t DEF LimiterTypeOK
  <2>2. inHeld' \in [Requests -> Nat] /\ outHeld' \in [Requests -> Nat]
    BY <1>t DEF LimiterTypeOK
  <2>3. inCall' \subseteq Requests /\ queue' \in Seq(Requests) /\ attempted' \in [Requests -> 0..MaxCalls]
    BY <1>t DEF LimiterTypeOK
  <2>4. QED
    BY <2>1, <2>2, <2>3 DEF LimiterTypeOK
<1>4. inUsed[r] + inHeld[r] <= MaxInput /\ outUsed[r] + outHeld[r] <= MaxOutput
  BY DEF LimiterInv
<1>5. BudgetKept'
  <2>1. inUsed[r] \in Nat /\ inHeld[r] \in Nat /\ outUsed[r] \in Nat /\ outHeld[r] \in Nat
    BY DEF LimiterInv, LimiterTypeOK
  <2>2. inUsed[r] + in + 0 <= MaxInput + MaxOverrun /\ outUsed[r] + out + 0 <= MaxOutput + MaxOverrun
    BY <1>4, <2>1
  <2>3. \A q \in Requests \ {r} : /\ inUsed'[q] = inUsed[q] /\ inHeld'[q] = inHeld[q]
                                 /\ outUsed'[q] = outUsed[q] /\ outHeld'[q] = outHeld[q]
    BY DEF LimiterInv, LimiterTypeOK
  <2>4. /\ inUsed'[r] = inUsed[r] + in /\ inHeld'[r] = 0
        /\ outUsed'[r] = outUsed[r] + out /\ outHeld'[r] = 0
    BY DEF LimiterInv, LimiterTypeOK
  <2>5. QED
    BY <2>2, <2>3, <2>4 DEF LimiterInv, BudgetKept
<1>6. SlotsAndReservations'
  <2>1. outHeld'[r] = 0 /\ \A q \in Requests \ {r} : outHeld'[q] = outHeld[q]
    BY <1>t DEF LimiterTypeOK
  <2>2. \A q \in Requests : q \in inCall \cup Waiting <=> outHeld[q] > 0
    BY DEF LimiterInv, SlotsAndReservations
  <2>3. QED
    BY <1>1, <1>2, <2>1, <2>2 DEF SlotsAndReservations
<1>7. \A q \in Waiting' \cup inCall' : /\ inUsed'[q] + inHeld'[q] <= MaxInput
                                       /\ outUsed'[q] + outHeld'[q] <= MaxOutput
  <2>1. Waiting \cup inCall \subseteq Requests
    BY <1>t DEF LimiterTypeOK
  <2>2. QED
    BY <1>2, <2>1 DEF LimiterInv, LimiterTypeOK
<1>8. \A q \in Requests : q \notin Waiting' \cup inCall' => inHeld'[q] = 0
  BY <1>2 DEF LimiterInv, LimiterTypeOK
<1>9. IsInjective(queue') /\ Waiting' \cap inCall' = {}
  BY <1>2 DEF LimiterInv
<1>10. QED
  BY <1>1, <1>3, <1>5, <1>6, <1>7, <1>8, <1>9 DEF LimiterInv

LEMMA LeaveKeeps ==
  ASSUME LimiterInv, NEW r \in Requests, Leave(r)
  PROVE  LimiterInv'
<1>t. LimiterTypeOK /\ Waiting \subseteq Requests
  BY DEF LimiterInv, LimiterTypeOK, Waiting
<1>1. PICK k \in DOMAIN queue : queue[k] = r /\ queue' = RemoveAt(queue, k)
  BY DEF Leave
<1>2. queue' \in Seq(Requests) /\ IsInjective(queue') /\ Waiting' = Waiting \ {r} /\ r \in Waiting
  BY <1>1, Left DEF LimiterInv, LimiterTypeOK, Waiting
<1>3. LimiterTypeOK'
  BY <1>2 DEF Leave, LimiterInv, LimiterTypeOK
<1>4. BudgetKept'
  <2>1. BudgetKept
    BY DEF LimiterInv
  <2>2. \A q \in Requests : /\ inHeld'[q] \in Nat /\ inHeld'[q] <= inHeld[q]
                           /\ outHeld'[q] \in Nat /\ outHeld'[q] <= outHeld[q]
    <3>1. inHeld' = [inHeld EXCEPT ![r] = 0] /\ outHeld' = [outHeld EXCEPT ![r] = 0]
      BY DEF Leave
    <3>2. inHeld \in [Requests -> Nat] /\ outHeld \in [Requests -> Nat]
      BY <1>t DEF LimiterTypeOK
    <3>3. QED
      BY <3>1, <3>2
  <2>3. inUsed' = inUsed /\ outUsed' = outUsed
    BY DEF Leave
  <2>4. QED
    <3>1. SUFFICES ASSUME NEW q \in Requests
                   PROVE  /\ inUsed'[q] + inHeld'[q] <= MaxInput + MaxOverrun
                          /\ outUsed'[q] + outHeld'[q] <= MaxOutput + MaxOverrun
      BY DEF BudgetKept
    <3>2. inUsed[q] \in Nat /\ outUsed[q] \in Nat /\ inHeld[q] \in Nat /\ outHeld[q] \in Nat
      BY <1>t DEF LimiterTypeOK
    <3>3. QED
      BY <2>1, <2>2, <2>3, <3>2 DEF BudgetKept
<1>5. r \notin inCall' /\ inCall' = inCall
  BY <1>2 DEF Leave, LimiterInv
<1>6. SlotsAndReservations'
  <2>1. outHeld'[r] = 0 /\ \A q \in Requests \ {r} : outHeld'[q] = outHeld[q]
    BY <1>t DEF Leave, LimiterTypeOK
  <2>2. SlotsAndReservations
    BY DEF LimiterInv
  <2>3. QED
    BY <1>2, <1>5, <2>1, <2>2 DEF SlotsAndReservations
<1>7. \A q \in Waiting' \cup inCall' : /\ inUsed'[q] + inHeld'[q] <= MaxInput
                                       /\ outUsed'[q] + outHeld'[q] <= MaxOutput
  <2>1. Waiting \cup inCall \subseteq Requests
    BY <1>t DEF LimiterTypeOK
  <2>2. QED
    BY <1>2, <1>5, <2>1 DEF Leave, LimiterInv, LimiterTypeOK
<1>8. \A q \in Requests : q \notin Waiting' \cup inCall' => inHeld'[q] = 0
  BY <1>2, <1>5 DEF Leave, LimiterInv, LimiterTypeOK
<1>9. QED
  BY <1>2, <1>3, <1>4, <1>5, <1>6, <1>7, <1>8 DEF LimiterInv

LEMMA LimiterStep == LimiterInv /\ [LimiterNext]_limiter => LimiterInv'
<1> SUFFICES ASSUME LimiterInv, [LimiterNext]_limiter PROVE LimiterInv'
  OBVIOUS
<1>1. CASE UNCHANGED limiter
  BY <1>1 DEF limiter, LimiterInv, LimiterTypeOK, Waiting, BudgetKept, SlotsAndReservations
<1>2. CASE LimiterNext
  <2>1. PICK r \in Requests :
          \/ \E est \in Nat : r \notin Waiting \cup inCall /\ Reserve(r, est)
          \/ Enter(r)
          \/ \E in \in 0..(inHeld[r] + MaxOverrun), out \in 0..(outHeld[r] + MaxOverrun) : Commit(r, in, out)
          \/ Release(r)
          \/ Leave(r)
    BY <1>2 DEF LimiterNext
  <2>2. ASSUME NEW est \in Nat, r \notin Waiting \cup inCall, Reserve(r, est) PROVE LimiterInv'
    BY <2>2, ReserveKeeps
  <2>3. CASE Enter(r)
    BY <2>3, EnterKeeps
  <2>4. ASSUME NEW in \in 0..(inHeld[r] + MaxOverrun), NEW out \in 0..(outHeld[r] + MaxOverrun), Commit(r, in, out)
        PROVE  LimiterInv'
    <3>1. in \in Nat /\ out \in Nat /\ in <= inHeld[r] + MaxOverrun /\ out <= outHeld[r] + MaxOverrun
      BY DEF LimiterInv, LimiterTypeOK
    <3>2. QED
      BY <2>4, <3>1, CallEnds DEF Commit
  <2>5. CASE Release(r)
    <3>1. inUsed' = [inUsed EXCEPT ![r] = @ + 0] /\ outUsed' = [outUsed EXCEPT ![r] = @ + 0]
      BY <2>5 DEF Release, LimiterInv, LimiterTypeOK
    <3>2. 0 <= inHeld[r] + MaxOverrun /\ 0 <= outHeld[r] + MaxOverrun
      BY DEF LimiterInv, LimiterTypeOK
    <3>3. QED
      BY <2>5, <3>1, <3>2, CallEnds DEF Release
  <2>6. CASE Leave(r)
    BY <2>6, LeaveKeeps
  <2>7. QED
    BY <2>1, <2>2, <2>3, <2>4, <2>5, <2>6
<1>3. QED
  BY <1>1, <1>2

\* The invariant of the limiter: whatever the requests ask of it.
THEOREM LimiterSafe == LimiterSpec => []LimiterInv
<1>1. QED
  BY LimiterStart, LimiterStep, PTL DEF LimiterSpec

HIDE LimiterConstants

-----------------------------------------------------------------------------
(* The service and the limiter                                             *)

USE AnswerConstants

Pcs == {"receive", "embed", "search", "prompt", "reserve", "wait", "call", "done"}

\* A run has the fields it was given.
Shaped(x) == DOMAIN x = DOMAIN [pc |-> 0, stage |-> 0, todo |-> 0, chunks |-> 0,
                                groups |-> 0, sources |-> 0, partials |-> 0, outcome |-> 0]
             /\ x.pc \in Pcs

\* A run that neither waits nor calls.
Quiet(x) == Shaped(x) /\ x.pc \notin {"wait", "call"}

RunInv ==
  /\ DOMAIN run = Requests
  /\ \A r \in Requests : Shaped(run[r])
  /\ TypeOK

AnswerInv == LimiterInv /\ RunInv

LEMMA AnswerStart == Init => AnswerInv
<1> SUFFICES ASSUME Init PROVE AnswerInv
  OBVIOUS
<1>1. LimiterInv
  BY LimiterStart DEF Init
<1>2. DOMAIN run = Requests /\ \A r \in Requests : Shaped(run[r]) /\ run[r].pc = "receive"
  BY DEF Init, Shaped, Pcs
<1>3. \A r \in Requests : ask[r] \in Questions[r]
  BY DEF Init
<1>4. Waiting = {} /\ inCall = {}
  BY DEF Init, LimiterInit, Waiting
<1>5. TypeOK
  BY <1>1, <1>2, <1>3, <1>4 DEF TypeOK, LimiterInv
<1>6. QED
  BY <1>1, <1>2, <1>5 DEF AnswerInv, RunInv

LEMMA DoneQuiet == ASSUME NEW x, Shaped(x), NEW o PROVE Quiet(Done(x, o))
  BY DEF Shaped, Quiet, Done, Pcs

LEMMA NextPartialQuiet == ASSUME NEW x, Shaped(x) PROVE Quiet(NextPartial(x))
  BY DEF Shaped, Quiet, NextPartial, Pcs

LEMMA GroupedQuiet == ASSUME NEW x, Shaped(x) PROVE Quiet(Grouped(x))
<1>1. Shaped([x EXCEPT !.groups = LimitedGroups(GroupedByFile(x.chunks))])
  BY DEF Shaped
<1>2. QED
  BY <1>1, DoneQuiet, NextPartialQuiet DEF Grouped, Insufficient

LEMMA CollectedQuiet == ASSUME NEW x, Quiet(x), NEW c PROVE Quiet(Collected(x, c))
<1>1. Quiet([x EXCEPT !.pc = "embed", !.todo = Tail(@), !.chunks = @ \o c])
  BY DEF Shaped, Quiet, Pcs
<1>2. QED
  BY <1>1, GroupedQuiet DEF Collected, Quiet

LEMMA SearchFailedQuiet ==
  ASSUME NEW r \in Requests, Quiet(run[r]), NEW code PROVE Quiet(SearchFailed(r, code))
  BY CollectedQuiet, DoneQuiet DEF SearchFailed, Quiet

LEMMA FailedQuiet == ASSUME NEW x, Shaped(x), NEW code PROVE Quiet(GenerationFailed(x, code))
  BY DoneQuiet, NextPartialQuiet DEF GenerationFailed

LEMMA RepliedQuiet == ASSUME NEW x, Shaped(x), NEW reply PROVE Quiet(Replied(x, reply))
<1>1. Shaped([x EXCEPT !.partials = Append(@, Remapped(reply, x.sources, FirstNumber(@)))])
  BY DEF Shaped
<1>2. QED
  BY <1>1, DoneQuiet, NextPartialQuiet DEF Replied, Insufficient

\* A step of one run, with what it does to the limiter's waiters and calls.
LEMMA RunStep ==
  ASSUME AnswerInv, LimiterInv', NEW r \in Requests, NEW x, Shaped(x),
         ask' = ask, run' = [run EXCEPT ![r] = x],
         x.pc = "wait" <=> r \in Waiting', x.pc = "call" <=> r \in inCall',
         Waiting' \ {r} = Waiting \ {r}, inCall' \ {r} = inCall \ {r}
  PROVE  AnswerInv'
<1>1. DOMAIN run = Requests /\ TypeOK
  BY DEF AnswerInv, RunInv
<1>2. DOMAIN run' = Requests /\ run'[r] = x /\ \A q \in Requests \ {r} : run'[q] = run[q]
  BY <1>1
<1>3. \A q \in Requests : Shaped(run'[q])
  BY <1>2 DEF AnswerInv, RunInv
<1>4. \A q \in Requests : run'[q].pc \in Pcs
  BY <1>3 DEF Shaped
<1>5. \A q \in Requests : /\ run'[q].pc = "wait" <=> q \in Waiting'
                          /\ run'[q].pc = "call" <=> q \in inCall'
  <2>1. SUFFICES ASSUME NEW q \in Requests, q # r
                 PROVE  /\ run'[q].pc = "wait" <=> q \in Waiting'
                        /\ run'[q].pc = "call" <=> q \in inCall'
    BY <1>2
  <2>2. run'[q] = run[q] /\ (q \in Waiting' <=> q \in Waiting) /\ (q \in inCall' <=> q \in inCall)
    BY <1>2, <2>1
  <2>3. QED
    BY <1>1, <2>2 DEF TypeOK
<1>6. TypeOK'
  BY <1>1, <1>4, <1>5 DEF TypeOK, LimiterInv, Pcs
<1>7. QED
  BY <1>2, <1>3, <1>6 DEF AnswerInv, RunInv

\* A step that leaves the limiter alone, of a run that neither waits nor calls.
LEMMA QuietStep ==
  ASSUME AnswerInv, NEW r \in Requests, NEW x, Quiet(x), Quiet(run[r]),
         UNCHANGED <<ask, limiter>>, run' = [run EXCEPT ![r] = x]
  PROVE  AnswerInv'
<1>1. Waiting' = Waiting /\ inCall' = inCall
  BY DEF limiter, Waiting
<1>2. r \notin Waiting /\ r \notin inCall
  BY DEF AnswerInv, RunInv, TypeOK, Quiet
<1>3. LimiterInv'
  BY LimiterStep DEF AnswerInv
<1>4. QED
  BY <1>1, <1>2, <1>3, RunStep DEF Quiet

LEMMA AnswerStep == AnswerInv /\ [Next]_vars => AnswerInv' /\ [LimiterNext]_limiter
<1> SUFFICES ASSUME AnswerInv, [Next]_vars PROVE AnswerInv' /\ [LimiterNext]_limiter
  OBVIOUS
<1>1. CASE UNCHANGED vars
  <2>1. UNCHANGED limiter /\ run' = run /\ ask' = ask
    BY <1>1 DEF vars
  <2>2. LimiterInv'
    BY <2>1, LimiterStep DEF AnswerInv
  <2>3. Waiting' = Waiting /\ inCall' = inCall
    BY <2>1 DEF limiter, Waiting
  <2>4. QED
    BY <2>1, <2>2, <2>3 DEF AnswerInv, RunInv, TypeOK, LimiterInv
<1>2. CASE Next
  <2> PICK r \in Requests : Step(r) \/ Cancelled(r)
    BY <1>2 DEF Next
  <2>s. Shaped(run[r]) /\ LimiterInv /\ LimiterTypeOK
    BY DEF AnswerInv, RunInv, LimiterInv
  <2>q. run[r].pc \notin {"wait", "call"} => Quiet(run[r]) /\ r \notin Waiting \cup inCall
    BY <2>s DEF Quiet, AnswerInv, RunInv, TypeOK
  <2>f. \A x : Quiet(x) /\ Quiet(run[r]) /\ UNCHANGED <<ask, limiter>> /\ run' = [run EXCEPT ![r] = x]
               => AnswerInv' /\ [LimiterNext]_limiter
    BY QuietStep
  <2>1. CASE Receive(r)
    BY <2>1, <2>s, <2>q, <2>f, DoneQuiet DEF Receive, Quiet, Shaped, Pcs
  <2>2. ASSUME NEW hits, Searched(r, hits) PROVE AnswerInv' /\ [LimiterNext]_limiter
    <3>1. Quiet(run[r])
      BY <2>2, <2>q DEF Searched
    <3>2. Quiet([run[r] EXCEPT !.pc = "prompt", !.todo = <<>>, !.chunks = Chunks(hits)])
      BY <2>s DEF Quiet, Shaped, Pcs
    <3>3. QED
      BY <2>2, <2>s, <3>1, <3>2, <2>f, CollectedQuiet, DoneQuiet DEF Searched, Insufficient
  <2>3. ASSUME NEW code, Quiet(run[r]), UNCHANGED <<ask, limiter>>,
               run' = [run EXCEPT ![r] = SearchFailed(r, code)]
        PROVE  AnswerInv' /\ [LimiterNext]_limiter
    BY <2>3, <2>f, SearchFailedQuiet
  <2>e1. ASSUME NEW fault, EmbeddingFails(r, fault) PROVE AnswerInv' /\ [LimiterNext]_limiter
    BY <2>e1, <2>q, <2>3 DEF EmbeddingFails
  <2>e2. ASSUME NEW fault, IndexFails(r, fault) PROVE AnswerInv' /\ [LimiterNext]_limiter
    BY <2>e2, <2>q, <2>3 DEF IndexFails
  <2>e3. CASE SearchBreaks(r)
    BY <2>e3, <2>q, <2>3 DEF SearchBreaks
  <2>e4. CASE Embedded(r)
    <3>1. Quiet([run[r] EXCEPT !.pc = "search"]) /\ Quiet(run[r])
      BY <2>e4, <2>s, <2>q DEF Embedded, Quiet, Shaped, Pcs
    <3>2. QED
      BY <2>e4, <3>1, <2>f DEF Embedded
  <2>4. CASE LookupPrompt(r)
    <3>1. Quiet(Asks(r, "lookup", Prompt(run[r].chunks))) /\ Quiet(run[r])
      BY <2>4, <2>s, <2>q DEF LookupPrompt, Asks, Quiet, Shaped, Pcs
    <3>2. QED
      BY <2>4, <3>1, <2>f DEF LookupPrompt
  <2>5. CASE PartialPrompt(r)
    <3>1. Quiet([Asks(r, "partial", Prompt(Head(run[r].groups))) EXCEPT !.groups = Tail(@)]) /\ Quiet(run[r])
      BY <2>5, <2>s, <2>q DEF PartialPrompt, Asks, Quiet, Shaped, Pcs
    <3>2. QED
      BY <2>5, <3>1, <2>f DEF PartialPrompt
  <2>6. CASE FinalPrompt(r)
    <3>1. Quiet(Asks(r, "final", FinalSources(run[r].partials))) /\ Quiet(run[r])
      BY <2>6, <2>s, <2>q DEF FinalPrompt, Asks, Quiet, Shaped, Pcs
    <3>2. QED
      BY <2>6, <2>s, <3>1, <2>f, DoneQuiet DEF FinalPrompt, Insufficient
  <2>7. ASSUME NEW est \in Estimates, Ask(r, est) PROVE AnswerInv' /\ [LimiterNext]_limiter
    <3>1. est \in Nat /\ r \notin Waiting \cup inCall /\ Reserve(r, est)
      BY <2>7, <2>q DEF Ask
    <3>2. LimiterNext
      BY <3>1 DEF LimiterNext
    <3>3. LimiterInv'
      BY <2>s, <3>2, LimiterStep
    <3>4. Waiting' = Waiting \cup {r} /\ inCall' = inCall
      BY <2>s, <3>1, Joined DEF Reserve, LimiterInv, LimiterTypeOK
    <3>5. DEFINE x == [run[r] EXCEPT !.pc = "wait"]
    <3>6. Shaped(x) /\ x.pc = "wait"
      BY <2>s DEF Shaped, Pcs
    <3>7. run' = [run EXCEPT ![r] = x] /\ ask' = ask
      BY <2>7 DEF Ask
    <3> HIDE DEF x
    <3>8. AnswerInv'
      BY <3>1, <3>3, <3>4, <3>6, <3>7, RunStep
    <3>9. QED
      BY <3>2, <3>8
  <2>8. ASSUME NEW est, OutOfBudget(r, est) PROVE AnswerInv' /\ [LimiterNext]_limiter
    <3>1. Quiet(run[r])
      BY <2>8, <2>q DEF OutOfBudget
    <3>2. QED
      BY <2>8, <2>s, <3>1, <2>f, FailedQuiet DEF OutOfBudget
  <2>9. CASE CallStarts(r)
    <3>1. Enter(r)
      BY <2>9 DEF CallStarts
    <3>2. LimiterNext
      BY <3>1 DEF LimiterNext
    <3>3. LimiterInv'
      BY <2>s, <3>2, LimiterStep
    <3>4. Waiting' = Waiting \ {r} /\ inCall' = inCall \cup {r}
      BY <2>s, <3>1, Served DEF Enter, LimiterInv, LimiterTypeOK
    <3>5. DEFINE x == [run[r] EXCEPT !.pc = "call"]
    <3>6. Shaped(x) /\ x.pc = "call"
      BY <2>s DEF Shaped, Pcs
    <3>7. run' = [run EXCEPT ![r] = x] /\ ask' = ask
      BY <2>9 DEF CallStarts
    <3> HIDE DEF x
    <3>8. AnswerInv'
      BY <3>3, <3>4, <3>6, <3>7, RunStep
    <3>9. QED
      BY <3>2, <3>8
  <2>10. ASSUME NEW x, Quiet(x), LimiterNext, run' = [run EXCEPT ![r] = x], ask' = ask,
                r \notin Waiting', r \notin inCall', Waiting' \ {r} = Waiting \ {r}, inCall' \ {r} = inCall \ {r}
         PROVE  AnswerInv' /\ [LimiterNext]_limiter
    <3>1. LimiterInv'
      BY <2>s, <2>10, LimiterStep
    <3>2. QED
      BY <2>10, <3>1, RunStep DEF Quiet
  <2>e. r \in inCall => r \notin Waiting
    BY <2>s DEF LimiterInv
  <2>11. ASSUME NEW over \in {0, MaxOverrun}, NEW reply \in Replies, NEW out \in {1, outHeld[r] + over},
                CallReturns(r, reply, inHeld[r] + over, out)
         PROVE  AnswerInv' /\ [LimiterNext]_limiter
    <3> DEFINE in == inHeld[r] + over
    <3>0. outHeld[r] > 0
      BY <2>11, <2>s DEF CallReturns, Commit, LimiterInv, SlotsAndReservations
    <3>a. inHeld[r] \in Nat /\ outHeld[r] \in Nat /\ MaxOverrun \in Nat
      BY <2>s, LimiterConstants DEF LimiterTypeOK
    <3>b. (over = 0 \/ over = MaxOverrun) /\ (out = 1 \/ out = outHeld[r] + over)
      BY <2>11
    <3>1. in \in 0..(inHeld[r] + MaxOverrun) /\ out \in 0..(outHeld[r] + MaxOverrun)
      BY <3>0, <3>a, <3>b
    <3>2. Commit(r, in, out)
      BY <2>11 DEF CallReturns
    <3>3. LimiterNext
      BY <3>1, <3>2 DEF LimiterNext
    <3>4. r \in inCall /\ inCall' = inCall \ {r} /\ Waiting' = Waiting
      BY <3>2 DEF Commit, Waiting
    <3>5. DEFINE x == IF Exceeded(r, in, out)
                      THEN GenerationFailed(run[r], "GenerationBudgetExceededError")
                      ELSE Replied(run[r], reply)
    <3>6. Quiet(x)
      BY <2>s, FailedQuiet, RepliedQuiet
    <3>7. run' = [run EXCEPT ![r] = x] /\ ask' = ask
      BY <2>11 DEF CallReturns
    <3> HIDE DEF x
    <3>8. QED
      BY <2>10, <2>e, <3>3, <3>4, <3>6, <3>7
  <2>12. ASSUME NEW x, Quiet(x), Release(r), run' = [run EXCEPT ![r] = x], ask' = ask
         PROVE  AnswerInv' /\ [LimiterNext]_limiter
    <3>1. LimiterNext
      BY <2>12 DEF LimiterNext
    <3>2. r \in inCall /\ inCall' = inCall \ {r} /\ Waiting' = Waiting
      BY <2>12 DEF Release, Waiting
    <3>3. QED
      BY <2>10, <2>12, <2>e, <3>1, <3>2
  <2>13. ASSUME NEW fault, CallFails(r, fault) PROVE AnswerInv' /\ [LimiterNext]_limiter
    BY <2>13, <2>12, <2>s, FailedQuiet DEF CallFails
  <2>b. CASE CallBreaks(r)
    <3>1. Quiet(IF run[r].stage = "partial" THEN NextPartial(run[r])
                ELSE Done(run[r], Ended(ServiceCode("generation_failed"))))
      BY <2>s, DoneQuiet, NextPartialQuiet
    <3>2. QED
      BY <2>b, <3>1, <2>12 DEF CallBreaks
  <2>14. CASE CallUnusable(r)
    BY <2>14, <2>12, <2>s, FailedQuiet DEF CallUnusable
  <2>15. CASE Cancelled(r)
    <3>1. Quiet(Done(run[r], Ended("cancelled")))
      BY <2>s, DoneQuiet
    <3>2. CASE Release(r)
      BY <2>15, <3>1, <3>2, <2>12 DEF Cancelled
    <3>3. CASE Leave(r)
      <4>1. LimiterNext
        BY <3>3 DEF LimiterNext
      <4>2. PICK k \in DOMAIN queue : queue[k] = r /\ queue' = RemoveAt(queue, k)
        BY <3>3 DEF Leave
      <4>3. Waiting' = Waiting \ {r} /\ r \in Waiting
        BY <4>2, <2>s, Left DEF LimiterInv, LimiterTypeOK, Waiting
      <4>4. inCall' = inCall /\ r \notin inCall
        BY <3>3, <4>3, <2>s DEF Leave, LimiterInv
      <4>5. QED
        BY <2>15, <3>1, <4>1, <4>3, <4>4, <2>10 DEF Cancelled
    <3>4. QED
      BY <2>15, <3>2, <3>3 DEF Cancelled
  <2>16. ASSUME NEW hits, SearchRefused(r, hits) PROVE AnswerInv' /\ [LimiterNext]_limiter
    BY <2>16, <2>q, <2>3 DEF SearchRefused
  <2>17. CASE Step(r)
    BY <2>17, <2>1, <2>2, <2>3, <2>4, <2>5, <2>6, <2>7, <2>8, <2>9, <2>11, <2>13, <2>14, <2>16,
       <2>b, <2>e1, <2>e2, <2>e3, <2>e4 DEF Step
  <2>18. QED
    BY <2>15, <2>17
<1>3. QED
  BY <1>1, <1>2

\* The service implements the limiter.
THEOREM AnswersUseLimiter == Spec => LimiterSpec
<1>1. Init => LimiterInit
  BY DEF Init
<1>2. QED
  BY <1>1, AnswerStart, AnswerStep, PTL DEF Spec, LimiterSpec

\* A request is among the waiters, or has a slot, exactly when its run waits or calls.
THEOREM AnswersTyped == Spec => []TypeOK
<1>1. AnswerInv => TypeOK
  BY DEF AnswerInv, RunInv
<1>2. QED
  BY <1>1, AnswerStart, AnswerStep, PTL DEF Spec

\* No answer exceeds its budget by more than one call's overrun.
THEOREM AnswersKeepBudget == Spec => []BudgetKept
<1>1. LimiterInv => BudgetKept
  BY DEF LimiterInv
<1>2. QED
  BY <1>1, AnswersUseLimiter, LimiterSafe, PTL

\* Reservations last as long as their calls, and the slots suffice.
THEOREM AnswersReserve == Spec => []SlotsAndReservations
<1>1. LimiterInv => SlotsAndReservations
  BY DEF LimiterInv
<1>2. QED
  BY <1>1, AnswersUseLimiter, LimiterSafe, PTL

HIDE AnswerConstants

-----------------------------------------------------------------------------
(* Positions, places in an order, sequences of chosen elements             *)

\* Every nonempty set of natural numbers has a least element.
LEMMA Least == ASSUME NEW T, T \subseteq Nat, T # {} PROVE \E n \in T : \A m \in T : n <= m
<1> DEFINE R == OpToRel(<, Nat)
<1>1. IsWellFoundedOn(R, Nat)
  BY NatLessThanWellFounded
<1>2. \A m, n \in Nat : m < n => <<m, n>> \in R
  BY DEF OpToRel
<1> HIDE DEF R
<1>3. PICK n \in T : \A m \in T : ~ (<<m, n>> \in R)
  BY <1>1, WFMin
<1>4. ASSUME NEW m \in T PROVE n <= m
  <2>1. m \in Nat /\ n \in Nat
    OBVIOUS
  <2>2. ~ (<<m, n>> \in R)
    BY <1>3
  <2>3. ~ (m < n)
    BY <1>2, <2>1, <2>2, Zenon
  <2>4. QED
    BY <2>1, <2>3
<1>5. QED
  BY <1>4

\* A finite set of numbers has a k-th for each k up to its size, and all of it is counted.
LEMMA Counting ==
  ASSUME NEW I, I \subseteq Nat, IsFiniteSet(I)
  PROVE  /\ Cardinality(I) \in Nat
         /\ \A k \in 1..Cardinality(I) : Kth(I, k) \in I
         /\ \A i \in I : \E k \in 1..Cardinality(I) : Kth(I, k) = i
<1> DEFINE n == Cardinality(I)
           UpTo(i) == {j \in I : j <= i}
           c == [i \in I |-> Cardinality(UpTo(i))]
<1>1. n \in Nat
  BY FS_CardinalityType
<1>2. ASSUME NEW i \in I PROVE c[i] \in 1..n /\ IsFiniteSet(UpTo(i))
  <2>1. UpTo(i) \in SUBSET I /\ UpTo(i) # {}
    OBVIOUS
  <2>2. IsFiniteSet(UpTo(i)) /\ Cardinality(UpTo(i)) <= n
    BY <2>1, FS_Subset
  <2>3. Cardinality(UpTo(i)) \in Nat /\ Cardinality(UpTo(i)) # 0
    BY <2>1, <2>2, FS_CardinalityType, FS_EmptySet
  <2>4. QED
    BY <1>1, <2>2, <2>3
<1>3. ASSUME NEW i \in I, NEW j \in I, c[i] = c[j] PROVE i = j
  <2>1. ASSUME NEW a \in I, NEW b \in I, a < b, c[a] = c[b] PROVE FALSE
    <3>0. a \in Nat /\ b \in Nat /\ \A k \in I : k \in Nat
      OBVIOUS
    <3>1. UpTo(a) \in SUBSET UpTo(b) /\ b \notin UpTo(a) /\ b \in UpTo(b)
      <4>1. \A k \in I : k <= a => k <= b
        BY <2>1, <3>0
      <4>2. ~ (b <= a) /\ b <= b
        BY <2>1, <3>0
      <4>3. QED
        BY <4>1, <4>2, Zenon
    <3>2. UpTo(a) = UpTo(b)
      BY <3>1, <1>2, <2>1, FS_Subset
    <3>3. QED
      BY <3>1, <3>2
  <2>2. QED
    BY <1>3, <2>1
<1>4. c \in Injection(I, 1..n)
  <2>1. c \in [I -> 1..n]
    BY <1>2
  <2> HIDE DEF c, n
  <2>2. QED
    BY <1>3, <2>1 DEF Injection, IsInjective
<1>5. IsFiniteSet(1..n) /\ Cardinality(1..n) = n
  BY <1>1, FS_Interval
<1>6. c \in Surjection(I, 1..n)
  BY <1>4, <1>5, FS_Injection
<1>7. \A k \in 1..n : \E i \in I : c[i] = k
  BY <1>6 DEF Surjection
<1>8. ASSUME NEW k \in 1..n PROVE Kth(I, k) \in I /\ c[Kth(I, k)] = k
  <2>1. PICK i \in I : Cardinality(UpTo(i)) = k
    BY <1>7
  <2>2. QED
    BY <2>1 DEF Kth
<1>9. ASSUME NEW i \in I PROVE \E k \in 1..n : Kth(I, k) = i
  BY <1>2, <1>3, <1>8
<1>10. QED
  BY <1>1, <1>8, <1>9

\* What is chosen of a sequence are its elements at the positions I.
LEMMA ChosenIs ==
  ASSUME NEW s, NEW I, I \subseteq Nat, IsFiniteSet(I)
  PROVE  /\ Cardinality(I) \in Nat /\ DOMAIN Chosen(s, I) = 1..Cardinality(I)
         /\ ToSet(Chosen(s, I)) = {s[i] : i \in I}
<1>1. /\ Cardinality(I) \in Nat
      /\ \A k \in 1..Cardinality(I) : Kth(I, k) \in I
      /\ \A i \in I : \E k \in 1..Cardinality(I) : Kth(I, k) = i
  BY Counting
<1>2. ToSet(Chosen(s, I)) = {s[Kth(I, k)] : k \in 1..Cardinality(I)}
  BY DEF Chosen, ToSet
<1>3. {s[Kth(I, k)] : k \in 1..Cardinality(I)} = {s[i] : i \in I}
  BY <1>1
<1>4. QED
  BY <1>1, <1>2, <1>3 DEF Chosen

LEMMA PositionsFinite == ASSUME NEW n \in Nat, NEW I, I \subseteq 1..n PROVE I \subseteq Nat /\ IsFiniteSet(I)
<1>1. IsFiniteSet(1..n) /\ I \in SUBSET (1..n)
  BY FS_Interval
<1>2. IsFiniteSet(I)
  BY <1>1, FS_Subset
<1>3. QED
  BY <1>2

\* Removing repetitions loses no element and adds none.
LEMMA UniqueIs ==
  ASSUME NEW s, NEW n \in Nat, DOMAIN s = 1..n
  PROVE  /\ \E m \in Nat : DOMAIN Unique(s) = 1..m
         /\ ToSet(Unique(s)) = ToSet(s)
<1> DEFINE I == {k \in DOMAIN s : \A j \in 1..(k - 1) : s[j] # s[k]}
<1>1. I \subseteq Nat /\ IsFiniteSet(I) /\ I \subseteq DOMAIN s
  BY PositionsFinite
<1>2. \A x \in ToSet(s) : \E i \in I : s[i] = x
  <2>1. SUFFICES ASSUME NEW x \in ToSet(s) PROVE \E i \in I : s[i] = x
    OBVIOUS
  <2> DEFINE T == {k \in 1..n : s[k] = x}
  <2>2. T \subseteq Nat /\ T # {}
    BY DEF ToSet
  <2>3. PICK i \in T : \A k \in T : i <= k
    <3> HIDE DEF T
    <3>1. QED
      BY <2>2, Least
  <2>4. i \in 1..n /\ s[i] = x
    OBVIOUS
  <2>5. ASSUME NEW j \in 1..(i - 1) PROVE s[j] # s[i]
    <3>1. j \in 1..n /\ ~ (i <= j)
      BY <2>4
    <3>2. QED
      BY <2>3, <2>4, <3>1
  <2>6. QED
    BY <2>4, <2>5
<1> HIDE DEF I
<1>3. Unique(s) = Chosen(s, I)
  BY DEF Unique, I
<1>4. Cardinality(I) \in Nat /\ DOMAIN Chosen(s, I) = 1..Cardinality(I) /\ ToSet(Chosen(s, I)) = {s[i] : i \in I}
  BY <1>1, ChosenIs
<1>5. {s[i] : i \in I} = ToSet(s)
  BY <1>1, <1>2 DEF ToSet
<1>6. QED
  BY <1>3, <1>4, <1>5

\* The groups of the chunks, and what the context has room for, hold chunks only.
PointsIn(s) == {s[k].point : k \in DOMAIN s}
IsGroup(g, P) == (\E n \in Nat : DOMAIN g = 1..n) /\ PointsIn(g) \subseteq P
AreGroups(gs, P) == gs \in Seq({gs[k] : k \in DOMAIN gs}) /\ \A k \in DOMAIN gs : IsGroup(gs[k], P)

LEMMA FunctionIsSeq == ASSUME NEW S, NEW n \in Nat, NEW f \in [1..n -> S] PROVE f \in Seq(S)
  OBVIOUS

LEMMA OwnSeq ==
  ASSUME NEW s, NEW n \in Nat, DOMAIN s = 1..n, s = [k \in 1..n |-> s[k]]
  PROVE  s \in Seq({s[k] : k \in DOMAIN s})
<1>1. s \in [1..n -> {s[k] : k \in DOMAIN s}]
  OBVIOUS
<1>2. QED
  BY <1>1

LEMMA GroupedIs ==
  ASSUME NEW chunks, NEW n \in Nat, DOMAIN chunks = 1..n
  PROVE  AreGroups(GroupedByFile(chunks), PointsIn(chunks))
<1> DEFINE files == Unique([k \in DOMAIN chunks |-> FileOf[chunks[k].point]])
           I(g) == {k \in DOMAIN chunks : FileOf[chunks[k].point] = files[g]}
           G == GroupedByFile(chunks)
<1>1. PICK m \in Nat : DOMAIN files = 1..m
  <2>1. DOMAIN [k \in DOMAIN chunks |-> FileOf[chunks[k].point]] = 1..n
    OBVIOUS
  <2>2. QED
    BY <2>1, UniqueIs
<1>2. G = [g \in 1..m |-> Chosen(chunks, I(g))]
  BY <1>1 DEF GroupedByFile
<1>3. ASSUME NEW g \in 1..m PROVE IsGroup(G[g], PointsIn(chunks))
  <2>1. I(g) \subseteq Nat /\ IsFiniteSet(I(g)) /\ I(g) \subseteq DOMAIN chunks
    BY PositionsFinite
  <2>2. G[g] = Chosen(chunks, I(g))
    BY <1>2
  <2> HIDE DEF I, G
  <2>3. QED
    BY <2>1, <2>2, ChosenIs DEF IsGroup, PointsIn, ToSet
<1> HIDE DEF G, I
<1>5. DOMAIN G = 1..m
  BY <1>2
<1>4. G \in Seq({G[k] : k \in DOMAIN G})
  BY <1>2, <1>5, OwnSeq
<1>6. QED
  BY <1>3, <1>4, <1>5 DEF AreGroups, G

LEMMA LimitedIs ==
  ASSUME NEW gs, NEW P, AreGroups(gs, P) PROVE AreGroups(LimitedGroups(gs), P)
<1> DEFINE fit == {p \in Places(gs) : \A q \in Ahead(gs, p) \cup {p} : FitsContext(gs, q)}
           room(g) == {p \in fit : p[1] = g}
           taken == [g \in DOMAIN gs |->
             [i \in 1..Cardinality(room(g)) |->
               [point |-> gs[g][i].point, length |-> Truncated(gs[g][i], ChunkLimit(gs, <<g, i>>))]]]
           I == {g \in DOMAIN taken : taken[g] # <<>>}
<1>1. PICK n \in Nat : DOMAIN gs = 1..n
  BY DEF AreGroups
<1>2. ASSUME NEW g \in DOMAIN gs
      PROVE  \E m \in Nat : DOMAIN gs[g] = 1..m /\ Cardinality(room(g)) \in 0..m
  <2>1. PICK m \in Nat : DOMAIN gs[g] = 1..m
    BY DEF AreGroups, IsGroup
  <2>2. room(g) \subseteq {g} \X (1..m)
    BY <2>1 DEF Places
  <2>3. IsFiniteSet({g}) /\ Cardinality({g}) = 1 /\ IsFiniteSet(1..m) /\ Cardinality(1..m) = m
    <3>1. IsFiniteSet({g}) /\ Cardinality({g}) = 1
      BY FS_Singleton, Zenon
    <3>2. QED
      BY <3>1, FS_Interval
  <2>4. IsFiniteSet({g} \X (1..m)) /\ Cardinality({g} \X (1..m)) = 1 * m
    BY <2>3, FS_Product
  <2> HIDE DEF room
  <2>5. IsFiniteSet(room(g)) /\ Cardinality(room(g)) <= 1 * m
    BY <2>2, <2>4, FS_Subset
  <2>6. Cardinality(room(g)) \in Nat
    BY <2>5, FS_CardinalityType
  <2>7. QED
    BY <2>1, <2>5, <2>6
<1>3. ASSUME NEW g \in DOMAIN gs PROVE IsGroup(taken[g], P)
  <2>1. PICK m \in Nat : DOMAIN gs[g] = 1..m /\ Cardinality(room(g)) \in 0..m
    BY <1>2
  <2> HIDE DEF room
  <2>2. \A i \in DOMAIN taken[g] : i \in DOMAIN gs[g] /\ taken[g][i].point = gs[g][i].point
    BY <2>1
  <2>3. DOMAIN taken[g] = 1..Cardinality(room(g)) /\ Cardinality(room(g)) \in Nat
    BY <2>1
  <2> HIDE DEF taken
  <2>4. QED
    BY <2>2, <2>3 DEF AreGroups, IsGroup, PointsIn
<1>4. I \subseteq Nat /\ IsFiniteSet(I) /\ I \subseteq DOMAIN taken /\ DOMAIN taken = DOMAIN gs
  BY <1>1, PositionsFinite
<1>5. LimitedGroups(gs) = Chosen(taken, I)
  BY DEF LimitedGroups
<1> DEFINE C == Chosen(taken, I)
<1> HIDE DEF taken, I
<1>6. Cardinality(I) \in Nat /\ DOMAIN C = 1..Cardinality(I) /\ C = [k \in 1..Cardinality(I) |-> C[k]]
  BY <1>4, ChosenIs DEF Chosen
<1>7. ToSet(C) = {taken[g] : g \in I}
  BY <1>4, ChosenIs
<1> HIDE DEF C
<1>8. C \in Seq({C[k] : k \in DOMAIN C})
  BY <1>6, OwnSeq
<1>9. \A k \in DOMAIN C : IsGroup(C[k], P)
  BY <1>3, <1>4, <1>7 DEF ToSet
<1>10. QED
  BY <1>5, <1>8, <1>9 DEF AreGroups, C

\* The sources of a prompt are chunks, numbered from 1.
LEMMA PromptIs ==
  ASSUME NEW chunks, NEW P, IsGroup(chunks, P)
  PROVE  /\ Prompt(chunks) \in Seq([no : Nat, point : P])
         /\ \A k \in DOMAIN Prompt(chunks) : Prompt(chunks)[k].no = k
<1> DEFINE fit == {k \in DOMAIN chunks : \A j \in 1..k : FitsPrompt(chunks, j)}
<1>1. PICK n \in Nat : DOMAIN chunks = 1..n
  BY DEF IsGroup
<1>2. Cardinality(fit) \in 0..n
  <2>1. fit \subseteq 1..n /\ IsFiniteSet(1..n) /\ Cardinality(1..n) = n
    BY <1>1, FS_Interval
  <2> HIDE DEF fit
  <2>2. IsFiniteSet(fit) /\ Cardinality(fit) <= n
    BY <2>1, FS_Subset
  <2>3. QED
    BY <2>2, FS_CardinalityType
<1>3. Prompt(chunks) = [k \in 1..Cardinality(fit) |-> [no |-> k, point |-> chunks[k].point]]
  BY DEF Prompt
<1> HIDE DEF fit
<1>4. \A k \in 1..Cardinality(fit) : chunks[k].point \in P /\ k \in Nat
  BY <1>1, <1>2 DEF IsGroup, PointsIn
<1>5. Prompt(chunks) \in [1..Cardinality(fit) -> [no : Nat, point : P]] /\ Cardinality(fit) \in Nat
  BY <1>2, <1>3, <1>4
<1>6. Prompt(chunks) \in Seq([no : Nat, point : P])
  <2> DEFINE m == Cardinality(fit)
  <2> HIDE DEF m
  <2>1. Prompt(chunks) \in [1..m -> [no : Nat, point : P]] /\ m \in Nat
    BY <1>5 DEF m
  <2>2. QED
    BY <2>1, FunctionIsSeq
<1>7. QED
  BY <1>3, <1>6

-----------------------------------------------------------------------------
(* Concatenation of the sequences of a sequence                            *)

\* f is what FlattenSeq computes for the first n of ss.
IsFlat(f, ss, n) == f = [i \in 1..n |-> IF i = 1 THEN ss[i] ELSE f[i - 1] \o ss[i]]

LEMMA FlatUnique ==
  ASSUME NEW f, NEW ss, NEW n \in Nat, NEW g, NEW tt, NEW m \in Nat,
         IsFlat(f, ss, n), IsFlat(g, tt, m), n <= m, \A i \in 1..n : ss[i] = tt[i]
  PROVE  \A i \in 1..n : f[i] = g[i]
<1> DEFINE T == {i \in 1..n : f[i] # g[i]}
<1>1. SUFFICES ASSUME T # {} PROVE FALSE
  OBVIOUS
<1>2. T \subseteq Nat
  OBVIOUS
<1>3. PICK i \in T : \A j \in T : i <= j
  <2> HIDE DEF T
  <2>1. QED
    BY <1>1, <1>2, Least
<1>4. i \in 1..n /\ i \in 1..m /\ f[i] # g[i] /\ (i # 1 => i - 1 \in 1..n)
  OBVIOUS
<1>5. i # 1 => f[i - 1] = g[i - 1]
  BY <1>3, <1>4
<1>6. f[i] = IF i = 1 THEN ss[i] ELSE f[i - 1] \o ss[i]
  BY <1>4 DEF IsFlat
<1>7. g[i] = IF i = 1 THEN tt[i] ELSE g[i - 1] \o tt[i]
  BY <1>4 DEF IsFlat
<1>8. QED
  BY <1>4, <1>5, <1>6, <1>7

LEMMA FlatExists == ASSUME NEW ss, NEW n \in Nat PROVE \E f : IsFlat(f, ss, n)
<1> DEFINE T == {k \in Nat : ~ \E f : IsFlat(f, ss, k)}
<1>1. SUFFICES ASSUME T # {} PROVE FALSE
  OBVIOUS
<1>2. T \subseteq Nat
  OBVIOUS
<1>3. PICK k \in T : \A j \in T : k <= j
  <2> HIDE DEF T
  <2>1. QED
    BY <1>1, <1>2, Least
<1>4. k # 0
  <2>1. IsFlat([i \in 1..0 |-> 0], ss, 0)
    BY DEF IsFlat
  <2>2. QED
    BY <2>1
<1>5. PICK f : IsFlat(f, ss, k - 1)
  BY <1>3, <1>4
<1> DEFINE g == [i \in 1..k |-> IF i = 1 THEN ss[i] ELSE f[i - 1] \o ss[i]]
<1>6. ASSUME NEW i \in 1..(k - 1) PROVE g[i] = f[i]
  <2>1. f[i] = IF i = 1 THEN ss[i] ELSE f[i - 1] \o ss[i]
    BY <1>5 DEF IsFlat
  <2>2. i \in 1..k
    BY <1>4
  <2>3. QED
    BY <2>1, <2>2
<1>7. \A i \in 1..k : i # 1 => g[i - 1] = f[i - 1]
  <2>1. \A i \in 1..k : i # 1 => i - 1 \in 1..(k - 1)
    BY <1>4
  <2> HIDE DEF g
  <2>2. QED
    BY <1>6, <2>1
<1>8. IsFlat(g, ss, k)
  BY <1>7 DEF IsFlat
<1>9. QED
  BY <1>8

LEMMA FlattenFound ==
  ASSUME NEW S, NEW ss \in Seq(S), ss # <<>>
  PROVE  \E f : IsFlat(f, ss, Len(ss)) /\ FlattenSeq(ss) = f[Len(ss)]
<1> DEFINE g == CHOOSE h : IsFlat(h, ss, Len(ss))
<1>1. Len(ss) \in Nat \ {0}
  OBVIOUS
<1>2. IsFlat(g, ss, Len(ss))
  BY FlatExists, <1>1
<1>3. FlattenSeq(ss) = g[Len(ss)]
  BY <1>1 DEF FlattenSeq, IsFlat
<1>4. QED
  BY <1>2, <1>3

\* One more sequence comes after all the others.
LEMMA FlattenAppend ==
  ASSUME NEW T, NEW ss \in Seq(Seq(T)), NEW s \in Seq(T)
  PROVE  FlattenSeq(Append(ss, s)) = FlattenSeq(ss) \o s
<1> DEFINE tt == Append(ss, s)
           n == Len(ss)
<1>1. n \in Nat /\ tt \in Seq(Seq(T)) /\ tt # <<>> /\ Len(tt) = n + 1 /\ tt[n + 1] = s /\ \A i \in 1..n : ss[i] = tt[i]
  <2>1. n \in Nat /\ \A i \in 1..n : tt[i] = ss[i]
    BY AppendProperties, LenProperties
  <2>2. tt \in Seq(Seq(T)) /\ tt # <<>> /\ Len(tt) = n + 1 /\ tt[n + 1] = s
    BY AppendProperties
  <2> HIDE DEF tt, n
  <2>3. QED
    BY <2>1, <2>2
<1>2. PICK g : IsFlat(g, tt, n + 1) /\ FlattenSeq(tt) = g[n + 1]
  <2> HIDE DEF tt, n
  <2>1. QED
    BY <1>1, FlattenFound
<1>3. g[n + 1] = IF n + 1 = 1 THEN s ELSE g[n] \o s
  <2> HIDE DEF tt, n
  <2>1. n + 1 \in 1..(n + 1) /\ (n + 1) - 1 = n
    BY <1>1
  <2>2. g[n + 1] = IF n + 1 = 1 THEN tt[n + 1] ELSE g[(n + 1) - 1] \o tt[n + 1]
    BY <1>2, <2>1 DEF IsFlat
  <2>3. QED
    BY <1>1, <2>1, <2>2
<1>4. CASE n = 0
  <2>1. FlattenSeq(ss) = <<>>
    BY <1>4 DEF FlattenSeq
  <2>2. QED
    BY <1>2, <1>3, <1>4, <2>1
<1>5. CASE n # 0
  <2>1. PICK f : IsFlat(f, ss, n) /\ FlattenSeq(ss) = f[n]
    BY <1>5, FlattenFound
  <2> HIDE DEF tt, n
  <2>2. f[n] = g[n]
    <3>1. n <= n + 1 /\ n + 1 \in Nat /\ n \in 1..n
      BY <1>1, <1>5
    <3>2. \A i \in 1..n : ss[i] = tt[i]
      BY <1>1
    <3>3. \A i \in 1..n : f[i] = g[i]
      <4>1. n \in Nat /\ n + 1 \in Nat /\ n <= n + 1 /\ IsFlat(f, ss, n) /\ IsFlat(g, tt, n + 1)
        BY <1>1, <1>2, <2>1, <3>1
      <4>2. QED
        BY <4>1, <3>2, FlatUnique
    <3>4. QED
      BY <3>1, <3>3
  <2>3. QED
    BY <1>1, <1>2, <1>3, <1>5, <2>1, <2>2 DEF tt
<1>6. QED
  BY <1>4, <1>5

-----------------------------------------------------------------------------
(* Numbered sources                                                        *)

\* Lists of sources numbered from 1, of points of P.
Source(P) == [no : Nat, point : P]
Sources(P) == {s \in Seq(Source(P)) : \A k \in DOMAIN s : s[k].no = k}

LEMMA SourcesAre ==
  ASSUME NEW P, NEW s \in Sources(P)
  PROVE  /\ s \in Seq(Source(P)) /\ Len(s) \in Nat /\ DOMAIN s = 1..Len(s)
         /\ \A k \in 1..Len(s) : s[k] \in Source(P) /\ s[k].no = k /\ s[k].point \in P
<1>1. s \in Seq(Source(P)) /\ \A k \in DOMAIN s : s[k].no = k
  BY DEF Sources
<1>2. Len(s) \in Nat /\ DOMAIN s = 1..Len(s) /\ \A k \in 1..Len(s) : s[k] \in Source(P)
  BY <1>1, LenProperties, ElementOfSeq
<1>3. \A k \in 1..Len(s) : s[k].point \in P
  BY <1>2 DEF Source
<1>4. QED
  BY <1>1, <1>2, <1>3

\* A number stands for the source with that place in the list.
LEMMA SourceNoIs ==
  ASSUME NEW P, NEW s \in Sources(P), NEW n \in 1..Len(s) PROVE SourceNo(s, n) = s[n]
<1>1. DOMAIN s = 1..Len(s) /\ \A k \in 1..Len(s) : s[k].no = k
  BY SourcesAre
<1>2. s[n] \in ToSet(s) /\ \A x \in ToSet(s) : x.no = n => x = s[n]
  BY <1>1 DEF ToSet
<1>3. QED
  BY <1>1, <1>2 DEF SourceNo

\* Numbered lists go on with the next number.
LEMMA Continued ==
  ASSUME NEW P, NEW F \in Sources(P), NEW s \in Seq(Source(P)),
         \A k \in 1..Len(s) : s[k].no = Len(F) + k
  PROVE  /\ F \o s \in Sources(P)
         /\ Len(F \o s) = Len(F) + Len(s)
         /\ \A k \in 1..Len(F) : (F \o s)[k] = F[k]
         /\ \A k \in 1..Len(s) : (F \o s)[Len(F) + k] = s[k]
<1>1. F \in Seq(Source(P)) /\ Len(F) \in Nat /\ Len(s) \in Nat /\ \A k \in 1..Len(F) : F[k].no = k
  BY SourcesAre, LenProperties
<1> DEFINE G == F \o s
<1>2. G \in Seq(Source(P)) /\ Len(G) = Len(F) + Len(s) /\ DOMAIN G = 1..Len(G)
  BY <1>1, ConcatProperties, LenProperties
<1>3. \A k \in 1..(Len(F) + Len(s)) : G[k] = IF k <= Len(F) THEN F[k] ELSE s[k - Len(F)]
  BY <1>1, ConcatProperties
<1> HIDE DEF G
<1>4. \A k \in 1..Len(F) : G[k] = F[k]
  BY <1>1, <1>3
<1>5. \A k \in 1..Len(s) : G[Len(F) + k] = s[k]
  <2>1. ASSUME NEW k \in 1..Len(s) PROVE G[Len(F) + k] = s[k]
    <3>1. Len(F) + k \in 1..(Len(F) + Len(s)) /\ ~ (Len(F) + k <= Len(F)) /\ (Len(F) + k) - Len(F) = k
      BY <1>1
    <3>2. QED
      BY <1>3, <3>1
  <2>2. QED
    BY <2>1
<1>6. \A k \in DOMAIN G : G[k].no = k
  <2>1. ASSUME NEW k \in 1..(Len(F) + Len(s)) PROVE G[k].no = k
    <3>1. CASE k <= Len(F)
      BY <1>1, <1>4, <3>1
    <3>2. CASE ~ (k <= Len(F))
      <4>1. k - Len(F) \in 1..Len(s) /\ Len(F) + (k - Len(F)) = k
        BY <1>1, <3>2
      <4>2. G[k] = s[k - Len(F)]
        BY <1>3, <3>2
      <4>3. QED
        BY <4>1, <4>2
    <3>3. QED
      BY <3>1, <3>2
  <2>2. QED
    BY <1>2, <2>1
<1>7. QED
  BY <1>2, <1>4, <1>5, <1>6 DEF Sources, G

\* What a valid answer declares are the numbers of its text, and they are numbers of sources.
LEMMA DeclaredIs ==
  ASSUME NEW P, NEW s \in Sources(P), NEW reply \in Reply, ValidReply(reply, s), reply.status = "answered"
  PROVE  /\ reply.text \in Seq(Nat) /\ reply.declared \in Seq(Nat)
         /\ ToSet(reply.declared) = ToSet(reply.text)
         /\ ToSet(reply.text) \subseteq 1..Len(s)
<1>1. reply.text \in Seq(Nat) /\ reply.declared \in Seq(Nat)
  BY DEF Reply
<1>2. reply.declared = Unique(reply.text) /\ ToSet(reply.text) \subseteq {s[k].no : k \in DOMAIN s}
  BY DEF ValidReply
<1>3. Len(reply.text) \in Nat /\ DOMAIN reply.text = 1..Len(reply.text)
  BY <1>1
<1>4. ToSet(reply.declared) = ToSet(reply.text)
  BY <1>2, <1>3, UniqueIs
<1>5. {s[k].no : k \in DOMAIN s} \subseteq 1..Len(s)
  BY SourcesAre
<1>6. QED
  BY <1>1, <1>2, <1>4, <1>5

LEMMA CitedIs ==
  ASSUME NEW P, NEW s \in Sources(P), NEW reply \in Reply, ValidReply(reply, s), reply.status = "answered"
  PROVE  LET cited == CitedSources(reply, s)
             d == Len(reply.declared)
         IN  /\ d \in Nat /\ DOMAIN cited = 1..d /\ DOMAIN reply.declared = 1..d
             /\ \A k \in 1..d : /\ reply.declared[k] \in 1..Len(s)
                                /\ cited[k] = s[reply.declared[k]]
                                /\ cited[k].no = reply.declared[k] /\ cited[k].point \in P
<1>1. reply.declared \in Seq(Nat) /\ ToSet(reply.declared) \subseteq 1..Len(s)
  BY DeclaredIs
<1> DEFINE d == Len(reply.declared)
<1>2. d \in Nat /\ DOMAIN reply.declared = 1..d
  BY <1>1
<1>3. \A k \in 1..d : reply.declared[k] \in 1..Len(s)
  BY <1>1, <1>2 DEF ToSet
<1>4. CitedSources(reply, s) = [k \in 1..d |-> SourceNo(s, reply.declared[k])]
  BY <1>2 DEF CitedSources
<1>5. \A n \in 1..Len(s) : SourceNo(s, n) = s[n] /\ s[n].no = n /\ s[n].point \in P
  BY SourceNoIs, SourcesAre
<1> HIDE DEF d
<1>6. QED
  BY <1>2, <1>3, <1>4, <1>5 DEF d

-----------------------------------------------------------------------------
(* Renumbered answers                                                      *)

\* A partial answer: what its text names, its text and its sources, all of points of P.
Partial(P) == [said : Seq(P), text : Seq(Nat), sources : Seq(Source(P))]

\* A text means in the list F what it was said to mean.
Means(p, F) == /\ ToSet(p.text) \subseteq DOMAIN F
               /\ p.said = [i \in DOMAIN p.text |-> F[p.text[i]].point]

\* A renumbered answer goes on with the numbers of F, and means there what was said.
LEMMA RemappedIs ==
  ASSUME NEW P, NEW F \in Sources(P), NEW s \in Sources(P), NEW reply \in Reply, ValidReply(reply, s),
         reply.status = "answered"
  PROVE  LET p == Remapped(reply, s, 1 + Len(F))
         IN  p \in Partial(P) /\ F \o p.sources \in Sources(P) /\ Means(p, F \o p.sources)
             /\ \A k \in 1..Len(F) : (F \o p.sources)[k] = F[k]
<1> DEFINE cited == CitedSources(reply, s)
           d == Len(reply.declared)
           c(n) == CHOOSE k \in DOMAIN cited : cited[k].no = n
           text == reply.text
           first == 1 + Len(F)
           list == [k \in DOMAIN cited |-> [no |-> first - 1 + k, point |-> cited[k].point]]
           renumbered == [k \in DOMAIN text |-> first - 1 + c(text[k])]
           said == PointsOf(text, s)
           p == Remapped(reply, s, first)
           G == F \o list
<1>1. Len(F) \in Nat
  BY SourcesAre
<1>2. /\ d \in Nat /\ DOMAIN cited = 1..d
      /\ \A k \in 1..d : /\ reply.declared[k] \in 1..Len(s)
                         /\ cited[k] = s[reply.declared[k]]
                         /\ cited[k].no = reply.declared[k] /\ cited[k].point \in P
  BY CitedIs
<1>3. /\ text \in Seq(Nat) /\ ToSet(text) \subseteq 1..Len(s) /\ ToSet(reply.declared) = ToSet(text)
      /\ DOMAIN reply.declared = 1..d
  BY DeclaredIs, CitedIs
<1>4. p = [said |-> said, text |-> renumbered, sources |-> list]
  BY DEF Remapped
<1>5. \A i \in DOMAIN text : text[i] \in ToSet(text)
  BY DEF ToSet
<1>6. ASSUME NEW n \in ToSet(text) PROVE c(n) \in 1..d /\ cited[c(n)].point = s[n].point
  <2>1. PICK k \in 1..d : reply.declared[k] = n
    BY <1>3, <1>6 DEF ToSet
  <2> HIDE DEF cited, d
  <2>2. k \in DOMAIN cited /\ cited[k].no = n
    BY <1>2, <2>1
  <2>3. c(n) \in DOMAIN cited /\ cited[c(n)].no = n
    BY <2>2
  <2> HIDE DEF c
  <2>4. QED
    BY <1>2, <2>3
<1>7. \A i \in DOMAIN text : c(text[i]) \in 1..d /\ cited[c(text[i])].point = s[text[i]].point
  <2> HIDE DEF c, cited
  <2>1. QED
    BY <1>5, <1>6
<1> HIDE DEF c, d, cited
<1>8. list \in Seq(Source(P)) /\ Len(list) = d /\ \A k \in 1..d : list[k].no = Len(F) + k /\ list[k].point = cited[k].point
  <2>1. \A k \in 1..d : list[k] = [no |-> first - 1 + k, point |-> cited[k].point]
    BY <1>2
  <2>2. \A k \in 1..d : first - 1 + k = Len(F) + k /\ first - 1 + k \in Nat
    BY <1>1, <1>2
  <2>3. list \in [1..d -> Source(P)]
    BY <1>2, <2>2 DEF Source
  <2> HIDE DEF list
  <2>4. list \in Seq(Source(P)) /\ Len(list) = d
    BY <1>2, <2>3, FunctionIsSeq
  <2>5. QED
    BY <2>1, <2>2, <2>4
<1> HIDE DEF list
<1>9. /\ G \in Sources(P) /\ Len(G) = Len(F) + d
      /\ \A k \in 1..Len(F) : G[k] = F[k]
      /\ \A k \in 1..d : G[Len(F) + k] = list[k]
  BY <1>8, Continued
<1> HIDE DEF G
<1>10. DOMAIN G = 1..(Len(F) + d)
  BY <1>9, SourcesAre
<1>11. \A i \in DOMAIN text : renumbered[i] = Len(F) + c(text[i])
  BY <1>1, <1>2, <1>7
<1>12. DOMAIN renumbered = DOMAIN text
  OBVIOUS
<1> HIDE DEF renumbered
<1>13. \A i \in DOMAIN text : renumbered[i] \in DOMAIN G /\ renumbered[i] \in Nat
                             /\ G[renumbered[i]].point = s[text[i]].point
  <2>1. ASSUME NEW i \in DOMAIN text
        PROVE  renumbered[i] \in DOMAIN G /\ renumbered[i] \in Nat /\ G[renumbered[i]].point = s[text[i]].point
    <3>1. c(text[i]) \in 1..d
      BY <1>7
    <3>2. Len(F) + c(text[i]) \in 1..(Len(F) + d)
      BY <1>1, <1>2, <3>1
    <3>3. G[Len(F) + c(text[i])].point = cited[c(text[i])].point
      BY <1>8, <1>9, <3>1
    <3>4. QED
      BY <1>7, <1>10, <1>11, <3>2, <3>3
  <2>2. QED
    BY <2>1
<1>14. said = [i \in DOMAIN text |-> s[text[i]].point]
  BY <1>3, <1>5, SourceNoIs DEF PointsOf
<1>15. said = [i \in DOMAIN renumbered |-> G[renumbered[i]].point]
  BY <1>12, <1>13, <1>14
<1>16. \A i \in DOMAIN text : s[text[i]].point \in P
  BY <1>3, <1>5, SourcesAre
<1>17. Len(text) \in Nat /\ DOMAIN text = 1..Len(text)
  BY <1>3, LenProperties
<1>18. said \in Seq(P)
  <2>1. said \in [1..Len(text) -> P]
    BY <1>14, <1>16, <1>17
  <2> HIDE DEF said
  <2>2. QED
    BY <1>17, <2>1, FunctionIsSeq
<1> HIDE DEF said
<1>19. renumbered \in Seq(Nat)
  <2>1. renumbered \in [1..Len(text) -> Nat]
    <3>1. renumbered = [i \in 1..Len(text) |-> renumbered[i]]
      BY <1>17 DEF renumbered
    <3>2. QED
      BY <1>13, <1>17, <3>1
  <2>2. QED
    BY <1>17, <2>1, FunctionIsSeq
<1> HIDE DEF p
<1>20. p \in Partial(P)
  BY <1>4, <1>8, <1>18, <1>19 DEF Partial
<1>21. Means(p, G)
  <2>1. p.text = renumbered /\ p.said = said
    BY <1>4
  <2>2. ToSet(renumbered) \subseteq DOMAIN G
    BY <1>12, <1>13 DEF ToSet
  <2>3. QED
    BY <1>15, <2>1, <2>2 DEF Means
<1>22. F \o p.sources = G
  BY <1>4 DEF G
<1>23. QED
  BY <1>9, <1>20, <1>21, <1>22 DEF p

-----------------------------------------------------------------------------
(* What a run has collected and been answered                              *)

ValidPoints(q) == {p \in Points \ Foreign : FileOf[p] \in ToSet(q.files)}
ChunkOf(q) == [point : ValidPoints(q), length : Nat]
OneVersionOf(P) == \A a, b \in P : FileOf[a] = FileOf[b] => DocOf[a] = DocOf[b]

\* Nothing has been asked of Claude yet.
Fresh(x) == x.stage = "lookup" /\ x.groups = <<>> /\ x.sources = <<>> /\ x.partials = <<>> /\ x.outcome = Nothing

\* What a search may still find belongs to the question.
Searching(x, q) ==
  /\ x.chunks \in Seq(ChunkOf(q))
  /\ x.pc = "receive" => x.todo = q.files
  /\ x.pc \in {"embed", "search"} => x.todo \in Seq(ToSet(q.files)) /\ x.todo # <<>>
  /\ x.pc \in {"receive", "embed", "search"} => Fresh(x)

\* Groups, sources and partial answers are made of the chunks, and the numbers of the
\* partial answers mean in all of their sources what they meant in their prompts.
Evidence(x) ==
  LET P == PointsIn(x.chunks)
      F == FinalSources(x.partials)
  IN  /\ AreGroups(x.groups, P) /\ x.sources \in Sources(P)
      /\ x.partials \in Seq(Partial(P)) /\ F \in Sources(P)
      /\ \A k \in DOMAIN x.partials : Means(x.partials[k], F)
      /\ x.stage = "final" => x.sources = F

Cites(o, q) == /\ PointsIn(o.cites) \subseteq ValidPoints(q)
               /\ Synthesis(q) => OneVersionOf(PointsIn(o.cites))

Asking == {"prompt", "reserve", "wait", "call"}

Good(x, q) ==
  /\ Shaped(x) /\ Searching(x, q) /\ Evidence(x) /\ Cites(x.outcome, q)
  /\ Synthesis(q) /\ x.pc \in Asking => OneVersion(x.chunks)

GoodRuns == \A r \in Requests : Good(run[r], ask[r])

LEMMA ChunkPoints ==
  ASSUME NEW q, NEW s \in Seq(ChunkOf(q))
  PROVE  /\ Len(s) \in Nat /\ DOMAIN s = 1..Len(s)
         /\ \A k \in 1..Len(s) : s[k].point \in ValidPoints(q)
         /\ PointsIn(s) \subseteq ValidPoints(q)
<1>1. Len(s) \in Nat /\ DOMAIN s = 1..Len(s) /\ \A k \in 1..Len(s) : s[k] \in ChunkOf(q)
  BY LenProperties, ElementOfSeq
<1>2. \A k \in 1..Len(s) : s[k].point \in ValidPoints(q)
  BY <1>1 DEF ChunkOf
<1>3. QED
  BY <1>1, <1>2 DEF PointsIn

LEMMA NoEvidence ==
  ASSUME NEW x, NEW P, x.groups = <<>>, x.sources = <<>>, x.partials = <<>>, P = PointsIn(x.chunks) PROVE Evidence(x)
<1>1. FinalSources(<<>>) = <<>>
  BY DEF FinalSources, FlattenSeq
<1>2. \A S : <<>> \in Seq(S)
  BY EmptySeq
<1>3. DOMAIN <<>> = {}
  OBVIOUS
<1>4. AreGroups(<<>>, P) /\ <<>> \in Sources(P) /\ <<>> \in Seq(Partial(P))
  BY <1>2, <1>3 DEF AreGroups, Sources
<1>5. QED
  BY <1>1, <1>3, <1>4 DEF Evidence

LEMMA DoneGood == ASSUME NEW x, Shaped(x), NEW q, NEW o, Cites(o, q) PROVE Good(Done(x, o), q)
<1> DEFINE y == Done(x, o)
<1>1. /\ Shaped(y) /\ y.pc = "done" /\ y.chunks = <<>> /\ y.groups = <<>> /\ y.sources = <<>>
      /\ y.partials = <<>> /\ y.outcome = o
  BY DEF Done, Shaped, Pcs
<1> HIDE DEF y
<1>2. Evidence(y)
  BY <1>1, NoEvidence
<1>3. Searching(y, q)
  <2>1. <<>> \in Seq(ChunkOf(q))
    BY EmptySeq
  <2>2. QED
    BY <1>1, <2>1 DEF Searching
<1>4. QED
  BY <1>1, <1>2, <1>3 DEF Good, Asking, y

LEMMA EndedGood == ASSUME NEW x, Shaped(x), NEW q, NEW code PROVE Good(Done(x, Ended(code)), q)
<1>1. DOMAIN Ended(code).cites = {}
  BY DEF Ended
<1>2. PointsIn(Ended(code).cites) = {}
  BY <1>1 DEF PointsIn
<1>3. Cites(Ended(code), q)
  BY <1>2 DEF Cites, OneVersionOf
<1>4. QED
  BY <1>3, DoneGood

LEMMA NextPartialGood ==
  ASSUME NEW x, NEW q, Shaped(x), x.chunks \in Seq(ChunkOf(q)), Evidence(x), Cites(x.outcome, q),
         Synthesis(q) => OneVersion(x.chunks)
  PROVE  Good(NextPartial(x), q)
<1> DEFINE y == NextPartial(x)
<1>1. /\ Shaped(y) /\ y.pc = "prompt" /\ y.stage = "partial" /\ y.chunks = x.chunks /\ y.groups = x.groups
      /\ y.sources = <<>> /\ y.partials = x.partials /\ y.outcome = x.outcome
  BY DEF NextPartial, Shaped, Pcs
<1> HIDE DEF y
<1>2. <<>> \in Sources(PointsIn(x.chunks))
  <2>1. DOMAIN <<>> = {}
    OBVIOUS
  <2>2. QED
    BY <2>1, EmptySeq DEF Sources
<1>3. Evidence(y)
  BY <1>1, <1>2 DEF Evidence
<1>4. Searching(y, q)
  BY <1>1 DEF Searching
<1>5. QED
  BY <1>1, <1>3, <1>4 DEF Good, Asking, y

LEMMA GroupedGood ==
  ASSUME NEW x, NEW q, Shaped(x), x.chunks \in Seq(ChunkOf(q)), Fresh(x) PROVE Good(Grouped(x), q)
<1> DEFINE P == PointsIn(x.chunks)
           y == [x EXCEPT !.groups = LimitedGroups(GroupedByFile(x.chunks))]
<1>1. /\ Shaped(y) /\ y.chunks = x.chunks /\ y.groups = LimitedGroups(GroupedByFile(x.chunks))
      /\ y.sources = <<>> /\ y.partials = <<>> /\ y.stage = "lookup" /\ y.outcome = Nothing
  BY DEF Shaped, Fresh
<1>2. AreGroups(y.groups, P)
  BY <1>1, GroupedIs, LimitedIs, ChunkPoints
<1>3. Evidence([y EXCEPT !.groups = <<>>])
  BY <1>1, NoEvidence DEF Shaped
<1> HIDE DEF y
<1>4. Evidence(y)
  <2>1. /\ [y EXCEPT !.groups = <<>>].chunks = y.chunks /\ [y EXCEPT !.groups = <<>>].sources = y.sources
        /\ [y EXCEPT !.groups = <<>>].partials = y.partials /\ [y EXCEPT !.groups = <<>>].stage = y.stage
    BY <1>1 DEF Shaped
  <2>2. QED
    BY <1>1, <1>2, <1>3, <2>1 DEF Evidence
<1>5. Cites(Nothing, q)
  <2>1. PointsIn(Nothing.cites) = {}
    BY DEF PointsIn, Nothing
  <2>2. QED
    BY <2>1 DEF Cites, OneVersionOf
<1>6. OneVersion(x.chunks) => Good(NextPartial(y), q)
  BY <1>1, <1>4, <1>5, NextPartialGood
<1>7. QED
  BY <1>6, EndedGood DEF Grouped, Insufficient, y

\* What the library knows of sequences, for two of them.
LEMMA JoinedSeq == ASSUME NEW S, NEW s \in Seq(S), NEW t \in Seq(S) PROVE s \o t \in Seq(S)
  BY ConcatProperties

LEMMA TailSeq == ASSUME NEW S, NEW s \in Seq(S), s # <<>> PROVE Tail(s) \in Seq(S)
  BY HeadTailProperties

LEMMA CollectedGood ==
  ASSUME NEW x, NEW q, Good(x, q), x.pc \in {"embed", "search"}, NEW c \in Seq(ChunkOf(q))
  PROVE  Good(Collected(x, c), q)
<1> DEFINE y == [x EXCEPT !.pc = "embed", !.todo = Tail(@), !.chunks = @ \o c]
<1>1. /\ Shaped(x) /\ x.chunks \in Seq(ChunkOf(q)) /\ Fresh(x) /\ x.todo \in Seq(ToSet(q.files)) /\ x.todo # <<>>
      /\ Cites(x.outcome, q)
  BY DEF Good, Searching
<1>2. /\ Shaped(y) /\ y.pc = "embed" /\ y.todo = Tail(x.todo) /\ y.chunks = x.chunks \o c /\ Fresh(y)
      /\ y.outcome = x.outcome
  BY <1>1 DEF Shaped, Pcs, Fresh
<1>3. y.chunks \in Seq(ChunkOf(q)) /\ y.todo \in Seq(ToSet(q.files))
  <2>1. x.chunks \o c \in Seq(ChunkOf(q))
    BY <1>1, JoinedSeq
  <2>2. Tail(x.todo) \in Seq(ToSet(q.files))
    BY <1>1, TailSeq
  <2>3. QED
    BY <1>2, <2>1, <2>2
<1> HIDE DEF y
<1>4. CASE y.todo = <<>>
  BY <1>2, <1>3, <1>4, GroupedGood DEF Collected, y
<1>5. CASE y.todo # <<>>
  <2>1. Searching(y, q)
    BY <1>2, <1>3, <1>5 DEF Searching
  <2>2. Evidence(y)
    BY <1>2, NoEvidence DEF Fresh
  <2>3. Good(y, q)
    BY <1>1, <1>2, <2>1, <2>2 DEF Good, Asking
  <2>4. QED
    BY <1>5, <2>3 DEF Collected, y
<1>6. QED
  BY <1>4, <1>5

\* One more partial answer: its sources come after those of the others.
LEMMA FinalSourcesAppend ==
  ASSUME NEW P, NEW ps \in Seq(Partial(P)), NEW p \in Partial(P)
  PROVE  FinalSources(Append(ps, p)) = FinalSources(ps) \o p.sources
<1> DEFINE n == Len(ps)
           ss == [k \in 1..n |-> ps[k].sources]
           qs == Append(ps, p)
<1>1. n \in Nat /\ DOMAIN ps = 1..n /\ \A k \in 1..n : ps[k] \in Partial(P)
  BY LenProperties, ElementOfSeq
<1>2. p.sources \in Seq(Source(P)) /\ \A k \in 1..n : ps[k].sources \in Seq(Source(P))
  BY <1>1 DEF Partial
<1>3. ss \in Seq(Seq(Source(P))) /\ Len(ss) = n
  BY <1>1, <1>2
<1>4. /\ qs \in Seq(Partial(P)) /\ Len(qs) = n + 1 /\ qs[n + 1] = p /\ \A k \in 1..n : qs[k] = ps[k]
  BY AppendProperties
<1>5. DOMAIN qs = 1..(n + 1)
  BY <1>4, LenProperties
<1> DEFINE tt == [k \in 1..(n + 1) |-> qs[k].sources]
           uu == Append(ss, p.sources)
<1>6. /\ uu \in Seq(Seq(Source(P))) /\ Len(uu) = n + 1 /\ uu[n + 1] = p.sources
      /\ \A k \in 1..n : uu[k] = ss[k]
  BY <1>2, <1>3, AppendProperties
<1>7. \A k \in 1..n : ss[k] = ps[k].sources
  OBVIOUS
<1> HIDE DEF qs, ss, uu
<1>8. \A k \in 1..(n + 1) : tt[k] = uu[k] /\ tt[k] \in Seq(Source(P))
  <2>1. ASSUME NEW k \in 1..(n + 1) PROVE tt[k] = uu[k] /\ tt[k] \in Seq(Source(P))
    <3>1. tt[k] = qs[k].sources
      OBVIOUS
    <3>2. CASE k = n + 1
      BY <1>2, <1>4, <1>6, <3>1, <3>2
    <3>3. CASE k # n + 1
      <4>1. k \in 1..n
        BY <1>1, <3>3
      <4>2. QED
        BY <1>2, <1>4, <1>6, <1>7, <3>1, <4>1
    <3>4. QED
      BY <3>2, <3>3
  <2>2. QED
    BY <2>1
<1>9. tt \in Seq(Seq(Source(P))) /\ Len(tt) = n + 1
  <2>1. tt \in [1..(n + 1) -> Seq(Source(P))]
    BY <1>8
  <2> HIDE DEF tt
  <2>2. QED
    BY <1>1, <2>1
<1> HIDE DEF tt
<1>10. tt = uu
  BY <1>6, <1>8, <1>9, SeqEqual
<1>11. FinalSources(qs) = FlattenSeq(tt)
  BY <1>5 DEF FinalSources, tt
<1>12. FinalSources(ps) = FlattenSeq(ss)
  BY <1>1 DEF FinalSources, ss
<1>13. FlattenSeq(uu) = FlattenSeq(ss) \o p.sources
  BY <1>2, <1>3, FlattenAppend DEF uu
<1>14. QED
  BY <1>10, <1>11, <1>12, <1>13 DEF qs

\* A partial answer joins the others, and all of them keep their meaning.
LEMMA EvidenceGrows ==
  ASSUME NEW x, Shaped(x), Evidence(x), x.stage # "final", NEW reply \in Reply, ValidReply(reply, x.sources),
         reply.status = "answered",
         NEW y, y = [x EXCEPT !.partials = Append(@, Remapped(reply, x.sources, FirstNumber(@)))]
  PROVE  /\ Shaped(y) /\ Evidence(y)
         /\ y.pc = x.pc /\ y.stage = x.stage /\ y.chunks = x.chunks /\ y.outcome = x.outcome
<1> DEFINE P == PointsIn(x.chunks)
           F == FinalSources(x.partials)
           p == Remapped(reply, x.sources, 1 + Len(F))
           G == F \o p.sources
<1>1. /\ AreGroups(x.groups, P) /\ x.sources \in Sources(P) /\ x.partials \in Seq(Partial(P))
      /\ F \in Sources(P) /\ \A k \in DOMAIN x.partials : Means(x.partials[k], F)
  BY DEF Evidence
<1>2. /\ p \in Partial(P) /\ G \in Sources(P) /\ Means(p, G) /\ \A k \in 1..Len(F) : G[k] = F[k]
  <2> HIDE DEF F
  <2>1. QED
    BY <1>1, RemappedIs
<1>3. /\ Shaped(y) /\ y.pc = x.pc /\ y.stage = x.stage /\ y.chunks = x.chunks /\ y.outcome = x.outcome
      /\ y.groups = x.groups /\ y.sources = x.sources /\ y.partials = Append(x.partials, p)
  BY DEF Shaped, FirstNumber
<1> HIDE DEF p
<1>4. FinalSources(y.partials) = G
  BY <1>1, <1>2, <1>3, FinalSourcesAppend
<1> DEFINE n == Len(x.partials)
<1>5. /\ n \in Nat /\ DOMAIN x.partials = 1..n /\ y.partials \in Seq(Partial(P)) /\ DOMAIN y.partials = 1..(n + 1)
      /\ y.partials[n + 1] = p /\ \A k \in 1..n : y.partials[k] = x.partials[k]
  BY <1>1, <1>2, <1>3, AppendProperties, LenProperties
<1>6. /\ DOMAIN F = 1..Len(F) /\ DOMAIN F \subseteq DOMAIN G
  <2>1. DOMAIN F = 1..Len(F) /\ DOMAIN G = 1..Len(G) /\ F \in Seq(Source(P)) /\ p.sources \in Seq(Source(P))
    BY <1>1, <1>2, SourcesAre DEF Partial
  <2>2. Len(G) = Len(F) + Len(p.sources) /\ Len(F) \in Nat /\ Len(p.sources) \in Nat
    BY <2>1, ConcatProperties, LenProperties
  <2> HIDE DEF F, G
  <2>3. QED
    BY <2>1, <2>2
<1> HIDE DEF F, G, n
<1>7. ASSUME NEW t, Means(t, F) PROVE Means(t, G)
  <2>1. \A i \in DOMAIN t.text : t.text[i] \in DOMAIN F
    BY <1>7 DEF Means, ToSet
  <2>2. \A i \in DOMAIN t.text : G[t.text[i]] = F[t.text[i]]
    BY <1>2, <1>6, <2>1
  <2>3. QED
    BY <1>6, <1>7, <2>2 DEF Means
<1>8. \A k \in 1..(n + 1) : Means(y.partials[k], G)
  <2>1. ASSUME NEW k \in 1..(n + 1) PROVE Means(y.partials[k], G)
    <3>1. CASE k = n + 1
      BY <1>2, <1>5, <3>1
    <3>2. CASE k # n + 1
      <4>1. k \in 1..n
        BY <1>5, <3>2
      <4>2. QED
        BY <1>1, <1>5, <1>7, <4>1
    <3>3. QED
      BY <3>1, <3>2
  <2>2. QED
    BY <2>1
<1>9. Evidence(y)
  BY <1>1, <1>2, <1>3, <1>4, <1>5, <1>8 DEF Evidence
<1>10. QED
  BY <1>3, <1>9

\* An answer cites points of the chunks.
LEMMA CitesGood ==
  ASSUME NEW x, NEW q, Good(x, q), x.pc \in Asking, NEW reply \in Reply, ValidReply(reply, x.sources),
         reply.status = "answered",
         NEW o, o = [code |-> "answered", text |-> reply.text, cites |-> CitedSources(reply, x.sources)]
  PROVE  Cites(o, q)
<1> DEFINE P == PointsIn(x.chunks)
<1>1. x.sources \in Sources(P) /\ x.chunks \in Seq(ChunkOf(q)) /\ (Synthesis(q) => OneVersion(x.chunks))
  BY DEF Good, Evidence, Searching
<1>2. PointsIn(o.cites) \subseteq P
  <2>1. DOMAIN o.cites = 1..Len(reply.declared) /\ \A k \in DOMAIN o.cites : o.cites[k].point \in P
    <3> HIDE DEF P
    <3>1. QED
      BY <1>1, CitedIs
  <2>2. QED
    BY <2>1 DEF PointsIn
<1>3. P \subseteq ValidPoints(q)
  BY <1>1, ChunkPoints
<1>4. OneVersion(x.chunks) => OneVersionOf(P)
  BY DEF OneVersion, OneVersionOf, PointsIn
<1> HIDE DEF P
<1>5. QED
  BY <1>1, <1>2, <1>3, <1>4 DEF Cites, OneVersionOf

LEMMA RepliedGood ==
  ASSUME NEW x, NEW q, Good(x, q), x.pc = "call", NEW reply \in Reply
  PROVE  Good(Replied(x, reply), q)
<1>1. /\ Shaped(x) /\ x.chunks \in Seq(ChunkOf(q)) /\ Evidence(x) /\ Cites(x.outcome, q)
      /\ (Synthesis(q) => OneVersion(x.chunks)) /\ x.pc \in Asking
  BY DEF Good, Searching, Asking
<1>2. CASE ~ ValidReply(reply, x.sources)
  BY <1>1, <1>2, EndedGood DEF Replied
<1>3. CASE ValidReply(reply, x.sources) /\ reply.status = "insufficient_evidence"
  BY <1>1, <1>3, EndedGood, NextPartialGood DEF Replied, Insufficient
<1>4. CASE ValidReply(reply, x.sources) /\ reply.status # "insufficient_evidence"
  <2>1. reply.status = "answered"
    BY <1>4 DEF ValidReply
  <2>2. CASE x.stage = "partial"
    <3> DEFINE y == [x EXCEPT !.partials = Append(@, Remapped(reply, x.sources, FirstNumber(@)))]
    <3>1. Replied(x, reply) = NextPartial(y)
      BY <1>4, <2>2 DEF Replied
    <3>2. x.stage # "final" /\ Shaped(x) /\ Evidence(x) /\ ValidReply(reply, x.sources)
      BY <1>1, <1>4, <2>2
    <3>3. \A z : z = y => Shaped(z) /\ Evidence(z) /\ z.chunks = x.chunks /\ z.outcome = x.outcome
      BY <2>1, <3>2, EvidenceGrows
    <3>4. Shaped(y) /\ Evidence(y) /\ y.chunks = x.chunks /\ y.outcome = x.outcome
      BY <3>3
    <3> HIDE DEF y
    <3>5. QED
      BY <1>1, <3>1, <3>4, NextPartialGood
  <2>3. CASE x.stage # "partial"
    <3> DEFINE o == [code |-> "answered", text |-> reply.text, cites |-> CitedSources(reply, x.sources)]
    <3>1. Replied(x, reply) = Done(x, o)
      BY <1>4, <2>3 DEF Replied
    <3>2. Cites(o, q)
      BY <1>1, <1>4, <2>1, CitesGood
    <3> HIDE DEF o
    <3>3. QED
      BY <1>1, <3>1, <3>2, DoneGood
  <2>4. QED
    BY <2>2, <2>3
<1>5. QED
  BY <1>2, <1>3, <1>4

-----------------------------------------------------------------------------
(* Every step keeps it                                                     *)

LEMMA ChunksOfHits ==
  ASSUME NEW r \in Requests, NEW q, NEW hits \in HitLists, NEW files, NEW limit, ValidHits(hits, files, limit),
         files \subseteq ToSet(q.files)
  PROVE  Chunks(hits) \in Seq(ChunkOf(q))
<1>1. PICK n \in Nat : hits \in [1..n -> Points]
  BY DEF HitLists
<1>2. \A k \in 1..n : hits[k] \in ValidPoints(q) /\ Length[hits[k]] \in Nat
  BY <1>1, AnswerConstants DEF ValidHits, ValidHit, ValidPoints
<1>3. Chunks(hits) \in [1..n -> ChunkOf(q)]
  BY <1>1, <1>2 DEF Chunks, ChunkOf
<1>4. QED
  BY <1>3, FunctionIsSeq

LEMMA GoodStart == Init => GoodRuns
<1> SUFFICES ASSUME Init, NEW r \in Requests PROVE Good(run[r], ask[r])
  BY DEF GoodRuns
<1> DEFINE x == run[r]
<1>1. x = [pc |-> "receive", stage |-> "lookup", todo |-> ask[r].files, chunks |-> <<>>,
           groups |-> <<>>, sources |-> <<>>, partials |-> <<>>, outcome |-> Nothing]
  BY DEF Init
<1>2. Shaped(x) /\ x.pc = "receive" /\ x.todo = ask[r].files /\ x.chunks = <<>> /\ Fresh(x)
  BY <1>1 DEF Shaped, Pcs, Fresh
<1>3. Cites(Nothing, ask[r])
  <2>1. PointsIn(Nothing.cites) = {}
    BY DEF PointsIn, Nothing
  <2>2. QED
    BY <2>1 DEF Cites, OneVersionOf
<1> HIDE DEF x
<1>4. Searching(x, ask[r])
  <2>1. <<>> \in Seq(ChunkOf(ask[r]))
    BY EmptySeq
  <2>2. QED
    BY <1>2, <2>1 DEF Searching
<1>5. QED
  BY <1>2, <1>3, <1>4, NoEvidence DEF Good, Fresh, Asking, x

\* A run that only goes on from pc to pc, with its evidence.
LEMMA OnGood ==
  ASSUME NEW x, NEW q, Good(x, q), NEW pc \in Pcs, pc \notin {"receive", "embed", "search"},
         x.pc \in Asking
  PROVE  Good([x EXCEPT !.pc = pc], q)
<1> DEFINE y == [x EXCEPT !.pc = pc]
<1>1. /\ Shaped(y) /\ y.pc = pc /\ y.stage = x.stage /\ y.todo = x.todo /\ y.chunks = x.chunks /\ y.groups = x.groups
      /\ y.sources = x.sources /\ y.partials = x.partials /\ y.outcome = x.outcome
  BY DEF Good, Shaped
<1> HIDE DEF y
<1>2. Searching(y, q) /\ Evidence(y)
  BY <1>1 DEF Good, Searching, Evidence
<1>3. QED
  BY <1>1, <1>2 DEF Good, y

\* A prompt is built from sources of the chunks.
LEMMA AsksGood ==
  ASSUME NEW r \in Requests, NEW q, Good(run[r], q), run[r].pc \in Asking, NEW stage, NEW s, NEW gs,
         s \in Sources(PointsIn(run[r].chunks)), AreGroups(gs, PointsIn(run[r].chunks)),
         stage = "final" => s = FinalSources(run[r].partials)
  PROVE  Good([Asks(r, stage, s) EXCEPT !.groups = gs], q)
<1> DEFINE x == run[r]
           y == [Asks(r, stage, s) EXCEPT !.groups = gs]
<1>1. /\ Shaped(y) /\ y.pc = "reserve" /\ y.stage = stage /\ y.chunks = x.chunks /\ y.groups = gs
      /\ y.sources = s /\ y.partials = x.partials /\ y.outcome = x.outcome
  BY DEF Good, Shaped, Pcs, Asks
<1> HIDE DEF y
<1>2. Evidence(y)
  BY <1>1 DEF Good, Evidence
<1>3. Searching(y, q)
  BY <1>1 DEF Good, Searching
<1>4. QED
  BY <1>1, <1>2, <1>3 DEF Good, y, Asking

LEMMA FailedGood ==
  ASSUME NEW x, NEW q, Good(x, q), x.pc \in Asking, NEW error PROVE Good(GenerationFailed(x, error), q)
<1>1. /\ Shaped(x) /\ x.chunks \in Seq(ChunkOf(q)) /\ Evidence(x) /\ Cites(x.outcome, q)
      /\ (Synthesis(q) => OneVersion(x.chunks))
  BY DEF Good, Searching
<1>2. QED
  BY <1>1, EndedGood, NextPartialGood DEF GenerationFailed

LEMMA SearchFailedGood ==
  ASSUME NEW r \in Requests, Good(run[r], ask[r]), run[r].pc \in {"embed", "search"}, NEW code
  PROVE  Good(SearchFailed(r, code), ask[r])
<1>1. <<>> \in Seq(ChunkOf(ask[r])) /\ Shaped(run[r])
  BY EmptySeq DEF Good
<1>2. QED
  BY <1>1, CollectedGood, EndedGood DEF SearchFailed

LEMMA GoodStep == AnswerInv /\ GoodRuns /\ [Next]_vars => GoodRuns'
<1> SUFFICES ASSUME AnswerInv, GoodRuns, [Next]_vars PROVE GoodRuns'
  OBVIOUS
<1>1. CASE UNCHANGED vars
  BY <1>1 DEF vars, GoodRuns
<1>2. CASE Next
  <2> PICK r \in Requests : Step(r) \/ Cancelled(r)
    BY <1>2 DEF Next
  <2> DEFINE q == ask[r]
  <2>s. DOMAIN run = Requests /\ Good(run[r], q) /\ Shaped(run[r]) /\ q \in Question
    <3>1. DOMAIN run = Requests /\ ask[r] \in Questions[r] /\ Good(run[r], q)
      BY DEF AnswerInv, RunInv, TypeOK, GoodRuns
    <3>2. Questions[r] \subseteq Question
      BY AnswerConstants
    <3>3. QED
      BY <3>1, <3>2 DEF Good
  <2>g. \A x : ask' = ask /\ run' = [run EXCEPT ![r] = x] /\ Good(x, q) => GoodRuns'
    BY <2>s DEF GoodRuns
  <2>1. CASE Receive(r)
    <3>1. CASE TokenError(q) # "none" \/ BodyError(q) # "none"
      BY <2>1, <3>1, <2>s, <2>g, EndedGood DEF Receive
    <3>2. CASE TokenError(q) = "none" /\ BodyError(q) = "none"
      <4> DEFINE y == [run[r] EXCEPT !.pc = "embed"]
      <4>1. run' = [run EXCEPT ![r] = y] /\ ask' = ask /\ run[r].pc = "receive"
        BY <2>1, <3>2 DEF Receive
      <4>2. q.files \in Seq(ToSet(q.files)) /\ q.files # <<>>
        <5>1. q.files \in Seq(Files)
          BY <2>s DEF Question
        <5>2. q.files \in [1..Len(q.files) -> ToSet(q.files)] /\ Len(q.files) \in Nat
          BY <5>1 DEF ToSet
        <5>3. q.files \in Seq(ToSet(q.files))
          BY <5>2, FunctionIsSeq
        <5>4. QED
          BY <3>2, <5>3 DEF BodyError
      <4>3. /\ Shaped(y) /\ y.pc = "embed" /\ y.todo = q.files /\ y.chunks = run[r].chunks /\ Fresh(y)
        BY <2>s, <4>1 DEF Shaped, Pcs, Good, Searching, Fresh
      <4>4. y.outcome = run[r].outcome
        BY <2>s DEF Shaped
      <4> HIDE DEF y
      <4>5. Searching(y, q)
        BY <2>s, <4>2, <4>3 DEF Good, Searching
      <4>6. Evidence(y)
        BY <4>3, NoEvidence DEF Fresh
      <4>7. Good(y, q)
        BY <2>s, <4>3, <4>4, <4>5, <4>6 DEF Good, Asking
      <4>8. QED
        BY <2>g, <4>1, <4>7
    <3>3. QED
      BY <3>1, <3>2
  <2>2. ASSUME NEW hits \in HitLists, Searched(r, hits) PROVE GoodRuns'
    <3>1. run[r].pc = "search" /\ ask' = ask /\ ValidHits(hits, SearchedFiles(r), Limit(r))
      BY <2>2 DEF Searched
    <3>2. Searching(run[r], q) /\ Fresh(run[r]) /\ run[r].todo \in Seq(ToSet(q.files)) /\ run[r].todo # <<>>
      BY <2>s, <3>1 DEF Good, Searching
    <3>3. Head(run[r].todo) \in ToSet(q.files)
      BY <3>2, HeadTailProperties
    <3>4. SearchedFiles(r) \subseteq ToSet(q.files)
      BY <3>3 DEF SearchedFiles
    <3>5. Chunks(hits) \in Seq(ChunkOf(q))
      BY <3>1, <3>4, ChunksOfHits
    <3>6. CASE Synthesis(q)
      BY <2>2, <2>s, <2>g, <3>1, <3>5, <3>6, CollectedGood DEF Searched
    <3>7. CASE ~ Synthesis(q) /\ hits = <<>>
      BY <2>2, <2>s, <2>g, <3>7, EndedGood DEF Searched, Insufficient
    <3>8. CASE ~ Synthesis(q) /\ hits # <<>>
      <4> DEFINE y == [run[r] EXCEPT !.pc = "prompt", !.todo = <<>>, !.chunks = Chunks(hits)]
      <4>1. run' = [run EXCEPT ![r] = y]
        BY <2>2, <3>8 DEF Searched
      <4>2. Shaped(y) /\ y.pc = "prompt" /\ y.chunks = Chunks(hits) /\ Fresh(y) /\ y.outcome = run[r].outcome
        BY <2>s, <3>2 DEF Shaped, Pcs, Fresh
      <4> HIDE DEF y
      <4>3. Searching(y, q) /\ Evidence(y)
        BY <3>5, <4>2, NoEvidence DEF Searching, Fresh
      <4>4. Good(y, q)
        BY <2>s, <3>8, <4>2, <4>3 DEF Good
      <4>5. QED
        BY <2>g, <3>1, <4>1, <4>4
    <3>9. QED
      BY <3>6, <3>7, <3>8
  <2>3. ASSUME NEW code, run[r].pc \in {"embed", "search"} PROVE Good(SearchFailed(r, code), q)
    BY <2>3, <2>s, SearchFailedGood
  <2>e1. ASSUME NEW fault, EmbeddingFails(r, fault) PROVE GoodRuns'
    <3> DEFINE code == EmbeddingCode(EmbeddingError(fault))
    <3>1. run[r].pc \in {"embed", "search"} /\ ask' = ask /\ run' = [run EXCEPT ![r] = SearchFailed(r, code)]
      BY <2>e1 DEF EmbeddingFails
    <3>2. Good(SearchFailed(r, code), q)
      BY <2>3, <3>1
    <3> DEFINE x == SearchFailed(r, code)
    <3> HIDE DEF code, x
    <3>3. QED
      BY <2>g, <3>1, <3>2 DEF x
  <2>e2. ASSUME NEW fault, IndexFails(r, fault) PROVE GoodRuns'
    <3> DEFINE code == IndexCode(IndexError(fault))
    <3>1. run[r].pc \in {"embed", "search"} /\ ask' = ask /\ run' = [run EXCEPT ![r] = SearchFailed(r, code)]
      BY <2>e2 DEF IndexFails
    <3>2. Good(SearchFailed(r, code), q)
      BY <2>3, <3>1
    <3> DEFINE x == SearchFailed(r, code)
    <3> HIDE DEF code, x
    <3>3. QED
      BY <2>g, <3>1, <3>2 DEF x
  <2>e3. CASE SearchBreaks(r)
    <3> DEFINE x == SearchFailed(r, ServiceCode("chunk_search_failed"))
    <3>1. run[r].pc \in {"embed", "search"} /\ ask' = ask /\ run' = [run EXCEPT ![r] = x]
      BY <2>e3 DEF SearchBreaks
    <3>2. Good(x, q)
      BY <2>3, <3>1
    <3> HIDE DEF x
    <3>3. QED
      BY <2>g, <3>1, <3>2
  <2>e4. ASSUME NEW hits, SearchRefused(r, hits) PROVE GoodRuns'
    <3> DEFINE code == IndexCode("InvalidVectorSearchResultError")
    <3>1. run[r].pc \in {"embed", "search"} /\ ask' = ask /\ run' = [run EXCEPT ![r] = SearchFailed(r, code)]
      BY <2>e4 DEF SearchRefused
    <3>2. Good(SearchFailed(r, code), q)
      BY <2>3, <3>1
    <3> DEFINE x == SearchFailed(r, code)
    <3> HIDE DEF code, x
    <3>3. QED
      BY <2>g, <3>1, <3>2 DEF x
  <2>e5. CASE Embedded(r)
    <3> DEFINE y == [run[r] EXCEPT !.pc = "search"]
    <3>1. run' = [run EXCEPT ![r] = y] /\ ask' = ask /\ run[r].pc = "embed"
      BY <2>e5 DEF Embedded
    <3>2. /\ Shaped(y) /\ y.pc = "search" /\ y.todo = run[r].todo /\ y.chunks = run[r].chunks /\ Fresh(y)
          /\ y.outcome = run[r].outcome
      BY <2>s, <3>1 DEF Shaped, Pcs, Good, Searching, Fresh
    <3> HIDE DEF y
    <3>3. Searching(y, q) /\ Evidence(y)
      BY <2>s, <3>1, <3>2, NoEvidence DEF Good, Searching, Fresh
    <3>4. Good(y, q)
      BY <2>s, <3>2, <3>3 DEF Good, Asking
    <3>5. QED
      BY <2>g, <3>1, <3>4
  <2>p. run[r].pc \in Asking => /\ AreGroups(run[r].groups, PointsIn(run[r].chunks))
                                /\ FinalSources(run[r].partials) \in Sources(PointsIn(run[r].chunks))
                                /\ IsGroup(run[r].chunks, PointsIn(run[r].chunks))
    BY <2>s, ChunkPoints DEF Good, Evidence, Searching, IsGroup
  <2>a. ASSUME NEW stage, NEW s, NEW gs, run[r].pc = "prompt", AreGroups(gs, PointsIn(run[r].chunks)),
               s \in Sources(PointsIn(run[r].chunks)), stage = "final" => s = FinalSources(run[r].partials)
        PROVE  Good([Asks(r, stage, s) EXCEPT !.groups = gs], q)
    BY <2>a, <2>s, AsksGood DEF Asking
  <2>k. \A stage, s : Asks(r, stage, s) = [Asks(r, stage, s) EXCEPT !.groups = run[r].groups]
    BY <2>s DEF Asks, Shaped
  <2>4. CASE LookupPrompt(r)
    <3>1. /\ run[r].pc = "prompt" /\ ask' = ask
          /\ run' = [run EXCEPT ![r] = Asks(r, "lookup", Prompt(run[r].chunks))]
      BY <2>4 DEF LookupPrompt
    <3>2. Prompt(run[r].chunks) \in Sources(PointsIn(run[r].chunks))
      BY <2>p, <3>1, PromptIs DEF Sources, Source, Asking
    <3>3. Good(Asks(r, "lookup", Prompt(run[r].chunks)), q)
      BY <2>a, <2>k, <2>p, <3>1, <3>2 DEF Asking
    <3>4. QED
      BY <2>g, <3>1, <3>3
  <2>5. CASE PartialPrompt(r)
    <3> DEFINE gs == run[r].groups
               P == PointsIn(run[r].chunks)
    <3>1. /\ run[r].pc = "prompt" /\ ask' = ask /\ gs # <<>>
          /\ run' = [run EXCEPT ![r] = [Asks(r, "partial", Prompt(Head(gs))) EXCEPT !.groups = Tail(@)]]
      BY <2>5 DEF PartialPrompt
    <3>2. AreGroups(gs, P)
      BY <2>p, <3>1 DEF Asking
    <3>3. IsGroup(Head(gs), P) /\ AreGroups(Tail(gs), P)
      <4> HIDE DEF gs, P
      <4>1. gs \in Seq({gs[k] : k \in DOMAIN gs}) /\ \A k \in DOMAIN gs : IsGroup(gs[k], P)
        BY <3>2 DEF AreGroups
      <4>2. Len(gs) \in Nat \ {0} /\ DOMAIN gs = 1..Len(gs) /\ Head(gs) = gs[1]
        BY <3>1, <4>1
      <4>3. /\ Tail(gs) \in Seq({gs[k] : k \in DOMAIN gs}) /\ Len(Tail(gs)) = Len(gs) - 1
            /\ \A k \in 1..(Len(gs) - 1) : Tail(gs)[k] = gs[k + 1]
        BY <3>1, <4>1, HeadTailProperties
      <4>4. DOMAIN Tail(gs) = 1..(Len(gs) - 1)
        BY <4>2, <4>3
      <4>5. \A k \in DOMAIN Tail(gs) : IsGroup(Tail(gs)[k], P)
        BY <4>1, <4>2, <4>3, <4>4
      <4>6. Tail(gs) \in Seq({Tail(gs)[k] : k \in DOMAIN Tail(gs)})
        <5>1. Len(gs) - 1 \in Nat /\ Tail(gs) = [k \in 1..(Len(gs) - 1) |-> Tail(gs)[k]]
          <6> DEFINE T == Tail(gs)
          <6>1. T \in Seq({gs[k] : k \in DOMAIN gs}) /\ Len(T) = Len(gs) - 1
            BY <4>3
          <6> HIDE DEF T
          <6>2. T \in [1..Len(T) -> {gs[k] : k \in DOMAIN gs}]
            BY <6>1
          <6>3. T = [k \in 1..(Len(gs) - 1) |-> T[k]]
            BY <6>1, <6>2
          <6>4. QED
            BY <4>2, <6>3 DEF T
        <5>2. QED
          BY <4>4, <5>1, OwnSeq
      <4>7. IsGroup(Head(gs), P)
        BY <4>1, <4>2
      <4>8. QED
        BY <4>5, <4>6, <4>7 DEF AreGroups
    <3>4. Prompt(Head(gs)) \in Sources(P)
      BY <3>3, PromptIs DEF Sources, Source
    <3>5. [Asks(r, "partial", Prompt(Head(gs))) EXCEPT !.groups = Tail(@)]
            = [Asks(r, "partial", Prompt(Head(gs))) EXCEPT !.groups = Tail(gs)]
      BY <2>s DEF Asks, Shaped
    <3>6. Good([Asks(r, "partial", Prompt(Head(gs))) EXCEPT !.groups = Tail(gs)], q)
      BY <2>a, <3>1, <3>3, <3>4
    <3>7. QED
      BY <2>g, <3>1, <3>5, <3>6
  <2>6. CASE FinalPrompt(r)
    <3> DEFINE F == FinalSources(run[r].partials)
    <3>1. run[r].pc = "prompt" /\ ask' = ask
      BY <2>6 DEF FinalPrompt
    <3>2. CASE F = <<>> \/ FinalPromptFails(F)
      BY <2>6, <2>s, <2>g, <3>2, EndedGood DEF FinalPrompt, Insufficient
    <3>3. CASE F # <<>> /\ ~ FinalPromptFails(F)
      <4>1. run' = [run EXCEPT ![r] = Asks(r, "final", F)]
        BY <2>6, <3>3 DEF FinalPrompt
      <4>2. Good(Asks(r, "final", F), q)
        BY <2>a, <2>k, <2>p, <3>1 DEF Asking
      <4>3. QED
        BY <2>g, <3>1, <4>1, <4>2
    <3>4. QED
      BY <3>2, <3>3
  <2>o. \A pc : pc \in {"wait", "call"} /\ run[r].pc \in Asking => Good([run[r] EXCEPT !.pc = pc], q)
    BY <2>s, OnGood DEF Pcs
  <2>7. ASSUME NEW est, Ask(r, est) PROVE GoodRuns'
    BY <2>7, <2>g, <2>o DEF Ask, Asking
  <2>8. ASSUME NEW est, OutOfBudget(r, est) PROVE GoodRuns'
    BY <2>8, <2>s, <2>g, FailedGood DEF OutOfBudget, Asking
  <2>9. CASE CallStarts(r)
    BY <2>9, <2>g, <2>o DEF CallStarts, Asking
  <2>f. ASSUME NEW error, run[r].pc \in {"reserve", "call"} PROVE Good(GenerationFailed(run[r], error), q)
    BY <2>f, <2>s, FailedGood DEF Asking
  <2>10. ASSUME NEW reply \in Replies, NEW in, NEW out, CallReturns(r, reply, in, out) PROVE GoodRuns'
    <3>1. reply \in Reply /\ run[r].pc = "call" /\ ask' = ask
      BY <2>10, AnswerConstants DEF CallReturns
    <3>2. Good(Replied(run[r], reply), q)
      BY <2>s, <3>1, RepliedGood
    <3>3. Good(GenerationFailed(run[r], "GenerationBudgetExceededError"), q)
      BY <2>f, <3>1
    <3> DEFINE failed == GenerationFailed(run[r], "GenerationBudgetExceededError")
               replied == Replied(run[r], reply)
    <3>4. run' = [run EXCEPT ![r] = failed] \/ run' = [run EXCEPT ![r] = replied]
      <4>1. CASE Exceeded(r, in, out)
        BY <2>10, <4>1 DEF CallReturns
      <4>2. CASE ~ Exceeded(r, in, out)
        BY <2>10, <4>2 DEF CallReturns
      <4>3. QED
        BY <4>1, <4>2
    <3> HIDE DEF failed, replied
    <3>5. QED
      BY <2>g, <3>1, <3>2, <3>3, <3>4 DEF failed, replied
  <2>11. ASSUME NEW fault, CallFails(r, fault) PROVE GoodRuns'
    <3> DEFINE x == GenerationFailed(run[r], ClaudeError(fault))
    <3>1. run[r].pc = "call" /\ ask' = ask /\ run' = [run EXCEPT ![r] = x]
      BY <2>11 DEF CallFails
    <3>2. Good(x, q)
      BY <2>f, <3>1
    <3> HIDE DEF x
    <3>3. QED
      BY <2>g, <3>1, <3>2
  <2>12. CASE CallUnusable(r)
    <3> DEFINE x == GenerationFailed(run[r], "InvalidGenerationResponseError")
    <3>1. run[r].pc = "call" /\ ask' = ask /\ run' = [run EXCEPT ![r] = x]
      BY <2>12 DEF CallUnusable
    <3>2. Good(x, q)
      BY <2>f, <3>1
    <3> HIDE DEF x
    <3>3. QED
      BY <2>g, <3>1, <3>2
  <2>13. CASE CallBreaks(r)
    <3>1. run[r].pc = "call" /\ ask' = ask
      BY <2>13 DEF CallBreaks
    <3>2. CASE run[r].stage = "partial"
      <4>1. run' = [run EXCEPT ![r] = GenerationFailed(run[r], "any")]
        BY <2>13, <3>2 DEF CallBreaks, GenerationFailed
      <4>2. QED
        <5>1. Good(GenerationFailed(run[r], "any"), q)
          BY <2>f, <3>1
        <5>2. QED
          BY <2>g, <3>1, <4>1, <5>1
    <3>3. CASE run[r].stage # "partial"
      BY <2>13, <2>s, <2>g, <3>1, <3>3, EndedGood DEF CallBreaks
    <3>4. QED
      BY <3>2, <3>3
  <2>14. CASE Cancelled(r)
    BY <2>14, <2>s, <2>g, EndedGood DEF Cancelled
  <2>15. CASE Step(r)
    BY <2>15, <2>1, <2>2, <2>4, <2>5, <2>6, <2>7, <2>8, <2>9, <2>10, <2>11, <2>12, <2>13,
       <2>e1, <2>e2, <2>e3, <2>e4, <2>e5 DEF Step
  <2>16. QED
    BY <2>14, <2>15
<1>3. QED
  BY <1>1, <1>2

-----------------------------------------------------------------------------
(* What an answer cites                                                    *)

\* What the numbers of a partial answer mean once the sources are the final ones.
LEMMA MeaningKept ==
  ASSUME NEW P, NEW s \in Sources(P), NEW p \in Partial(P), Means(p, s)
  PROVE  /\ ToSet(p.text) \subseteq {s[j].no : j \in DOMAIN s}
         /\ PointsOf(p.text, s) = p.said
<1>1. DOMAIN s = 1..Len(s) /\ \A k \in 1..Len(s) : s[k].no = k
  BY SourcesAre
<1>2. {s[j].no : j \in DOMAIN s} = DOMAIN s
  BY <1>1
<1>3. \A i \in DOMAIN p.text : p.text[i] \in 1..Len(s)
  BY <1>1 DEF Means, ToSet
<1>4. \A i \in DOMAIN p.text : SourceNo(s, p.text[i]) = s[p.text[i]]
  BY <1>3, SourceNoIs
<1>5. PointsOf(p.text, s) = p.said
  BY <1>4 DEF PointsOf, Means
<1>6. QED
  BY <1>2, <1>5 DEF Means

LEMMA GoodKeepsMeaning == GoodRuns => CitationsKeepMeaning
<1> SUFFICES ASSUME GoodRuns, NEW r \in Requests
    PROVE  /\ run[r].stage = "final" =>
                \A k \in DOMAIN run[r].partials :
                  /\ ToSet(run[r].partials[k].text) \subseteq {run[r].sources[j].no : j \in DOMAIN run[r].sources}
                  /\ PointsOf(run[r].partials[k].text, run[r].sources) = run[r].partials[k].said
           /\ \A k \in DOMAIN run[r].outcome.cites :
                run[r].outcome.cites[k].point \notin Foreign
                /\ FileOf[run[r].outcome.cites[k].point] \in ToSet(ask[r].files)
  BY DEF CitationsKeepMeaning
<1> DEFINE x == run[r]
           P == PointsIn(x.chunks)
<1>1. Evidence(x) /\ Cites(x.outcome, ask[r])
  BY DEF GoodRuns, Good
<1>2. ASSUME x.stage = "final", NEW k \in DOMAIN x.partials
      PROVE  /\ ToSet(x.partials[k].text) \subseteq {x.sources[j].no : j \in DOMAIN x.sources}
             /\ PointsOf(x.partials[k].text, x.sources) = x.partials[k].said
  <2>1. x.sources \in Sources(P) /\ x.partials \in Seq(Partial(P)) /\ Means(x.partials[k], x.sources)
    BY <1>1, <1>2 DEF Evidence
  <2>2. x.partials[k] \in Partial(P)
    BY <2>1, ElementOfSeq, LenProperties
  <2> HIDE DEF x, P
  <2>3. QED
    BY <2>1, <2>2, MeaningKept
<1>3. \A k \in DOMAIN x.outcome.cites : x.outcome.cites[k].point \in ValidPoints(ask[r])
  BY <1>1 DEF Cites, PointsIn
<1>4. QED
  BY <1>2, <1>3 DEF ValidPoints

LEMMA GoodOneVersion == GoodRuns => SynthesisOneVersion
  BY DEF GoodRuns, Good, Cites, OneVersionOf, PointsIn, SynthesisOneVersion

\* Whatever is asked, found and answered, what a text says about a number the number still
\* means in the final prompt, and an answer cites points of the files of its question only.
THEOREM AnswersKeepMeaning == Spec => []CitationsKeepMeaning
  BY AnswerStart, AnswerStep, GoodStart, GoodStep, GoodKeepsMeaning, PTL DEF Spec

\* No synthesis rests on two versions of a file, whatever the index answers while a file is
\* being replaced in it.
THEOREM SynthesesKeepVersion == Spec => []SynthesisOneVersion
  BY AnswerStart, AnswerStep, GoodStart, GoodStep, GoodOneVersion, PTL DEF Spec

=============================================================================
