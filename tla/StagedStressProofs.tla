---------------------------- MODULE StagedStressProofs ----------------------------
(********************************************************************************)
(* Proofs about StagedStress, for every set of valid plans: what was sent is    *)
(* accounted for (TrafficAccounted), and the verdict of the README is that of   *)
(* the traffic (VerdictIsTrue).                                                 *)
(*                                                                              *)
(* StressInv has seven parts.  Typed says where the loops of a stage are in     *)
(* what the stage declares; Flow and Counts where a request is that was         *)
(* submitted; Reported and Clean what the reports say of it; Budget that what   *)
(* was summarized and what the plan has left is within the plan; Rows that the  *)
(* stages behind have their rows.  Each part has a lemma for each action.       *)
(*                                                                              *)
(* Sums over levels, stages and rows are numbers of pairs, so their laws        *)
(* follow from those of cardinality.                                            *)
(********************************************************************************)
EXTENDS StagedStress, FiniteSetTheorems, SequenceTheorems, WellFoundedInduction, NaturalsInduction, TLAPS

-----------------------------------------------------------------------------
(********************************************************************************)
(* Sums.                                                                        *)
(********************************************************************************)

\* Sums are counted: n[x] pairs for each x of S.
Pairs(n, S) == UNION {{x} \X (1..n[x]) : x \in S}
SumOver(n, S) == Cardinality(Pairs(n, S))

\* A sum has finitely many pairs and is a number.
LEMMA SumFinite ==
  ASSUME NEW S, NEW n, IsFiniteSet(S), \A x \in S : n[x] \in Nat
  PROVE  IsFiniteSet(Pairs(n, S)) /\ SumOver(n, S) \in Nat
<1>1. \A x \in S : IsFiniteSet({x} \X (1..n[x]))
  <2>1. ASSUME NEW x \in S PROVE IsFiniteSet({x} \X (1..n[x]))
    <3>1. IsFiniteSet({x})
      BY FS_Singleton
    <3>2. 1 \in Int /\ n[x] \in Int
      OBVIOUS
    <3>3. IsFiniteSet(1..n[x])
      BY <3>2, FS_Interval
    <3>4. QED
      BY <3>1, <3>3, FS_Product
  <2>2. QED
    BY <2>1
<1>2. IsFiniteSet({{x} \X (1..n[x]) : x \in S})
  <2> DEFINE g == [x \in S |-> {x} \X (1..n[x])]
  <2>1. g \in Surjection(S, {{x} \X (1..n[x]) : x \in S})
    BY DEF Surjection
  <2>2. QED
    BY <2>1, FS_Surjection
<1>3. \A T \in {{x} \X (1..n[x]) : x \in S} : IsFiniteSet(T)
  BY <1>1
<1>4. IsFiniteSet(Pairs(n, S))
  BY <1>2, <1>3, FS_UNION DEF Pairs
<1>5. QED
  BY <1>4, FS_CardinalityType DEF SumOver

\* Nothing adds up to nothing.
LEMMA SumEmpty == ASSUME NEW n PROVE SumOver(n, {}) = 0
<1>1. Pairs(n, {}) = {}
  BY DEF Pairs
<1>2. QED
  BY <1>1, FS_EmptySet DEF SumOver

\* An element more adds its number.
LEMMA SumAdds ==
  ASSUME NEW S, NEW n, NEW x, IsFiniteSet(S), x \notin S, \A y \in S \cup {x} : n[y] \in Nat
  PROVE  SumOver(n, S \cup {x}) = n[x] + SumOver(n, S)
<1>1. IsFiniteSet(Pairs(n, S)) /\ SumOver(n, S) \in Nat
  BY SumFinite
<1> DEFINE P == {x} \X (1..n[x])
<1>2. Pairs(n, S \cup {x}) = P \cup Pairs(n, S)
  BY DEF Pairs
<1>3. P \cap Pairs(n, S) = {}
  BY DEF Pairs
<1>4. n[x] \in Nat /\ IsFiniteSet({x}) /\ Cardinality({x}) = 1
  BY FS_Singleton
<1>5. IsFiniteSet(1..n[x]) /\ Cardinality(1..n[x]) = n[x]
  <2>1. 1 \in Int /\ n[x] \in Int
    BY <1>4
  <2>2. IsFiniteSet(1..n[x]) /\ Cardinality(1..n[x]) = IF 1 > n[x] THEN 0 ELSE n[x] - 1 + 1
    BY <2>1, FS_Interval
  <2>3. QED
    BY <1>4, <2>2
<1>6. IsFiniteSet(P) /\ Cardinality(P) = n[x]
  <2>1. IsFiniteSet(P) /\ Cardinality(P) = Cardinality({x}) * Cardinality(1..n[x])
    BY <1>4, <1>5, FS_Product
  <2>2. QED
    BY <1>4, <1>5, <2>1
<1> HIDE DEF P
<1>7. Cardinality(P \cup Pairs(n, S)) = Cardinality(P) + Cardinality(Pairs(n, S)) - Cardinality(P \cap Pairs(n, S))
  BY <1>1, <1>6, FS_Union
<1>8. Cardinality(P \cap Pairs(n, S)) = 0
  BY <1>3, FS_EmptySet
<1>9. QED
  <2> DEFINE a == SumOver(n, S)
             b == SumOver(n, S \cup {x})
             k == n[x]
  <2>1. b = Cardinality(P) + Cardinality(Pairs(n, S)) - 0
    BY <1>2, <1>7, <1>8 DEF SumOver
  <2>2. a = Cardinality(Pairs(n, S)) /\ a \in Nat /\ k \in Nat /\ Cardinality(P) = k
    BY <1>1, <1>4, <1>6 DEF SumOver
  <2> HIDE DEF a, b, k
  <2>3. b = k + a
    BY <2>1, <2>2
  <2>4. QED
    BY <2>3 DEF a, b, k

\* Equal numbers have equal sums.
LEMMA SumSame ==
  ASSUME NEW S, NEW n, NEW m, \A x \in S : n[x] = m[x]
  PROVE  SumOver(n, S) = SumOver(m, S)
<1>1. Pairs(n, S) = Pairs(m, S)
  BY DEF Pairs
<1>2. QED
  BY <1>1 DEF SumOver

\* The sum of a function is that over its domain.
LEMMA SumOfOver == ASSUME NEW n PROVE SumOf(n) = SumOver(n, DOMAIN n)
  BY DEF SumOf, SumOver, Pairs

-----------------------------------------------------------------------------
(********************************************************************************)
(* Arithmetic, the parts of the invariant, and the stages of a plan.            *)
(********************************************************************************)

\* A product grows with its factor.
LEMMA Times == ASSUME NEW a \in Nat, NEW b \in Nat, NEW s \in Nat, a <= b PROVE a * s <= b * s
  OBVIOUS

\* Division with a remainder.
LEMMA Division ==
  ASSUME NEW a \in Nat, NEW s \in Nat \ {0} PROVE \E q \in Nat : a = q * s + (a % s) /\ a % s \in Nat /\ a % s < s
<1> DEFINE q == a \div s
           r == a % s
<1>1. a = q * s + r /\ q \in Nat /\ r \in Nat /\ r < s
  BY Z3
<1> HIDE DEF q, r
<1>2. QED
  BY <1>1 DEF r

\* Of two multiples of s the greater is greater by s at least.
LEMMA StepApart ==
  ASSUME NEW a \in Nat, NEW b \in Nat, NEW s \in Nat \ {0}, a % s = 0, b % s = 0, a < b
  PROVE  a + s <= b
<1>1. PICK p \in Nat : a = p * s + (a % s)
  BY Division
<1>2. PICK q \in Nat : b = q * s + (b % s)
  BY Division
<1>3. p < q
  <2>1. q <= p => q * s <= p * s
    BY Times
  <2>2. QED
    BY <1>1, <1>2, <2>1
<1>4. (p + 1) * s <= q * s
  BY <1>3, Times
<1>5. (p + 1) * s = p * s + s
  OBVIOUS
<1>6. QED
  BY <1>1, <1>2, <1>4, <1>5

\* A multiple of s, and s more, is another.
LEMMA NextMultiple == ASSUME NEW a \in Nat, NEW s \in Nat \ {0}, a % s = 0 PROVE (a + s) % s = 0
<1>2. PICK p \in Nat : a = p * s + (a % s)
  BY Division
<1> DEFINE b == a + s
<1>3. b \in Nat
  OBVIOUS
<1> HIDE DEF b
<1>4. PICK q \in Nat : b = q * s + (b % s) /\ b % s \in Nat /\ b % s < s
  BY <1>3, Division
<1> DEFINE r == b % s
<1>r. b = q * s + r /\ r \in Nat /\ r < s
  BY <1>4
<1> HIDE DEF r
<1>5. b = (p + 1) * s
  BY <1>2 DEF b
<1>6. q <= p + 1
  <2>1. p + 2 <= q => (p + 2) * s <= q * s
    BY Times
  <2>2. (p + 2) * s = (p + 1) * s + s
    OBVIOUS
  <2>3. QED
    BY <1>r, <1>5, <2>1, <2>2
<1>7. ~ (q <= p)
  <2>1. q <= p => q * s <= p * s
    BY Times
  <2>2. (p + 1) * s = p * s + s
    OBVIOUS
  <2>3. QED
    BY <1>r, <1>5, <2>1, <2>2
<1>8. q = p + 1
  BY <1>6, <1>7
<1>9. r = 0
  BY <1>r, <1>5, <1>8
<1>10. QED
  BY <1>9 DEF b, r
\* The modes of a stage, the rows of its report, and where the runner's thread can be.
Modes == {"burst", "interval", "batch", "ramp", "soak", "chaos"}
Row == [stage : Nat \ {0}, level : Nat, count : Nat, errors : Nat,
        status : {"skipped", "stopped", "failed", "degraded", "passed"}]
Running == InStage \cup {"summarize"}
Open == InStage \ {"batch"}
Places == Running \cup Over \cup {"preflight", "next", "after", "postflight", "shutdown"}

TypeOK ==
  /\ plan \in Plans /\ stage \in Nat \ {0} /\ pc \in Places /\ level \in Nat
  /\ submitted \in Nat /\ left \in Nat /\ ticks \in Nat /\ spikes \in Nat /\ due \in BOOLEAN /\ capped \in BOOLEAN
  /\ queued \in Nat /\ flying \in Nat /\ finished \in [Results -> Nat] /\ records \in [Results -> Nat]
  /\ sent \in Nat /\ logged \in [Results -> Nat]
  /\ summaries \in Seq(Row) /\ failedInRow \in Nat
  /\ stopReason \in {"none", "consecutive_failed_stages_exceeded", "external_health_failed"}
  /\ health \in [preflight : BOOLEAN, postflight : BOOLEAN] /\ error \in BOOLEAN
  /\ written \in Nat /\ readme \in {"none", "failed", "degraded", "passed"}
  /\ up \in BOOLEAN /\ memoryLow \in BOOLEAN /\ outages \in Nat /\ pressure \in Nat /\ interrupts \in Nat

\* Where the thread is tells the mode of the stage.
ModeAt ==
  /\ pc = "interval" => Now.mode = "interval"
  /\ pc = "batch" => Now.mode = "batch"
  /\ pc \in {"soak", "refill"} => Now.mode = "soak"
  /\ pc \in {"chaos", "tick", "reap"} => Now.mode = "chaos"
  /\ pc = "waiting" => Now.mode \in {"interval", "soak"}

\* How far a loop has come in what its stage declares.
Progress ==
  CASE Now.mode = "burst" -> submitted = Now.total
    [] Now.mode = "ramp" -> level \in Levels(Now) /\ submitted = level * Now.perWorker
    [] Now.mode = "interval" ->
         submitted <= Now.total /\ (pc \in {"collect", "summarize"} /\ pressure = 0 => submitted = Now.total)
    [] Now.mode = "batch" ->
         /\ submitted <= Now.total /\ (pc = "batch" => submitted < Now.total)
         /\ pc = "summarize" /\ pressure = 0 => submitted = Now.total
    [] Now.mode = "soak" -> Now.cap > 0 => submitted <= Now.cap
    [] Now.mode = "chaos" ->
         /\ ticks <= Now.ticks /\ spikes <= Now.spikes /\ (pc = "tick" => left > 0)
         /\ submitted + left <= ticks * Now.tps + spikes * Now.spike

\* A stage that runs is one of the plan, and memory is low only after it has run short.
InPlan ==
  /\ memoryLow => pressure > 0
  /\ pc \in Running \cup {"after"} => stage \in DOMAIN plan
  /\ pc \in Running => ModeAt /\ Progress

\* A request that was sent is on its way or logged; where nobody submits there is none in the pool,
\* unless Ctrl-C has come twice.  Only an error or a reason ends the stages early.
Flow ==
  /\ sent = Total(logged) + flying
  /\ interrupts > 0 => error
  /\ pc \notin Over \cup {"shutdown"} => ~error
  /\ pc = "shutdown" => interrupts > 0
  /\ interrupts < 2 /\ pc \notin Open \cup {"shutdown"} => queued = 0 /\ flying = 0
  /\ ~error /\ pc \notin Open => finished = None
  /\ pc \in {"postflight", "outputs", "campaign", "done"} /\ ~error /\ stopReason = "none" => stage > Len(plan)

\* What has been logged is in a summary, in the records of the stage, or finished and not yet taken.
Held == IF pc \in Running THEN records ELSE None
Counts ==
  /\ ~error => Total(logged) = Counted + Total(Held) + Total(finished)
  /\ pc \in Running => submitted = queued + flying + Total(finished) + Total(records)

\* What the outputs and the README say.
Reported ==
  /\ pc \notin {"campaign", "done", "aborted"} => written = 0
  /\ pc \in {"campaign", "done"} /\ ~error => written = Total(logged)
  /\ pc \in {"campaign", "done"} /\ interrupts < 2 => written \in {0, Total(logged)}
  /\ pc = "done" => readme = Verdict

\* What the levels of a ramp submit, what the stages of a plan declare, what the rows of a stage count.
PerLevel(s) == [c \in Levels(s) |-> c * s.perWorker]
PerStage(p) == [i \in DOMAIN p |-> DeclaredRequests(p[i])]
LevelsFrom(s, n) == {c \in Levels(s) : c >= n}
LevelSum(s, n) == SumOver(PerLevel(s), LevelsFrom(s, n))
StagesFrom(p, n) == {i \in DOMAIN p : i >= n}
Rest(p, n) == SumOver(PerStage(p), StagesFrom(p, n))
RowsOf(rows, i) == {k \in DOMAIN rows : rows[k].stage = i}
CountsOf(rows) == [k \in DOMAIN rows |-> rows[k].count]
RowSum(rows, i) == SumOver(CountsOf(rows), RowsOf(rows, i))

\* What is left to declare: that of the stage, or of the levels of its ramp, and that of the stages after it.
ToDo == IF Now.mode = "ramp" THEN LevelSum(Now, level) ELSE DeclaredRequests(Now)
AllCapped(p) == \A i \in DOMAIN p : p[i].mode = "soak" => p[i].cap > 0
Left ==
  CASE pc \in {"preflight", "next"} -> Rest(plan, stage)
    [] pc \in Running -> ToDo + Rest(plan, stage + 1)
    [] pc = "after" -> Rest(plan, stage + 1)
    [] OTHER -> 0
\* With what is left, the summaries stay within the plan; so does what is sent and queued.
Budget == ~error /\ AllCapped(plan) => Counted + Left <= Declared(plan)
Bounded == AllCapped(plan) => sent + queued <= Declared(plan)

\* A stage that is over has its rows: they count what it declares unless one is bad or the memory ran short,
\* and a ramp has been at its last level.
Fine(rows, i) == \A k \in RowsOf(rows, i) : rows[k].status \notin Bad
AtTop(rows, s, i) == \E k \in RowsOf(rows, i) : rows[k].level \in Levels(s) /\ rows[k].level + s.step > s.max
Complete(s, i) ==
  /\ RowsOf(summaries, i) # {}
  /\ pressure = 0 /\ Fine(summaries, i) /\ s.mode \notin Timed => RowSum(summaries, i) = DeclaredRequests(s)
  /\ s.mode = "ramp" /\ Fine(summaries, i) => AtTop(summaries, s, i)

\* Every stage before the one at hand is complete; the levels of a ramp so far and those to come are all of it.
Rows ==
  ~error =>
  /\ \A k \in DOMAIN summaries :
       /\ summaries[k].stage \in DOMAIN plan /\ summaries[k].stage <= stage
       /\ pc \in {"preflight", "next"} => summaries[k].stage < stage
       /\ pc \in Running /\ Now.mode # "ramp" => summaries[k].stage < stage
  /\ pc \in Running /\ Now.mode = "ramp" => RowSum(summaries, stage) + LevelSum(Now, level) = DeclaredRequests(Now)
  /\ \A i \in DOMAIN plan : i < stage \/ (i = stage /\ pc = "after") => Complete(plan[i], i)

\* As long as every row has passed, no slow or failed answer is in one.
Passed == \A k \in DOMAIN summaries : summaries[k].status \in {"passed", "skipped"}
Clean ==
  ~error /\ Passed => \A r \in {"slow", "error"} : logged[r] = Held[r] + finished[r]

\* What a parsed stage satisfies, mode by mode.
Valid(s) ==
  /\ s.mode \in Modes
  /\ s.mode \in {"burst", "interval"} => s.total \in Nat \ {0} /\ s.workers \in Nat \ {0}
  /\ s.mode = "batch" => s.total \in Nat \ {0} /\ s.size \in Nat \ {0} /\ s.workers \in Nat \ {0}
  /\ s.mode = "ramp" =>
       s.start \in Nat \ {0} /\ s.step \in Nat \ {0} /\ s.max \in Nat \ {0} /\ s.start <= s.max /\ s.perWorker \in Nat \ {0}
  /\ s.mode = "soak" => s.workers \in Nat \ {0} /\ s.cap \in Nat
  /\ s.mode = "chaos" =>
       /\ s.workers \in Nat \ {0} /\ s.tps \in Nat \ {0} /\ s.spike \in Nat \ {0} /\ s.ticks \in Nat \ {0}
       /\ s.spikes \in Nat /\ s.multiplier \in Nat \ {0}

\* The fields of a stage of a plan.
LEMMA StageFields == ASSUME NEW s \in Stage, ValidStage(s) PROVE Valid(s)
<1>1. CASE s \in [mode : {"burst", "interval"}, total : Nat, workers : Nat]
  <2>1. s.mode \in {"burst", "interval"} /\ s.total \in Nat /\ s.workers \in Nat
    BY <1>1
  <2>2. s.total > 0 /\ s.workers > 0
    BY <2>1 DEF ValidStage
  <2>3. QED
    BY <2>1, <2>2 DEF Valid, Modes
<1>2. CASE s \in [mode : {"batch"}, total : Nat, size : Nat, workers : Nat]
  <2>1. s.mode = "batch" /\ s.total \in Nat /\ s.size \in Nat /\ s.workers \in Nat
    BY <1>2
  <2>2. s.total > 0 /\ s.size > 0 /\ s.workers > 0
    BY <2>1 DEF ValidStage
  <2>3. QED
    BY <2>1, <2>2 DEF Valid, Modes
<1>3. CASE s \in [mode : {"ramp"}, start : Nat, step : Nat, max : Nat, perWorker : Nat]
  <2>1. s.mode = "ramp" /\ s.start \in Nat /\ s.step \in Nat /\ s.max \in Nat /\ s.perWorker \in Nat
    BY <1>3
  <2>2. s.start > 0 /\ s.step > 0 /\ s.start <= s.max /\ s.perWorker > 0
    BY <2>1 DEF ValidStage
  <2>3. QED
    BY <2>1, <2>2 DEF Valid, Modes
<1>4. CASE s \in [mode : {"soak"}, workers : Nat, cap : Nat]
  <2>1. s.mode = "soak" /\ s.workers \in Nat /\ s.cap \in Nat
    BY <1>4
  <2>2. s.workers > 0
    BY <2>1 DEF ValidStage
  <2>3. QED
    BY <2>1, <2>2 DEF Valid, Modes
<1>5. CASE s \in [mode : {"chaos"}, workers : Nat, tps : Nat, spike : Nat, ticks : Nat, spikes : Nat, multiplier :
        Nat]
  BY <1>5 DEF Valid, ValidStage, Modes
<1>6. QED
  BY <1>1, <1>2, <1>3, <1>4, <1>5 DEF Stage

\* The stages of a plan are valid.
LEMMA PlanStages ==
  ASSUME NEW p \in Plans
  PROVE  p \in Seq(Stage) /\ Len(p) \in Nat /\ DOMAIN p = 1..Len(p) /\ p # <<>> /\ \A i \in DOMAIN p : Valid(p[i])
<1>1. ValidPlan(p)
  BY StressConstants
<1>2. p \in Seq(Stage) /\ \A i \in DOMAIN p : p[i] \in Stage /\ ValidStage(p[i])
  BY <1>1 DEF ValidPlan
<1>3. QED
  BY <1>1, <1>2, StageFields DEF ValidPlan

\* A ramp starts at its first level, goes through every level up to its last one.
LEMMA RampLevels ==
  ASSUME NEW s, Valid(s), s.mode = "ramp"
  PROVE  /\ Levels(s) \subseteq Nat \ {0} /\ IsFiniteSet(Levels(s)) /\ s.start \in Levels(s)
         /\ \A c \in Levels(s) : s.start <= c /\ c <= s.max
         /\ \A c \in Levels(s) : c + s.step <= s.max => c + s.step \in Levels(s)
         /\ \A c \in Levels(s) : \A d \in Levels(s) : c < d => c + s.step <= d
<1>1. s.start \in Nat \ {0} /\ s.step \in Nat \ {0} /\ s.max \in Nat \ {0} /\ s.start <= s.max
  BY DEF Valid
<1> DEFINE a == s.start
           b == s.step
           m == s.max
<1>2. Levels(s) = {c \in a..m : (c - a) % b = 0}
  BY DEF Levels
<1>3. a \in Nat \ {0} /\ b \in Nat \ {0} /\ m \in Nat \ {0} /\ a <= m
  BY <1>1
<1> HIDE DEF a, b, m
<1>4. \A c \in Levels(s) : c \in Nat \ {0} /\ a <= c /\ c <= m /\ c - a \in Nat /\ (c - a) % b = 0
  BY <1>2, <1>3
<1>5. \A c \in Nat : a <= c /\ c <= m /\ (c - a) % b = 0 => c \in Levels(s)
  BY <1>2, <1>3
<1>6. IsFiniteSet(Levels(s))
  <2>1. IsFiniteSet(a..m)
    BY <1>3, FS_Interval
  <2>2. Levels(s) \subseteq a..m
    BY <1>2
  <2>3. QED
    BY <2>1, <2>2, FS_Subset
<1>7. a \in Levels(s)
  <2>1. 0 % b = 0
    BY <1>3, Z3
  <2>2. a - a = 0
    BY <1>3
  <2>3. QED
    BY <1>3, <1>5, <2>1, <2>2
<1>8. ASSUME NEW c \in Levels(s), c + b <= m PROVE c + b \in Levels(s)
  <2>1. ((c - a) + b) % b = 0
    BY <1>3, <1>4, NextMultiple
  <2>2. (c + b) - a = (c - a) + b /\ c + b \in Nat /\ a <= c + b
    BY <1>3, <1>4
  <2>3. QED
    BY <1>5, <1>8, <2>1, <2>2
<1>9. ASSUME NEW c \in Levels(s), NEW d \in Levels(s), c < d PROVE c + b <= d
  <2>1. c - a \in Nat /\ d - a \in Nat /\ c - a < d - a
    BY <1>3, <1>4, <1>9
  <2>2. (c - a) + b <= d - a
    BY <1>3, <1>4, <2>1, StepApart
  <2>3. QED
    BY <1>3, <1>4, <2>2
<1>10. QED
  BY <1>4, <1>6, <1>7, <1>8, <1>9 DEF a, b, m

\* Results are counted by natural numbers, and counts add up.
LEMMA ResultCounts ==
  /\ None \in [Results -> Nat] /\ Total(None) = 0
  /\ \A a \in [Results -> Nat] : Total(a) \in Nat
  /\ \A a, b \in [Results -> Nat] : Plus(a, b) \in [Results -> Nat] /\ Total(Plus(a, b)) = Total(a) + Total(b)
  /\ \A a \in [Results -> Nat] : \A r \in Results :
       /\ [a EXCEPT ![r] = @ + 1] \in [Results -> Nat]
       /\ Total([a EXCEPT ![r] = @ + 1]) = Total(a) + 1
<1>1. None \in [Results -> Nat] /\ Total(None) = 0
  BY DEF None, Total, Results
<1>2. \A a \in [Results -> Nat] : Total(a) \in Nat
  BY DEF Total, Results
<1>3. \A a, b \in [Results -> Nat] : Plus(a, b) \in [Results -> Nat] /\ Total(Plus(a, b)) = Total(a) + Total(b)
  BY DEF Total, Results, Plus
<1>4. ASSUME NEW a \in [Results -> Nat], NEW r \in Results
      PROVE  /\ [a EXCEPT ![r] = @ + 1] \in [Results -> Nat]
             /\ Total([a EXCEPT ![r] = @ + 1]) = Total(a) + 1
  BY DEF Total, Results
<1>5. QED
  BY <1>1, <1>2, <1>3, <1>4

\* The stage at hand is valid.
LEMMA NowValid == ASSUME TypeOK, stage \in DOMAIN plan PROVE Valid(Now)
  BY PlanStages DEF TypeOK, Now

\* The smaller of two numbers.
LEMMA MinOfTwo == ASSUME NEW a \in Nat, NEW b \in Nat PROVE Min({a, b}) = IF a <= b THEN a ELSE b
<1>1. Min({a, b}) = CHOOSE x \in {a, b} : \A y \in {a, b} : x <= y
  BY DEF Min
<1>2. CASE a <= b
  <2>1. \A x \in {a, b} : (\A y \in {a, b} : x <= y) <=> x = a
    BY <1>2
  <2>2. QED
    BY <1>1, <1>2, <2>1
<1>3. CASE ~ (a <= b)
  <2>1. \A x \in {a, b} : (\A y \in {a, b} : x <= y) <=> x = b
    BY <1>3
  <2>2. QED
    BY <1>1, <1>3, <2>1
<1>4. QED
  BY <1>2, <1>3

-----------------------------------------------------------------------------
(********************************************************************************)
(* Types: one lemma for each action.                                            *)
(********************************************************************************)

\* The types and the plan's progress; neither is kept without the other.
Typed == TypeOK /\ InPlan

LEMMA PreflightTypes == ASSUME Typed, RequireHealth("preflight", "next") PROVE TypeOK'
  BY DEF Typed, TypeOK, RequireHealth, Goes, Places, Over, loopVars, poolVars, trafficVars, reportVars, worldVars

LEMMA NextStageTypes == ASSUME Typed, NextStage PROVE TypeOK'
<1>1. CASE stage > Len(plan) \/ stopReason # "none"
  BY <1>1 DEF Typed, TypeOK, NextStage, Goes, Places, Running, InStage, Over, planVars, loopVars, poolVars,
     trafficVars, suiteVars, reportVars, worldVars
<1>2. CASE ~ (stage > Len(plan) \/ stopReason # "none")
  <2>1. stage \in DOMAIN plan
    BY <1>2, PlanStages DEF Typed, TypeOK
  <2>2. Valid(Now)
    BY <2>1, NowValid DEF Typed
  <2>3. FirstLevel(Now) \in Nat
    BY <2>2 DEF Valid, Modes, FirstLevel
  <2>4. Now.mode \in Fixed => FixedCount(FirstLevel(Now)) \in Nat
    BY <2>2 DEF Valid, Fixed, FixedCount, FirstLevel
  <2>5. Now.mode \in Fixed \/ Now.mode \in {"interval", "batch", "soak", "chaos"}
    BY <2>2 DEF Valid, Modes, Fixed
  <2>6. Enter(FirstLevel(Now)) /\ UNCHANGED <<plan, stage, trafficVars, suiteVars, reportVars, worldVars>>
    BY <1>2 DEF NextStage
  <2> DEFINE first == FirstLevel(Now)
             fixed == FixedCount(first)
             now == Now.mode
  <2>7. level' = first /\ due' = FALSE /\ left' = 0 /\ ticks' = 0 /\ spikes' = 0 /\ capped' = FALSE
        /\ records' = None /\ UNCHANGED <<flying, finished>>
        /\ IF now \in Fixed THEN queued' = fixed /\ submitted' = fixed /\ pc' = "collect"
           ELSE queued' = 0 /\ submitted' = 0 /\ pc' = now
    BY <2>6 DEF Enter
  <2>8. first \in Nat /\ (now \in Fixed => fixed \in Nat)
        /\ (now \in Fixed \/ now \in {"interval", "batch", "soak", "chaos"})
    BY <2>3, <2>4, <2>5
  <2> HIDE DEF first, fixed, now
  <2>9. queued' \in Nat /\ submitted' \in Nat /\ level' \in Nat
        /\ pc' \in {"collect", "interval", "batch", "soak", "chaos"}
        /\ records' \in [Results -> Nat]
    BY <2>7, <2>8, ResultCounts
  <2>10. QED
    BY <2>6, <2>7, <2>9 DEF Typed, TypeOK, Places, Running, InStage, Over, planVars, loopVars, poolVars,
       trafficVars, suiteVars, reportVars, worldVars
<1>3. QED
  BY <1>1, <1>2

LEMMA IntervalLoopTypes == ASSUME Typed, IntervalLoop PROVE TypeOK'
  BY DEF Typed, TypeOK, IntervalLoop, Submit, Goes, Places, Running, InStage, trafficVars, suiteVars,
     reportVars, worldVars

LEMMA BatchLoopTypes == ASSUME Typed, BatchLoop PROVE TypeOK'
<1>1. pc = "batch" /\ stage \in DOMAIN plan
  BY DEF BatchLoop, Typed, InPlan, Running, InStage
<1>2. Now.mode = "batch" /\ submitted < Now.total
  BY <1>1 DEF Typed, InPlan, Running, InStage, ModeAt, Progress
<1>3. Now.size \in Nat /\ Now.total \in Nat /\ submitted \in Nat
  BY <1>1, <1>2, NowValid DEF Typed, TypeOK, Valid
<1>4. Min({Now.size, Now.total - submitted}) \in Nat
  BY <1>2, <1>3, MinOfTwo
<1>5. QED
  BY <1>4 DEF Typed, TypeOK, BatchLoop, Submit, Goes, Places, Running, InStage, Over, planVars, loopVars,
     poolVars, trafficVars, suiteVars, reportVars, worldVars

LEMMA SoakLoopTypes == ASSUME Typed, SoakLoop PROVE TypeOK'
  BY DEF Typed, TypeOK, SoakLoop, LeaveSoak, Goes, Places, Running, InStage, poolVars, trafficVars, suiteVars,
     reportVars, worldVars

LEMMA SoakRefillTypes == ASSUME Typed, SoakRefill PROVE TypeOK'
<1>1. CASE Pending < level /\ ~CapReached /\ ~due /\ (Now.cap = 0 => submitted < MaxSoak)
  BY <1>1 DEF Typed, TypeOK, SoakRefill, Submit, Goes, Places, Running, InStage, Over, planVars, loopVars,
     poolVars, trafficVars, suiteVars, reportVars, worldVars
<1>2. CASE ~ (Pending < level /\ ~CapReached /\ ~due /\ (Now.cap = 0 => submitted < MaxSoak))
  <2>1. UNCHANGED <<plan, stage, level, queued, submitted>> /\ pc' \in {"collect", "waiting"}
        /\ capped' \in BOOLEAN
    BY <1>2 DEF Typed, TypeOK, SoakRefill, LeaveSoak, CapReached, Goes
  <2>2. QED
    BY <2>1 DEF Typed, TypeOK, SoakRefill, Places, Running, InStage, Over, planVars, loopVars, poolVars,
       trafficVars, suiteVars, reportVars, worldVars
<1>3. QED
  BY <1>1, <1>2

LEMMA WaitFirstTypes == ASSUME Typed, WaitFirst PROVE TypeOK'
<1>1. stage \in DOMAIN plan /\ Now.mode \in {"interval", "soak"}
  BY DEF WaitFirst, Typed, InPlan, ModeAt, Running, InStage
<1>2. pc' \in {"interval", "soak"} /\ UNCHANGED <<plan, stage, level>>
  BY <1>1 DEF WaitFirst, Goes
<1>3. QED
  BY <1>2, ResultCounts DEF Typed, TypeOK, WaitFirst, TakeFinished, Places, Running, InStage, Over, planVars,
     loopVars, poolVars, trafficVars, suiteVars, reportVars, worldVars

LEMMA ChaosLoopTypes == ASSUME Typed, ChaosLoop PROVE TypeOK'
<1>1. stage \in DOMAIN plan /\ Now.mode = "chaos"
  BY DEF ChaosLoop, Typed, InPlan, ModeAt, Running, InStage
<1>2. Now.tps \in Nat /\ Now.spike \in Nat
  BY <1>1, NowValid DEF Typed, Valid
<1>3. left' \in Nat /\ ticks' \in Nat /\ spikes' \in Nat /\ pc' \in {"collect", "tick"}
      /\ UNCHANGED <<plan, stage, level>>
  BY <1>2 DEF Typed, TypeOK, ChaosLoop, Goes
<1>4. QED
  BY <1>3 DEF Typed, TypeOK, ChaosLoop, Places, Running, InStage, Over, planVars, loopVars, poolVars,
     trafficVars, suiteVars, reportVars, worldVars

LEMMA ChaosSubmitTypes == ASSUME Typed, ChaosSubmit PROVE TypeOK'
<1>1. stage \in DOMAIN plan /\ Now.mode = "chaos"
  BY DEF ChaosSubmit, Typed, InPlan, ModeAt, Running, InStage
<1>2. left > 0
  BY <1>1 DEF ChaosSubmit, Typed, InPlan, Progress, Running, InStage
<1>3. left' \in Nat /\ queued' \in Nat /\ submitted' \in Nat
  BY <1>2 DEF Typed, TypeOK, ChaosSubmit, Submit
<1>4. finished' \in [Results -> Nat] /\ records' \in [Results -> Nat]
  <2>1. CASE Pending < PendingLimit
    BY <2>1 DEF Typed, TypeOK, ChaosSubmit
  <2>2. CASE ~ (Pending < PendingLimit)
    <3>1. finished' = None /\ records' = Plus(records, finished)
      BY <2>2 DEF ChaosSubmit, TakeFinished
    <3>2. finished \in [Results -> Nat] /\ records \in [Results -> Nat]
      BY DEF Typed, TypeOK
    <3>3. QED
      BY <3>1, <3>2, ResultCounts
  <2>3. QED
    BY <2>1, <2>2
<1>5. pc' \in {"collect", "reap", "tick"} /\ UNCHANGED <<plan, stage, level>>
  BY DEF ChaosSubmit, Goes
<1>6. UNCHANGED <<ticks, spikes, capped, due, flying, trafficVars, suiteVars, reportVars, worldVars>>
  BY DEF ChaosSubmit
<1>7. QED
  BY <1>3, <1>4, <1>5, <1>6 DEF Typed, TypeOK, Places, Running, InStage, Over, planVars, loopVars, poolVars,
     trafficVars, suiteVars, reportVars, worldVars

LEMMA ChaosReapTypes == ASSUME Typed, ChaosReap PROVE TypeOK'
  BY ResultCounts DEF Typed, TypeOK, ChaosReap, TakeFinished, Goes, Places, Running, InStage, loopVars,
     trafficVars, suiteVars, reportVars, worldVars

LEMMA CollectTypes == ASSUME Typed, Collect PROVE TypeOK'
  BY ResultCounts DEF Typed, TypeOK, Collect, TakeFinished, Goes, Places, Running, InStage, loopVars,
     trafficVars, suiteVars, reportVars, worldVars

LEMMA SummarizeTypes == ASSUME Typed, Summarize PROVE TypeOK'
<1>1. stage \in DOMAIN plan
  BY DEF Summarize, Typed, InPlan, Running
<1>2. Valid(Now)
  BY <1>1, NowValid DEF Typed
<1>3. PICK late \in {Total(records) > records["error"], FALSE} :
        /\ summaries' = Append(summaries, Summary(records, late))
        /\ IF RampGoesOn(Summary(records, late).status)
             THEN Enter(level + Now.step) /\ UNCHANGED <<plan, stage>>
             ELSE Goes("after") /\ UNCHANGED <<loopVars, due, poolVars, records>>
  BY DEF Summarize
<1>4. Summary(records, late) \in Row
  BY ResultCounts DEF Typed, TypeOK, Summary, Row, StageStatus, Results
<1>5. summaries' \in Seq(Row)
  BY <1>3, <1>4 DEF Typed, TypeOK
<1>6. UNCHANGED <<trafficVars, failedInRow, stopReason, health, error, reportVars, worldVars>>
  BY DEF Summarize
<1>7. CASE RampGoesOn(Summary(records, late).status)
  <2>1. Now.mode = "ramp" /\ Enter(level + Now.step) /\ UNCHANGED <<plan, stage>>
    BY <1>3, <1>7 DEF RampGoesOn
  <2>2. level + Now.step \in Nat /\ FixedCount(level + Now.step) \in Nat
    BY <1>2, <2>1 DEF Valid, FixedCount, Typed, TypeOK
  <2>3. QED
    BY <1>5, <1>6, <2>1, <2>2, ResultCounts DEF Typed, TypeOK, Enter, Fixed, Places, Running, InStage, Over,
       planVars, loopVars, poolVars, trafficVars, suiteVars, reportVars, worldVars
<1>8. CASE ~RampGoesOn(Summary(records, late).status)
  <2>1. Goes("after") /\ UNCHANGED <<loopVars, due, poolVars, records>>
    BY <1>3, <1>8
  <2>2. QED
    BY <1>5, <1>6, <2>1 DEF Typed, TypeOK, Goes, Places, Running, InStage, Over, planVars, loopVars, poolVars,
       trafficVars, suiteVars, reportVars, worldVars
<1>9. QED
  BY <1>7, <1>8

LEMMA AfterStageTypes == ASSUME Typed, AfterStage PROVE TypeOK'
  BY DEF Typed, TypeOK, AfterStage, Places, loopVars, poolVars, trafficVars, reportVars, worldVars

LEMMA PostflightTypes == ASSUME Typed, RequireHealth("postflight", "outputs") PROVE TypeOK'
  BY DEF Typed, TypeOK, RequireHealth, Goes, Places, Over, loopVars, poolVars, trafficVars, reportVars, worldVars

LEMMA ShutdownTypes == ASSUME Typed, Shutdown PROVE TypeOK'
  BY DEF Typed, TypeOK, Shutdown, Goes, Places, Over, loopVars, poolVars, trafficVars, suiteVars, reportVars,
     worldVars

LEMMA WriteOutputsTypes == ASSUME Typed, WriteOutputs PROVE TypeOK'
  BY ResultCounts DEF Typed, TypeOK, WriteOutputs, Goes, Places, Over, loopVars, poolVars, trafficVars,
     suiteVars, worldVars

LEMMA UpdateReadmeTypes == ASSUME Typed, UpdateReadme PROVE TypeOK'
<1>1. Verdict \in {"none", "failed", "degraded", "passed"}
  BY DEF Verdict
<1>2. QED
  BY <1>1 DEF Typed, TypeOK, UpdateReadme, Goes, Places, Running, InStage, Over, planVars, loopVars, poolVars,
     trafficVars, suiteVars, reportVars, worldVars

LEMMA SendTypes == ASSUME Typed, Send PROVE TypeOK'
  BY DEF Typed, TypeOK, Send, planVars, loopVars, suiteVars, reportVars, worldVars

LEMMA AnswerTypes == ASSUME Typed, Answer PROVE TypeOK'
<1>1. PICK r \in Results : finished' = [finished EXCEPT ![r] = @ + 1] /\ logged' = [logged EXCEPT ![r] = @ + 1]
  BY DEF Answer, Results
<1>2. finished' \in [Results -> Nat] /\ logged' \in [Results -> Nat]
  BY <1>1, ResultCounts DEF Typed, TypeOK
<1>3. flying' \in Nat
  BY DEF Typed, TypeOK, Answer
<1>4. QED
  BY <1>2, <1>3 DEF Typed, TypeOK, Answer, Places, Running, InStage, Over, planVars, loopVars, poolVars,
     trafficVars, suiteVars, reportVars, worldVars

LEMMA TimePassesTypes == ASSUME Typed, TimePasses PROVE TypeOK'
  BY DEF Typed, TypeOK, TimePasses, planVars, loopVars, poolVars, trafficVars, suiteVars, reportVars, worldVars

LEMMA InterruptTypes == ASSUME Typed, Interrupt PROVE TypeOK'
  BY DEF Typed, TypeOK, Interrupt, Goes, Places, Over, loopVars, poolVars, trafficVars, reportVars

LEMMA WorldTypes == ASSUME Typed, World PROVE TypeOK'
<1>1. up' \in BOOLEAN /\ memoryLow' \in BOOLEAN /\ outages' \in Nat /\ pressure' \in Nat /\ interrupts' \in Nat
  <2>1. CASE GoesDown
    <3>1. up' = FALSE /\ outages' = outages + 1 /\ UNCHANGED <<memoryLow, pressure, interrupts>>
      BY <2>1 DEF GoesDown
    <3>2. up' \in BOOLEAN /\ memoryLow' \in BOOLEAN
      BY <3>1, Zenon DEF Typed, TypeOK
    <3>3. outages' \in Nat /\ pressure' \in Nat /\ interrupts' \in Nat
      BY <3>1 DEF Typed, TypeOK
    <3>4. QED
      BY <3>2, <3>3
  <2>2. CASE ComesBack
    BY <2>2 DEF Typed, TypeOK, ComesBack
  <2>3. CASE RunsShort
    BY <2>3 DEF Typed, TypeOK, RunsShort
  <2>4. CASE Relaxes
    BY <2>4 DEF Typed, TypeOK, Relaxes
  <2>5. QED
    BY <2>1, <2>2, <2>3, <2>4 DEF World
<1>2. QED
  BY <1>1 DEF Typed, TypeOK, World, Places, Running, InStage, Over, planVars, loopVars, poolVars, trafficVars,
     suiteVars, reportVars, worldVars

LEMMA StutterTypes == ASSUME Typed, UNCHANGED vars PROVE TypeOK'
  BY DEF Typed, TypeOK, vars, planVars, loopVars, poolVars, trafficVars, suiteVars, reportVars, worldVars

-----------------------------------------------------------------------------
(********************************************************************************)
(* The progress of a stage in its plan: one lemma for each action.              *)
(********************************************************************************)

\* A product with a factor that is greater by one.
LEMMA OneMore == ASSUME NEW a \in Nat, NEW b \in Nat PROVE (a + 1) * b = a * b + b
  OBVIOUS

\* The stage at hand is valid, and where the thread of the runner is tells its mode.
LEMMA StageHere ==
  ASSUME Typed, pc \in Running
  PROVE  stage \in DOMAIN plan /\ Valid(Now) /\ ModeAt /\ Progress
  BY NowValid DEF Typed, InPlan

\* A stage, or the next level of a ramp, begins as it should.
LEMMA EnterInPlan ==
  ASSUME NEW c, Enter(c), UNCHANGED <<plan, stage, worldVars>>, Valid(Now), Now.mode = "ramp" => c \in Levels(Now)
  PROVE  ModeAt' /\ Progress'
<1>1. Now' = Now
  BY DEF Now
<1>2. level' = c /\ left' = 0 /\ ticks' = 0 /\ spikes' = 0
  BY DEF Enter
<1>3. Now.mode \in Fixed =>
        pc' = "collect" /\ submitted' = IF Now.mode = "burst" THEN Now.total ELSE c * Now.perWorker
  BY DEF Enter, FixedCount
<1>4. Now.mode \notin Fixed => pc' = Now.mode /\ submitted' = 0
  BY DEF Enter
<1>5. CASE Now.mode = "burst"
  BY <1>1, <1>3, <1>5 DEF Fixed, ModeAt, Progress
<1>6. CASE Now.mode = "ramp"
  BY <1>1, <1>2, <1>3, <1>6 DEF Fixed, ModeAt, Progress
<1>7. CASE Now.mode = "interval"
  BY <1>1, <1>4, <1>7 DEF Fixed, ModeAt, Progress, Valid
<1>8. CASE Now.mode = "batch"
  BY <1>1, <1>4, <1>8 DEF Fixed, ModeAt, Progress, Valid
<1>9. CASE Now.mode = "soak"
  BY <1>1, <1>4, <1>9 DEF Fixed, ModeAt, Progress, Valid
<1>10. CASE Now.mode = "chaos"
  <2>1. 0 * Now.tps + 0 * Now.spike = 0
    BY <1>10 DEF Valid
  <2>2. QED
    BY <1>1, <1>2, <1>4, <1>10, <2>1 DEF Fixed, ModeAt, Progress, Valid
<1>11. QED
  BY <1>5, <1>6, <1>7, <1>8, <1>9, <1>10 DEF Valid, Modes

LEMMA PreflightInPlan == ASSUME Typed, RequireHealth("preflight", "next") PROVE InPlan'
  BY DEF Typed, InPlan, RequireHealth, Goes, Running, InStage, worldVars

LEMMA NextStageInPlan == ASSUME Typed, NextStage PROVE InPlan'
<1>1. memoryLow' => pressure' > 0
  BY DEF NextStage, worldVars, Typed, InPlan
<1>2. CASE stage > Len(plan) \/ stopReason # "none"
  BY <1>1, <1>2 DEF NextStage, Goes, InPlan, Running, InStage
<1>3. CASE ~ (stage > Len(plan) \/ stopReason # "none")
  <2>1. stage \in DOMAIN plan
    BY <1>3, PlanStages DEF Typed, TypeOK
  <2>2. Valid(Now)
    BY <2>1, NowValid DEF Typed
  <2>3. Enter(FirstLevel(Now)) /\ UNCHANGED <<plan, stage, worldVars>>
    BY <1>3 DEF NextStage
  <2>4. Now.mode = "ramp" => FirstLevel(Now) \in Levels(Now)
    BY <2>2, RampLevels DEF FirstLevel
  <2>5. ModeAt' /\ Progress'
    BY <2>2, <2>3, <2>4, EnterInPlan
  <2>6. QED
    BY <1>1, <2>1, <2>3, <2>5 DEF InPlan
<1>4. QED
  BY <1>2, <1>3

LEMMA IntervalLoopInPlan == ASSUME Typed, IntervalLoop PROVE InPlan'
<1>1. pc = "interval" /\ pc \in Running /\ submitted \in Nat /\ (memoryLow => pressure > 0)
  BY DEF IntervalLoop, Running, InStage, Typed, TypeOK, InPlan
<1>2. stage \in DOMAIN plan /\ Now.mode = "interval"
  BY <1>1, StageHere DEF ModeAt
<1>3. Now.total \in Nat /\ submitted <= Now.total
  BY <1>1, <1>2, StageHere DEF Valid, Progress
<1>4. Now' = Now /\ UNCHANGED <<plan, stage, memoryLow, pressure>>
  BY DEF IntervalLoop, Goes, Now, worldVars
<1>5. pc' \in {"collect", "waiting", "interval"} /\ submitted' <= Now.total /\ (pc' = "collect"
      /\ pressure = 0 => submitted' = Now.total)
  BY <1>1, <1>3 DEF IntervalLoop, Goes, Submit
<1>6. ModeAt' /\ Progress'
  BY <1>2, <1>4, <1>5 DEF ModeAt, Progress
<1>7. QED
  BY <1>1, <1>2, <1>4, <1>6 DEF InPlan

LEMMA BatchLoopInPlan == ASSUME Typed, BatchLoop PROVE InPlan'
<1>1. pc = "batch" /\ pc \in Running /\ submitted \in Nat /\ (memoryLow => pressure > 0)
  BY DEF BatchLoop, Running, InStage, Typed, TypeOK, InPlan
<1>2. stage \in DOMAIN plan /\ Now.mode = "batch"
  BY <1>1, StageHere DEF ModeAt
<1>3. Now.total \in Nat /\ Now.size \in Nat /\ submitted < Now.total
  BY <1>1, <1>2, StageHere DEF Valid, Progress
<1>4. Now' = Now /\ UNCHANGED <<plan, stage, memoryLow, pressure>>
  BY DEF BatchLoop, Goes, Now, worldVars
<1>5. Min({Now.size, Now.total - submitted}) = IF Now.size <= Now.total - submitted THEN Now.size ELSE Now.total - submitted
  BY <1>1, <1>3, MinOfTwo
<1>6. pc' \in {"collect", "summarize"} /\ submitted' <= Now.total /\ (pc' = "summarize" => memoryLow)
  BY <1>1, <1>3, <1>5 DEF BatchLoop, Goes, Submit
<1>7. pc' = "summarize" => pressure # 0
  BY <1>1, <1>6 DEF Typed, TypeOK
<1>7a. ModeAt' /\ Progress'
  BY <1>1, <1>2, <1>4, <1>6, <1>7 DEF ModeAt, Progress
<1>8. QED
  BY <1>1, <1>2, <1>4, <1>7a DEF InPlan

LEMMA SoakLoopInPlan == ASSUME Typed, SoakLoop PROVE InPlan'
  BY DEF Typed, InPlan, ModeAt, Progress, Now, SoakLoop, LeaveSoak, Goes, Running, InStage, worldVars

LEMMA SoakRefillInPlan == ASSUME Typed, SoakRefill PROVE InPlan'
<1>1. pc = "refill" /\ pc \in Running /\ submitted \in Nat /\ (memoryLow => pressure > 0)
  BY DEF SoakRefill, Running, InStage, Typed, TypeOK, InPlan
<1>2. stage \in DOMAIN plan /\ Now.mode = "soak"
  BY <1>1, StageHere DEF ModeAt
<1>3. Now.cap \in Nat /\ (Now.cap > 0 => submitted <= Now.cap)
  BY <1>1, <1>2, StageHere DEF Valid, Progress
<1>4. Now' = Now /\ UNCHANGED <<plan, stage, memoryLow, pressure>>
  BY DEF SoakRefill, LeaveSoak, Goes, Now, worldVars
<1>5. pc' \in {"refill", "collect", "waiting"} /\ (Now.cap > 0 => submitted' <= Now.cap)
  <2>1. CASE submitted' = submitted
    BY <1>3, <2>1 DEF SoakRefill, LeaveSoak, Goes
  <2>2. CASE submitted' = submitted + 1 /\ ~CapReached /\ pc' = "refill"
    BY <1>1, <1>3, <2>2 DEF CapReached
  <2>3. QED
    BY <2>1, <2>2 DEF SoakRefill, Submit, Goes
<1>6. ModeAt' /\ Progress'
  BY <1>2, <1>4, <1>5 DEF ModeAt, Progress
<1>7. QED
  BY <1>1, <1>2, <1>4, <1>6 DEF InPlan

LEMMA WaitFirstInPlan == ASSUME Typed, WaitFirst PROVE InPlan'
  BY DEF Typed, InPlan, ModeAt, Progress, Now, WaitFirst, Goes, Running, InStage, loopVars, worldVars

LEMMA ChaosLoopInPlan == ASSUME Typed, ChaosLoop PROVE InPlan'
<1>1. pc = "chaos" /\ pc \in Running /\ submitted \in Nat /\ left \in Nat /\ ticks \in Nat /\ spikes \in Nat
      /\ (memoryLow => pressure > 0)
  BY DEF ChaosLoop, Running, InStage, Typed, TypeOK, InPlan
<1>2. stage \in DOMAIN plan /\ Now.mode = "chaos"
  BY <1>1, StageHere DEF ModeAt
<1>3. Now.tps \in Nat \ {0} /\ Now.spike \in Nat \ {0} /\ Now.ticks \in Nat /\ Now.spikes \in Nat
  BY <1>1, <1>2, StageHere DEF Valid
<1>4. ticks <= Now.ticks /\ spikes <= Now.spikes /\ submitted + left <= ticks * Now.tps + spikes * Now.spike
  BY <1>1, <1>2, StageHere DEF Progress
<1>5. Now' = Now /\ UNCHANGED <<plan, stage, submitted, memoryLow, pressure>>
  BY DEF ChaosLoop, Goes, Now, worldVars
<1>6. CASE pc' = "collect" /\ UNCHANGED <<left, ticks, spikes>>
  <2>1. ModeAt' /\ Progress'
    BY <1>2, <1>4, <1>5, <1>6 DEF ModeAt, Progress
  <2>2. QED
    BY <1>1, <1>2, <1>5, <2>1 DEF InPlan
<1>7. CASE /\ pc' = "tick" /\ ticks # Now.ticks /\ ticks' = ticks + 1
           /\ \/ left' = Now.tps /\ spikes' = spikes
              \/ spikes < Now.spikes /\ left' = Now.tps + Now.spike /\ spikes' = spikes + 1
  <2> DEFINE t == Now.tps
             u == Now.spike
             a == ticks * t
             b == spikes * u
  <2>1. t \in Nat \ {0} /\ u \in Nat \ {0} /\ a \in Nat /\ b \in Nat
    BY <1>1, <1>3
  <2>2. (ticks + 1) * t = a + t /\ (spikes + 1) * u = b + u
    BY <1>1, <2>1, OneMore
  <2>3. submitted <= a + b
    BY <1>1, <1>4, <2>1
  <2>4. ticks' <= Now.ticks /\ spikes' <= Now.spikes
    <3>1. ticks <= Now.ticks /\ spikes <= Now.spikes
      BY <1>4
    <3> HIDE DEF t, u, a, b
    <3>2. QED
      BY <1>1, <1>3, <1>7, <3>1
  <2>5. left' > 0 /\ submitted + left' <= ticks' * t + spikes' * u
    <3> HIDE DEF t, u, a, b
    <3>1. CASE left' = t /\ spikes' = spikes
      <4>1. ticks' * t + spikes' * u = a + t + b
        BY <1>7, <2>1, <2>2, <3>1 DEF b
      <4>2. QED
        BY <1>1, <2>1, <2>3, <3>1, <4>1
    <3>2. CASE left' = t + u /\ spikes' = spikes + 1
      <4>1. ticks' * t + spikes' * u = a + t + b + u
        BY <1>7, <2>1, <2>2, <3>2
      <4>2. QED
        BY <1>1, <2>1, <2>3, <3>2, <4>1
    <3>3. QED
      BY <1>7, <3>1, <3>2 DEF t, u
  <2>6. ModeAt' /\ Progress'
    BY <1>2, <1>5, <1>7, <2>4, <2>5 DEF ModeAt, Progress
  <2>7. QED
    BY <1>1, <1>2, <1>5, <2>6 DEF InPlan
<1>8. QED
  BY <1>6, <1>7 DEF ChaosLoop, Goes

LEMMA ChaosSubmitInPlan == ASSUME Typed, ChaosSubmit PROVE InPlan'
<1>1. pc = "tick" /\ pc \in Running /\ submitted \in Nat /\ left \in Nat /\ ticks \in Nat /\ spikes \in Nat
      /\ (memoryLow => pressure > 0)
  BY DEF ChaosSubmit, Running, InStage, Typed, TypeOK, InPlan
<1>2. stage \in DOMAIN plan /\ Now.mode = "chaos"
  BY <1>1, StageHere DEF ModeAt
<1>3. Now.tps \in Nat \ {0} /\ Now.spike \in Nat \ {0} /\ Now.ticks \in Nat /\ Now.spikes \in Nat
  BY <1>1, <1>2, StageHere DEF Valid
<1>4. ticks <= Now.ticks /\ spikes <= Now.spikes /\ left > 0
      /\ submitted + left <= ticks * Now.tps + spikes * Now.spike
  BY <1>1, <1>2, StageHere DEF Progress
<1>5. Now' = Now /\ UNCHANGED <<plan, stage, ticks, spikes, memoryLow, pressure>>
  BY DEF ChaosSubmit, Goes, Now, worldVars
<1>6. submitted' + left' = submitted + left /\ left' \in Nat /\ pc' \in {"collect", "reap", "tick"}
      /\ (pc' = "tick" => left' > 0)
  BY <1>1, <1>4 DEF ChaosSubmit, Submit, Goes
<1>7. ModeAt' /\ Progress'
  BY <1>2, <1>4, <1>5, <1>6 DEF ModeAt, Progress
<1>8. QED
  BY <1>1, <1>2, <1>5, <1>7 DEF InPlan

LEMMA ChaosReapInPlan == ASSUME Typed, ChaosReap PROVE InPlan'
  BY DEF Typed, InPlan, ModeAt, Progress, Now, ChaosReap, Goes, Running, InStage, loopVars, worldVars

LEMMA CollectInPlan == ASSUME Typed, Collect PROVE InPlan'
<1>1. pc = "collect" /\ pc \in Running /\ submitted \in Nat /\ (memoryLow => pressure > 0)
  BY DEF Collect, Running, InStage, Typed, TypeOK, InPlan
<1>2. stage \in DOMAIN plan /\ Valid(Now) /\ Progress
  BY <1>1, StageHere
<1>3. Now' = Now /\ UNCHANGED <<plan, stage, level, loopVars, memoryLow, pressure>>
  BY DEF Collect, Goes, Now, worldVars
<1>4. pc' = "summarize" \/ (pc' = "batch" /\ Now.mode = "batch" /\ submitted < Now.total)
  BY DEF Collect, Goes
<1>5. pc' = "summarize" /\ Now.mode = "batch" => submitted = Now.total
  BY <1>1, <1>2 DEF Collect, Goes, Valid, Progress
<1>6. ModeAt'
  BY <1>3, <1>4 DEF ModeAt
<1>7. Progress'
  BY <1>1, <1>2, <1>3, <1>4, <1>5 DEF Progress, Valid, Modes, loopVars
<1>8. QED
  BY <1>1, <1>2, <1>3, <1>6, <1>7 DEF InPlan

LEMMA SummarizeInPlan == ASSUME Typed, Summarize PROVE InPlan'
<1>1. memoryLow' => pressure' > 0
  BY DEF Summarize, worldVars, Typed, InPlan
<1>2. pc \in Running
  BY DEF Summarize, Running
<1>3. stage \in DOMAIN plan /\ Valid(Now) /\ Progress
  BY <1>2, StageHere
<1>4. UNCHANGED <<plan, stage, worldVars>>
  BY DEF Summarize, Enter, Goes
<1>5. CASE pc' = "after"
  BY <1>1, <1>3, <1>4, <1>5 DEF InPlan, Running, InStage
<1>6. CASE Now.mode = "ramp" /\ level + Now.step <= Now.max /\ Enter(level + Now.step)
  <2>1. level + Now.step \in Levels(Now)
    BY <1>3, <1>6, RampLevels DEF Progress
  <2>2. ModeAt' /\ Progress'
    BY <1>3, <1>4, <1>6, <2>1, EnterInPlan
  <2>3. QED
    BY <1>1, <1>3, <1>4, <2>2 DEF InPlan
<1>7. QED
  BY <1>5, <1>6 DEF Summarize, RampGoesOn, Goes

LEMMA AfterStageInPlan == ASSUME Typed, AfterStage PROVE InPlan'
  BY DEF Typed, InPlan, AfterStage, Running, InStage, worldVars

LEMMA PostflightInPlan == ASSUME Typed, RequireHealth("postflight", "outputs") PROVE InPlan'
  BY DEF Typed, InPlan, RequireHealth, Goes, Running, InStage, worldVars

LEMMA ShutdownInPlan == ASSUME Typed, Shutdown PROVE InPlan'
  BY DEF Typed, InPlan, Shutdown, Goes, Running, InStage, worldVars

LEMMA WriteOutputsInPlan == ASSUME Typed, WriteOutputs PROVE InPlan'
  BY DEF Typed, InPlan, WriteOutputs, Goes, Running, InStage, worldVars

LEMMA UpdateReadmeInPlan == ASSUME Typed, UpdateReadme PROVE InPlan'
  BY DEF Typed, InPlan, UpdateReadme, Goes, Running, InStage, worldVars

LEMMA SendInPlan == ASSUME Typed, Send PROVE InPlan'
  BY DEF Typed, InPlan, ModeAt, Progress, Now, Send, planVars, loopVars, worldVars

LEMMA AnswerInPlan == ASSUME Typed, Answer PROVE InPlan'
  BY DEF Typed, InPlan, ModeAt, Progress, Now, Answer, planVars, loopVars, worldVars

LEMMA TimePassesInPlan == ASSUME Typed, TimePasses PROVE InPlan'
  BY DEF Typed, InPlan, ModeAt, Progress, Now, TimePasses, planVars, loopVars, worldVars

LEMMA InterruptInPlan == ASSUME Typed, Interrupt PROVE InPlan'
  BY DEF Typed, InPlan, Interrupt, Goes, Running, InStage, Over

LEMMA WorldInPlan == ASSUME Typed, World PROVE InPlan'
<1>1. UNCHANGED <<planVars, loopVars, due, poolVars, records, trafficVars, suiteVars, reportVars>>
  BY DEF World
<1>2. pressure \in Nat /\ pressure' \in Nat /\ pressure' >= pressure
  BY DEF Typed, TypeOK, World, GoesDown, ComesBack, RunsShort, Relaxes
<1>3. memoryLow' => pressure' > 0
  <2>1. CASE RunsShort
    BY <1>2, <2>1 DEF RunsShort
  <2>2. CASE Relaxes
    BY <2>2 DEF Relaxes
  <2>3. CASE UNCHANGED <<memoryLow, pressure>>
    BY <2>3 DEF Typed, InPlan
  <2>4. QED
    BY <2>1, <2>2, <2>3 DEF World, GoesDown, ComesBack
<1>4. pc \in Running => ModeAt' /\ Progress'
  <2>1. SUFFICES ASSUME pc \in Running PROVE ModeAt' /\ Progress'
    OBVIOUS
  <2>2. ModeAt /\ Progress /\ Valid(Now)
    BY <2>1, StageHere
  <2>3. Now' = Now
    BY <1>1 DEF Now, planVars
  <2>4. UNCHANGED <<pc, level, loopVars>>
    BY <1>1 DEF planVars
  <2>5. pressure' = 0 => pressure = 0
    BY <1>2
  <2>6. QED
    BY <2>2, <2>3, <2>4, <2>5 DEF ModeAt, Progress, Valid, Modes, loopVars
<1>5. QED
  BY <1>1, <1>3, <1>4 DEF Typed, InPlan, planVars

LEMMA StutterInPlan == ASSUME Typed, UNCHANGED vars PROVE InPlan'
  BY DEF Typed, InPlan, ModeAt, Progress, Now, vars, planVars, loopVars, worldVars

-----------------------------------------------------------------------------
(********************************************************************************)
(* The flow of requests: one lemma for each action.                             *)
(********************************************************************************)

LEMMA PreflightFlow == ASSUME Typed, Flow, RequireHealth("preflight", "next") PROVE Flow'
  BY DEF Flow, RequireHealth, Goes, InStage, Over, Open, poolVars, trafficVars, worldVars

LEMMA NextStageFlow == ASSUME Typed, Flow, NextStage PROVE Flow'
<1>1. pc = "next" /\ UNCHANGED <<trafficVars, suiteVars, reportVars, worldVars, flying, finished>> /\ pc \notin Open
  BY DEF NextStage, Enter, poolVars, Open, InStage
<1>2. CASE stage > Len(plan) \/ stopReason # "none"
  BY <1>1, <1>2 DEF NextStage, Flow, Goes, Open, InStage, Over, trafficVars, suiteVars, worldVars, poolVars
<1>3. CASE ~ (stage > Len(plan) \/ stopReason # "none")
  <2>1. stage \in DOMAIN plan
    BY <1>3, PlanStages DEF Typed, TypeOK
  <2>2. Valid(Now)
    BY <2>1, NowValid DEF Typed
  <2>3. Enter(FirstLevel(Now))
    BY <1>3 DEF NextStage
  <2>4. pc' \in {"collect", "interval", "batch", "soak", "chaos"} /\ (pc' = "batch" => queued' = 0)
    BY <2>2, <2>3 DEF Enter, Valid, Modes, Fixed
  <2>5. flying = 0 /\ finished = None /\ ~error
    BY <1>1 DEF Flow, Open, InStage, Over, Typed, TypeOK
  <2>6. QED
    BY <1>1, <2>4, <2>5 DEF Flow, Open, InStage, Over, trafficVars, suiteVars, worldVars
<1>4. QED
  BY <1>2, <1>3

LEMMA IntervalLoopFlow == ASSUME Typed, Flow, IntervalLoop PROVE Flow'
  BY DEF Flow, IntervalLoop, Goes, InStage, Over, Open, trafficVars, suiteVars, worldVars

LEMMA BatchLoopFlow == ASSUME Typed, Flow, BatchLoop PROVE Flow'
  BY DEF Flow, BatchLoop, Goes, InStage, Over, Open, trafficVars, suiteVars, worldVars

LEMMA SoakLoopFlow == ASSUME Typed, Flow, SoakLoop PROVE Flow'
  BY DEF Flow, SoakLoop, LeaveSoak, Goes, InStage, Over, Open, poolVars, trafficVars, suiteVars, worldVars

LEMMA SoakRefillFlow == ASSUME Typed, Flow, SoakRefill PROVE Flow'
  BY DEF Flow, SoakRefill, LeaveSoak, Goes, InStage, Over, Open, trafficVars, suiteVars, worldVars

LEMMA WaitFirstFlow == ASSUME Typed, Flow, WaitFirst PROVE Flow'
  BY DEF Typed, InPlan, Flow, ModeAt, WaitFirst, Goes, Running, InStage, Over, Open, trafficVars, suiteVars, worldVars

LEMMA ChaosLoopFlow == ASSUME Typed, Flow, ChaosLoop PROVE Flow'
  BY DEF Flow, ChaosLoop, Goes, InStage, Over, Open, poolVars, trafficVars, suiteVars, worldVars

LEMMA ChaosSubmitFlow == ASSUME Typed, Flow, ChaosSubmit PROVE Flow'
  BY DEF Flow, ChaosSubmit, Goes, InStage, Over, Open, trafficVars, suiteVars, worldVars

LEMMA ChaosReapFlow == ASSUME Typed, Flow, ChaosReap PROVE Flow'
  BY DEF Flow, ChaosReap, Goes, InStage, Over, Open, trafficVars, suiteVars, worldVars

LEMMA CollectFlow == ASSUME Typed, Flow, Collect PROVE Flow'
  BY DEF Flow, Collect, TakeFinished, Goes, Over, trafficVars, suiteVars, worldVars

LEMMA SummarizeFlow == ASSUME Typed, Flow, Summarize PROVE Flow'
  BY DEF Flow, Summarize, Enter, Goes, RampGoesOn, InStage, Over, Open, poolVars, trafficVars, worldVars

LEMMA AfterStageFlow == ASSUME Typed, Flow, AfterStage PROVE Flow'
  BY DEF Flow, AfterStage, InStage, Over, Open, poolVars, trafficVars, worldVars

LEMMA PostflightFlow == ASSUME Typed, Flow, RequireHealth("postflight", "outputs") PROVE Flow'
  BY DEF Flow, RequireHealth, Goes, InStage, Over, Open, poolVars, trafficVars, worldVars

LEMMA ShutdownFlow == ASSUME Typed, Flow, Shutdown PROVE Flow'
  BY DEF Flow, Shutdown, Goes, Over, poolVars, trafficVars, suiteVars

LEMMA WriteOutputsFlow == ASSUME Typed, Flow, WriteOutputs PROVE Flow'
  BY DEF Flow, WriteOutputs, Goes, InStage, Over, Open, poolVars, trafficVars, suiteVars, worldVars

LEMMA UpdateReadmeFlow == ASSUME Typed, Flow, UpdateReadme PROVE Flow'
  BY DEF Flow, UpdateReadme, Goes, InStage, Over, Open, poolVars, trafficVars, suiteVars, worldVars

LEMMA SendFlow == ASSUME Typed, Flow, Send PROVE Flow'
  BY ResultCounts DEF Typed, TypeOK, Flow, Send, planVars, loopVars, suiteVars, worldVars

LEMMA AnswerFlow == ASSUME Typed, Flow, Answer PROVE Flow'
<1>1. PICK r \in Results : finished' = [finished EXCEPT ![r] = @ + 1] /\ logged' = [logged EXCEPT ![r] = @ + 1]
  BY DEF Answer, Results
<1>2. Total(logged') = Total(logged) + 1 /\ Total(logged) \in Nat
  BY <1>1, ResultCounts DEF Typed, TypeOK
<1>3. flying \in Nat /\ flying > 0 /\ flying' = flying - 1 /\ sent' = sent
  BY DEF Answer, Typed, TypeOK, trafficVars
<1>4. sent' = Total(logged') + flying'
  BY <1>2, <1>3 DEF Flow
<1>5. UNCHANGED <<planVars, suiteVars, worldVars, queued>>
  BY DEF Answer
<1>6. ~error /\ pc \notin Open => finished' = None
  BY <1>3 DEF Flow, Typed, TypeOK, Over
<1>7. QED
  BY <1>3, <1>4, <1>5, <1>6 DEF Flow, planVars, suiteVars, worldVars

LEMMA TimePassesFlow == ASSUME Typed, Flow, TimePasses PROVE Flow'
  BY DEF Flow, TimePasses, planVars, poolVars, trafficVars, suiteVars, worldVars

LEMMA InterruptFlow == ASSUME Typed, Flow, Interrupt PROVE Flow'
  BY DEF Typed, TypeOK, Flow, Interrupt, Goes, InStage, Over, Open, poolVars, trafficVars

LEMMA WorldFlow == ASSUME Typed, Flow, World PROVE Flow'
  BY DEF Flow, World, GoesDown, ComesBack, RunsShort, Relaxes, planVars, poolVars, trafficVars, suiteVars

LEMMA StutterFlow == ASSUME Typed, Flow, UNCHANGED vars PROVE Flow'
  BY DEF Flow, vars, planVars, poolVars, trafficVars, suiteVars, worldVars

-----------------------------------------------------------------------------
(********************************************************************************)
(* Reports and counts: two lemmas for each action.                              *)
(********************************************************************************)

\* The verdict does not change unless the suite does.
LEMMA VerdictSame == ASSUME UNCHANGED suiteVars PROVE Verdict' = Verdict
  BY DEF Verdict, suiteVars

Count(i) == summaries[i].count

\* A summary more adds its count.
LEMMA CountedAdds ==
  ASSUME summaries \in Seq(Row), NEW row \in Row, summaries' = Append(summaries, row)
  PROVE  Counted \in Nat /\ Counted' = Counted + row.count
<1> DEFINE n == Len(summaries)
           old == [i \in DOMAIN summaries |-> summaries[i].count]
           new == [i \in DOMAIN summaries' |-> summaries'[i].count]
<1>1. n \in Nat /\ DOMAIN summaries = 1..n /\ \A i \in 1..n : summaries[i] \in Row
  OBVIOUS
<1>2. DOMAIN summaries' = 1..(n + 1) /\ summaries'[n + 1] = row /\ \A i \in 1..n : summaries'[i] = summaries[i]
  OBVIOUS
<1>3. 1..(n + 1) = (1..n) \cup {n + 1} /\ n + 1 \notin 1..n
  BY <1>1
<1>4. IsFiniteSet(1..n)
  BY <1>1, FS_Interval
<1>5. Counted = SumOver(old, 1..n) /\ Counted' = SumOver(new, 1..(n + 1))
  BY <1>1, <1>2, SumOfOver DEF Counted
<1>6. \A i \in 1..n : old[i] \in Nat /\ new[i] = old[i]
  BY <1>1, <1>2, <1>3 DEF Row
<1>7. new[n + 1] = row.count /\ row.count \in Nat
  BY <1>2, <1>3 DEF Row
<1> HIDE DEF n, old, new
<1>8. SumOver(new, (1..n) \cup {n + 1}) = new[n + 1] + SumOver(new, 1..n)
  BY <1>3, <1>4, <1>6, <1>7, SumAdds
<1>9. SumOver(new, 1..n) = SumOver(old, 1..n)
  BY <1>6, SumSame
<1>10. SumOver(old, 1..n) \in Nat
  BY <1>4, <1>6, SumFinite
<1> DEFINE a == SumOver(old, 1..n)
           b == row.count
<1>11. Counted = a /\ Counted' = b + a /\ a \in Nat /\ b \in Nat
  BY <1>3, <1>5, <1>7, <1>8, <1>9, <1>10
<1> HIDE DEF a, b
<1>12. Counted \in Nat /\ Counted' = Counted + b
  BY <1>11
<1>13. QED
  BY <1>12 DEF b

\* A count is a number.
LEMMA CountedType == ASSUME summaries \in Seq(Row) PROVE Counted \in Nat
<1> DEFINE old == [i \in DOMAIN summaries |-> summaries[i].count]
<1>1. \A i \in DOMAIN summaries : old[i] \in Nat
  <2>1. \A i \in DOMAIN summaries : summaries[i] \in Row
    OBVIOUS
  <2>2. QED
    BY <2>1 DEF Row
<1>2. IsFiniteSet(DOMAIN summaries)
  <2>1. DOMAIN summaries = 1..Len(summaries) /\ Len(summaries) \in Nat
    OBVIOUS
  <2>2. QED
    BY <2>1, FS_Interval
<1>3. Counted = SumOver(old, DOMAIN summaries)
  BY SumOfOver DEF Counted
<1> HIDE DEF old
<1>4. QED
  BY <1>1, <1>2, <1>3, SumFinite

\* It does not change unless the summaries do.
LEMMA CountedSame == ASSUME UNCHANGED summaries PROVE Counted' = Counted
  BY DEF Counted

\* Where a loop submits and takes what is done, nothing is lost.
LEMMA LoopCounts ==
  ASSUME TypeOK, TypeOK', Counts, pc \in Running, pc' \in Running,
         UNCHANGED <<summaries, logged, flying, error>>, submitted' + queued = submitted + queued',
         (UNCHANGED <<records, finished>>) \/ TakeFinished
  PROVE  Counts'
<1>1. Counted' = Counted /\ Counted \in Nat
  BY CountedSame, CountedType DEF TypeOK
<1>2. Total(records') + Total(finished') = Total(records) + Total(finished)
      /\ Total(records) \in Nat /\ Total(finished) \in Nat /\ Total(records') \in Nat /\ Total(finished') \in Nat
      /\ Total(logged) \in Nat
  <2>1. CASE TakeFinished
    <3>1. records' = Plus(records, finished) /\ finished' = None /\ records \in [Results -> Nat]
          /\ finished \in [Results -> Nat]
          /\ logged \in [Results -> Nat]
      BY <2>1 DEF TakeFinished, TypeOK
    <3>2. QED
      BY <3>1, ResultCounts
  <2>2. CASE UNCHANGED <<records, finished>>
    BY <2>2, ResultCounts DEF TypeOK
  <2>3. QED
    BY <2>1, <2>2
<1>3. Total(Held) = Total(records) /\ Total(Held') = Total(records')
  BY DEF Held
<1>4. ~error' => Total(logged') = Counted' + Total(Held') + Total(finished')
  <2> DEFINE a == Total(records)
             b == Total(finished)
             c == Total(records')
             d == Total(finished')
             e == Total(logged)
  <2>1. ~error => e = Counted + a + b
    BY <1>3 DEF Counts
  <2>2. c + d = a + b /\ a \in Nat /\ b \in Nat /\ c \in Nat /\ d \in Nat
    BY <1>2
  <2>3. Total(logged') = e
    OBVIOUS
  <2> HIDE DEF a, b, c, d, e
  <2>4. ~error' => e = Counted' + c + d
    BY <1>1, <2>1, <2>2
  <2>5. QED
    BY <1>3, <2>3, <2>4 DEF c, d
<1>5. submitted' = queued' + flying' + Total(finished') + Total(records')
  <2> DEFINE a == Total(records)
             b == Total(finished)
             c == Total(records')
             d == Total(finished')
  <2>1. submitted = queued + flying + b + a
    BY DEF Counts
  <2>2. c + d = a + b /\ a \in Nat /\ b \in Nat /\ c \in Nat /\ d \in Nat
    BY <1>2
  <2> HIDE DEF a, b, c, d
  <2>3. queued \in Nat /\ queued' \in Nat /\ submitted \in Nat /\ submitted' \in Nat /\ flying \in Nat
    BY DEF TypeOK
  <2>4. submitted' = queued' + flying + d + c
    <3> DEFINE s == submitted
               t == submitted'
               q == queued
               r == queued'
    <3>1. s \in Nat /\ t \in Nat /\ q \in Nat /\ r \in Nat /\ s = q + flying + b + a /\ t + q = s + r
      BY <2>1, <2>3
    <3> HIDE DEF s, t, q, r
    <3>2. t = r + flying + d + c
      BY <2>2, <2>3, <3>1
    <3>3. QED
      BY <3>2 DEF t, r
  <2>5. QED
    BY <2>4 DEF c, d
<1>6. QED
  BY <1>4, <1>5 DEF Counts

\* What a stage, or a level of a ramp, is summarized as.
Summarized(row) ==
  /\ row.stage = stage /\ row.level = level /\ row.count = Total(records)
  /\ row.status \in {"passed", "skipped"} => records["slow"] = 0 /\ records["error"] = 0
  /\ summaries' = Append(summaries, row)
  /\ \/ RampGoesOn(row.status) /\ Enter(level + Now.step) /\ UNCHANGED <<plan, stage>>
     \/ ~RampGoesOn(row.status) /\ Goes("after") /\ UNCHANGED <<loopVars, due, poolVars, records>>

LEMMA SummarizeRow == ASSUME Typed, Summarize PROVE \E row \in Row : Summarized(row)
<1>1. PICK late \in {Total(records) > records["error"], FALSE} :
        /\ summaries' = Append(summaries, Summary(records, late))
        /\ IF RampGoesOn(Summary(records, late).status)
             THEN Enter(level + Now.step) /\ UNCHANGED <<plan, stage>>
             ELSE Goes("after") /\ UNCHANGED <<loopVars, due, poolVars, records>>
  BY DEF Summarize
<1> DEFINE reason == StopReason(records, late)
           row == Summary(records, late)
<1>2. row = [stage |-> stage, level |-> level, count |-> Total(records), errors |-> records["error"],
             status |-> StageStatus(records, reason)]
  BY DEF Summary
<1>3. records \in [Results -> Nat] /\ stage \in Nat \ {0} /\ level \in Nat
  BY DEF Typed, TypeOK
<1> HIDE DEF reason
<1>4. Total(records) = records["ok"] + records["slow"] + records["error"]
      /\ records["ok"] \in Nat /\ records["slow"] \in Nat /\ records["error"] \in Nat /\ Total(records) \in Nat
  BY <1>3 DEF Total, Results
<1>5. StageStatus(records, reason) \in {"skipped", "stopped", "failed", "degraded", "passed"}
  BY DEF StageStatus
<1>6. StageStatus(records, reason) \in {"passed", "skipped"} => records["slow"] = 0 /\ records["error"] = 0
  BY <1>4 DEF StageStatus
<1>7. row \in Row
  BY <1>2, <1>3, <1>4, <1>5 DEF Row
<1>8. row.stage = stage /\ row.level = level /\ row.count = Total(records)
      /\ row.status = StageStatus(records, reason)
  BY <1>2
<1> HIDE DEF row
<1>9. Summarized(row)
  BY <1>1, <1>6, <1>8 DEF Summarized, row
<1>10. QED
  BY <1>7, <1>9

LEMMA PreflightReported == ASSUME Typed, Flow, Reported, RequireHealth("preflight", "next") PROVE Reported'
  BY DEF Reported, RequireHealth, Goes, reportVars

LEMMA PreflightCounts == ASSUME Typed, Flow, Counts, RequireHealth("preflight", "next") PROVE Counts'
  BY CountedSame DEF Counts, Held, RequireHealth, Goes, Running, InStage, poolVars, trafficVars

LEMMA NextStageReported == ASSUME Typed, Flow, Reported, NextStage PROVE Reported'
<1>1. pc = "next" /\ UNCHANGED <<written, suiteVars>>
  BY DEF NextStage, Enter, Goes, reportVars
<1>2. pc' \notin {"campaign", "done", "aborted"}
  <2>1. CASE stage > Len(plan) \/ stopReason # "none"
    BY <2>1 DEF NextStage, Goes
  <2>2. CASE ~ (stage > Len(plan) \/ stopReason # "none")
    <3>1. stage \in DOMAIN plan
      BY <2>2, PlanStages DEF Typed, TypeOK
    <3>2. Valid(Now)
      BY <3>1, NowValid DEF Typed
    <3>3. Enter(FirstLevel(Now))
      BY <2>2 DEF NextStage
    <3>4. QED
      BY <3>2, <3>3 DEF Enter, Valid, Modes
  <2>3. QED
    BY <2>1, <2>2
<1>3. QED
  BY <1>1, <1>2 DEF Reported

LEMMA NextStageCounts == ASSUME Typed, Flow, Counts, NextStage PROVE Counts'
<1>1. pc = "next" /\ UNCHANGED <<trafficVars, suiteVars, flying, finished>> /\ ~error /\ flying = 0 /\ finished = None
  BY DEF NextStage, Enter, poolVars, Flow, Open, InStage, Over, Typed, TypeOK
<1>2. Counted' = Counted /\ Counted \in Nat
  BY <1>1, CountedSame, CountedType DEF suiteVars, Typed, TypeOK
<1>3. Held = None
  BY <1>1 DEF Held, Running, InStage
<1>4. Held' = None /\ (pc' \in Running => records' = None /\ queued' = submitted' /\ submitted' \in Nat)
  BY NextStageTypes DEF NextStage, Held, Enter, Goes, Running, InStage, TypeOK
<1>5. QED
  BY <1>1, <1>2, <1>3, <1>4, ResultCounts DEF Counts, trafficVars, suiteVars

LEMMA IntervalLoopReported == ASSUME Typed, Flow, Reported, IntervalLoop PROVE Reported'
  BY DEF Reported, IntervalLoop, Goes, reportVars

LEMMA IntervalLoopCounts == ASSUME Typed, Flow, Counts, IntervalLoop PROVE Counts'
<1>1. pc \in Running /\ TypeOK'
  BY IntervalLoopTypes DEF IntervalLoop, Running, InStage
<1>2. pc' \in Running
  BY <1>1, StageHere DEF IntervalLoop, Submit, Goes, Running, InStage
<1>3. submitted' + queued = submitted + queued'
  BY DEF IntervalLoop, Submit, Typed, TypeOK, loopVars, poolVars
<1>4. UNCHANGED <<summaries, logged, flying, error>> /\ ((UNCHANGED <<records, finished>>) \/ TakeFinished)
  BY DEF IntervalLoop, Submit, trafficVars, suiteVars, poolVars
<1>5. QED
  BY <1>1, <1>2, <1>3, <1>4, LoopCounts DEF Typed

LEMMA BatchLoopReported == ASSUME Typed, Flow, Reported, BatchLoop PROVE Reported'
  BY DEF Reported, BatchLoop, Goes, reportVars

LEMMA BatchLoopCounts == ASSUME Typed, Flow, Counts, BatchLoop PROVE Counts'
<1>1. pc = "batch" /\ pc \in Running /\ TypeOK'
  BY BatchLoopTypes DEF BatchLoop, Running, InStage
<1>2. pc' \in Running
  BY DEF BatchLoop, Goes, Running, InStage
<1>3. Now.mode = "batch"
  BY <1>1, StageHere DEF ModeAt
<1>4. submitted < Now.total /\ Now.size \in Nat /\ Now.total \in Nat /\ submitted \in Nat /\ queued \in Nat
  BY <1>1, <1>3, StageHere DEF Progress, Valid, Typed, TypeOK
<1>5. Min({Now.size, Now.total - submitted}) \in Nat
  BY <1>4, MinOfTwo
<1>6. submitted' + queued = submitted + queued'
  BY <1>4, <1>5 DEF BatchLoop, Submit
<1>7. UNCHANGED <<summaries, logged, flying, error, records, finished>>
  BY DEF BatchLoop, trafficVars, suiteVars, poolVars
<1>8. QED
  BY <1>1, <1>2, <1>6, <1>7, LoopCounts DEF Typed

LEMMA SoakLoopReported == ASSUME Typed, Flow, Reported, SoakLoop PROVE Reported'
  BY DEF Reported, SoakLoop, LeaveSoak, Goes, reportVars

LEMMA SoakLoopCounts == ASSUME Typed, Flow, Counts, SoakLoop PROVE Counts'
<1>1. pc \in Running /\ TypeOK'
  BY SoakLoopTypes DEF SoakLoop, Running, InStage
<1>2. pc' \in Running
  BY <1>1, StageHere DEF SoakLoop, LeaveSoak, Goes, Running, InStage
<1>3. submitted' + queued = submitted + queued'
  BY DEF SoakLoop, LeaveSoak, Typed, TypeOK, loopVars, poolVars
<1>4. UNCHANGED <<summaries, logged, flying, error>> /\ ((UNCHANGED <<records, finished>>) \/ TakeFinished)
  BY DEF SoakLoop, LeaveSoak, trafficVars, suiteVars, poolVars
<1>5. QED
  BY <1>1, <1>2, <1>3, <1>4, LoopCounts DEF Typed

LEMMA SoakRefillReported == ASSUME Typed, Flow, Reported, SoakRefill PROVE Reported'
  BY DEF Reported, SoakRefill, LeaveSoak, Goes, reportVars

LEMMA SoakRefillCounts == ASSUME Typed, Flow, Counts, SoakRefill PROVE Counts'
<1>1. pc \in Running /\ TypeOK'
  BY SoakRefillTypes DEF SoakRefill, Running, InStage
<1>2. pc' \in Running
  BY <1>1, StageHere DEF SoakRefill, LeaveSoak, Submit, Goes, Running, InStage
<1>3. submitted' + queued = submitted + queued'
  <2>1. submitted \in Nat /\ queued \in Nat
    BY DEF Typed, TypeOK
  <2>2. Submit(1) \/ UNCHANGED <<queued, submitted>>
    BY DEF SoakRefill
  <2>3. QED
    BY <2>1, <2>2 DEF Submit
<1>4. UNCHANGED <<summaries, logged, flying, error>> /\ ((UNCHANGED <<records, finished>>) \/ TakeFinished)
  BY DEF SoakRefill, LeaveSoak, Submit, trafficVars, suiteVars, poolVars
<1>5. QED
  BY <1>1, <1>2, <1>3, <1>4, LoopCounts DEF Typed

LEMMA WaitFirstReported == ASSUME Typed, Flow, Reported, WaitFirst PROVE Reported'
<1>1. pc = "waiting" /\ UNCHANGED <<written>> /\ pc' \in {"interval", "soak"}
  BY StageHere DEF WaitFirst, Goes, reportVars, ModeAt, Running, InStage
<1>2. QED
  BY <1>1 DEF Reported

LEMMA WaitFirstCounts == ASSUME Typed, Flow, Counts, WaitFirst PROVE Counts'
<1>1. pc \in Running /\ TypeOK'
  BY WaitFirstTypes DEF WaitFirst, Running, InStage
<1>2. pc' \in Running
  BY <1>1, StageHere DEF ModeAt, WaitFirst, Goes, Running, InStage
<1>3. submitted' + queued = submitted + queued'
  BY DEF WaitFirst, Typed, TypeOK, loopVars, poolVars
<1>4. UNCHANGED <<summaries, logged, flying, error>> /\ ((UNCHANGED <<records, finished>>) \/ TakeFinished)
  BY DEF WaitFirst, trafficVars, suiteVars, poolVars
<1>5. QED
  BY <1>1, <1>2, <1>3, <1>4, LoopCounts DEF Typed

LEMMA ChaosLoopReported == ASSUME Typed, Flow, Reported, ChaosLoop PROVE Reported'
  BY DEF Reported, ChaosLoop, Goes, reportVars

LEMMA ChaosLoopCounts == ASSUME Typed, Flow, Counts, ChaosLoop PROVE Counts'
<1>1. pc \in Running /\ TypeOK'
  BY ChaosLoopTypes DEF ChaosLoop, Running, InStage
<1>2. pc' \in Running
  BY <1>1, StageHere DEF ChaosLoop, Goes, Running, InStage
<1>3. submitted' + queued = submitted + queued'
  BY DEF ChaosLoop, Typed, TypeOK, loopVars, poolVars
<1>4. UNCHANGED <<summaries, logged, flying, error>> /\ ((UNCHANGED <<records, finished>>) \/ TakeFinished)
  BY DEF ChaosLoop, trafficVars, suiteVars, poolVars
<1>5. QED
  BY <1>1, <1>2, <1>3, <1>4, LoopCounts DEF Typed

LEMMA ChaosSubmitReported == ASSUME Typed, Flow, Reported, ChaosSubmit PROVE Reported'
  BY DEF Reported, ChaosSubmit, Goes, reportVars

LEMMA ChaosSubmitCounts == ASSUME Typed, Flow, Counts, ChaosSubmit PROVE Counts'
<1>1. pc \in Running /\ TypeOK'
  BY ChaosSubmitTypes DEF ChaosSubmit, Running, InStage
<1>2. pc' \in Running
  BY <1>1, StageHere DEF ChaosSubmit, Submit, Goes, Running, InStage
<1>3. submitted' + queued = submitted + queued'
  BY DEF ChaosSubmit, Submit, Typed, TypeOK, loopVars, poolVars
<1>4. UNCHANGED <<summaries, logged, flying, error>> /\ ((UNCHANGED <<records, finished>>) \/ TakeFinished)
  BY DEF ChaosSubmit, Submit, trafficVars, suiteVars, poolVars
<1>5. QED
  BY <1>1, <1>2, <1>3, <1>4, LoopCounts DEF Typed

LEMMA ChaosReapReported == ASSUME Typed, Flow, Reported, ChaosReap PROVE Reported'
  BY DEF Reported, ChaosReap, Goes, reportVars

LEMMA ChaosReapCounts == ASSUME Typed, Flow, Counts, ChaosReap PROVE Counts'
<1>1. pc \in Running /\ TypeOK'
  BY ChaosReapTypes DEF ChaosReap, Running, InStage
<1>2. pc' \in Running
  BY <1>1, StageHere DEF ChaosReap, Goes, Running, InStage
<1>3. submitted' + queued = submitted + queued'
  BY DEF ChaosReap, Typed, TypeOK, loopVars, poolVars
<1>4. UNCHANGED <<summaries, logged, flying, error>> /\ ((UNCHANGED <<records, finished>>) \/ TakeFinished)
  BY DEF ChaosReap, trafficVars, suiteVars, poolVars
<1>5. QED
  BY <1>1, <1>2, <1>3, <1>4, LoopCounts DEF Typed

LEMMA CollectReported == ASSUME Typed, Flow, Reported, Collect PROVE Reported'
  BY DEF Reported, Collect, Goes, reportVars

LEMMA CollectCounts == ASSUME Typed, Flow, Counts, Collect PROVE Counts'
<1>1. pc \in Running /\ TypeOK'
  BY CollectTypes DEF Collect, Running, InStage
<1>2. pc' \in Running
  BY <1>1, StageHere DEF Collect, Goes, Running, InStage
<1>3. submitted' + queued = submitted + queued'
  BY DEF Collect, Typed, TypeOK, loopVars, poolVars
<1>4. UNCHANGED <<summaries, logged, flying, error>> /\ ((UNCHANGED <<records, finished>>) \/ TakeFinished)
  BY DEF Collect, trafficVars, suiteVars, poolVars
<1>5. QED
  BY <1>1, <1>2, <1>3, <1>4, LoopCounts DEF Typed

LEMMA SummarizeReported == ASSUME Typed, Flow, Reported, Summarize PROVE Reported'
  BY DEF Reported, Summarize, Enter, Goes, RampGoesOn, reportVars

LEMMA SummarizeCounts == ASSUME Typed, Flow, Counts, Summarize PROVE Counts'
<1>1. PICK row \in Row : Summarized(row)
  BY SummarizeRow
<1>2. summaries' = Append(summaries, row) /\ row.count = Total(records)
  BY <1>1 DEF Summarized
<1>3. Counted' = Counted + Total(records) /\ Counted \in Nat
  BY <1>1, <1>2, CountedAdds DEF Typed, TypeOK
<1>4. pc = "summarize" /\ ~error /\ ~error' /\ queued = 0 /\ flying = 0 /\ finished = None
      /\ UNCHANGED <<logged, flying, finished>>
  BY DEF Flow, Summarize, suiteVars, trafficVars, Open, Over, InStage, poolVars, Enter, Typed, TypeOK
<1>5. Total(Held) = Total(records) /\ Total(finished) = 0 /\ Total(records) \in Nat
  BY <1>4, ResultCounts DEF Held, Running, Typed, TypeOK
<1>6. Total(Held') = 0
  <2>1. CASE pc' = "after"
    BY <2>1, ResultCounts DEF Held, Running, InStage
  <2>2. CASE records' = None
    BY <2>2, ResultCounts DEF Held
  <2>3. QED
    BY <1>1, <2>1, <2>2 DEF Summarized, Goes, Enter
<1>7. ~error' => Total(logged') = Counted' + Total(Held') + Total(finished')
  BY <1>3, <1>4, <1>5, <1>6 DEF Counts
<1>8. pc' \in Running => submitted' = queued' + flying' + Total(finished') + Total(records')
  <2>1. CASE pc' = "after"
    BY <2>1 DEF Running, InStage
  <2>2. CASE RampGoesOn(row.status) /\ Enter(level + Now.step)
    <3>1. stage \in DOMAIN plan /\ Valid(Now) /\ Now.mode = "ramp" /\ level \in Nat
      BY <1>4, <2>2, StageHere DEF Running, RampGoesOn, Typed, TypeOK
    <3>2. queued' = submitted' /\ submitted' \in Nat /\ records' = None
      BY <2>2, <3>1 DEF Enter, Fixed, FixedCount, Valid
    <3>3. flying' = 0 /\ Total(finished') = 0 /\ Total(records') = 0
      BY <1>4, <3>2, ResultCounts
    <3> DEFINE s == submitted'
               q == queued'
               f == flying'
               a == Total(finished')
               b == Total(records')
    <3>4. s \in Nat /\ q = s /\ f = 0 /\ a = 0 /\ b = 0
      BY <3>2, <3>3
    <3> HIDE DEF s, q, f, a, b
    <3>5. s = q + f + a + b
      BY <3>4
    <3>6. QED
      BY <3>5 DEF s, q, f, a, b
  <2>3. QED
    BY <1>1, <2>1, <2>2 DEF Summarized, Goes
<1>9. QED
  BY <1>7, <1>8 DEF Counts

LEMMA AfterStageReported == ASSUME Typed, Flow, Reported, AfterStage PROVE Reported'
  BY DEF Reported, AfterStage, reportVars

LEMMA AfterStageCounts == ASSUME Typed, Flow, Counts, AfterStage PROVE Counts'
  BY CountedSame DEF Counts, Held, AfterStage, Running, InStage, poolVars, trafficVars

LEMMA PostflightReported == ASSUME Typed, Flow, Reported, RequireHealth("postflight", "outputs") PROVE Reported'
  BY DEF Reported, RequireHealth, Goes, reportVars

LEMMA PostflightCounts == ASSUME Typed, Flow, Counts, RequireHealth("postflight", "outputs") PROVE Counts'
  BY CountedSame DEF Counts, Held, RequireHealth, Goes, Running, InStage, poolVars, trafficVars

LEMMA ShutdownReported == ASSUME Typed, Flow, Reported, Shutdown PROVE Reported'
  BY DEF Reported, Shutdown, Goes, reportVars

LEMMA ShutdownCounts == ASSUME Typed, Flow, Counts, Shutdown PROVE Counts'
  BY DEF Flow, Counts, Shutdown, Goes, Running, InStage, suiteVars

LEMMA WriteOutputsReported == ASSUME Typed, Flow, Reported, WriteOutputs PROVE Reported'
  BY DEF Reported, WriteOutputs, Goes, trafficVars

LEMMA WriteOutputsCounts == ASSUME Typed, Flow, Counts, WriteOutputs PROVE Counts'
  BY CountedSame DEF Counts, Held, WriteOutputs, Goes, Running, InStage, poolVars, trafficVars, suiteVars

LEMMA UpdateReadmeReported == ASSUME Typed, Flow, Reported, UpdateReadme PROVE Reported'
  BY VerdictSame DEF Reported, UpdateReadme, Goes, trafficVars, suiteVars, worldVars

LEMMA UpdateReadmeCounts == ASSUME Typed, Flow, Counts, UpdateReadme PROVE Counts'
  BY CountedSame DEF Counts, Held, UpdateReadme, Goes, Running, InStage, poolVars, trafficVars, suiteVars

LEMMA SendReported == ASSUME Typed, Flow, Reported, Send PROVE Reported'
  BY VerdictSame DEF Reported, Send, planVars, suiteVars, reportVars, worldVars

LEMMA SendCounts == ASSUME Typed, Flow, Counts, Send PROVE Counts'
  BY CountedSame DEF Typed, TypeOK, Counts, Held, Send, ClientOpen, Running, InStage, Over, planVars, loopVars,
     suiteVars

LEMMA AnswerReported == ASSUME Typed, Flow, Reported, Answer PROVE Reported'
  BY VerdictSame DEF Typed, TypeOK, Flow, Reported, Answer, InStage, Open, planVars, suiteVars, reportVars, worldVars

LEMMA AnswerCounts == ASSUME Typed, Flow, Counts, Answer PROVE Counts'
<1>1. PICK r \in Results : finished' = [finished EXCEPT ![r] = @ + 1] /\ logged' = [logged EXCEPT ![r] = @ + 1]
  BY DEF Answer, Results
<1>2. Total(logged') = Total(logged) + 1 /\ Total(finished') = Total(finished) + 1
      /\ Total(logged) \in Nat /\ Total(finished) \in Nat /\ Total(records) \in Nat /\ Total(Held) \in Nat
  BY <1>1, ResultCounts DEF Typed, TypeOK, Held
<1>3. flying \in Nat /\ queued \in Nat /\ flying' = flying - 1 /\ flying > 0
      /\ UNCHANGED <<planVars, loopVars, queued, records, suiteVars>>
  BY DEF Answer, Typed, TypeOK
<1>4. Counted' = Counted /\ Counted \in Nat /\ Held' = Held
  BY <1>3, CountedSame, CountedType DEF suiteVars, Typed, TypeOK, Held, planVars
<1> DEFINE a == Total(records)
           b == Total(finished)
           c == Total(logged)
           h == Total(Held)
           d == Total(finished')
<1>5. a \in Nat /\ b \in Nat /\ c \in Nat /\ h \in Nat /\ d = b + 1
  BY <1>2
<1>6. (~error => c = Counted + h + b) /\ (pc \in Running => submitted = queued + flying + b + a)
  BY DEF Counts
<1> HIDE DEF a, b, c, h, d
<1>7. (~error => c + 1 = Counted + h + d) /\ (pc \in Running => submitted = queued + flying' + d + a)
  BY <1>3, <1>4, <1>5, <1>6
<1>8. QED
  BY <1>2, <1>3, <1>4, <1>7 DEF Counts, a, c, h, d, planVars, suiteVars, loopVars

LEMMA TimePassesReported == ASSUME Typed, Flow, Reported, TimePasses PROVE Reported'
  BY DEF Reported, TimePasses, InStage, planVars, reportVars

LEMMA TimePassesCounts == ASSUME Typed, Flow, Counts, TimePasses PROVE Counts'
  BY CountedSame DEF Counts, Held, TimePasses, planVars, loopVars, poolVars, trafficVars, suiteVars

LEMMA InterruptReported == ASSUME Typed, Flow, Reported, Interrupt PROVE Reported'
  BY DEF Reported, Interrupt, Goes, Over, reportVars

LEMMA InterruptCounts == ASSUME Typed, Flow, Counts, Interrupt PROVE Counts'
  BY DEF Counts, Interrupt, Goes, Running, InStage, Over

LEMMA WorldReported == ASSUME Typed, Flow, Reported, World PROVE Reported'
  BY VerdictSame DEF Reported, World, GoesDown, ComesBack, RunsShort, Relaxes, planVars, trafficVars, suiteVars,
     reportVars

LEMMA WorldCounts == ASSUME Typed, Flow, Counts, World PROVE Counts'
  BY CountedSame DEF Counts, Held, World, planVars, loopVars, poolVars, trafficVars, suiteVars

LEMMA StutterReported == ASSUME Typed, Flow, Reported, UNCHANGED vars PROVE Reported'
  BY VerdictSame DEF Reported, vars, planVars, trafficVars, suiteVars, reportVars, worldVars

LEMMA StutterCounts == ASSUME Typed, Flow, Counts, UNCHANGED vars PROVE Counts'
  BY CountedSame DEF Counts, Held, vars, planVars, loopVars, poolVars, trafficVars, suiteVars

-----------------------------------------------------------------------------
(********************************************************************************)
(* A suite that has passed: one lemma for each action.                          *)
(********************************************************************************)

\* Where a loop takes what is done, what is slow or fails stays counted.
LEMMA LoopClean ==
  ASSUME TypeOK, Clean, pc \in Running, pc' \in Running, UNCHANGED <<summaries, logged, error>>,
         (UNCHANGED <<records, finished>>) \/ TakeFinished
  PROVE  Clean'
<1>1. Passed' <=> Passed
  BY DEF Passed
<1>2. Held = records /\ Held' = records'
  BY DEF Held
<1>3. ASSUME NEW r \in {"slow", "error"}
      PROVE  records'[r] + finished'[r] = records[r] + finished[r]
  <2>1. records[r] \in Nat /\ finished[r] \in Nat
    BY DEF TypeOK, Results
  <2>2. CASE TakeFinished
    <3>1. records'[r] = records[r] + finished[r] /\ finished'[r] = 0
      BY <2>2 DEF TakeFinished, Plus, None, Results
    <3>2. QED
      BY <2>1, <3>1
  <2>3. CASE UNCHANGED <<records, finished>>
    BY <2>3
  <2>4. QED
    BY <2>2, <2>3
<1>4. QED
  BY <1>1, <1>2, <1>3 DEF Clean

LEMMA PreflightClean == ASSUME Typed, Flow, Clean, RequireHealth("preflight", "next") PROVE Clean'
  BY DEF Clean, Passed, Held, RequireHealth, Goes, Running, InStage, poolVars, trafficVars

LEMMA NextStageClean == ASSUME Typed, Flow, Clean, NextStage PROVE Clean'
<1>1. pc = "next" /\ UNCHANGED <<trafficVars, suiteVars, flying, finished>>
  BY DEF NextStage, Enter, poolVars
<1>2. Held = None
  BY <1>1 DEF Held, Running, InStage
<1>3. Held' = None
  BY DEF NextStage, Held, Enter, Goes, Running, InStage
<1>4. QED
  BY <1>1, <1>2, <1>3 DEF Clean, Passed, trafficVars, suiteVars

LEMMA IntervalLoopClean == ASSUME Typed, Flow, Clean, IntervalLoop PROVE Clean'
<1>1. pc \in Running
  BY DEF IntervalLoop, Running, InStage
<1>2. pc' \in Running
  BY <1>1, StageHere DEF IntervalLoop, Submit, Goes, Running, InStage
<1>3. UNCHANGED <<summaries, logged, error>> /\ ((UNCHANGED <<records, finished>>) \/ TakeFinished)
  BY DEF IntervalLoop, Submit, trafficVars, suiteVars, poolVars
<1>4. QED
  BY <1>1, <1>2, <1>3, LoopClean DEF Typed

LEMMA BatchLoopClean == ASSUME Typed, Flow, Clean, BatchLoop PROVE Clean'
<1>1. pc \in Running
  BY DEF BatchLoop, Running, InStage
<1>2. pc' \in Running
  BY <1>1, StageHere DEF BatchLoop, Goes, Running, InStage
<1>3. UNCHANGED <<summaries, logged, error>> /\ ((UNCHANGED <<records, finished>>) \/ TakeFinished)
  BY DEF BatchLoop, trafficVars, suiteVars, poolVars
<1>4. QED
  BY <1>1, <1>2, <1>3, LoopClean DEF Typed

LEMMA SoakLoopClean == ASSUME Typed, Flow, Clean, SoakLoop PROVE Clean'
<1>1. pc \in Running
  BY DEF SoakLoop, Running, InStage
<1>2. pc' \in Running
  BY <1>1, StageHere DEF SoakLoop, LeaveSoak, Goes, Running, InStage
<1>3. UNCHANGED <<summaries, logged, error>> /\ ((UNCHANGED <<records, finished>>) \/ TakeFinished)
  BY DEF SoakLoop, LeaveSoak, trafficVars, suiteVars, poolVars
<1>4. QED
  BY <1>1, <1>2, <1>3, LoopClean DEF Typed

LEMMA SoakRefillClean == ASSUME Typed, Flow, Clean, SoakRefill PROVE Clean'
<1>1. pc \in Running
  BY DEF SoakRefill, Running, InStage
<1>2. pc' \in Running
  BY <1>1, StageHere DEF SoakRefill, LeaveSoak, Submit, Goes, Running, InStage
<1>3. UNCHANGED <<summaries, logged, error>> /\ ((UNCHANGED <<records, finished>>) \/ TakeFinished)
  BY DEF SoakRefill, LeaveSoak, Submit, trafficVars, suiteVars, poolVars
<1>4. QED
  BY <1>1, <1>2, <1>3, LoopClean DEF Typed

LEMMA WaitFirstClean == ASSUME Typed, Flow, Clean, WaitFirst PROVE Clean'
<1>1. pc \in Running
  BY DEF WaitFirst, Running, InStage
<1>2. pc' \in Running
  BY <1>1, StageHere DEF ModeAt, WaitFirst, Goes, Running, InStage
<1>3. UNCHANGED <<summaries, logged, error>> /\ ((UNCHANGED <<records, finished>>) \/ TakeFinished)
  BY DEF WaitFirst, trafficVars, suiteVars, poolVars
<1>4. QED
  BY <1>1, <1>2, <1>3, LoopClean DEF Typed

LEMMA ChaosLoopClean == ASSUME Typed, Flow, Clean, ChaosLoop PROVE Clean'
<1>1. pc \in Running
  BY DEF ChaosLoop, Running, InStage
<1>2. pc' \in Running
  BY <1>1, StageHere DEF ChaosLoop, Goes, Running, InStage
<1>3. UNCHANGED <<summaries, logged, error>> /\ ((UNCHANGED <<records, finished>>) \/ TakeFinished)
  BY DEF ChaosLoop, trafficVars, suiteVars, poolVars
<1>4. QED
  BY <1>1, <1>2, <1>3, LoopClean DEF Typed

LEMMA ChaosSubmitClean == ASSUME Typed, Flow, Clean, ChaosSubmit PROVE Clean'
<1>1. pc \in Running
  BY DEF ChaosSubmit, Running, InStage
<1>2. pc' \in Running
  BY <1>1, StageHere DEF ChaosSubmit, Submit, Goes, Running, InStage
<1>3. UNCHANGED <<summaries, logged, error>> /\ ((UNCHANGED <<records, finished>>) \/ TakeFinished)
  BY DEF ChaosSubmit, Submit, trafficVars, suiteVars, poolVars
<1>4. QED
  BY <1>1, <1>2, <1>3, LoopClean DEF Typed

LEMMA ChaosReapClean == ASSUME Typed, Flow, Clean, ChaosReap PROVE Clean'
<1>1. pc \in Running
  BY DEF ChaosReap, Running, InStage
<1>2. pc' \in Running
  BY <1>1, StageHere DEF ChaosReap, Goes, Running, InStage
<1>3. UNCHANGED <<summaries, logged, error>> /\ ((UNCHANGED <<records, finished>>) \/ TakeFinished)
  BY DEF ChaosReap, trafficVars, suiteVars, poolVars
<1>4. QED
  BY <1>1, <1>2, <1>3, LoopClean DEF Typed

LEMMA CollectClean == ASSUME Typed, Flow, Clean, Collect PROVE Clean'
<1>1. pc \in Running
  BY DEF Collect, Running, InStage
<1>2. pc' \in Running
  BY <1>1, StageHere DEF Collect, Goes, Running, InStage
<1>3. UNCHANGED <<summaries, logged, error>> /\ ((UNCHANGED <<records, finished>>) \/ TakeFinished)
  BY DEF Collect, trafficVars, suiteVars, poolVars
<1>4. QED
  BY <1>1, <1>2, <1>3, LoopClean DEF Typed

LEMMA SummarizeClean == ASSUME Typed, Flow, Clean, Summarize PROVE Clean'
<1>1. PICK row \in Row : Summarized(row)
  BY SummarizeRow
<1>2. pc = "summarize" /\ UNCHANGED <<logged, error, finished>>
  BY DEF Summarize, Enter, trafficVars, suiteVars, poolVars
<1>3. Held = records
  BY <1>2 DEF Held, Running
<1>4. Held' = None
  BY <1>1 DEF Summarized, Held, Enter, Goes, Running, InStage
<1>5. Passed' => Passed /\ row.status \in {"passed", "skipped"}
  <2>1. summaries \in Seq(Row) /\ summaries' = Append(summaries, row)
    BY <1>1 DEF Summarized, Typed, TypeOK
  <2>2. Len(summaries) \in Nat /\ Len(summaries) + 1 \in DOMAIN summaries' /\ summaries'[Len(summaries) + 1] = row
        /\ \A k \in DOMAIN summaries : k \in DOMAIN summaries' /\ summaries'[k] = summaries[k]
    BY <2>1
  <2>3. QED
    BY <2>2 DEF Passed
<1>6. ASSUME Passed', ~error, NEW r \in {"slow", "error"}
      PROVE  logged[r] = None[r] + finished[r]
  <2>1. records[r] = 0
    BY <1>1, <1>5, <1>6 DEF Summarized
  <2>2. None[r] = 0
    BY DEF None, Results
  <2>3. logged[r] = records[r] + finished[r]
    BY <1>3, <1>5, <1>6 DEF Clean
  <2>4. QED
    BY <2>1, <2>2, <2>3
<1>7. QED
  BY <1>2, <1>4, <1>6 DEF Clean

LEMMA AfterStageClean == ASSUME Typed, Flow, Clean, AfterStage PROVE Clean'
  BY DEF Clean, Passed, Held, AfterStage, Running, InStage, poolVars, trafficVars

LEMMA PostflightClean == ASSUME Typed, Flow, Clean, RequireHealth("postflight", "outputs") PROVE Clean'
  BY DEF Clean, Passed, Held, RequireHealth, Goes, Running, InStage, poolVars, trafficVars

LEMMA ShutdownClean == ASSUME Typed, Flow, Clean, Shutdown PROVE Clean'
  BY DEF Clean, Passed, Held, Shutdown, Goes, Running, InStage, poolVars, trafficVars, suiteVars

LEMMA WriteOutputsClean == ASSUME Typed, Flow, Clean, WriteOutputs PROVE Clean'
  BY DEF Clean, Passed, Held, WriteOutputs, Goes, Running, InStage, poolVars, trafficVars, suiteVars

LEMMA UpdateReadmeClean == ASSUME Typed, Flow, Clean, UpdateReadme PROVE Clean'
  BY DEF Clean, Passed, Held, UpdateReadme, Goes, Running, InStage, poolVars, trafficVars, suiteVars

LEMMA SendClean == ASSUME Typed, Flow, Clean, Send PROVE Clean'
  BY DEF Clean, Passed, Held, Send, planVars, suiteVars

LEMMA AnswerClean == ASSUME Typed, Flow, Clean, Answer PROVE Clean'
<1>1. PICK r \in Results : finished' = [finished EXCEPT ![r] = @ + 1] /\ logged' = [logged EXCEPT ![r] = @ + 1]
  BY DEF Answer, Results
<1>2. UNCHANGED <<records, planVars, suiteVars>>
  BY DEF Answer
<1>3. Held' = Held /\ (Passed' <=> Passed) /\ error' = error
  BY <1>2 DEF Held, Passed, planVars, suiteVars
<1>4. ASSUME NEW q \in {"slow", "error"}, logged[q] = Held[q] + finished[q]
      PROVE  logged'[q] = Held'[q] + finished'[q]
  <2>1. logged \in [Results -> Nat] /\ finished \in [Results -> Nat] /\ q \in Results /\ Held[q] \in Nat
    BY DEF Typed, TypeOK, Results, Held, None
  <2>2. CASE q = r
    <3>1. logged'[q] = logged[q] + 1 /\ finished'[q] = finished[q] + 1 /\ finished[q] \in Nat
      BY <1>1, <2>1, <2>2
    <3>2. QED
      BY <1>3, <1>4, <2>1, <3>1
  <2>3. CASE q # r
    <3>1. logged'[q] = logged[q] /\ finished'[q] = finished[q]
      BY <1>1, <2>1, <2>3
    <3>2. QED
      BY <1>3, <1>4, <3>1
  <2>4. QED
    BY <2>2, <2>3
<1>5. QED
  BY <1>3, <1>4 DEF Clean

LEMMA TimePassesClean == ASSUME Typed, Flow, Clean, TimePasses PROVE Clean'
  BY DEF Clean, Passed, Held, TimePasses, planVars, poolVars, trafficVars, suiteVars

LEMMA InterruptClean == ASSUME Typed, Flow, Clean, Interrupt PROVE Clean'
  BY DEF Clean, Interrupt

LEMMA WorldClean == ASSUME Typed, Flow, Clean, World PROVE Clean'
  BY DEF Clean, Passed, Held, World, planVars, poolVars, trafficVars, suiteVars

LEMMA StutterClean == ASSUME Typed, Flow, Clean, UNCHANGED vars PROVE Clean'
  BY DEF Clean, Passed, Held, vars, planVars, poolVars, trafficVars, suiteVars

-----------------------------------------------------------------------------
(********************************************************************************)
(* The sums of levels, of stages and of rows.                                   *)
(********************************************************************************)

\* What the levels of a ramp from one of them on submit: its own, and what those above it do.
LEMMA LevelSums ==
  ASSUME NEW s, Valid(s), s.mode = "ramp", NEW c \in Levels(s)
  PROVE  /\ c * s.perWorker \in Nat /\ LevelSum(s, c) \in Nat /\ c * s.perWorker <= LevelSum(s, c)
         /\ c + s.step <= s.max =>
              LevelSum(s, c + s.step) \in Nat /\ LevelSum(s, c) = c * s.perWorker + LevelSum(s, c + s.step)
         /\ c + s.step > s.max => LevelSum(s, c) = c * s.perWorker
<1>1. s.step \in Nat \ {0} /\ s.max \in Nat /\ s.perWorker \in Nat
  BY DEF Valid
<1>2. /\ Levels(s) \subseteq Nat \ {0} /\ IsFiniteSet(Levels(s))
      /\ \A d \in Levels(s) : d <= s.max /\ (c < d => c + s.step <= d)
      /\ c + s.step <= s.max => c + s.step \in Levels(s)
  BY RampLevels
<1> DEFINE n == PerLevel(s)
           above == {d \in Levels(s) : d > c}
           k == c * s.perWorker
<1>3. \A d \in Levels(s) : n[d] = d * s.perWorker /\ n[d] \in Nat
  BY <1>1, <1>2 DEF PerLevel
<1>4. k \in Nat /\ n[c] = k
  BY <1>3
<1>5. IsFiniteSet(above) /\ above \subseteq Levels(s)
  BY <1>2, FS_Subset
<1>6. LevelsFrom(s, c) = above \cup {c} /\ c \notin above
  BY <1>2 DEF LevelsFrom
<1>7. LevelSum(s, c) = SumOver(n, above \cup {c})
  BY <1>6 DEF LevelSum
<1>8. SumOver(n, above) \in Nat
  <2> HIDE DEF above, n
  <2>1. QED
    BY <1>3, <1>5, SumFinite
<1>9. SumOver(n, above \cup {c}) = k + SumOver(n, above)
  <2> HIDE DEF n, k
  <2>1. c \notin above /\ IsFiniteSet(above) /\ \A d \in above \cup {c} : n[d] \in Nat
    BY <1>3, <1>5, <1>6
  <2> HIDE DEF above
  <2>2. QED
    BY <1>4, <2>1, SumAdds
<1>10. c + s.step <= s.max => SumOver(n, above) = LevelSum(s, c + s.step)
  <2>1. SUFFICES ASSUME c + s.step <= s.max PROVE above = LevelsFrom(s, c + s.step)
    BY DEF LevelSum
  <2>2. \A d \in Levels(s) : d > c <=> d >= c + s.step
    <3> TAKE d \in Levels(s)
    <3>1. d \in Nat /\ c \in Nat /\ (c < d => c + s.step <= d)
      BY <1>2
    <3>2. QED
      BY <1>1, <3>1
  <2>3. QED
    BY <2>2 DEF LevelsFrom
<1>11. c + s.step > s.max => SumOver(n, above) = 0
  <2>1. SUFFICES ASSUME c + s.step > s.max PROVE above = {}
    BY SumEmpty
  <2>2. \A d \in Levels(s) : ~ (d > c)
    <3> TAKE d \in Levels(s)
    <3>1. d \in Nat /\ c \in Nat /\ (c < d => c + s.step <= d) /\ d <= s.max
      BY <1>2
    <3>2. QED
      BY <1>1, <2>1, <3>1
  <2>3. QED
    BY <2>2
<1> DEFINE a == SumOver(n, above)
           b == LevelSum(s, c)
<1>12. a \in Nat /\ k \in Nat /\ b = k + a
  BY <1>4, <1>7, <1>8, <1>9
<1>13. (c + s.step <= s.max => a = LevelSum(s, c + s.step)) /\ (c + s.step > s.max => a = 0)
  BY <1>10, <1>11
<1> HIDE DEF a, b, k
<1>14. /\ k \in Nat /\ b \in Nat /\ k <= b
       /\ c + s.step <= s.max => LevelSum(s, c + s.step) \in Nat /\ b = k + LevelSum(s, c + s.step)
       /\ c + s.step > s.max => b = k
  BY <1>12, <1>13
<1>15. QED
  BY <1>14 DEF b, k

\* A stage of a plan declares a number of requests, a ramp those of all its levels.
LEMMA DeclaredType ==
  ASSUME NEW s, Valid(s)
  PROVE  /\ DeclaredRequests(s) \in Nat
         /\ s.mode = "ramp" => LevelSum(s, s.start) = DeclaredRequests(s)
<1>1. CASE s.mode = "ramp"
  <2>1. DeclaredRequests(s) = SumOver(PerLevel(s), Levels(s))
    BY <1>1, SumOfOver DEF DeclaredRequests, PerLevel
  <2>2. Levels(s) = LevelsFrom(s, s.start)
    BY <1>1, RampLevels DEF LevelsFrom, Valid
  <2>3. s.start \in Levels(s)
    BY <1>1, RampLevels
  <2>4. QED
    BY <1>1, <2>1, <2>2, <2>3, LevelSums DEF LevelSum
<1>2. CASE s.mode \in {"burst", "interval", "batch"}
  BY <1>2 DEF Valid, DeclaredRequests
<1>3. CASE s.mode = "soak"
  BY <1>3 DEF Valid, DeclaredRequests
<1>4. CASE s.mode = "chaos"
  <2> DEFINE a == s.ticks * s.tps
             b == s.spikes * s.spike
  <2>1. DeclaredRequests(s) = a + b
    BY <1>4 DEF DeclaredRequests
  <2>2. a \in Nat /\ b \in Nat
    BY <1>4 DEF Valid
  <2> HIDE DEF a, b
  <2>3. QED
    BY <1>4, <2>1, <2>2
<1>5. QED
  BY <1>1, <1>2, <1>3, <1>4 DEF Valid, Modes

\* What the stages of a plan from one of them on declare: its own, and what those after it do.
LEMMA RestSums ==
  ASSUME NEW p \in Plans
  PROVE  /\ Declared(p) \in Nat /\ Rest(p, 1) = Declared(p)
         /\ \A m \in Nat : Rest(p, m) \in Nat
         /\ \A m \in DOMAIN p : Rest(p, m) = DeclaredRequests(p[m]) + Rest(p, m + 1)
<1> DEFINE n == PerStage(p)
<1>1. Len(p) \in Nat /\ DOMAIN p = 1..Len(p) /\ \A i \in DOMAIN p : Valid(p[i])
  BY PlanStages
<1>2. IsFiniteSet(DOMAIN p)
  BY <1>1, FS_Interval
<1>3. \A i \in DOMAIN p : n[i] = DeclaredRequests(p[i]) /\ n[i] \in Nat
  BY <1>1, DeclaredType DEF PerStage
<1>4. Declared(p) = SumOver(n, DOMAIN p)
  BY SumOfOver DEF Declared, PerStage
<1>5. \A m \in Nat : IsFiniteSet(StagesFrom(p, m)) /\ StagesFrom(p, m) \subseteq DOMAIN p
  BY <1>2, FS_Subset DEF StagesFrom
<1> HIDE DEF n
<1>6. \A m \in Nat : SumOver(n, StagesFrom(p, m)) \in Nat
  <2> TAKE m \in Nat
  <2>1. \A i \in StagesFrom(p, m) : n[i] \in Nat
    BY <1>3, <1>5
  <2>2. IsFiniteSet(StagesFrom(p, m))
    BY <1>5
  <2>3. QED
    BY <2>1, <2>2, SumFinite
<1>7. \A m \in Nat : Rest(p, m) = SumOver(n, StagesFrom(p, m))
  BY DEF Rest, n
<1>8. StagesFrom(p, 1) = DOMAIN p
  BY <1>1 DEF StagesFrom
<1>9. Declared(p) \in Nat
  BY <1>2, <1>3, <1>4, SumFinite
<1>10. Rest(p, 1) = Declared(p)
  BY <1>4, <1>7, <1>8
<1>11. ASSUME NEW m \in DOMAIN p PROVE Rest(p, m) = DeclaredRequests(p[m]) + Rest(p, m + 1)
  <2>1. m \in Nat /\ m + 1 \in Nat
    BY <1>1
  <2>2. StagesFrom(p, m) = StagesFrom(p, m + 1) \cup {m} /\ m \notin StagesFrom(p, m + 1)
    BY <1>1 DEF StagesFrom
  <2> DEFINE S == StagesFrom(p, m + 1)
  <2>3. IsFiniteSet(S) /\ m \notin S /\ \A i \in S \cup {m} : n[i] \in Nat
    BY <1>3, <1>5, <2>1, <2>2
  <2> HIDE DEF S
  <2>4. SumOver(n, S \cup {m}) = n[m] + SumOver(n, S)
    BY <2>3, SumAdds
  <2>5. n[m] = DeclaredRequests(p[m])
    BY <1>3
  <2>6. SumOver(n, S) = Rest(p, m + 1)
    BY <1>7, <2>1 DEF S
  <2>7. Rest(p, m) = SumOver(n, S \cup {m})
    BY <1>7, <2>1, <2>2 DEF S
  <2>8. QED
    BY <2>4, <2>5, <2>6, <2>7
<1>12. QED
  BY <1>6, <1>7, <1>9, <1>10, <1>11

\* A row more counts for its stage alone.
LEMMA RowsAdd ==
  ASSUME NEW rows \in Seq(Row), NEW row \in Row, NEW i
  PROVE  LET more == Append(rows, row) IN
         /\ RowSum(rows, i) \in Nat
         /\ i # row.stage => RowsOf(more, i) = RowsOf(rows, i) /\ RowSum(more, i) = RowSum(rows, i)
         /\ i = row.stage => /\ RowsOf(more, i) = RowsOf(rows, i) \cup {Len(rows) + 1}
                             /\ RowSum(more, i) = row.count + RowSum(rows, i)
         /\ \A k \in RowsOf(rows, i) : more[k] = rows[k]
         /\ more[Len(rows) + 1] = row
<1> DEFINE more == Append(rows, row)
           n == Len(rows)
           old == CountsOf(rows)
           new == CountsOf(more)
           S == RowsOf(rows, i)
<1>1. n \in Nat /\ DOMAIN rows = 1..n /\ \A k \in 1..n : rows[k] \in Row
  OBVIOUS
<1>2. DOMAIN more = 1..(n + 1) /\ more[n + 1] = row /\ \A k \in 1..n : more[k] = rows[k]
  OBVIOUS
<1>3. 1..(n + 1) = (1..n) \cup {n + 1} /\ n + 1 \notin 1..n
  BY <1>1
<1>4. S \subseteq 1..n /\ IsFiniteSet(S) /\ n + 1 \notin S
  <2>1. S \subseteq 1..n
    BY <1>1 DEF RowsOf
  <2>2. IsFiniteSet(1..n)
    BY <1>1, FS_Interval
  <2>3. QED
    BY <1>3, <2>1, <2>2, FS_Subset
<1>5. \A k \in 1..n : old[k] \in Nat /\ new[k] = old[k]
  BY <1>1, <1>2, <1>3 DEF Row, CountsOf
<1>6. new[n + 1] = row.count /\ row.count \in Nat
  BY <1>2, <1>3 DEF Row, CountsOf
<1>7. RowsOf(more, i) = S \cup (IF i = row.stage THEN {n + 1} ELSE {})
  <2>1. RowsOf(more, i) = {k \in 1..(n + 1) : more[k].stage = i}
    BY <1>2 DEF RowsOf
  <2>2. S = {k \in 1..n : rows[k].stage = i}
    BY <1>1 DEF RowsOf
  <2> HIDE DEF more, n, S
  <2>3. QED
    BY <1>2, <1>3, <2>1, <2>2
<1>8. \A k \in S : more[k] = rows[k]
  BY <1>2, <1>4
<1> HIDE DEF more, n, old, new, S
<1>9. SumOver(old, S) \in Nat /\ SumOver(new, S) = SumOver(old, S)
  <2>1. \A k \in S : old[k] \in Nat /\ new[k] = old[k]
    BY <1>4, <1>5
  <2>2. QED
    BY <1>4, <2>1, SumFinite, SumSame
<1>10. SumOver(new, S \cup {n + 1}) = new[n + 1] + SumOver(new, S)
  <2>1. \A k \in S \cup {n + 1} : new[k] \in Nat
    BY <1>4, <1>5, <1>6
  <2>2. QED
    BY <1>4, <2>1, SumAdds
<1>11. RowSum(rows, i) = SumOver(old, S) /\ RowSum(more, i) = SumOver(new, RowsOf(more, i))
  BY DEF RowSum, old, new, S
<1>12. i # row.stage => RowsOf(more, i) = S /\ RowSum(more, i) = RowSum(rows, i)
  BY <1>7, <1>9, <1>11
<1>13. i = row.stage => RowsOf(more, i) = S \cup {n + 1} /\ RowSum(more, i) = row.count + RowSum(rows, i)
  BY <1>6, <1>7, <1>9, <1>10, <1>11
<1>14. QED
  BY <1>2, <1>8, <1>9, <1>11, <1>12, <1>13 DEF more, n, S

\* A stage without a row has counted nothing.
LEMMA NoRows == ASSUME NEW rows, NEW i, RowsOf(rows, i) = {} PROVE RowSum(rows, i) = 0
  BY SumEmpty DEF RowSum

\* What has been submitted in a stage is no more than what the stage has yet to be summarized for.
LEMMA WithinToDo ==
  ASSUME NEW s, Valid(s), NEW n \in Nat, NEW c, NEW t \in Nat, NEW u \in Nat,
         s.mode \in {"burst", "interval", "batch"} => n <= s.total,
         s.mode = "ramp" => c \in Levels(s) /\ n = c * s.perWorker,
         s.mode = "soak" => n <= s.cap,
         s.mode = "chaos" => t <= s.ticks /\ u <= s.spikes /\ n <= t * s.tps + u * s.spike
  PROVE  n <= IF s.mode = "ramp" THEN LevelSum(s, c) ELSE DeclaredRequests(s)
<1>1. CASE s.mode = "ramp"
  BY <1>1, LevelSums
<1>2. CASE s.mode \in {"burst", "interval", "batch"}
  BY <1>2 DEF DeclaredRequests
<1>3. CASE s.mode = "soak"
  BY <1>3 DEF DeclaredRequests
<1>4. CASE s.mode = "chaos"
  <2>1. s.ticks \in Nat /\ s.tps \in Nat /\ s.spikes \in Nat /\ s.spike \in Nat
    BY <1>4 DEF Valid
  <2> DEFINE a == t * s.tps
             b == u * s.spike
             d == s.ticks * s.tps
             e == s.spikes * s.spike
  <2>2. a <= d /\ b <= e
    BY <1>4, <2>1, Times
  <2>3. a \in Nat /\ b \in Nat /\ d \in Nat /\ e \in Nat
    BY <2>1
  <2>4. n <= a + b /\ DeclaredRequests(s) = d + e
    BY <1>4 DEF DeclaredRequests
  <2> HIDE DEF a, b, d, e
  <2>5. n <= DeclaredRequests(s)
    BY <2>2, <2>3, <2>4
  <2>6. QED
    BY <1>4, <2>5
<1>5. QED
  BY <1>1, <1>2, <1>3, <1>4 DEF Valid, Modes

\* That a stage has yet to submit is a number.
LEMMA ToDoType ==
  ASSUME NEW s, Valid(s), NEW c, s.mode = "ramp" => c \in Levels(s)
  PROVE  (IF s.mode = "ramp" THEN LevelSum(s, c) ELSE DeclaredRequests(s)) \in Nat
  BY LevelSums, DeclaredType

\* The two facts, of the stage at hand.
LEMMA NowWithin ==
  ASSUME Typed, pc \in Running
  PROVE  ToDo \in Nat /\ (AllCapped(plan) => submitted <= ToDo)
<1>1. stage \in DOMAIN plan /\ Valid(Now) /\ Progress
  BY StageHere
<1>2. submitted \in Nat /\ left \in Nat /\ ticks \in Nat /\ spikes \in Nat
  BY DEF Typed, TypeOK
<1>3. Now.mode = "ramp" => level \in Levels(Now)
  BY <1>1 DEF Progress
<1>4. Now.mode = "chaos" => ticks <= Now.ticks /\ spikes <= Now.spikes
      /\ submitted <= ticks * Now.tps + spikes * Now.spike
  <2> DEFINE a == ticks * Now.tps
             b == spikes * Now.spike
  <2>1. SUFFICES ASSUME Now.mode = "chaos" PROVE ticks <= Now.ticks /\ spikes <= Now.spikes /\ submitted <= a + b
    OBVIOUS
  <2>2. ticks <= Now.ticks /\ spikes <= Now.spikes /\ submitted + left <= a + b
    BY <1>1, <2>1 DEF Progress
  <2>3. a \in Nat /\ b \in Nat
    BY <1>1, <1>2, <2>1 DEF Valid
  <2> HIDE DEF a, b
  <2>4. QED
    BY <1>2, <2>2, <2>3
<1>5. AllCapped(plan) => (Now.mode = "soak" => submitted <= Now.cap)
  BY <1>1 DEF AllCapped, Now, Progress
<1>6. Now.mode \in {"burst", "interval", "batch"} => submitted <= Now.total
  <2>1. CASE Now.mode = "burst"
    BY <1>1, <1>2, <2>1 DEF Progress, Valid
  <2>2. CASE Now.mode = "interval"
    BY <1>1, <2>2 DEF Progress
  <2>3. CASE Now.mode = "batch"
    BY <1>1, <2>3 DEF Progress
  <2>4. QED
    BY <2>1, <2>2, <2>3
<1>7. Now.mode = "ramp" => submitted = level * Now.perWorker
  BY <1>1 DEF Progress
<1> DEFINE s == Now
           n == submitted
           c == level
           t == ticks
           u == spikes
<1>8. Valid(s) /\ n \in Nat /\ t \in Nat /\ u \in Nat
      /\ (s.mode \in {"burst", "interval", "batch"} => n <= s.total)
      /\ (s.mode = "ramp" => c \in Levels(s) /\ n = c * s.perWorker)
      /\ (AllCapped(plan) => (s.mode = "soak" => n <= s.cap))
      /\ (s.mode = "chaos" => t <= s.ticks /\ u <= s.spikes /\ n <= t * s.tps + u * s.spike)
  BY <1>1, <1>2, <1>3, <1>4, <1>5, <1>6, <1>7
<1>9. ToDo = IF s.mode = "ramp" THEN LevelSum(s, c) ELSE DeclaredRequests(s)
  BY DEF ToDo
<1> HIDE DEF s, n, c, t, u
<1>10. ToDo \in Nat
  BY <1>8, <1>9, ToDoType
<1>11. AllCapped(plan) => n <= ToDo
  BY <1>8, <1>9, WithinToDo
<1>12. QED
  BY <1>10, <1>11 DEF n

-----------------------------------------------------------------------------
(********************************************************************************)
(* The budget of the plan and the rows of its stages: one lemma for each        *)
(* action.                                                                      *)
(********************************************************************************)

\* Within the loops of a stage nothing is summarized.
LEMMA LoopBudget ==
  ASSUME Budget, Rows, pc \in Running, pc' \in Running, UNCHANGED <<plan, stage, level, summaries, error, pressure>>
  PROVE  Budget' /\ Rows'
<1>1. Now' = Now /\ Counted' = Counted
  BY CountedSame DEF Now
<1>2. ToDo' = ToDo
  BY <1>1 DEF ToDo
<1>3. Left = ToDo + Rest(plan, stage + 1) /\ Left' = ToDo + Rest(plan, stage + 1)
  BY <1>2 DEF Left, Running, InStage
<1>4. Budget'
  BY <1>1, <1>3 DEF Budget
<1>5. \A i : Complete(plan[i], i) => Complete(plan[i], i)'
  BY DEF Complete
<1>6. ~error => \A k \in DOMAIN summaries :
       /\ summaries[k].stage \in DOMAIN plan /\ summaries[k].stage <= stage
       /\ pc \in Running /\ Now.mode # "ramp" => summaries[k].stage < stage
  BY DEF Rows
<1>7. ~error /\ Now.mode = "ramp" => RowSum(summaries, stage) + LevelSum(Now, level) = DeclaredRequests(Now)
  BY DEF Rows
<1>8. pc # "after" /\ pc' # "after" /\ pc' \notin {"preflight", "next"}
  BY DEF Running, InStage
<1>9. ~error => \A i \in DOMAIN plan : i < stage => Complete(plan[i], i)
  BY DEF Rows
<1>10. Rows'
  BY <1>1, <1>5, <1>6, <1>7, <1>8, <1>9 DEF Rows
<1>11. QED
  BY <1>4, <1>10

\* Beyond the stages nothing is left to be summarized.
LEMMA LeaveBudget ==
  ASSUME TypeOK, pc \in {"next", "postflight", "outputs", "campaign", "shutdown", "done", "aborted"}, Budget, Rows,
         pc' \in {"postflight", "outputs", "campaign", "shutdown", "done", "aborted"},
         UNCHANGED <<plan, stage, summaries, pressure>>, ~error' => ~error
  PROVE  Budget' /\ Rows'
<1>1. Counted' = Counted /\ Counted \in Nat
  BY CountedSame, CountedType DEF TypeOK
<1>2. Left' = 0 /\ Left \in Nat
  BY RestSums DEF Left, Running, InStage, TypeOK
<1>3. Budget'
  <2>1. SUFFICES ASSUME ~error, AllCapped(plan) PROVE Counted <= Declared(plan)
    BY <1>1, <1>2 DEF Budget
  <2>2. Counted + Left <= Declared(plan) /\ Declared(plan) \in Nat
    BY <2>1, RestSums DEF Budget, TypeOK
  <2>3. QED
    BY <1>1, <1>2, <2>2
<1>4. \A i : Complete(plan[i], i) => Complete(plan[i], i)'
  BY DEF Complete
<1>5. ~error => \A k \in DOMAIN summaries : summaries[k].stage \in DOMAIN plan /\ summaries[k].stage <= stage
  BY DEF Rows
<1>6. ~error => \A i \in DOMAIN plan : i < stage => Complete(plan[i], i)
  BY DEF Rows
<1>7. pc' \notin Running /\ pc' \notin {"preflight", "next", "after"}
  BY DEF Running, InStage
<1>8. Rows'
  BY <1>4, <1>5, <1>6, <1>7 DEF Rows
<1>9. QED
  BY <1>3, <1>8

LEMMA PreflightBudget ==
  ASSUME Typed, Flow, Counts, Budget, Rows, RequireHealth("preflight", "next")
  PROVE  Budget' /\ Rows'
<1>1. UNCHANGED <<plan, stage, summaries, pressure, level>> /\ (~error' => ~error /\ pc' = "next") /\ pc = "preflight"
  BY DEF RequireHealth, Goes, worldVars
<1>2. Counted' = Counted
  BY <1>1, CountedSame
<1>3. \A i : Complete(plan[i], i) => Complete(plan[i], i)'
  BY <1>1 DEF Complete
<1>4. ~error' => Left' = Left
  BY <1>1 DEF Left, Running, InStage
<1>5. QED
  BY <1>1, <1>2, <1>3, <1>4 DEF Budget, Rows, Running, InStage

LEMMA IntervalLoopBudget == ASSUME Typed, Flow, Counts, Budget, Rows, IntervalLoop PROVE Budget' /\ Rows'
<1>1. pc \in Running
  BY DEF IntervalLoop, Running, InStage
<1>2. pc' \in Running
  BY <1>1, StageHere DEF IntervalLoop, Submit, Goes, Running, InStage
<1>3. UNCHANGED <<plan, stage, level, summaries, error, pressure>>
  BY DEF IntervalLoop, Submit, Goes, suiteVars, worldVars
<1>4. QED
  BY <1>1, <1>2, <1>3, LoopBudget

LEMMA BatchLoopBudget == ASSUME Typed, Flow, Counts, Budget, Rows, BatchLoop PROVE Budget' /\ Rows'
<1>1. pc \in Running
  BY DEF BatchLoop, Running, InStage
<1>2. pc' \in Running
  BY <1>1, StageHere DEF BatchLoop, Goes, Running, InStage
<1>3. UNCHANGED <<plan, stage, level, summaries, error, pressure>>
  BY DEF BatchLoop, Goes, suiteVars, worldVars
<1>4. QED
  BY <1>1, <1>2, <1>3, LoopBudget

LEMMA SoakLoopBudget == ASSUME Typed, Flow, Counts, Budget, Rows, SoakLoop PROVE Budget' /\ Rows'
<1>1. pc \in Running
  BY DEF SoakLoop, Running, InStage
<1>2. pc' \in Running
  BY <1>1, StageHere DEF SoakLoop, LeaveSoak, Goes, Running, InStage
<1>3. UNCHANGED <<plan, stage, level, summaries, error, pressure>>
  BY DEF SoakLoop, LeaveSoak, Goes, suiteVars, worldVars
<1>4. QED
  BY <1>1, <1>2, <1>3, LoopBudget

LEMMA SoakRefillBudget == ASSUME Typed, Flow, Counts, Budget, Rows, SoakRefill PROVE Budget' /\ Rows'
<1>1. pc \in Running
  BY DEF SoakRefill, Running, InStage
<1>2. pc' \in Running
  BY <1>1, StageHere DEF SoakRefill, LeaveSoak, Submit, Goes, Running, InStage
<1>3. UNCHANGED <<plan, stage, level, summaries, error, pressure>>
  BY DEF SoakRefill, LeaveSoak, Submit, Goes, suiteVars, worldVars
<1>4. QED
  BY <1>1, <1>2, <1>3, LoopBudget

LEMMA WaitFirstBudget == ASSUME Typed, Flow, Counts, Budget, Rows, WaitFirst PROVE Budget' /\ Rows'
<1>1. pc \in Running
  BY DEF WaitFirst, Running, InStage
<1>2. pc' \in Running
  BY <1>1, StageHere DEF ModeAt, WaitFirst, Goes, Running, InStage
<1>3. UNCHANGED <<plan, stage, level, summaries, error, pressure>>
  BY DEF WaitFirst, Goes, suiteVars, worldVars
<1>4. QED
  BY <1>1, <1>2, <1>3, LoopBudget

LEMMA ChaosLoopBudget == ASSUME Typed, Flow, Counts, Budget, Rows, ChaosLoop PROVE Budget' /\ Rows'
<1>1. pc \in Running
  BY DEF ChaosLoop, Running, InStage
<1>2. pc' \in Running
  BY <1>1, StageHere DEF ChaosLoop, Goes, Running, InStage
<1>3. UNCHANGED <<plan, stage, level, summaries, error, pressure>>
  BY DEF ChaosLoop, Goes, suiteVars, worldVars
<1>4. QED
  BY <1>1, <1>2, <1>3, LoopBudget

LEMMA ChaosSubmitBudget == ASSUME Typed, Flow, Counts, Budget, Rows, ChaosSubmit PROVE Budget' /\ Rows'
<1>1. pc \in Running
  BY DEF ChaosSubmit, Running, InStage
<1>2. pc' \in Running
  BY <1>1, StageHere DEF ChaosSubmit, Submit, Goes, Running, InStage
<1>3. UNCHANGED <<plan, stage, level, summaries, error, pressure>>
  BY DEF ChaosSubmit, Submit, Goes, suiteVars, worldVars
<1>4. QED
  BY <1>1, <1>2, <1>3, LoopBudget

LEMMA ChaosReapBudget == ASSUME Typed, Flow, Counts, Budget, Rows, ChaosReap PROVE Budget' /\ Rows'
<1>1. pc \in Running
  BY DEF ChaosReap, Running, InStage
<1>2. pc' \in Running
  BY <1>1, StageHere DEF ChaosReap, Goes, Running, InStage
<1>3. UNCHANGED <<plan, stage, level, summaries, error, pressure>>
  BY DEF ChaosReap, Goes, suiteVars, worldVars
<1>4. QED
  BY <1>1, <1>2, <1>3, LoopBudget

LEMMA CollectBudget == ASSUME Typed, Flow, Counts, Budget, Rows, Collect PROVE Budget' /\ Rows'
<1>1. pc \in Running
  BY DEF Collect, Running, InStage
<1>2. pc' \in Running
  BY <1>1, StageHere DEF Collect, Goes, Running, InStage
<1>3. UNCHANGED <<plan, stage, level, summaries, error, pressure>>
  BY DEF Collect, Goes, suiteVars, worldVars
<1>4. QED
  BY <1>1, <1>2, <1>3, LoopBudget

LEMMA AfterStageBudget == ASSUME Typed, Flow, Counts, Budget, Rows, AfterStage PROVE Budget' /\ Rows'
<1>1. UNCHANGED <<plan, summaries, pressure, error>> /\ pc = "after" /\ pc' = "next" /\ stage' = stage + 1
      /\ stage \in Nat
  BY DEF AfterStage, worldVars, Typed, TypeOK
<1>2. Counted' = Counted
  BY <1>1, CountedSame
<1>3. \A i : Complete(plan[i], i) => Complete(plan[i], i)'
  BY <1>1 DEF Complete
<1>4. Left' = Left
  BY <1>1 DEF Left, Running, InStage
<1>5. Budget'
  BY <1>1, <1>2, <1>4 DEF Budget
<1>6. ~error => \A k \in DOMAIN summaries : summaries[k].stage \in DOMAIN plan /\ summaries[k].stage <= stage
  BY DEF Rows
<1>7. ~error => \A i \in DOMAIN plan : i < stage \/ i = stage => Complete(plan[i], i)
  BY <1>1 DEF Rows
<1>8. \A i \in DOMAIN plan : i \in Nat
  BY PlanStages DEF Typed, TypeOK
<1>9. \A i \in Nat : (i <= stage => i < stage + 1) /\ (i < stage + 1 => i < stage \/ i = stage)
  BY <1>1
<1>10. ~error => \A k \in DOMAIN summaries : summaries[k].stage \in DOMAIN plan
      /\ summaries[k].stage <= stage + 1 /\ summaries[k].stage < stage + 1
  BY <1>1, <1>6, <1>8
<1>11. ~error => \A i \in DOMAIN plan : i < stage + 1 => Complete(plan[i], i)
  BY <1>7, <1>8, <1>9
<1>12. Rows'
  BY <1>1, <1>3, <1>10, <1>11 DEF Rows, Running, InStage
<1>13. QED
  BY <1>5, <1>12

LEMMA PostflightBudget ==
  ASSUME Typed, Flow, Counts, Budget, Rows, RequireHealth("postflight", "outputs")
  PROVE  Budget' /\ Rows'
<1>1. UNCHANGED <<plan, stage, summaries, pressure>> /\ (~error' => ~error)
      /\ pc \in {"postflight", "outputs", "campaign", "shutdown"} /\ pc' \in {"outputs", "campaign", "done"}
  BY DEF RequireHealth, Goes, suiteVars, worldVars
<1>2. QED
  BY <1>1, LeaveBudget DEF Typed

LEMMA ShutdownBudget == ASSUME Typed, Flow, Counts, Budget, Rows, Shutdown PROVE Budget' /\ Rows'
<1>1. UNCHANGED <<plan, stage, summaries, pressure>> /\ (~error' => ~error)
      /\ pc \in {"postflight", "outputs", "campaign", "shutdown"} /\ pc' \in {"outputs", "campaign", "done"}
  BY DEF Shutdown, Goes, suiteVars, worldVars
<1>2. QED
  BY <1>1, LeaveBudget DEF Typed

LEMMA WriteOutputsBudget == ASSUME Typed, Flow, Counts, Budget, Rows, WriteOutputs PROVE Budget' /\ Rows'
<1>1. UNCHANGED <<plan, stage, summaries, pressure>> /\ (~error' => ~error)
      /\ pc \in {"postflight", "outputs", "campaign", "shutdown"} /\ pc' \in {"outputs", "campaign", "done"}
  BY DEF WriteOutputs, Goes, suiteVars, worldVars
<1>2. QED
  BY <1>1, LeaveBudget DEF Typed

LEMMA UpdateReadmeBudget == ASSUME Typed, Flow, Counts, Budget, Rows, UpdateReadme PROVE Budget' /\ Rows'
<1>1. UNCHANGED <<plan, stage, summaries, pressure>> /\ (~error' => ~error)
      /\ pc \in {"postflight", "outputs", "campaign", "shutdown"} /\ pc' \in {"outputs", "campaign", "done"}
  BY DEF UpdateReadme, Goes, suiteVars, worldVars
<1>2. QED
  BY <1>1, LeaveBudget DEF Typed

LEMMA SendBudget == ASSUME Typed, Flow, Counts, Budget, Rows, Send PROVE Budget' /\ Rows'
<1>1. UNCHANGED <<planVars, suiteVars, worldVars>>
  BY DEF Send
<1>2. Now' = Now /\ Counted' = Counted /\ pressure' = pressure
  BY <1>1, CountedSame DEF Now, planVars, suiteVars, worldVars
<1>3. ToDo' = ToDo /\ \A i : Complete(plan[i], i) => Complete(plan[i], i)'
  BY <1>1, <1>2 DEF ToDo, Complete, planVars, suiteVars
<1>4. Left' = Left
  BY <1>1, <1>3 DEF Left, planVars
<1>5. QED
  BY <1>1, <1>2, <1>3, <1>4 DEF Budget, Rows, planVars, suiteVars

LEMMA AnswerBudget == ASSUME Typed, Flow, Counts, Budget, Rows, Answer PROVE Budget' /\ Rows'
<1>1. UNCHANGED <<planVars, suiteVars, worldVars>>
  BY DEF Answer
<1>2. Now' = Now /\ Counted' = Counted /\ pressure' = pressure
  BY <1>1, CountedSame DEF Now, planVars, suiteVars, worldVars
<1>3. ToDo' = ToDo /\ \A i : Complete(plan[i], i) => Complete(plan[i], i)'
  BY <1>1, <1>2 DEF ToDo, Complete, planVars, suiteVars
<1>4. Left' = Left
  BY <1>1, <1>3 DEF Left, planVars
<1>5. QED
  BY <1>1, <1>2, <1>3, <1>4 DEF Budget, Rows, planVars, suiteVars

LEMMA TimePassesBudget == ASSUME Typed, Flow, Counts, Budget, Rows, TimePasses PROVE Budget' /\ Rows'
<1>1. UNCHANGED <<planVars, suiteVars, worldVars>>
  BY DEF TimePasses
<1>2. Now' = Now /\ Counted' = Counted /\ pressure' = pressure
  BY <1>1, CountedSame DEF Now, planVars, suiteVars, worldVars
<1>3. ToDo' = ToDo /\ \A i : Complete(plan[i], i) => Complete(plan[i], i)'
  BY <1>1, <1>2 DEF ToDo, Complete, planVars, suiteVars
<1>4. Left' = Left
  BY <1>1, <1>3 DEF Left, planVars
<1>5. QED
  BY <1>1, <1>2, <1>3, <1>4 DEF Budget, Rows, planVars, suiteVars

LEMMA InterruptBudget == ASSUME Typed, Flow, Counts, Budget, Rows, Interrupt PROVE Budget' /\ Rows'
<1>1. error'
  BY DEF Interrupt
<1>2. QED
  BY <1>1 DEF Budget, Rows

LEMMA WorldBudget == ASSUME Typed, Flow, Counts, Budget, Rows, World PROVE Budget' /\ Rows'
<1>1. UNCHANGED <<planVars, suiteVars>> /\ pressure \in Nat /\ (pressure' = 0 => pressure = 0)
  BY DEF World, GoesDown, ComesBack, RunsShort, Relaxes, Typed, TypeOK
<1>2. Now' = Now /\ Counted' = Counted
  BY <1>1, CountedSame DEF Now, planVars, suiteVars
<1>3. ToDo' = ToDo /\ \A i : Complete(plan[i], i) => Complete(plan[i], i)'
  BY <1>1, <1>2 DEF ToDo, Complete, planVars, suiteVars
<1>4. Left' = Left
  BY <1>1, <1>3 DEF Left, planVars
<1>5. QED
  BY <1>1, <1>2, <1>3, <1>4 DEF Budget, Rows, planVars, suiteVars

LEMMA StutterBudget == ASSUME Typed, Flow, Counts, Budget, Rows, UNCHANGED vars PROVE Budget' /\ Rows'
<1>1. UNCHANGED <<planVars, suiteVars, worldVars>>
  BY DEF vars
<1>2. Now' = Now /\ Counted' = Counted /\ pressure' = pressure
  BY <1>1, CountedSame DEF Now, planVars, suiteVars, worldVars
<1>3. ToDo' = ToDo /\ \A i : Complete(plan[i], i) => Complete(plan[i], i)'
  BY <1>1, <1>2 DEF ToDo, Complete, planVars, suiteVars
<1>4. Left' = Left
  BY <1>1, <1>3 DEF Left, planVars
<1>5. QED
  BY <1>1, <1>2, <1>3, <1>4 DEF Budget, Rows, planVars, suiteVars

LEMMA NextStageBudget == ASSUME Typed, Flow, Counts, Budget, Rows, NextStage PROVE Budget' /\ Rows'
<1>1. pc = "next" /\ UNCHANGED <<plan, stage, summaries, pressure, error>> /\ plan \in Plans /\ stage \in Nat
  BY DEF NextStage, Goes, suiteVars, worldVars, Typed, TypeOK
<1>2. CASE stage > Len(plan) \/ stopReason # "none"
  <2>1. pc' = "postflight"
    BY <1>2 DEF NextStage, Goes
  <2>2. QED
    BY <1>1, <2>1, LeaveBudget DEF Typed
<1>3. CASE ~ (stage > Len(plan) \/ stopReason # "none")
  <2>1. stage \in DOMAIN plan
    BY <1>3, PlanStages DEF Typed, TypeOK
  <2>2. Valid(Now)
    BY <2>1, NowValid DEF Typed
  <2>3. Enter(FirstLevel(Now))
    BY <1>3 DEF NextStage
  <2>4. pc' \in Running
    BY <2>2, <2>3 DEF Enter, Running, InStage, Valid, Modes, Fixed
  <2>5. Now' = Now /\ Counted' = Counted /\ level' = FirstLevel(Now)
    BY <1>1, <2>3, CountedSame DEF Now, Enter
  <2>6. ToDo' = DeclaredRequests(Now)
    BY <2>2, <2>5, DeclaredType DEF ToDo, FirstLevel
  <2>7. Rest(plan, stage) = DeclaredRequests(Now) + Rest(plan, stage + 1)
    BY <1>1, <2>1, RestSums DEF Now
  <2>8. Left = Rest(plan, stage)
    BY <1>1 DEF Left, Running, InStage
  <2>9. Left' = ToDo' + Rest(plan, stage + 1)
    BY <1>1, <2>4 DEF Left, Running, InStage
  <2>10. Budget'
    BY <1>1, <2>5, <2>6, <2>7, <2>8, <2>9 DEF Budget
  <2>11. \A i : Complete(plan[i], i) => Complete(plan[i], i)'
    BY <1>1 DEF Complete
  <2>12. ~error => \A k \in DOMAIN summaries : summaries[k].stage \in DOMAIN plan /\ summaries[k].stage < stage
        /\ summaries[k].stage <= stage
    BY <1>1 DEF Rows
  <2>13. ~error => \A i \in DOMAIN plan : i < stage => Complete(plan[i], i)
    BY <1>1 DEF Rows
  <2>14. ~error /\ Now.mode = "ramp" => RowSum(summaries, stage) + LevelSum(Now, level') = DeclaredRequests(Now)
    <3>1. SUFFICES ASSUME ~error, Now.mode = "ramp"
          PROVE RowSum(summaries, stage) + LevelSum(Now, level') = DeclaredRequests(Now)
      OBVIOUS
    <3>2. RowsOf(summaries, stage) = {}
      BY <1>1, <2>12, <3>1 DEF RowsOf
    <3>3. RowSum(summaries, stage) = 0
      BY <3>2, NoRows
    <3>4. LevelSum(Now, level') = DeclaredRequests(Now) /\ DeclaredRequests(Now) \in Nat
      BY <2>2, <2>5, <3>1, DeclaredType DEF FirstLevel
    <3>5. QED
      BY <3>3, <3>4
  <2>15. pc' # "after" /\ pc' \notin {"preflight", "next"}
    BY <2>4 DEF Running, InStage
  <2>16. Rows'
    BY <1>1, <2>5, <2>11, <2>12, <2>13, <2>14, <2>15 DEF Rows
  <2>17. QED
    BY <2>10, <2>16
<1>4. QED
  BY <1>2, <1>3

\* What is counted and what is left when a stage, or a level of a ramp, has been summarized.
LEMMA SummarizeBudget == ASSUME Typed, Flow, Counts, Budget, Rows, Summarize PROVE Budget' /\ Rows'
<1>1. PICK row \in Row : Summarized(row)
  BY SummarizeRow
<1>2. pc = "summarize" /\ UNCHANGED <<plan, stage, pressure, error>> /\ plan \in Plans /\ stage \in Nat
      /\ summaries \in Seq(Row) /\ pc \in Running
  BY DEF Summarize, Enter, Goes, suiteVars, worldVars, Typed, TypeOK, Running
<1>3. summaries' = Append(summaries, row) /\ row.stage = stage /\ row.level = level
  BY <1>1 DEF Summarized
<1>4. row.count = submitted /\ ~error
  <2>1. queued = 0 /\ flying = 0 /\ finished = None /\ ~error
    BY <1>2 DEF Flow, Open, InStage, Over, Typed, TypeOK
  <2>2. submitted = queued + flying + Total(finished) + Total(records)
    BY <1>2 DEF Counts
  <2>3. Total(finished) = 0 /\ Total(records) \in Nat
    BY <2>1, ResultCounts DEF Typed, TypeOK
  <2>4. row.count = Total(records)
    BY <1>1 DEF Summarized
  <2>5. QED
    BY <2>1, <2>2, <2>3, <2>4
<1>5. stage \in DOMAIN plan /\ Valid(Now) /\ Progress /\ Now' = Now /\ Now = plan[stage]
  BY <1>2, StageHere DEF Now
<1>6. Counted \in Nat /\ Counted' = Counted + submitted /\ submitted \in Nat
  BY <1>2, <1>3, <1>4, CountedAdds DEF Typed, TypeOK
<1>7. ToDo \in Nat /\ (AllCapped(plan) => submitted <= ToDo)
  BY <1>2, NowWithin
<1>8. Left = ToDo + Rest(plan, stage + 1) /\ Rest(plan, stage + 1) \in Nat /\ Declared(plan) \in Nat
  BY <1>2, RestSums DEF Left, InStage
<1>9. \/ /\ Now.mode = "ramp" /\ row.status \notin Bad /\ level + Now.step <= Now.max
         /\ pc' = "collect" /\ level' = level + Now.step
      \/ ~RampGoesOn(row.status) /\ pc' = "after"
  BY <1>1 DEF Summarized, RampGoesOn, Enter, Goes, Fixed
<1>10. Now.mode = "ramp" => level \in Levels(Now) /\ submitted = level * Now.perWorker
  BY <1>5 DEF Progress
<1>11. Budget'
  <2>1. SUFFICES ASSUME AllCapped(plan) PROVE Counted' + Left' <= Declared(plan)
    BY <1>2 DEF Budget
  <2>2. Counted + Left <= Declared(plan)
    BY <1>4, <2>1 DEF Budget
  <2>3. submitted + Left' <= Left /\ Left' \in Nat
    <3>1. CASE pc' = "after"
      <4>1. Left' = Rest(plan, stage + 1)
        BY <1>2, <3>1 DEF Left, Running, InStage
      <4>2. QED
        BY <1>6, <1>7, <1>8, <2>1, <4>1
    <3>2. CASE Now.mode = "ramp" /\ level + Now.step <= Now.max /\ pc' = "collect" /\ level' = level + Now.step
      <4>1. Left' = LevelSum(Now, level + Now.step) + Rest(plan, stage + 1)
        BY <1>2, <1>5, <3>2 DEF Left, ToDo, Running, InStage
      <4>2. LevelSum(Now, level) = submitted + LevelSum(Now, level + Now.step)
            /\ LevelSum(Now, level + Now.step) \in Nat
        BY <1>5, <1>10, <3>2, LevelSums
      <4>3. ToDo = LevelSum(Now, level)
        BY <3>2 DEF ToDo
      <4> DEFINE a == LevelSum(Now, level + Now.step)
                 b == Rest(plan, stage + 1)
                 c == LevelSum(Now, level)
      <4>4. Left' = a + b /\ c = submitted + a /\ a \in Nat /\ b \in Nat /\ Left = c + b
        BY <1>8, <4>1, <4>2, <4>3
      <4> HIDE DEF a, b, c
      <4>5. QED
        BY <1>6, <4>4
    <3>3. QED
      BY <1>9, <3>1, <3>2
  <2>4. Left \in Nat
    BY <1>7, <1>8
  <2> DEFINE l == Left
             m == Left'
             d == Declared(plan)
  <2>5. l \in Nat /\ m \in Nat /\ d \in Nat /\ Counted + l <= d /\ submitted + m <= l
    BY <1>8, <2>2, <2>3, <2>4
  <2> HIDE DEF l, m, d
  <2>6. Counted' + m <= d
    BY <1>6, <2>5
  <2>7. QED
    BY <2>6 DEF m, d
<1>12. Rows'
  <2> DEFINE more == Append(summaries, row)
             n == Len(summaries) + 1
  <2>1. more = summaries'
    BY <1>3
  <2>2. DOMAIN more = DOMAIN summaries \cup {n} /\ more[n] = row /\ \A k \in DOMAIN summaries : more[k] = summaries[k]
    BY <1>2
  <2>3. \A k \in DOMAIN more : more[k].stage \in DOMAIN plan /\ more[k].stage <= stage
    BY <1>2, <1>3, <1>4, <1>5, <2>2 DEF Rows
  <2>4. \A i \in DOMAIN plan : i < stage => Complete(plan[i], i)'
    <3> SUFFICES ASSUME NEW i \in DOMAIN plan, i < stage PROVE Complete(plan[i], i)'
      OBVIOUS
    <3>1. Complete(plan[i], i)
      BY <1>4 DEF Rows
    <3>2. i # row.stage
      BY <1>2, <1>3, PlanStages
    <3>3. RowsOf(more, i) = RowsOf(summaries, i) /\ RowSum(more, i) = RowSum(summaries, i)
      BY <1>2, <3>2, RowsAdd
    <3>3a. \A k \in RowsOf(summaries, i) : more[k] = summaries[k]
      BY <2>2 DEF RowsOf
    <3>4. (Fine(more, i) <=> Fine(summaries, i)) /\ (AtTop(summaries, plan[i], i) => AtTop(more, plan[i], i))
      BY <3>3, <3>3a DEF Fine, AtTop
    <3> HIDE DEF more
    <3>5. QED
      BY <1>2, <2>1, <3>1, <3>3, <3>4 DEF Complete
  <2>5. /\ RowsOf(more, stage) = RowsOf(summaries, stage) \cup {n}
        /\ RowSum(more, stage) = submitted + RowSum(summaries, stage) /\ RowSum(summaries, stage) \in Nat
    BY <1>2, <1>3, <1>4, RowsAdd
  <2>6. Now.mode = "ramp" => RowSum(summaries, stage) + LevelSum(Now, level) = DeclaredRequests(Now)
    BY <1>2, <1>4 DEF Rows
  <2>7. Now.mode # "ramp" => RowSum(summaries, stage) = 0
    <3>1. SUFFICES ASSUME Now.mode # "ramp" PROVE RowsOf(summaries, stage) = {}
      BY NoRows
    <3>2. \A k \in DOMAIN summaries : summaries[k].stage < stage
      BY <1>2, <1>4, <3>1 DEF Rows
    <3>3. QED
      BY <1>2, <3>2 DEF RowsOf
  <2> HIDE DEF more
  <2>8. CASE pc' = "after" /\ ~RampGoesOn(row.status)
    <3>1. RowsOf(more, stage) # {} /\ n \in RowsOf(more, stage)
      BY <2>5
    <3>2. Fine(more, stage) => row.status \notin Bad
      BY <2>2, <3>1 DEF Fine
    <3>3. Now.mode = "ramp" /\ Fine(more, stage) => level + Now.step > Now.max
      <4>1. level \in Nat
        BY DEF Typed, TypeOK
      <4>2. Now.mode = "ramp" => Now.step \in Nat /\ Now.max \in Nat
        BY <1>5 DEF Valid
      <4>3. QED
        BY <2>8, <3>2, <4>1, <4>2 DEF RampGoesOn
    <3>4. Now.mode = "ramp" /\ Fine(more, stage) => AtTop(more, Now, stage)
      BY <1>3, <1>10, <2>2, <3>1, <3>3 DEF AtTop
    <3>5. pressure = 0 /\ Fine(more, stage) /\ Now.mode \notin Timed => RowSum(more, stage) = DeclaredRequests(Now)
      <4> SUFFICES ASSUME pressure = 0, Fine(more, stage), Now.mode \notin Timed
                   PROVE  RowSum(more, stage) = DeclaredRequests(Now)
        OBVIOUS
      <4>1. CASE Now.mode = "ramp"
        <5>1. LevelSum(Now, level) = submitted
          BY <1>5, <1>10, <3>3, <4>1, LevelSums
        <5>2. QED
          BY <1>6, <2>5, <2>6, <4>1, <5>1
      <4>2. CASE Now.mode \in {"burst", "interval", "batch"}
        <5>1. submitted = Now.total
          BY <1>2, <1>5, <4>2 DEF Progress
        <5>2. DeclaredRequests(Now) = Now.total
          BY <4>2 DEF DeclaredRequests
        <5>3. QED
          BY <1>6, <2>5, <2>7, <4>2, <5>1, <5>2
      <4>3. QED
        BY <1>5, <4>1, <4>2 DEF Valid, Modes, Timed
    <3>6. Complete(Now, stage)'
      BY <1>2, <1>5, <2>1, <3>1, <3>4, <3>5 DEF Complete
    <3>7. \A i \in DOMAIN plan : i < stage \/ i = stage => Complete(plan[i], i)'
      BY <1>2, <1>5, <2>4, <3>6
    <3>8. QED
      BY <1>2, <2>1, <2>3, <2>8, <3>7 DEF Rows, Running, InStage
  <2>9. CASE Now.mode = "ramp" /\ level + Now.step <= Now.max /\ pc' = "collect" /\ level' = level + Now.step
    <3>1. LevelSum(Now, level) = submitted + LevelSum(Now, level + Now.step)
          /\ LevelSum(Now, level + Now.step) \in Nat
      BY <1>5, <1>10, <2>9, LevelSums
    <3>2. RowSum(more, stage) + LevelSum(Now, level + Now.step) = DeclaredRequests(Now)
      <4> DEFINE a == LevelSum(Now, level + Now.step)
                 b == RowSum(summaries, stage)
                 c == LevelSum(Now, level)
                 d == DeclaredRequests(Now)
                 e == RowSum(more, stage)
      <4>1. c = submitted + a /\ a \in Nat /\ b \in Nat /\ b + c = d /\ e = submitted + b
        BY <2>5, <2>6, <2>9, <3>1
      <4> HIDE DEF a, b, c, d, e
      <4>2. e + a = d
        BY <1>6, <4>1
      <4>3. QED
        BY <4>2 DEF e, a, d
    <3>3. QED
      BY <1>2, <1>5, <2>1, <2>3, <2>4, <2>9, <3>2 DEF Rows
  <2>10. QED
    BY <1>9, <2>8, <2>9
<1>13. QED
  BY <1>11, <1>12

-----------------------------------------------------------------------------
(********************************************************************************)
(* The invariant.                                                               *)
(********************************************************************************)

\* The invariant of the campaign.
StressInv == Typed /\ Flow /\ Counts /\ Reported /\ Clean /\ Budget /\ Rows

\* The campaign begins as it should.
LEMMA StressInit == Init => StressInv
<1> SUFFICES ASSUME Init PROVE StressInv
  OBVIOUS
<1>1. TypeOK
  <2>1. <<>> \in Seq(Row)
    OBVIOUS
  <2>2. plan \in Plans /\ stage = 1 /\ pc = "preflight" /\ level = 0 /\ submitted = 0 /\ left = 0 /\ ticks = 0
        /\ spikes = 0
        /\ due = FALSE /\ capped = FALSE /\ queued = 0 /\ flying = 0 /\ finished = None /\ records = None
        /\ sent = 0 /\ logged = None /\ summaries = <<>> /\ failedInRow = 0 /\ stopReason = "none"
    BY DEF Init
  <2>3. health = [preflight |-> FALSE, postflight |-> FALSE] /\ error = FALSE /\ written = 0 /\ readme = "none"
        /\ up = TRUE /\ memoryLow = FALSE /\ outages = 0 /\ pressure = 0 /\ interrupts = 0
    BY DEF Init
  <2>4. health \in [preflight : BOOLEAN, postflight : BOOLEAN]
    BY <2>3
  <2>5. due \in BOOLEAN /\ capped \in BOOLEAN /\ error \in BOOLEAN /\ up \in BOOLEAN /\ memoryLow \in BOOLEAN
    BY <2>2, <2>3, Zenon
  <2>6. stage \in Nat \ {0} /\ level \in Nat /\ submitted \in Nat /\ left \in Nat /\ ticks \in Nat /\ spikes \in Nat
        /\ queued \in Nat /\ flying \in Nat /\ sent \in Nat /\ failedInRow \in Nat
    BY <2>2
  <2>7. written \in Nat /\ outages \in Nat /\ pressure \in Nat /\ interrupts \in Nat /\ readme = "none"
    BY <2>3
  <2>8. finished \in [Results -> Nat] /\ records \in [Results -> Nat] /\ logged \in [Results -> Nat]
    BY <2>2, ResultCounts
  <2>9. plan \in Plans /\ pc = "preflight" /\ summaries \in Seq(Row) /\ stopReason = "none"
    BY <2>1, <2>2
  <2>10. QED
    BY <2>4, <2>5, <2>6, <2>7, <2>8, <2>9 DEF TypeOK, Places
<1>2. InPlan
  BY DEF Init, InPlan, Running, InStage
<1>3. Flow
  BY ResultCounts DEF Init, Flow, Open, InStage, Over
<1>4. summaries = <<>> /\ plan \in Plans /\ stage = 1 /\ pc = "preflight"
  BY DEF Init
<1>5. Counted = 0
  BY <1>4, SumEmpty, SumOfOver DEF Counted
<1>6. Counts
  BY <1>5, ResultCounts DEF Init, Counts, Held, Running, InStage
<1>7. Reported
  BY DEF Init, Reported
<1>8. Clean
  BY DEF Init, Clean, Held, Running, InStage, None, Results
<1>9. Budget
  <2>1. Left = Declared(plan) /\ Declared(plan) \in Nat
    BY <1>4, RestSums DEF Left, Running, InStage
  <2>2. QED
    BY <1>5, <2>1 DEF Budget
<1>10. Rows
  <2>1. \A i \in DOMAIN plan : ~ (i < stage)
    BY <1>4, PlanStages
  <2>2. DOMAIN summaries = {}
    BY <1>4
  <2>3. QED
    BY <1>4, <2>1, <2>2 DEF Rows, Running, InStage
<1>11. QED
  BY <1>1, <1>2, <1>3, <1>6, <1>7, <1>8, <1>9, <1>10 DEF StressInv, Typed

\* Every step keeps the invariant.
LEMMA StressSteps == StressInv /\ [Next]_vars => StressInv'
<1> SUFFICES ASSUME StressInv, [Next]_vars PROVE StressInv'
  OBVIOUS
<1> USE DEF StressInv, Typed
<1>1. CASE RequireHealth("preflight", "next")
  BY <1>1, PreflightTypes, PreflightInPlan, PreflightFlow, PreflightCounts, PreflightReported, PreflightClean,
     PreflightBudget
<1>2. CASE NextStage
  BY <1>2, NextStageTypes, NextStageInPlan, NextStageFlow, NextStageCounts, NextStageReported, NextStageClean,
     NextStageBudget
<1>3. CASE IntervalLoop
  BY <1>3, IntervalLoopTypes, IntervalLoopInPlan, IntervalLoopFlow, IntervalLoopCounts, IntervalLoopReported,
     IntervalLoopClean, IntervalLoopBudget
<1>4. CASE BatchLoop
  BY <1>4, BatchLoopTypes, BatchLoopInPlan, BatchLoopFlow, BatchLoopCounts, BatchLoopReported, BatchLoopClean,
     BatchLoopBudget
<1>5. CASE SoakLoop
  BY <1>5, SoakLoopTypes, SoakLoopInPlan, SoakLoopFlow, SoakLoopCounts, SoakLoopReported, SoakLoopClean,
     SoakLoopBudget
<1>6. CASE SoakRefill
  BY <1>6, SoakRefillTypes, SoakRefillInPlan, SoakRefillFlow, SoakRefillCounts, SoakRefillReported,
     SoakRefillClean, SoakRefillBudget
<1>7. CASE WaitFirst
  BY <1>7, WaitFirstTypes, WaitFirstInPlan, WaitFirstFlow, WaitFirstCounts, WaitFirstReported, WaitFirstClean,
     WaitFirstBudget
<1>8. CASE ChaosLoop
  BY <1>8, ChaosLoopTypes, ChaosLoopInPlan, ChaosLoopFlow, ChaosLoopCounts, ChaosLoopReported, ChaosLoopClean,
     ChaosLoopBudget
<1>9. CASE ChaosSubmit
  BY <1>9, ChaosSubmitTypes, ChaosSubmitInPlan, ChaosSubmitFlow, ChaosSubmitCounts, ChaosSubmitReported,
     ChaosSubmitClean, ChaosSubmitBudget
<1>10. CASE ChaosReap
  BY <1>10, ChaosReapTypes, ChaosReapInPlan, ChaosReapFlow, ChaosReapCounts, ChaosReapReported, ChaosReapClean,
     ChaosReapBudget
<1>11. CASE Collect
  BY <1>11, CollectTypes, CollectInPlan, CollectFlow, CollectCounts, CollectReported, CollectClean, CollectBudget
<1>12. CASE Summarize
  BY <1>12, SummarizeTypes, SummarizeInPlan, SummarizeFlow, SummarizeCounts, SummarizeReported, SummarizeClean,
     SummarizeBudget
<1>13. CASE AfterStage
  BY <1>13, AfterStageTypes, AfterStageInPlan, AfterStageFlow, AfterStageCounts, AfterStageReported,
     AfterStageClean, AfterStageBudget
<1>14. CASE RequireHealth("postflight", "outputs")
  BY <1>14, PostflightTypes, PostflightInPlan, PostflightFlow, PostflightCounts, PostflightReported,
     PostflightClean, PostflightBudget
<1>15. CASE Shutdown
  BY <1>15, ShutdownTypes, ShutdownInPlan, ShutdownFlow, ShutdownCounts, ShutdownReported, ShutdownClean,
     ShutdownBudget
<1>16. CASE WriteOutputs
  BY <1>16, WriteOutputsTypes, WriteOutputsInPlan, WriteOutputsFlow, WriteOutputsCounts, WriteOutputsReported,
     WriteOutputsClean, WriteOutputsBudget
<1>17. CASE UpdateReadme
  BY <1>17, UpdateReadmeTypes, UpdateReadmeInPlan, UpdateReadmeFlow, UpdateReadmeCounts, UpdateReadmeReported,
     UpdateReadmeClean, UpdateReadmeBudget
<1>18. CASE Send
  BY <1>18, SendTypes, SendInPlan, SendFlow, SendCounts, SendReported, SendClean, SendBudget
<1>19. CASE Answer
  BY <1>19, AnswerTypes, AnswerInPlan, AnswerFlow, AnswerCounts, AnswerReported, AnswerClean, AnswerBudget
<1>20. CASE TimePasses
  BY <1>20, TimePassesTypes, TimePassesInPlan, TimePassesFlow, TimePassesCounts, TimePassesReported,
     TimePassesClean, TimePassesBudget
<1>21. CASE Interrupt
  BY <1>21, InterruptTypes, InterruptInPlan, InterruptFlow, InterruptCounts, InterruptReported, InterruptClean,
     InterruptBudget
<1>22. CASE World
  BY <1>22, WorldTypes, WorldInPlan, WorldFlow, WorldCounts, WorldReported, WorldClean, WorldBudget
<1>23. CASE UNCHANGED vars
  BY <1>23, StutterTypes, StutterInPlan, StutterFlow, StutterCounts, StutterReported, StutterClean, StutterBudget
<1>24. QED
  BY <1>1, <1>2, <1>3, <1>4, <1>5, <1>6, <1>7, <1>8, <1>9, <1>10, <1>11, <1>12, <1>13, <1>14, <1>15, <1>16,
     <1>17, <1>18, <1>19, <1>20, <1>21, <1>22, <1>23 DEF Next, RunnerStep

\* Only a campaign without an error submits.
LEMMA SubmitsNoMore ==
  ASSUME StressInv, [Next]_vars
  PROVE  UNCHANGED plan /\ (error' => sent' + queued' <= sent + queued)
<1> USE DEF StressInv, Typed
<1>1. CASE RequireHealth("preflight", "next")
  BY <1>1 DEF TypeOK, RequireHealth, Goes, planVars, loopVars, poolVars, trafficVars, suiteVars, reportVars, worldVars
<1>2. CASE NextStage
  <2>1. UNCHANGED <<plan, error>> /\ pc \notin Over \cup {"shutdown"}
    BY <1>2 DEF NextStage, Enter, Goes, FixedCount, FirstLevel, Fixed, Over, suiteVars
  <2>2. QED
    BY <2>1 DEF Flow
<1>3. CASE IntervalLoop
  <2>1. UNCHANGED <<plan, error>> /\ pc \notin Over \cup {"shutdown"}
    BY <1>3 DEF IntervalLoop, Submit, Goes, Over, suiteVars
  <2>2. QED
    BY <2>1 DEF Flow
<1>4. CASE BatchLoop
  <2>1. UNCHANGED <<plan, error>> /\ pc \notin Over \cup {"shutdown"}
    BY <1>4 DEF BatchLoop, Submit, Goes, Over, suiteVars
  <2>2. QED
    BY <2>1 DEF Flow
<1>5. CASE SoakLoop
  <2>1. UNCHANGED <<plan, queued, sent>>
    BY <1>5 DEF SoakLoop, LeaveSoak, Goes, poolVars, trafficVars
  <2>2. QED
    BY <2>1 DEF TypeOK
<1>6. CASE SoakRefill
  <2>1. UNCHANGED <<plan, error>> /\ pc \notin Over \cup {"shutdown"}
    BY <1>6 DEF SoakRefill, LeaveSoak, CapReached, Submit, Goes, Over, suiteVars
  <2>2. QED
    BY <2>1 DEF Flow
<1>7. CASE WaitFirst
  BY <1>7 DEF TypeOK, WaitFirst, TakeFinished, Goes, planVars, loopVars, poolVars, trafficVars, suiteVars,
     reportVars, worldVars
<1>8. CASE ChaosLoop
  BY <1>8 DEF TypeOK, ChaosLoop, Goes, planVars, loopVars, poolVars, trafficVars, suiteVars, reportVars, worldVars
<1>9. CASE ChaosSubmit
  <2>1. UNCHANGED <<plan, error>> /\ pc \notin Over \cup {"shutdown"}
    BY <1>9 DEF ChaosSubmit, TakeFinished, Submit, Goes, Over, suiteVars
  <2>2. QED
    BY <2>1 DEF Flow
<1>10. CASE ChaosReap
  BY <1>10 DEF TypeOK, ChaosReap, TakeFinished, Goes, planVars, loopVars, poolVars, trafficVars, suiteVars,
     reportVars, worldVars
<1>11. CASE Collect
  BY <1>11 DEF TypeOK, Collect, TakeFinished, Goes, planVars, loopVars, poolVars, trafficVars, suiteVars,
     reportVars, worldVars
<1>12. CASE Summarize
  <2>1. UNCHANGED <<plan, error>> /\ pc \notin Over \cup {"shutdown"}
    BY <1>12 DEF Summarize, Enter, Goes, FixedCount, Fixed, RampGoesOn, Over, suiteVars
  <2>2. QED
    BY <2>1 DEF Flow
<1>13. CASE AfterStage
  BY <1>13 DEF TypeOK, AfterStage, planVars, loopVars, poolVars, trafficVars, suiteVars, reportVars, worldVars
<1>14. CASE RequireHealth("postflight", "outputs")
  BY <1>14 DEF TypeOK, RequireHealth, Goes, planVars, loopVars, poolVars, trafficVars, suiteVars, reportVars,
     worldVars
<1>15. CASE Shutdown
  BY <1>15 DEF TypeOK, Shutdown, Goes, planVars, loopVars, poolVars, trafficVars, suiteVars, reportVars, worldVars
<1>16. CASE WriteOutputs
  BY <1>16 DEF TypeOK, WriteOutputs, Goes, planVars, loopVars, poolVars, trafficVars, suiteVars, reportVars, worldVars
<1>17. CASE UpdateReadme
  BY <1>17 DEF TypeOK, UpdateReadme, Goes, planVars, loopVars, poolVars, trafficVars, suiteVars, reportVars, worldVars
<1>18. CASE Send
  BY <1>18 DEF TypeOK, Send, ClientOpen, planVars, loopVars, poolVars, trafficVars, suiteVars, reportVars, worldVars
<1>19. CASE Answer
  BY <1>19 DEF TypeOK, Answer, ClientOpen, planVars, loopVars, poolVars, trafficVars, suiteVars, reportVars, worldVars
<1>20. CASE TimePasses
  BY <1>20 DEF TypeOK, TimePasses, planVars, loopVars, poolVars, trafficVars, suiteVars, reportVars, worldVars
<1>21. CASE Interrupt
  BY <1>21 DEF TypeOK, Interrupt, Goes, planVars, loopVars, poolVars, trafficVars, suiteVars, reportVars, worldVars
<1>22. CASE World
  BY <1>22 DEF TypeOK, World, GoesDown, ComesBack, RunsShort, Relaxes, planVars, loopVars, poolVars,
     trafficVars, suiteVars, reportVars, worldVars
<1>23. CASE UNCHANGED vars
  BY <1>23 DEF TypeOK, vars, planVars, loopVars, poolVars, trafficVars, suiteVars, reportVars, worldVars
<1>24. QED
  BY <1>1, <1>2, <1>3, <1>4, <1>5, <1>6, <1>7, <1>8, <1>9, <1>10, <1>11, <1>12, <1>13, <1>14, <1>15, <1>16,
     <1>17, <1>18, <1>19, <1>20, <1>21, <1>22, <1>23 DEF Next, RunnerStep

\* The invariant says where every request is that was sent.
LEMMA Whereabouts ==
  ASSUME StressInv, ~error
  PROVE  /\ pc \in Running => sent + queued = Counted + submitted
         /\ pc \notin Running => sent = Counted /\ queued = 0 /\ flying = 0 /\ sent = Total(logged)
<1> USE DEF StressInv, Typed
<1>1. sent = Total(logged) + flying /\ Total(logged) = Counted + Total(Held) + Total(finished)
  BY DEF Flow, Counts
<1>2. Counted \in Nat /\ Total(Held) \in Nat /\ Total(finished) \in Nat /\ Total(records) \in Nat
      /\ flying \in Nat /\ queued \in Nat /\ submitted \in Nat
  BY CountedType, ResultCounts DEF TypeOK, Held
<1>3. CASE pc \in Running
  <2> DEFINE a == Total(records)
             b == Total(finished)
             c == Total(logged)
  <2>1. sent = c + flying /\ c = Counted + a + b /\ submitted = queued + flying + b + a /\ a \in Nat /\ b \in Nat
    BY <1>1, <1>2, <1>3 DEF Held, Counts
  <2> HIDE DEF a, b, c
  <2>2. sent + queued = Counted + submitted
    BY <1>2, <2>1
  <2>3. QED
    BY <1>3, <2>2
<1>4. CASE pc \notin Running
  <2>1. queued = 0 /\ flying = 0 /\ finished = None
    BY <1>4 DEF Flow, Open, Running, TypeOK
  <2>2. Total(Held) = 0 /\ Total(finished) = 0
    BY <1>4, <2>1, ResultCounts DEF Held
  <2> DEFINE a == Total(Held)
             b == Total(finished)
             c == Total(logged)
  <2>3. a = 0 /\ b = 0 /\ c = Counted + a + b /\ sent = c + flying
    BY <1>1, <2>2
  <2> HIDE DEF a, b, c
  <2>4. sent = Counted /\ sent = c
    BY <1>2, <2>1, <2>3
  <2>5. QED
    BY <1>4, <2>1, <2>4 DEF c
<1>5. QED
  BY <1>3, <1>4

\* Bounded, for as long as there is no error.
BoundedSoFar == ~error /\ AllCapped(plan) => sent + queued <= Declared(plan)

\* Without an error no more has been sent or is to be sent than the plan has declared.
LEMMA WithinPlan == StressInv => BoundedSoFar
<1> SUFFICES ASSUME StressInv, ~error, AllCapped(plan) PROVE sent + queued <= Declared(plan)
  BY DEF BoundedSoFar
<1> USE DEF StressInv
<1>1. Counted \in Nat /\ Declared(plan) \in Nat /\ submitted \in Nat /\ stage \in Nat
  BY CountedType, RestSums DEF Typed, TypeOK
<1>2. Counted + Left <= Declared(plan)
  BY DEF Budget
<1>3. CASE pc \in Running
  <2>1. ToDo \in Nat /\ submitted <= ToDo
    BY <1>3, NowWithin
  <2>2. Left = ToDo + Rest(plan, stage + 1)
    BY <1>3 DEF Left, Running, InStage
  <2>2a. Rest(plan, stage + 1) \in Nat
    <3>1. stage + 1 \in Nat /\ plan \in Plans
      BY <1>1 DEF Typed, TypeOK
    <3>2. QED
      BY <3>1, RestSums
  <2>3. sent + queued = Counted + submitted
    BY <1>3, Whereabouts
  <2>4. QED
    BY <1>1, <1>2, <2>1, <2>2, <2>2a, <2>3
<1>4. CASE pc \notin Running
  <2>1. Left \in Nat
    BY <1>1, <1>4, RestSums DEF Left, Typed, TypeOK
  <2>2. sent = Counted /\ queued = 0
    BY <1>4, Whereabouts
  <2>3. QED
    BY <1>1, <1>2, <2>1, <2>2
<1>5. QED
  BY <1>3, <1>4

\* That bound is kept when the campaign has failed.
LEMMA BoundedSteps == StressInv /\ BoundedSoFar' /\ Bounded /\ [Next]_vars /\ TypeOK' => Bounded'
<1> SUFFICES ASSUME StressInv, BoundedSoFar', Bounded, [Next]_vars, TypeOK', AllCapped(plan')
             PROVE  sent' + queued' <= Declared(plan')
  BY DEF Bounded
<1>1. UNCHANGED plan /\ (error' => sent' + queued' <= sent + queued)
  BY SubmitsNoMore
<1>2. CASE ~error'
  BY <1>2 DEF BoundedSoFar
<1>3. CASE error'
  <2>1. sent' + queued' <= sent + queued /\ sent + queued <= Declared(plan)
    BY <1>1, <1>3 DEF Bounded
  <2>2. sent \in Nat /\ queued \in Nat /\ sent' \in Nat /\ queued' \in Nat /\ Declared(plan) \in Nat
    BY RestSums DEF StressInv, Typed, TypeOK
  <2> DEFINE a == sent
             b == queued
             c == sent'
             d == queued'
             e == Declared(plan)
  <2>3. c + d <= a + b /\ a + b <= e /\ a \in Nat /\ b \in Nat /\ c \in Nat /\ d \in Nat /\ e \in Nat
    BY <2>1, <2>2
  <2> HIDE DEF a, b, c, d, e
  <2>4. c + d <= e
    BY <2>3
  <2>5. QED
    BY <1>1, <2>4 DEF c, d, e
<1>4. QED
  BY <1>2, <1>3

\* The campaign never leaves its invariant.
THEOREM StressInvariant == Spec => [](StressInv /\ Bounded)
<1>1. Spec => []StressInv
  BY StressInit, StressSteps, PTL DEF Spec
<1>2. [](StressInv => BoundedSoFar)
  BY WithinPlan, PTL
<1>3. StressInv => TypeOK
  BY DEF StressInv, Typed
<1>4. Init => Bounded
  BY StressInit, WithinPlan DEF Init, Bounded, BoundedSoFar
<1>5. QED
  BY <1>1, <1>2, <1>3, <1>4, BoundedSteps, PTL DEF Spec

-----------------------------------------------------------------------------
(********************************************************************************)
(* What follows from it.                                                        *)
(********************************************************************************)

\* Every nonempty set of natural numbers has a least element.
LEMMA Least == ASSUME NEW T, T \subseteq Nat, T # {} PROVE \E n \in T : \A m \in T : n <= m
<1> DEFINE R == OpToRel(<, Nat)
<1>1. IsWellFoundedOn(R, Nat)
  BY NatLessThanWellFounded
<1>2. \A m, n \in Nat : m < n => <<m, n>> \in R
  BY DEF OpToRel
<1> HIDE DEF R
<1>3. PICK n \in T : \A m \in T : ~ (<<m, n>> \in R)
  BY <1>1, WFMin
<1>4. ASSUME NEW m \in T PROVE n <= m
  <2>1. m \in Nat /\ n \in Nat
    OBVIOUS
  <2>2. ~ (<<m, n>> \in R)
    BY <1>3
  <2>3. ~ (m < n)
    BY <1>2, <2>1, <2>2, Zenon
  <2>4. QED
    BY <2>1, <2>3
<1>5. QED
  BY <1>4

\* Outside the stages Ctrl-C has to come twice for a request to be on its way.
LEMMA AllDone ==
  ASSUME StressInv, pc \notin Running, pc # "shutdown", interrupts < 2 PROVE sent = Total(logged)
<1>1. flying = 0 /\ sent = Total(logged) + flying /\ Total(logged) \in Nat
  BY ResultCounts DEF StressInv, Typed, TypeOK, Flow, Open, Running
<1> DEFINE a == Total(logged)
<1>2. flying = 0 /\ sent = a + flying /\ a \in Nat
  BY <1>1
<1> HIDE DEF a
<1>3. sent = a
  BY <1>2
<1>4. QED
  BY <1>3 DEF a

\* A stage reports what the service was sent, and so does the campaign

\* unless Ctrl-C came twice; it is no more than the plan declares.
LEMMA TrafficIsAccounted == StressInv /\ Bounded => TrafficAccounted
<1> SUFFICES ASSUME StressInv, Bounded PROVE TrafficAccounted
  OBVIOUS
<1>1. pc = "after" => Counted = sent
  <2>1. pc = "after" => ~error /\ pc \notin Running
    BY DEF StressInv, Flow, Over, Running, InStage, Typed, TypeOK
  <2>2. QED
    BY <2>1, Whereabouts
<1>2. pc = "done" /\ ~error => Counted = sent /\ written = sent
  <2>1. pc = "done" => pc \notin Running
    BY DEF Running, InStage
  <2>2. pc = "done" /\ ~error => written = Total(logged)
    BY DEF StressInv, Reported
  <2>3. QED
    BY <2>1, <2>2, Whereabouts
<1>3. pc = "done" /\ interrupts < 2 /\ written > 0 => written = sent
  <2>1. pc = "done" => pc \notin Running /\ pc # "shutdown"
    BY DEF Running, InStage
  <2>2. pc = "done" /\ interrupts < 2 => written \in {0, Total(logged)}
    BY DEF StressInv, Reported
  <2>3. QED
    BY <2>1, <2>2, AllDone
<1>4. AllCapped(plan) => sent <= Declared(plan)
  <2>1. sent \in Nat /\ queued \in Nat /\ Declared(plan) \in Nat
    BY RestSums DEF StressInv, Typed, TypeOK
  <2>2. AllCapped(plan) => sent + queued <= Declared(plan)
    BY DEF Bounded
  <2>3. QED
    BY <2>1, <2>2
<1>5. QED
  BY <1>1, <1>2, <1>3, <1>4 DEF TrafficAccounted, AllCapped

\* What was sent is accounted for, in every plan.
THEOREM TrafficAlwaysAccounted == Spec => []TrafficAccounted
  BY StressInvariant, TrafficIsAccounted, PTL

\* Without a first failure there is none: of the bad rows the first one of those at the lowest level is before all others.
LEMMA NoFailure == ASSUME StressInv, Censored PROVE BadOnes = {}
<1> SUFFICES ASSUME BadOnes # {} PROVE FALSE
  OBVIOUS
<1>1. \A i \in BadOnes : i \in Nat /\ summaries[i].level \in Nat
  <2>1. summaries \in Seq(Row)
    BY DEF StressInv, Typed, TypeOK
  <2>2. \A i \in DOMAIN summaries : i \in Nat /\ summaries[i] \in Row
    BY <2>1
  <2>3. BadOnes \subseteq DOMAIN summaries
    BY DEF BadOnes, Candidates, RampSummaries
  <2>4. QED
    BY <2>2, <2>3 DEF Row
<1> DEFINE L == {summaries[i].level : i \in BadOnes}
<1>2. L \subseteq Nat /\ L # {}
  BY <1>1
<1>3. PICK n \in L : \A m \in L : n <= m
  <2> HIDE DEF L
  <2>1. QED
    BY <1>2, Least
<1> DEFINE T == {i \in BadOnes : summaries[i].level = n}
<1>4. T \subseteq Nat /\ T # {}
  BY <1>1, <1>3
<1>5. PICK i \in T : \A j \in T : i <= j
  <2> HIDE DEF T
  <2>1. QED
    BY <1>4, Least
<1>6. \A j \in BadOnes \ {i} : Before(i, j)
  <2> SUFFICES ASSUME NEW j \in BadOnes, j # i PROVE Before(i, j)
    OBVIOUS
  <2>1. i \in Nat /\ j \in Nat /\ summaries[i].level = n /\ summaries[j].level \in Nat /\ n \in Nat
    BY <1>1, <1>2, <1>5
  <2>2. n <= summaries[j].level
    BY <1>3
  <2>3. summaries[j].level = n => i <= j
    BY <1>5
  <2>4. QED
    BY <2>1, <2>2, <2>3 DEF Before
<1>7. i \in BadOnes
  BY <1>5
<1>8. i \in FirstFailure
  BY <1>6, <1>7 DEF FirstFailure
<1>9. QED
  BY <1>8 DEF Censored

\* The greatest level of a ramp is the one that has none above.
LEMMA TopLevel ==
  ASSUME NEW s, Valid(s), s.mode = "ramp", NEW c \in Levels(s), c + s.step > s.max PROVE Max(Levels(s)) = c
<1>1. \A d \in Levels(s) : d \in Nat /\ c \in Nat /\ d <= s.max /\ (c < d => c + s.step <= d)
  BY RampLevels
<1>2. s.max \in Nat /\ s.step \in Nat
  BY DEF Valid
<1>3. \A d \in Levels(s) : d <= c
  BY <1>1, <1>2
<1>4. \A d \in Levels(s) : (\A e \in Levels(s) : d >= e) <=> d = c
  <2> TAKE d \in Levels(s)
  <2>1. d \in Nat /\ c \in Nat /\ d <= c
    BY <1>1, <1>3
  <2>2. (\A e \in Levels(s) : d >= e) => d = c
    BY <2>1
  <2>3. d = c => \A e \in Levels(s) : d >= e
    <3> SUFFICES ASSUME d = c, NEW e \in Levels(s) PROVE d >= e
      OBVIOUS
    <3>1. e \in Nat /\ e <= c
      BY <1>1, <1>3
    <3>2. QED
      BY <2>1, <3>1
  <2>4. QED
    BY <2>2, <2>3
<1>5. Max(Levels(s)) = CHOOSE d \in Levels(s) : \A e \in Levels(s) : d >= e
  BY DEF Max
<1>6. QED
  BY <1>4, <1>5

\* A verdict of the README is that of its summaries.
LEMMA VerdictFollows == StressInv => VerdictIsTrue
<1> SUFFICES ASSUME StressInv, pc = "done" PROVE
      /\ readme = "passed" =>
           /\ logged["slow"] = 0 /\ logged["error"] = 0
           /\ pressure = 0 /\ stopReason = "none" =>
                \A i \in DOMAIN plan :
                  /\ RowsOf(summaries, i) # {}
                  /\ plan[i].mode \notin Timed =>
                       SumOf([k \in RowsOf(summaries, i) |-> summaries[k].count]) = DeclaredRequests(plan[i])
      /\ ~error /\ stopReason = "none" /\ Censored =>
           \A i \in DOMAIN plan : plan[i].mode = "ramp" => Max(Levels(plan[i])) \in NormalLevels
  BY DEF VerdictIsTrue, RowsOf
<1>1. summaries \in Seq(Row) /\ plan \in Plans /\ stage \in Nat
  BY DEF StressInv, Typed, TypeOK
<1>2. \A k \in DOMAIN summaries : summaries[k].status \in {"skipped", "stopped", "failed", "degraded", "passed"}
  <2>1. \A k \in DOMAIN summaries : summaries[k] \in Row
    BY <1>1
  <2>2. QED
    BY <2>1 DEF Row
<1>3. readme = "passed" => ~error /\ Passed
  <2>1. readme = Verdict
    BY DEF StressInv, Reported
  <2>2. Verdict = "passed" => ~error /\ \A k \in DOMAIN summaries : summaries[k].status \notin Bad
        /\ summaries[k].status # "degraded"
    BY DEF Verdict
  <2>3. QED
    BY <1>2, <2>1, <2>2 DEF Bad, Passed
<1>4. readme = "passed" => logged["slow"] = 0 /\ logged["error"] = 0
  <2>1. ~error => finished = None
    BY DEF StressInv, Flow, Open, InStage
  <2>2. Held = None
    BY DEF Held, Running, InStage
  <2>3. None["slow"] = 0 /\ None["error"] = 0
    BY DEF None, Results
  <2>4. ~error /\ Passed => logged["slow"] = Held["slow"] + finished["slow"]
        /\ logged["error"] = Held["error"] + finished["error"]
    BY DEF StressInv, Clean
  <2>5. QED
    BY <1>3, <2>1, <2>2, <2>3, <2>4
<1>5. ~error /\ stopReason = "none" => \A i \in DOMAIN plan : Complete(plan[i], i)
  <2>1. SUFFICES ASSUME ~error, stopReason = "none", NEW i \in DOMAIN plan PROVE Complete(plan[i], i)
    OBVIOUS
  <2>2. stage > Len(plan)
    BY <2>1 DEF StressInv, Flow
  <2>3. i < stage
    BY <1>1, <2>1, <2>2, PlanStages
  <2>4. QED
    BY <2>1, <2>3 DEF StressInv, Rows
<1>6. ASSUME readme = "passed", pressure = 0, stopReason = "none", NEW i \in DOMAIN plan
      PROVE  /\ RowsOf(summaries, i) # {}
             /\ plan[i].mode \notin Timed =>
                  SumOf([k \in RowsOf(summaries, i) |-> summaries[k].count]) = DeclaredRequests(plan[i])
  <2>1. Complete(plan[i], i)
    BY <1>3, <1>5, <1>6
  <2>2. Fine(summaries, i)
    BY <1>3, <1>6 DEF Fine, Passed, RowsOf, Bad
  <2> DEFINE S == RowsOf(summaries, i)
             f == [k \in S |-> summaries[k].count]
  <2>3. S \subseteq DOMAIN summaries
    BY DEF RowsOf
  <2>4. SumOf(f) = SumOver(f, S)
    BY SumOfOver
  <2>5. \A k \in S : f[k] = CountsOf(summaries)[k]
    BY <2>3 DEF CountsOf
  <2> HIDE DEF S, f
  <2>6. SumOver(f, S) = SumOver(CountsOf(summaries), S)
    BY <2>5, SumSame
  <2>7. SumOf(f) = RowSum(summaries, i)
    BY <2>4, <2>6 DEF RowSum, S
  <2>8. QED
    BY <1>6, <2>1, <2>2, <2>7 DEF Complete, f, S
<1>7. ASSUME ~error, stopReason = "none", Censored, NEW i \in DOMAIN plan, plan[i].mode = "ramp"
      PROVE  Max(Levels(plan[i])) \in NormalLevels
  <2>1. Complete(plan[i], i)
    BY <1>5, <1>7
  <2>2. RowsOf(summaries, i) \subseteq RampSummaries
    BY <1>7 DEF RowsOf, RampSummaries
  <2>3. RowsOf(summaries, i) # {}
    BY <2>1 DEF Complete
  <2>4. RowsOf(summaries, i) \subseteq Candidates
    BY <2>2, <2>3 DEF Candidates
  <2>5. Fine(summaries, i)
    BY <1>7, <2>4, NoFailure DEF Fine, BadOnes
  <2>6. AtTop(summaries, plan[i], i)
    BY <1>7, <2>1, <2>5 DEF Complete
  <2>7. PICK k \in RowsOf(summaries, i) : summaries[k].level \in Levels(plan[i])
        /\ summaries[k].level + plan[i].step > plan[i].max
    BY <2>6 DEF AtTop
  <2>8. Max(Levels(plan[i])) = summaries[k].level
    <3>1. Valid(plan[i])
      BY <1>1, PlanStages
    <3>2. QED
      BY <1>7, <2>7, <3>1, TopLevel
  <2>9. FirstFailure = {}
    BY <1>7 DEF Censored
  <2>10. summaries[k].level \in NormalLevels
    BY <2>4, <2>9 DEF NormalLevels
  <2>11. QED
    BY <2>8, <2>10
<1>8. QED
  BY <1>4, <1>6, <1>7

\* The verdict and the limit in the README are true, in every plan.
THEOREM VerdictAlwaysTrue == Spec => []VerdictIsTrue
<1>1. StressInv /\ Bounded => VerdictIsTrue
  BY VerdictFollows
<1>2. QED
  BY <1>1, StressInvariant, PTL

\* The state of the campaign is well typed, and its stages run as their modes have it.
THEOREM StressTyped == Spec => []Typed
<1>1. StressInv /\ Bounded => Typed
  BY DEF StressInv
<1>2. QED
  BY <1>1, StressInvariant, PTL
=============================================================================
