------------------------ MODULE DocumentReadingProofs ------------------------
(***************************************************************************)
(* Proofs about the reading of documents, for any number of documents,     *)
(* calls and slots and for bodies of any size: the text of a document is   *)
(* in its chunks and cited where it stands, the pool of OCR workers and    *)
(* the lock of the Office applications are kept, and a request is reported *)
(* once.                                                                   *)
(***************************************************************************)
EXTENDS DocumentReading, FiniteSetTheorems, SequenceTheorems, WellFoundedInduction, NaturalsInduction, TLAPS

-----------------------------------------------------------------------------
(* Sequences that are chosen and flattened, and sums                       *)

\* Every nonempty set of natural numbers has a least element.
LEMMA Least == ASSUME NEW T, T \subseteq Nat, T # {} PROVE \E n \in T : \A m \in T : n <= m
<1> DEFINE R == OpToRel(<, Nat)
<1>1. IsWellFoundedOn(R, Nat)
  BY NatLessThanWellFounded
<1>2. \A m, n \in Nat : m < n => <<m, n>> \in R
  BY DEF OpToRel
<1> HIDE DEF R
<1>3. PICK n \in T : \A m \in T : ~ (<<m, n>> \in R)
  BY <1>1, WFMin
<1>4. ASSUME NEW m \in T PROVE n <= m
  <2>1. m \in Nat /\ n \in Nat
    OBVIOUS
  <2>2. ~ (<<m, n>> \in R)
    BY <1>3
  <2>3. ~ (m < n)
    BY <1>2, <2>1, <2>2, Zenon
  <2>4. QED
    BY <2>1, <2>3
<1>5. QED
  BY <1>4

\* A finite set of numbers has a k-th for each k up to its size, and all of it is counted.
LEMMA Counting ==
  ASSUME NEW I, I \subseteq Nat, IsFiniteSet(I)
  PROVE  /\ Cardinality(I) \in Nat
         /\ \A k \in 1..Cardinality(I) : Kth(I, k) \in I
         /\ \A i \in I : \E k \in 1..Cardinality(I) : Kth(I, k) = i
<1> DEFINE n == Cardinality(I)
           UpTo(i) == {j \in I : j <= i}
           c == [i \in I |-> Cardinality(UpTo(i))]
<1>1. n \in Nat
  BY FS_CardinalityType
<1>2. ASSUME NEW i \in I PROVE c[i] \in 1..n /\ IsFiniteSet(UpTo(i))
  <2>1. UpTo(i) \in SUBSET I /\ UpTo(i) # {}
    OBVIOUS
  <2>2. IsFiniteSet(UpTo(i)) /\ Cardinality(UpTo(i)) <= n
    BY <2>1, FS_Subset
  <2>3. Cardinality(UpTo(i)) \in Nat /\ Cardinality(UpTo(i)) # 0
    BY <2>1, <2>2, FS_CardinalityType, FS_EmptySet
  <2>4. QED
    BY <1>1, <2>2, <2>3
<1>3. ASSUME NEW i \in I, NEW j \in I, c[i] = c[j] PROVE i = j
  <2>1. ASSUME NEW a \in I, NEW b \in I, a < b, c[a] = c[b] PROVE FALSE
    <3>0. a \in Nat /\ b \in Nat /\ \A k \in I : k \in Nat
      OBVIOUS
    <3>1. UpTo(a) \in SUBSET UpTo(b) /\ b \notin UpTo(a) /\ b \in UpTo(b)
      <4>1. \A k \in I : k <= a => k <= b
        BY <2>1, <3>0
      <4>2. ~ (b <= a) /\ b <= b
        BY <2>1, <3>0
      <4>3. QED
        BY <4>1, <4>2, Zenon
    <3>2. UpTo(a) = UpTo(b)
      BY <3>1, <1>2, <2>1, FS_Subset
    <3>3. QED
      BY <3>1, <3>2
  <2>2. QED
    BY <1>3, <2>1
<1>4. c \in Injection(I, 1..n)
  <2>1. c \in [I -> 1..n]
    BY <1>2
  <2> HIDE DEF c, n
  <2>2. QED
    BY <1>3, <2>1 DEF Injection, IsInjective
<1>5. IsFiniteSet(1..n) /\ Cardinality(1..n) = n
  BY <1>1, FS_Interval
<1>6. c \in Surjection(I, 1..n)
  BY <1>4, <1>5, FS_Injection
<1>7. \A k \in 1..n : \E i \in I : c[i] = k
  BY <1>6 DEF Surjection
<1>8. ASSUME NEW k \in 1..n PROVE Kth(I, k) \in I /\ c[Kth(I, k)] = k
  <2>1. PICK i \in I : Cardinality(UpTo(i)) = k
    BY <1>7
  <2>2. QED
    BY <2>1 DEF Kth
<1>9. ASSUME NEW i \in I PROVE \E k \in 1..n : Kth(I, k) = i
  BY <1>2, <1>3, <1>8
<1>10. QED
  BY <1>1, <1>8, <1>9

\* What is chosen of a sequence are its elements at the positions I.
LEMMA ChosenIs ==
  ASSUME NEW s, NEW I, I \subseteq Nat, IsFiniteSet(I)
  PROVE  /\ Cardinality(I) \in Nat /\ DOMAIN Chosen(s, I) = 1..Cardinality(I)
         /\ ToSet(Chosen(s, I)) = {s[i] : i \in I}
<1>1. /\ Cardinality(I) \in Nat
      /\ \A k \in 1..Cardinality(I) : Kth(I, k) \in I
      /\ \A i \in I : \E k \in 1..Cardinality(I) : Kth(I, k) = i
  BY Counting
<1>2. ToSet(Chosen(s, I)) = {s[Kth(I, k)] : k \in 1..Cardinality(I)}
  BY DEF Chosen, ToSet
<1>3. {s[Kth(I, k)] : k \in 1..Cardinality(I)} = {s[i] : i \in I}
  BY <1>1
<1>4. QED
  BY <1>1, <1>2, <1>3 DEF Chosen

\* Positions of a sequence are finitely many.
LEMMA PositionsFinite == ASSUME NEW n \in Nat, NEW I, I \subseteq 1..n PROVE I \subseteq Nat /\ IsFiniteSet(I)
<1>1. IsFiniteSet(1..n) /\ I \in SUBSET (1..n)
  BY FS_Interval
<1>2. IsFiniteSet(I)
  BY <1>1, FS_Subset
<1>3. QED
  BY <1>2

IsFlat(f, ss, n) == f = [i \in 1..n |-> IF i = 1 THEN ss[i] ELSE f[i - 1] \o ss[i]]

\* There is a recursion that flattens n sequences.
LEMMA FlatExists == ASSUME NEW ss, NEW n \in Nat PROVE \E f : IsFlat(f, ss, n)
<1> DEFINE T == {k \in Nat : ~ \E f : IsFlat(f, ss, k)}
<1>1. SUFFICES ASSUME T # {} PROVE FALSE
  OBVIOUS
<1>2. T \subseteq Nat
  OBVIOUS
<1>3. PICK k \in T : \A j \in T : k <= j
  <2> HIDE DEF T
  <2>1. QED
    BY <1>1, <1>2, Least
<1>4. k # 0
  <2>1. IsFlat([i \in 1..0 |-> 0], ss, 0)
    BY DEF IsFlat
  <2>2. QED
    BY <2>1
<1>5. PICK f : IsFlat(f, ss, k - 1)
  BY <1>3, <1>4
<1> DEFINE g == [i \in 1..k |-> IF i = 1 THEN ss[i] ELSE f[i - 1] \o ss[i]]
<1>6. ASSUME NEW i \in 1..(k - 1) PROVE g[i] = f[i]
  <2>1. f[i] = IF i = 1 THEN ss[i] ELSE f[i - 1] \o ss[i]
    BY <1>5 DEF IsFlat
  <2>2. i \in 1..k
    BY <1>4
  <2>3. QED
    BY <2>1, <2>2
<1>7. \A i \in 1..k : i # 1 => g[i - 1] = f[i - 1]
  <2>1. \A i \in 1..k : i # 1 => i - 1 \in 1..(k - 1)
    BY <1>4
  <2> HIDE DEF g
  <2>2. QED
    BY <1>6, <2>1
<1>8. IsFlat(g, ss, k)
  BY <1>7 DEF IsFlat
<1>9. QED
  BY <1>8

\* A flattened sequence is the last value of that recursion.
LEMMA FlattenFound ==
  ASSUME NEW S, NEW ss \in Seq(S), ss # <<>>
  PROVE  \E f : IsFlat(f, ss, Len(ss)) /\ FlattenSeq(ss) = f[Len(ss)]
<1> DEFINE g == CHOOSE h : IsFlat(h, ss, Len(ss))
<1>1. Len(ss) \in Nat \ {0}
  OBVIOUS
<1>2. IsFlat(g, ss, Len(ss))
  BY FlatExists, <1>1
<1>3. FlattenSeq(ss) = g[Len(ss)]
  BY <1>1 DEF FlattenSeq, IsFlat
<1>4. QED
  BY <1>2, <1>3

Pairs(n, S) == UNION {{x} \X (1..n[x]) : x \in S}
SumOver(n, S) == Cardinality(Pairs(n, S))

\* A sum has finitely many pairs and is a number.
LEMMA SumFinite ==
  ASSUME NEW S, NEW n, IsFiniteSet(S), \A x \in S : n[x] \in Nat
  PROVE  IsFiniteSet(Pairs(n, S)) /\ SumOver(n, S) \in Nat
<1>1. \A x \in S : IsFiniteSet({x} \X (1..n[x]))
  <2>1. ASSUME NEW x \in S PROVE IsFiniteSet({x} \X (1..n[x]))
    <3>1. IsFiniteSet({x})
      BY FS_Singleton
    <3>2. 1 \in Int /\ n[x] \in Int
      OBVIOUS
    <3>3. IsFiniteSet(1..n[x])
      BY <3>2, FS_Interval
    <3>4. QED
      BY <3>1, <3>3, FS_Product
  <2>2. QED
    BY <2>1
<1>2. IsFiniteSet({{x} \X (1..n[x]) : x \in S})
  <2> DEFINE g == [x \in S |-> {x} \X (1..n[x])]
  <2>1. g \in Surjection(S, {{x} \X (1..n[x]) : x \in S})
    BY DEF Surjection
  <2>2. QED
    BY <2>1, FS_Surjection
<1>3. \A T \in {{x} \X (1..n[x]) : x \in S} : IsFiniteSet(T)
  BY <1>1
<1>4. IsFiniteSet(Pairs(n, S))
  BY <1>2, <1>3, FS_UNION DEF Pairs
<1>5. QED
  BY <1>4, FS_CardinalityType DEF SumOver

\* Nothing adds up to nothing.
LEMMA SumEmpty == ASSUME NEW n PROVE SumOver(n, {}) = 0
<1>1. Pairs(n, {}) = {}
  BY DEF Pairs
<1>2. QED
  BY <1>1, FS_EmptySet DEF SumOver

\* An element more adds its number.
LEMMA SumAdds ==
  ASSUME NEW S, NEW n, NEW x, IsFiniteSet(S), x \notin S, \A y \in S \cup {x} : n[y] \in Nat
  PROVE  SumOver(n, S \cup {x}) = n[x] + SumOver(n, S)
<1>1. IsFiniteSet(Pairs(n, S)) /\ SumOver(n, S) \in Nat
  BY SumFinite
<1> DEFINE P == {x} \X (1..n[x])
<1>2. Pairs(n, S \cup {x}) = P \cup Pairs(n, S)
  BY DEF Pairs
<1>3. P \cap Pairs(n, S) = {}
  BY DEF Pairs
<1>4. n[x] \in Nat /\ IsFiniteSet({x}) /\ Cardinality({x}) = 1
  BY FS_Singleton
<1>5. IsFiniteSet(1..n[x]) /\ Cardinality(1..n[x]) = n[x]
  <2>1. 1 \in Int /\ n[x] \in Int
    BY <1>4
  <2>2. IsFiniteSet(1..n[x]) /\ Cardinality(1..n[x]) = IF 1 > n[x] THEN 0 ELSE n[x] - 1 + 1
    BY <2>1, FS_Interval
  <2>3. QED
    BY <1>4, <2>2
<1>6. IsFiniteSet(P) /\ Cardinality(P) = n[x]
  <2>1. IsFiniteSet(P) /\ Cardinality(P) = Cardinality({x}) * Cardinality(1..n[x])
    BY <1>4, <1>5, FS_Product
  <2>2. QED
    BY <1>4, <1>5, <2>1
<1> HIDE DEF P
<1>7. Cardinality(P \cup Pairs(n, S)) = Cardinality(P) + Cardinality(Pairs(n, S)) - Cardinality(P \cap Pairs(n, S))
  BY <1>1, <1>6, FS_Union
<1>8. Cardinality(P \cap Pairs(n, S)) = 0
  BY <1>3, FS_EmptySet
<1>9. QED
  <2> DEFINE a == SumOver(n, S)
             b == SumOver(n, S \cup {x})
             k == n[x]
  <2>1. b = Cardinality(P) + Cardinality(Pairs(n, S)) - 0
    BY <1>2, <1>7, <1>8 DEF SumOver
  <2>2. a = Cardinality(Pairs(n, S)) /\ a \in Nat /\ k \in Nat /\ Cardinality(P) = k
    BY <1>1, <1>4, <1>6 DEF SumOver
  <2> HIDE DEF a, b, k
  <2>3. b = k + a
    BY <2>1, <2>2
  <2>4. QED
    BY <2>3 DEF a, b, k

\* Equal numbers have equal sums.
LEMMA SumSame ==
  ASSUME NEW S, NEW n, NEW m, \A x \in S : n[x] = m[x]
  PROVE  SumOver(n, S) = SumOver(m, S)
<1>1. Pairs(n, S) = Pairs(m, S)
  BY DEF Pairs
<1>2. QED
  BY <1>1 DEF SumOver

\* The sum of a function is that over its domain.
LEMMA SumOfOver == ASSUME NEW n PROVE SumOf(n) = SumOver(n, DOMAIN n)
  BY DEF SumOf, SumOver, Pairs

\* s has the elements of the first n of the sequences ss and no others.
Joins(s, ss, n) ==
  /\ \A i \in 1..n : \A k \in 1..Len(ss[i]) : \E c \in 1..Len(s) : s[c] = ss[i][k]
  /\ \A c \in 1..Len(s) : \E i \in 1..n : \E k \in 1..Len(ss[i]) : s[c] = ss[i][k]

\* One sequence more.
LEMMA JoinsOneMore ==
  ASSUME NEW T, NEW s \in Seq(T), NEW ss, NEW n \in Nat, Joins(s, ss, n), ss[n + 1] \in Seq(T)
  PROVE  s \o ss[n + 1] \in Seq(T) /\ Joins(s \o ss[n + 1], ss, n + 1)
<1> DEFINE t == ss[n + 1]
           u == s \o t
           a == Len(s)
           b == Len(t)
<1>1. /\ u \in Seq(T) /\ Len(u) = a + b /\ a \in Nat /\ b \in Nat
      /\ \A c \in 1..(a + b) : u[c] = IF c <= a THEN s[c] ELSE t[c - a]
  BY ConcatProperties
<1>2. \A c \in 1..a : c \in 1..(a + b) /\ u[c] = s[c]
  BY <1>1
<1>3. \A k \in 1..b : a + k \in 1..(a + b) /\ u[a + k] = t[k]
  <2> HIDE DEF u, t, a, b
  <2> TAKE k \in 1..b
  <2>1. a + k \in 1..(a + b) /\ ~ (a + k <= a) /\ (a + k) - a = k
    BY <1>1
  <2>2. QED
    BY <1>1, <2>1
<1>4. \A c \in 1..(a + b) : c \in 1..a \/ (c - a \in 1..b /\ u[c] = t[c - a])
  BY <1>1
<1> HIDE DEF u
<1>5. \A i \in 1..(n + 1) : \A k \in 1..Len(ss[i]) : \E c \in 1..Len(u) : u[c] = ss[i][k]
  <2> SUFFICES ASSUME NEW i \in 1..(n + 1), NEW k \in 1..Len(ss[i]) PROVE \E c \in 1..Len(u) : u[c] = ss[i][k]
    OBVIOUS
  <2>1. CASE i = n + 1
    BY <1>1, <1>3, <2>1
  <2>2. CASE i # n + 1
    <3>1. i \in 1..n
      BY <2>2
    <3>2. PICK c \in 1..a : s[c] = ss[i][k]
      BY <3>1 DEF Joins
    <3>3. QED
      BY <1>1, <1>2, <3>2
  <2>3. QED
    BY <2>1, <2>2
<1>6. \A c \in 1..Len(u) : \E i \in 1..(n + 1) : \E k \in 1..Len(ss[i]) : u[c] = ss[i][k]
  <2> SUFFICES ASSUME NEW c \in 1..(a + b) PROVE \E i \in 1..(n + 1) : \E k \in 1..Len(ss[i]) : u[c] = ss[i][k]
    BY <1>1
  <2>1. CASE c \in 1..a
    <3>1. PICK i \in 1..n : \E k \in 1..Len(ss[i]) : s[c] = ss[i][k]
      BY <2>1 DEF Joins
    <3>2. i \in 1..(n + 1)
      OBVIOUS
    <3>3. QED
      BY <1>2, <2>1, <3>1, <3>2
  <2>2. CASE c \notin 1..a
    <3>1. n + 1 \in 1..(n + 1) /\ c - a \in 1..Len(ss[n + 1]) /\ u[c] = ss[n + 1][c - a]
      BY <1>4, <2>2
    <3>2. QED
      BY <3>1
  <2>3. QED
    BY <2>1, <2>2
<1>7. QED
  BY <1>1, <1>5, <1>6 DEF Joins, u

\* FlattenSeq joins its sequences.
LEMMA FlattenJoins ==
  ASSUME NEW T, NEW ss \in Seq(Seq(T))
  PROVE  FlattenSeq(ss) \in Seq(T) /\ Joins(FlattenSeq(ss), ss, Len(ss))
<1>1. CASE ss = <<>>
  BY <1>1 DEF FlattenSeq, Joins
<1>2. CASE ss # <<>>
  <2> DEFINE n == Len(ss)
  <2>1. PICK f : IsFlat(f, ss, n) /\ FlattenSeq(ss) = f[n]
    BY <1>2, FlattenFound
  <2>2. n \in Nat /\ n # 0 /\ \A i \in 1..n : ss[i] \in Seq(T)
    BY <1>2
  <2> HIDE DEF n
  <2> DEFINE P(i) == f[i] \in Seq(T) /\ Joins(f[i], ss, i)
             B == {i \in 1..n : ~P(i)}
  <2>3. ASSUME B # {} PROVE FALSE
    <3>1. B \subseteq Nat
      OBVIOUS
    <3>2. PICK i \in B : \A j \in B : i <= j
      <4> HIDE DEF B
      <4>1. QED
        BY <2>3, <3>1, Least
    <3>4. CASE i = 1
      <4>1. f[1] = ss[1] /\ ss[1] \in Seq(T)
        BY <2>1, <2>2, <3>4 DEF IsFlat
      <4>2. Joins(ss[1], ss, 1)
        BY DEF Joins
      <4>3. QED
        BY <3>2, <3>4, <4>1, <4>2
    <3>5. CASE i # 1
      <4>1. i - 1 \in 1..n /\ ~ (i <= i - 1) /\ i - 1 \in Nat /\ (i - 1) + 1 = i /\ i \in 1..n
        BY <2>2, <3>2, <3>5
      <4>2. P(i - 1)
        BY <3>2, <4>1
      <4>3. f[i] = f[i - 1] \o ss[i]
        BY <2>1, <3>5, <4>1 DEF IsFlat
      <4>4. ss[i] \in Seq(T)
        BY <2>2, <4>1
      <4>5. P(i)
        <5> DEFINE j == i - 1
        <5>1. j \in Nat /\ j + 1 = i /\ f[j] \in Seq(T) /\ Joins(f[j], ss, j) /\ ss[j + 1] \in Seq(T)
          BY <4>1, <4>2, <4>4
        <5> HIDE DEF j
        <5>2. f[j] \o ss[j + 1] \in Seq(T) /\ Joins(f[j] \o ss[j + 1], ss, j + 1)
          BY <5>1, JoinsOneMore
        <5>3. f[i] = f[j] \o ss[j + 1]
          BY <4>3, <5>1 DEF j
        <5>4. QED
          BY <5>1, <5>2, <5>3
      <4>6. QED
        BY <3>2, <4>5
    <3>6. QED
      BY <3>4, <3>5
  <2>4. P(n)
    BY SMTT(30), <2>2, <2>3
  <2>5. QED
    BY <2>1, <2>4 DEF n
<1>3. QED
  BY <1>1, <1>2

-----------------------------------------------------------------------------
(* The slices of a text, and the chunks                                    *)

USE ChunkAssumption

\* The smaller and the greater of two numbers, and the greatest of a bounded set.
LEMMA MinOfTwo == ASSUME NEW a \in Nat, NEW b \in Nat PROVE Min({a, b}) = IF a <= b THEN a ELSE b
<1>1. Min({a, b}) = CHOOSE x \in {a, b} : \A y \in {a, b} : x <= y
  BY DEF Min
<1>2. CASE a <= b
  <2>1. \A x \in {a, b} : (\A y \in {a, b} : x <= y) <=> x = a
    BY <1>2
  <2>2. QED
    BY <1>1, <1>2, <2>1
<1>3. CASE ~ (a <= b)
  <2>1. \A x \in {a, b} : (\A y \in {a, b} : x <= y) <=> x = b
    BY <1>3
  <2>2. QED
    BY <1>1, <1>3, <2>1
<1>4. QED
  BY <1>2, <1>3

\* A nonempty set of numbers up to n has a greatest element.
LEMMA Greatest == ASSUME NEW S, NEW n \in Nat, S \subseteq 0..n, S # {} PROVE Max(S) \in S /\ \A x \in S : Max(S) >= x
<1> DEFINE T == {n - x : x \in S}
<1>1. T \subseteq Nat /\ T # {}
  OBVIOUS
<1>2. PICK m \in T : \A k \in T : m <= k
  <2> HIDE DEF T
  <2>1. QED
    BY <1>1, Least
<1>3. PICK x \in S : m = n - x
  OBVIOUS
<1>4. ASSUME NEW y \in S PROVE x >= y
  <2>1. n - y \in T /\ x \in 0..n /\ y \in 0..n
    OBVIOUS
  <2>2. n - x <= n - y
    BY <1>2, <1>3, <2>1
  <2>3. QED
    BY <2>1, <2>2
<1>5. Max(S) = CHOOSE z \in S : \A y \in S : z >= y
  BY DEF Max
<1>6. \E z \in S : \A y \in S : z >= y
  BY <1>4
<1>7. QED
  BY <1>5, <1>6

\* A nonempty set of numbers has a smallest element.
LEMMA Smallest == ASSUME NEW S, S \subseteq Nat, S # {} PROVE Min(S) \in S /\ \A x \in S : Min(S) <= x
<1>1. \E m \in S : \A k \in S : m <= k
  BY Least
<1>2. Min(S) = CHOOSE z \in S : \A y \in S : z <= y
  BY DEF Min
<1>3. QED
  BY <1>1, <1>2

\* A chunk ends behind its beginning, within the text.
LEMMA SplitEndWithin ==
  ASSUME NEW n \in Nat, NEW start \in 0..n
  PROVE  SplitEnd(n, start) \in start..n /\ (start < n => SplitEnd(n, start) > start)
<1> DEFINE candidate == Min({start + ChunkSize, n})
           low == Max({Overlap + 1, ChunkSize \div 2})
           from == Min({candidate, start + low})
           ends == {e \in Breaks : from < e /\ e <= candidate}
<1>1. ChunkSize \in Nat /\ ChunkSize > 0 /\ Overlap \in Nat /\ start \in Nat /\ start <= n
  OBVIOUS
<1>2. candidate \in start..n /\ (start < n => candidate > start)
  <2>1. start + ChunkSize \in Nat
    BY <1>1
  <2>2. candidate = IF start + ChunkSize <= n THEN start + ChunkSize ELSE n
    BY <2>1, MinOfTwo
  <2> HIDE DEF candidate
  <2>3. QED
    BY <1>1, <2>1, <2>2
<1>3. low \in Nat
  <2>1. ChunkSize \div 2 \in Nat
    BY <1>1
  <2> DEFINE S == {Overlap + 1, ChunkSize \div 2}
             m == Overlap + 1 + (ChunkSize \div 2)
  <2>2. m \in Nat /\ S \subseteq 0..m /\ S # {} /\ \A x \in S : x \in Nat
    BY <1>1, <2>1
  <2>3. Max(S) \in S
    <3> HIDE DEF m, S
    <3>1. QED
      BY <2>2, Greatest
  <2>4. QED
    BY <2>2, <2>3, Zenon
<1> HIDE DEF low
<1>4. from \in Nat /\ from >= start
  <2>1. start + low \in Nat /\ candidate \in Nat
    BY <1>1, <1>2, <1>3
  <2> HIDE DEF candidate
  <2>2. from = IF candidate <= start + low THEN candidate ELSE start + low
    BY <2>1, MinOfTwo
  <2> HIDE DEF from
  <2>3. QED
    BY <1>1, <1>2, <1>3, <2>1, <2>2
<1>5. SplitEnd(n, start) = IF candidate < n /\ ends # {} THEN Max(ends) ELSE candidate
  BY DEF SplitEnd, low
<1> HIDE DEF candidate, from
<1>6. ends # {} => Max(ends) \in start..n /\ Max(ends) > start
  <2>1. SUFFICES ASSUME ends # {} PROVE Max(ends) \in start..n /\ Max(ends) > start
    OBVIOUS
  <2>2. \A e \in ends : e \in 0..n /\ e \in start..n /\ e > start
    <3> SUFFICES ASSUME NEW e \in Breaks, from < e, e <= candidate PROVE e \in 0..n /\ e \in start..n /\ e > start
      OBVIOUS
    <3>1. e \in Nat
      BY TextConstants
    <3>2. QED
      BY <1>1, <1>2, <1>4, <3>1
  <2>3. ends \subseteq 0..n
    BY <2>2
  <2>4. Max(ends) \in ends
    <3> HIDE DEF ends
    <3>1. QED
      BY <2>1, <2>3, Greatest
  <2>5. QED
    BY <2>2, <2>4, Zenon
<1> HIDE DEF ends
<1>7. QED
  BY <1>2, <1>5, <1>6

\* The next chunk begins behind the beginning of the last one and not behind its end.
LEMMA NextStartWithin ==
  ASSUME NEW start \in Nat, NEW end \in Nat, start < end PROVE NextStart(start, end) \in (start + 1)..end
  BY DEF NextStart

\* f is the recursion of _split_text from the beginnings a to n.
IsSplit(f, n, a) ==
  f = [start \in a..n |->
        Trimmed(start, SplitEnd(n, start))
          \o IF SplitEnd(n, start) >= n THEN <<>> ELSE f[NextStart(start, SplitEnd(n, start))]]

\* It goes on behind where it is.
LEMMA SplitGoesOn ==
  ASSUME NEW n \in Nat, NEW start \in 0..n, ~ (SplitEnd(n, start) >= n)
  PROVE  /\ NextStart(start, SplitEnd(n, start)) \in (start + 1)..n
         /\ NextStart(start, SplitEnd(n, start)) <= SplitEnd(n, start)
<1> DEFINE end == SplitEnd(n, start)
<1>1. end \in start..n /\ (start < n => end > start)
  BY SplitEndWithin
<1> HIDE DEF end
<1>2. start \in Nat /\ end \in Nat /\ end < n /\ start < end
  BY <1>1 DEF end
<1>3. NextStart(start, end) \in (start + 1)..end
  BY <1>2, NextStartWithin
<1>4. QED
  BY <1>2, <1>3 DEF end

\* There is a recursion of _split_text for a text of any length.
LEMMA SplitExists == ASSUME NEW n \in Nat PROVE \E f : IsSplit(f, n, 0)
<1> DEFINE B == {k \in 0..n : ~ \E f : IsSplit(f, n, n - k)}
<1>1. ASSUME B # {} PROVE FALSE
  <2>1. B \subseteq Nat
    OBVIOUS
  <2>2. PICK k \in B : \A j \in B : k <= j
    <3> HIDE DEF B
    <3>1. QED
      BY <1>1, <2>1, Least
  <2> DEFINE a == n - k
  <2>3. a \in 0..n /\ k \in Nat
    BY <2>2
  <2>4. \E f : IsSplit(f, n, a + 1)
    <3>1. CASE k = 0
      <4>1. (a + 1)..n = {}
        BY <3>1
      <4>2. IsSplit([start \in {} |-> 0], n, a + 1)
        BY <4>1 DEF IsSplit
      <4>3. QED
        BY <4>2
    <3>2. CASE k # 0
      <4>1. k - 1 \in 0..n /\ ~ (k <= k - 1) /\ n - (k - 1) = a + 1
        BY <2>2, <2>3, <3>2
      <4>2. k - 1 \notin B
        BY <2>2, <4>1
      <4>3. QED
        BY <4>1, <4>2
    <3>3. QED
      BY <3>1, <3>2
  <2>5. PICK f : IsSplit(f, n, a + 1)
    BY <2>4
  <2> DEFINE rest(start) == IF SplitEnd(n, start) >= n THEN <<>> ELSE f[NextStart(start, SplitEnd(n, start))]
             here(start) == Trimmed(start, SplitEnd(n, start))
             g == [start \in a..n |-> here(start) \o rest(start)]
  <2> HIDE DEF a
  <2>6. ASSUME NEW start \in (a + 1)..n PROVE g[start] = f[start]
    <3>1. start \in a..n
      BY <2>3
    <3>2. f[start] = here(start) \o rest(start)
      BY <2>5 DEF IsSplit
    <3>3. QED
      BY <3>1, <3>2
  <2>7. ASSUME NEW start \in a..n
        PROVE  rest(start) = IF SplitEnd(n, start) >= n THEN <<>> ELSE g[NextStart(start, SplitEnd(n, start))]
    <3>1. CASE SplitEnd(n, start) >= n
      BY <3>1
    <3>2. CASE ~ (SplitEnd(n, start) >= n)
      <4>1. start \in 0..n
        BY <2>3
      <4>2. NextStart(start, SplitEnd(n, start)) \in (start + 1)..n
        BY <3>2, <4>1, SplitGoesOn
      <4>3. \A m \in (start + 1)..n : m \in (a + 1)..n
        BY <2>3
      <4>4. g[NextStart(start, SplitEnd(n, start))] = f[NextStart(start, SplitEnd(n, start))]
        BY <2>6, <4>2, <4>3
      <4>5. QED
        BY <3>2, <4>4
    <3>3. QED
      BY <3>1, <3>2
  <2>8. g = [start \in a..n |->
               here(start) \o IF SplitEnd(n, start) >= n THEN <<>> ELSE g[NextStart(start, SplitEnd(n, start))]]
    <3> DEFINE h(start) == here(start) \o IF SplitEnd(n, start) >= n THEN <<>> ELSE g[NextStart(start, SplitEnd(n, start))]
    <3>1. \A start \in a..n : here(start) \o rest(start) = h(start)
      BY <2>7
    <3> HIDE DEF h, here, rest
    <3>2. [start \in a..n |-> here(start) \o rest(start)] = [start \in a..n |-> h(start)]
      BY <3>1
    <3>3. QED
      BY <3>2 DEF h
  <2>9. IsSplit(g, n, a)
    BY <2>8 DEF IsSplit
  <2>10. QED
    BY <2>2, <2>9 DEF a
<1>2. n \in 0..n /\ n - n = 0
  OBVIOUS
<1>3. n \notin B
  <2> HIDE DEF B
  <2>1. QED
    BY <1>1
<1>4. QED
  BY <1>2, <1>3

\* What a chunk of a text is, and what chunks from a beginning on have to be.
Slice == [start : Nat, end : Nat]
SlicesFrom(s, n, start) ==
  /\ s \in Seq(Slice)
  /\ \A k \in 1..Len(s) : s[k].start <= s[k].end /\ s[k].end <= n
  /\ \A x \in (start..(n - 1)) \ Blanks : \E k \in 1..Len(s) : s[k].start <= x /\ x < s[k].end

\* One chunk more in front, from first to last.
LEMMA SliceInFront ==
  ASSUME NEW n \in Nat, NEW start \in 0..n, NEW end \in start..n, NEW next \in 0..end, NEW s, SlicesFrom(s, n, next),
         NEW first \in Nat, NEW last \in first..end,
         \A x \in (start..(end - 1)) \ Blanks : first <= x /\ x < last
  PROVE  SlicesFrom(<<[start |-> first, end |-> last]>> \o s, n, start)
<1> DEFINE t == <<[start |-> first, end |-> last]>>
           u == t \o s
           b == Len(s)
<1>1. t \in Seq(Slice) /\ Len(t) = 1 /\ t[1].start = first /\ t[1].end = last
  BY DEF Slice
<1>2. s \in Seq(Slice) /\ b \in Nat
  BY DEF SlicesFrom
<1> HIDE DEF t
<1>3. /\ u \in Seq(Slice) /\ Len(u) = 1 + b
      /\ \A k \in 1..(1 + b) : u[k] = IF k <= 1 THEN t[k] ELSE s[k - 1]
  <2>1. /\ t \o s \in Seq(Slice) /\ Len(t \o s) = Len(t) + Len(s)
        /\ \A k \in 1..(Len(t) + Len(s)) : (t \o s)[k] = IF k <= Len(t) THEN t[k] ELSE s[k - Len(t)]
    BY <1>1, <1>2, ConcatProperties
  <2>2. Len(t) = 1
    BY <1>1
  <2>3. QED
    BY <2>1, <2>2
<1> HIDE DEF u
<1>4. u[1] = t[1] /\ 1 \in 1..(1 + b)
  BY <1>2, <1>3
<1>5. \A k \in 1..b : k + 1 \in 1..(1 + b) /\ u[k + 1] = s[k]
  <2> HIDE DEF b
  <2> TAKE k \in 1..b
  <2>1. k + 1 \in 1..(1 + b) /\ ~ (k + 1 <= 1) /\ (k + 1) - 1 = k
    BY <1>2
  <2>2. QED
    BY <1>3, <2>1
<1>6. \A k \in 1..(1 + b) : k = 1 \/ (k - 1 \in 1..b /\ u[k] = s[k - 1])
  BY <1>2, <1>3
<1> HIDE DEF b
<1>7. \A k \in 1..Len(u) : u[k].start <= u[k].end /\ u[k].end <= n
  <2> SUFFICES ASSUME NEW k \in 1..(1 + b) PROVE u[k].start <= u[k].end /\ u[k].end <= n
    BY <1>3
  <2>1. CASE k = 1
    BY <1>1, <1>4, <2>1
  <2>2. CASE k # 1
    BY <1>6, <2>2 DEF SlicesFrom, b
  <2>3. QED
    BY <2>1, <2>2
<1>8. \A x \in (start..(n - 1)) \ Blanks : \E k \in 1..Len(u) : u[k].start <= x /\ x < u[k].end
  <2> SUFFICES ASSUME NEW x \in (start..(n - 1)) \ Blanks PROVE \E k \in 1..(1 + b) : u[k].start <= x /\ x < u[k].end
    BY <1>3
  <2>1. CASE x < end
    <3>1. x \in (start..(end - 1)) \ Blanks
      BY <2>1
    <3>2. QED
      BY <1>1, <1>4, <3>1
  <2>2. CASE ~ (x < end)
    <3>1. x \in (next..(n - 1)) \ Blanks
      BY <2>2
    <3>2. PICK k \in 1..b : s[k].start <= x /\ x < s[k].end
      BY <3>1 DEF SlicesFrom, b
    <3>3. QED
      BY <1>5, <3>2
  <2>3. QED
    BY <2>1, <2>2
<1>9. QED
  BY <1>3, <1>7, <1>8 DEF SlicesFrom, u, t

\* Nothing in front.
LEMMA EmptyInFront == ASSUME NEW s \in Seq(Slice) PROVE <<>> \o s = s
  BY ConcatProperties

\* What is left of a chunk that is trimmed has all its characters.
LEMMA TrimmedInFront ==
  ASSUME NEW n \in Nat, NEW start \in 0..n, NEW end \in start..n, NEW next \in 0..end, NEW s, SlicesFrom(s, n, next)
  PROVE  SlicesFrom(Trimmed(start, end) \o s, n, start)
<1> DEFINE solid == (start..(end - 1)) \ Blanks
<1>1. solid \subseteq 0..n /\ \A x \in solid : x \in Nat /\ x < end
  OBVIOUS
<1>2. CASE solid = {}
  <2>1. Trimmed(start, end) = <<>>
    BY <1>2 DEF Trimmed
  <2>2. s \in Seq(Slice)
    BY DEF SlicesFrom
  <2>3. <<>> \o s = s
    BY <2>2, EmptyInFront
  <2>4. \A x \in (start..(n - 1)) \ Blanks : x \in (next..(n - 1)) \ Blanks
    <3> SUFFICES ASSUME NEW x \in start..(n - 1), x \notin Blanks PROVE x >= next
      OBVIOUS
    <3>1. ~ (x < end)
      BY <1>2
    <3>2. QED
      BY <3>1
  <2>5. SlicesFrom(s, n, start)
    BY <2>4 DEF SlicesFrom
  <2>6. QED
    BY <2>1, <2>3, <2>5
<1>3. CASE solid # {}
  <2> DEFINE first == Min(solid)
             last == Max(solid) + 1
  <2>1. Trimmed(start, end) = <<[start |-> first, end |-> last]>>
    BY <1>3 DEF Trimmed
  <2> HIDE DEF solid
  <2>2. Min(solid) \in solid /\ \A x \in solid : Min(solid) <= x
    BY <1>1, <1>3, Smallest
  <2>3. Max(solid) \in solid /\ \A x \in solid : Max(solid) >= x
    BY <1>1, <1>3, Greatest
  <2> HIDE DEF first, last
  <2>a. first \in solid /\ \A x \in solid : first <= x
    BY <2>2 DEF first
  <2>b. last - 1 \in solid /\ last \in Int /\ \A x \in solid : x < last
    <3>1. Max(solid) \in Nat
      BY <1>1, <2>3
    <3>2. last = Max(solid) + 1
      BY DEF last
    <3>3. last - 1 = Max(solid) /\ last \in Int
      BY <3>1, <3>2
    <3>4. ASSUME NEW x \in solid PROVE x < last
      <4>1. x \in Nat /\ Max(solid) >= x
        BY <1>1, <2>3
      <4>2. QED
        BY <3>1, <3>2, <4>1
    <3>5. QED
      BY <2>3, <3>3, <3>4
  <2>c. first \in Nat /\ first < last /\ last - 1 < end
    BY <1>1, <2>a, <2>b
  <2>4. first \in Nat /\ last \in first..end /\ \A x \in solid : first <= x /\ x < last
    BY <2>a, <2>b, <2>c
  <2>5. \A x \in (start..(end - 1)) \ Blanks : first <= x /\ x < last
    BY <2>4 DEF solid
  <2>6. SlicesFrom(<<[start |-> first, end |-> last]>> \o s, n, start)
    BY <2>4, <2>5, SliceInFront
  <2>7. QED
    BY <2>1, <2>6
<1>4. QED
  BY <1>2, <1>3

\* _split_text leaves no character out.
LEMMA SlicesCover == ASSUME NEW n \in Nat PROVE SlicesFrom(Slices(n), n, 0)
<1>1. CASE n = 0
  <2>1. Slices(n) = <<>>
    BY <1>1 DEF Slices
  <2>2. <<>> \in Seq(Slice) /\ 1..Len(<<>>) = {} /\ (0..(0 - 1)) \ Blanks = {}
    OBVIOUS
  <2>3. SlicesFrom(<<>>, 0, 0)
    BY <2>2 DEF SlicesFrom
  <2>4. QED
    BY <1>1, <2>1, <2>3
<1>2. CASE n # 0
  <2> DEFINE f == CHOOSE h : IsSplit(h, n, 0)
  <2>1. IsSplit(f, n, 0)
    BY SplitExists
  <2>2. Slices(n) = f[0]
    BY <1>2 DEF Slices, IsSplit
  <2> HIDE DEF f
  <2> DEFINE B == {k \in 0..n : ~ SlicesFrom(f[n - k], n, n - k)}
  <2>3. ASSUME B # {} PROVE FALSE
    <3>1. B \subseteq Nat
      OBVIOUS
    <3>2. PICK k \in B : \A j \in B : k <= j
      <4> HIDE DEF B
      <4>1. QED
        BY <2>3, <3>1, Least
    <3> DEFINE a == n - k
               end == SplitEnd(n, a)
               next == NextStart(a, end)
    <3>3. a \in 0..n /\ k \in 0..n /\ n - k = a /\ ~ SlicesFrom(f[a], n, a)
      BY <3>2
    <3>4. \A j \in 0..n : j < k => SlicesFrom(f[n - j], n, n - j)
      BY <3>2
    <3> HIDE DEF a
    <3>5. f[a] = Trimmed(a, end) \o IF end >= n THEN <<>> ELSE f[next]
      BY <2>1, <3>3 DEF IsSplit
    <3>6. end \in a..n
      BY <3>3, SplitEndWithin
    <3>7. CASE end >= n
      <4>1. end = n /\ f[a] = Trimmed(a, end) \o <<>>
        BY <3>5, <3>6, <3>7
      <4>2. SlicesFrom(<<>>, n, n)
        <5>1. <<>> \in Seq(Slice) /\ 1..Len(<<>>) = {} /\ (n..(n - 1)) \ Blanks = {}
          OBVIOUS
        <5>2. QED
          BY <5>1 DEF SlicesFrom
      <4>3. n \in 0..end
        BY <3>6, <4>1
      <4> HIDE DEF end
      <4>4. SlicesFrom(Trimmed(a, end) \o <<>>, n, a)
        BY <3>3, <3>6, <4>2, <4>3, TrimmedInFront
      <4>5. QED
        BY <3>3, <4>1, <4>4
    <3>8. CASE ~ (end >= n)
      <4>1. next \in (a + 1)..n /\ next <= end
        BY <3>3, <3>8, SplitGoesOn
      <4> HIDE DEF next, end
      <4>2. n - next \in 0..n /\ n - next < k /\ n - (n - next) = next
        BY <3>3, <4>1
      <4>3. SlicesFrom(f[next], n, next)
        BY <3>4, <4>2
      <4>4. next \in 0..end
        BY <3>3, <3>6, <4>1
      <4>5. SlicesFrom(Trimmed(a, end) \o f[next], n, a)
        BY <3>3, <3>6, <4>3, <4>4, TrimmedInFront
      <4>6. QED
        BY <3>3, <3>5, <3>8, <4>5
    <3>9. QED
      BY <3>7, <3>8
  <2>4. n \in 0..n /\ n \notin B /\ n - n = 0
    BY <2>3
  <2>5. QED
    BY <2>2, <2>4
<1>3. QED
  BY <1>1, <1>2

\* The chunk of a slice of unit i.
ChunkOf(units, i, slice) ==
  [unit |-> i, start |-> slice.start, end |-> slice.end, offset |-> UnitOffset(units, i) + slice.start,
   at |-> units[i].at, number |-> units[i].number, title |-> units[i].title]

\* Units are in a row and have sizes.
InRow(units, n) == n \in Nat /\ DOMAIN units = 1..n /\ \A i \in 1..n : units[i].size \in Nat

\* The chunks are those of the slices of the units.
LEMMA ChunksAre ==
  ASSUME NEW units, NEW n, InRow(units, n)
  PROVE  /\ DOMAIN Chunks(units) = 1..Len(Chunks(units))
         /\ \A i \in 1..n : \A k \in 1..Len(Slices(units[i].size)) :
              \E c \in DOMAIN Chunks(units) : Chunks(units)[c] = ChunkOf(units, i, Slices(units[i].size)[k])
         /\ \A c \in DOMAIN Chunks(units) : \E i \in 1..n : \E k \in 1..Len(Slices(units[i].size)) :
              Chunks(units)[c] = ChunkOf(units, i, Slices(units[i].size)[k])
<1> DEFINE slices(i) == Slices(units[i].size)
           ss == [i \in 1..n |-> [k \in 1..Len(slices(i)) |-> ChunkOf(units, i, slices(i)[k])]]
           T == {ChunkOf(units, i, slice) : i \in 1..n, slice \in Slice}
<1>1. n \in Nat /\ \A i \in 1..n : slices(i) \in Seq(Slice) /\ Len(slices(i)) \in Nat
  <2>1. \A i \in 1..n : slices(i) \in Seq(Slice)
    BY SlicesCover DEF InRow, SlicesFrom
  <2>2. QED
    BY <2>1, LenProperties DEF InRow
<1>2. Chunks(units) = FlattenSeq(ss)
  <2>1. \A i \in 1..n : DOMAIN slices(i) = 1..Len(slices(i))
    BY <1>1
  <2> DEFINE row(i) == [k \in DOMAIN slices(i) |-> ChunkOf(units, i, slices(i)[k])]
  <2>2. Chunks(units) = FlattenSeq([i \in 1..n |-> row(i)])
    BY DEF Chunks, InRow, ChunkOf
  <2>3. \A i \in 1..n : row(i) = [k \in 1..Len(slices(i)) |-> ChunkOf(units, i, slices(i)[k])]
    BY <2>1
  <2>4. QED
    BY <2>2, <2>3
<1> HIDE DEF slices
<1>3. \A i \in 1..n : ss[i] \in Seq(T)
  <2> SUFFICES ASSUME NEW i \in 1..n PROVE ss[i] \in Seq(T)
    OBVIOUS
  <2>1. \A k \in 1..Len(slices(i)) : slices(i)[k] \in Slice
    BY <1>1
  <2>2. \A k \in 1..Len(slices(i)) : ChunkOf(units, i, slices(i)[k]) \in T
    BY <2>1
  <2> HIDE DEF T
  <2>3. QED
    BY <1>1, <2>2
<1>4. ss \in Seq(Seq(T)) /\ Len(ss) = n
  <2> HIDE DEF T
  <2>1. QED
    BY <1>1, <1>3
<1>5. FlattenSeq(ss) \in Seq(T) /\ Joins(FlattenSeq(ss), ss, n)
  <2> HIDE DEF T, ss
  <2>1. QED
    BY <1>4, FlattenJoins
<1>6. \A i \in 1..n : Len(ss[i]) = Len(slices(i)) /\ \A k \in 1..Len(slices(i)) : ss[i][k] = ChunkOf(units, i, slices(i)[k])
  BY <1>1
<1> DEFINE f == FlattenSeq(ss)
<1> HIDE DEF ss, T
<1>7. f \in Seq(T) /\ Joins(f, ss, n) /\ Chunks(units) = f
  BY <1>2, <1>5
<1> HIDE DEF f
<1>8. DOMAIN f = 1..Len(f)
  BY <1>7
<1>9. \A i \in 1..n : \A k \in 1..Len(slices(i)) : \E c \in DOMAIN f : f[c] = ChunkOf(units, i, slices(i)[k])
  <2> SUFFICES ASSUME NEW i \in 1..n, NEW k \in 1..Len(slices(i))
               PROVE  \E c \in DOMAIN f : f[c] = ChunkOf(units, i, slices(i)[k])
    OBVIOUS
  <2>1. k \in 1..Len(ss[i]) /\ ss[i][k] = ChunkOf(units, i, slices(i)[k])
    BY <1>6
  <2>2. \E c \in 1..Len(f) : f[c] = ss[i][k]
    BY <1>7, <2>1 DEF Joins
  <2>3. QED
    BY <1>8, <2>1, <2>2
<1>10. \A c \in DOMAIN f : \E i \in 1..n : \E k \in 1..Len(slices(i)) : f[c] = ChunkOf(units, i, slices(i)[k])
  BY <1>6, <1>7, <1>8 DEF Joins
<1>11. QED
  BY <1>7, <1>8, <1>9, <1>10 DEF slices

\* What is added to an offset for a unit.
Width(units, j) == IF units[j].size = 0 THEN 0 ELSE units[j].size + Separator

\* The offsets of the units are those of the units put one after the other.
LEMMA OffsetsGrow ==
  ASSUME NEW units, NEW n, InRow(units, n), NEW i \in 1..n, NEW j \in 1..n, i < j
  PROVE  /\ UnitOffset(units, i) \in Nat /\ UnitOffset(units, j) \in Nat
         /\ UnitOffset(units, i) + Width(units, i) <= UnitOffset(units, j)
<1> DEFINE w == [k \in 1..n |-> Width(units, k)]
           S(k) == 1..(k - 1)
<1>1. \A k \in 1..n : w[k] \in Nat
  BY DEF InRow, Width, Separator
<1>2. ASSUME NEW k \in 1..n PROVE UnitOffset(units, k) = SumOver(w, S(k)) /\ S(k) \subseteq 1..n /\ IsFiniteSet(S(k))
  <2>1. S(k) \subseteq 1..n /\ n \in Nat
    BY DEF InRow
  <2> DEFINE v == [l \in S(k) |-> Width(units, l)]
  <2>2. UnitOffset(units, k) = SumOf(v)
    BY DEF UnitOffset, Width
  <2>3. SumOf(v) = SumOver(v, S(k))
    BY SumOfOver
  <2>4. \A l \in S(k) : v[l] = w[l]
    BY <2>1
  <2>5. SumOver(v, S(k)) = SumOver(w, S(k))
    <3> HIDE DEF v, w, S
    <3>1. QED
      BY <2>4, SumSame
  <2>6. IsFiniteSet(S(k))
    BY <2>1, PositionsFinite
  <2>7. QED
    BY <2>1, <2>2, <2>3, <2>5, <2>6
<1>3. S(j) \subseteq 1..n /\ S(i) \subseteq 1..n /\ IsFiniteSet(S(j)) /\ IsFiniteSet(S(i))
  BY <1>2
<1>4. S(i) \cup {i} \subseteq S(j) /\ i \notin S(i) /\ i \in 1..n
  BY DEF InRow
<1> HIDE DEF S, w
<1>5. \A k \in S(i) \cup {i} : w[k] \in Nat
  BY <1>1, <1>3, <1>4
<1>6. \A k \in S(j) : w[k] \in Nat
  BY <1>1, <1>3
<1>7. SumOver(w, S(i) \cup {i}) = w[i] + SumOver(w, S(i))
  BY <1>3, <1>4, <1>5, SumAdds
<1>8. Pairs(w, S(i) \cup {i}) \in SUBSET Pairs(w, S(j))
  BY <1>4 DEF Pairs
<1>9. IsFiniteSet(Pairs(w, S(j))) /\ SumOver(w, S(j)) \in Nat
  BY <1>3, <1>6, SumFinite
<1>10. SumOver(w, S(i) \cup {i}) <= SumOver(w, S(j))
  BY <1>8, <1>9, FS_Subset DEF SumOver
<1>11. SumOver(w, S(i)) \in Nat
  BY <1>3, <1>5, SumFinite
<1>12. w[i] = Width(units, i)
  BY DEF w
<1>13. QED
  <2> DEFINE a == SumOver(w, S(i))
             b == SumOver(w, S(j))
             c == SumOver(w, S(i) \cup {i})
             v == w[i]
  <2>1. a \in Nat /\ b \in Nat /\ c = v + a /\ c <= b /\ v \in Nat
    BY <1>1, <1>7, <1>9, <1>10, <1>11
  <2>2. UnitOffset(units, i) = a /\ UnitOffset(units, j) = b /\ Width(units, i) = v
    BY <1>2, <1>12
  <2> HIDE DEF a, b, c, v
  <2>3. a + v <= b
    BY <2>1
  <2>4. QED
    BY <2>1, <2>2, <2>3

\* The chunks of units leave no character out, and their offsets are in the order of the units.
LEMMA ChunksCover ==
  ASSUME NEW units, NEW n, InRow(units, n)
  PROVE  /\ \A u \in 1..n : \A x \in (0..(units[u].size - 1)) \ Blanks :
              \E k \in DOMAIN Chunks(units) : /\ Chunks(units)[k].unit = u
                                              /\ Chunks(units)[k].start <= x /\ x < Chunks(units)[k].end
         /\ \A k, l \in DOMAIN Chunks(units) : Chunks(units)[k].unit < Chunks(units)[l].unit =>
              Chunks(units)[k].offset + (Chunks(units)[k].end - Chunks(units)[k].start) < Chunks(units)[l].offset
<1> DEFINE slices(i) == Slices(units[i].size)
           cs == Chunks(units)
<1>1. \A i \in 1..n : units[i].size \in Nat /\ SlicesFrom(slices(i), units[i].size, 0)
  BY SlicesCover DEF InRow
<1>2. \A i \in 1..n : \A k \in 1..Len(slices(i)) : \E c \in DOMAIN cs : cs[c] = ChunkOf(units, i, slices(i)[k])
  BY ChunksAre
<1>3. \A c \in DOMAIN cs : \E i \in 1..n : \E k \in 1..Len(slices(i)) : cs[c] = ChunkOf(units, i, slices(i)[k])
  BY ChunksAre
<1> HIDE DEF slices, cs
<1>4. ASSUME NEW u \in 1..n, NEW x \in (0..(units[u].size - 1)) \ Blanks
      PROVE  \E k \in DOMAIN cs : cs[k].unit = u /\ cs[k].start <= x /\ x < cs[k].end
  <2>1. PICK k \in 1..Len(slices(u)) : slices(u)[k].start <= x /\ x < slices(u)[k].end
    BY <1>1 DEF SlicesFrom
  <2>2. PICK c \in DOMAIN cs : cs[c] = ChunkOf(units, u, slices(u)[k])
    BY <1>2
  <2>3. QED
    BY <2>1, <2>2 DEF ChunkOf
<1>5. ASSUME NEW k \in DOMAIN cs, NEW l \in DOMAIN cs, cs[k].unit < cs[l].unit
      PROVE  cs[k].offset + (cs[k].end - cs[k].start) < cs[l].offset
  <2>1. PICK i \in 1..n : \E a \in 1..Len(slices(i)) : cs[k] = ChunkOf(units, i, slices(i)[a])
    BY <1>3
  <2>2. PICK a \in 1..Len(slices(i)) : cs[k] = ChunkOf(units, i, slices(i)[a])
    BY <2>1
  <2>3. PICK j \in 1..n : \E b \in 1..Len(slices(j)) : cs[l] = ChunkOf(units, j, slices(j)[b])
    BY <1>3
  <2>4. PICK b \in 1..Len(slices(j)) : cs[l] = ChunkOf(units, j, slices(j)[b])
    BY <2>3
  <2> DEFINE p == slices(i)[a]
             q == slices(j)[b]
             size == units[i].size
             o == UnitOffset(units, i)
             r == UnitOffset(units, j)
  <2>5. /\ cs[k].unit = i /\ cs[k].start = p.start /\ cs[k].end = p.end /\ cs[k].offset = o + p.start
        /\ cs[l].unit = j /\ cs[l].offset = r + q.start
    BY <2>2, <2>4 DEF ChunkOf
  <2>6. p \in Slice /\ p.end <= size /\ p.start <= p.end
    BY <1>1, <2>2 DEF SlicesFrom
  <2>7. q \in Slice
    BY <1>1, <2>4 DEF SlicesFrom
  <2>8. p.start \in Nat /\ p.end \in Nat /\ q.start \in Nat /\ size \in Nat
    BY <1>1, <2>6, <2>7 DEF Slice
  <2>9. size # 0
    <3>1. ASSUME size = 0 PROVE FALSE
      <4>1. slices(i) = <<>>
        BY <3>1 DEF slices, Slices
      <4>2. QED
        BY <4>1
    <3>2. QED
      BY <3>1
  <2>10. Width(units, i) = size + 2
    BY <2>9 DEF Width, Separator
  <2>11. i < j
    BY <1>5, <2>5
  <2>12. o \in Nat /\ r \in Nat /\ o + (size + 2) <= r
    BY <2>10, <2>11, OffsetsGrow
  <2> HIDE DEF o, r, size, p, q
  <2>13. (o + p.start) + (p.end - p.start) < r + q.start
    BY SMTT(30), <2>6, <2>8, <2>12
  <2>14. QED
    BY <2>5, <2>13
<1>6. QED
  BY <1>4, <1>5 DEF cs

HIDE ChunkAssumption

-----------------------------------------------------------------------------
(* The units of a body, and the images                                     *)

\* A sum is at least each of its numbers, and that of one number is the number.
LEMMA SumAtLeast ==
  ASSUME NEW S, NEW n, IsFiniteSet(S), NEW x \in S, \A y \in S : n[y] \in Nat
  PROVE  SumOver(n, S) \in Nat /\ n[x] <= SumOver(n, S) /\ (S = {x} => SumOver(n, S) = n[x])
<1> DEFINE R == S \ {x}
<1>1. IsFiniteSet(R) /\ x \notin R /\ R \cup {x} = S /\ \A y \in R : n[y] \in Nat
  BY FS_RemoveElement
<1>2. S = {x} => R = {}
  OBVIOUS
<1> HIDE DEF R
<1>3. SumOver(n, R) \in Nat /\ SumOver(n, S) = n[x] + SumOver(n, R)
  BY <1>1, SumFinite, SumAdds
<1>4. S = {x} => SumOver(n, R) = 0
  BY <1>2, SumEmpty
<1>5. QED
  <2> DEFINE a == SumOver(n, R)
             b == SumOver(n, S)
             c == n[x]
  <2>1. a \in Nat /\ c \in Nat /\ b = c + a /\ (S = {x} => a = 0)
    BY <1>3, <1>4
  <2> HIDE DEF a, b, c
  <2>2. b \in Nat /\ c <= b /\ (S = {x} => b = c)
    BY <2>1
  <2>3. QED
    BY <2>2 DEF a, b, c

\* A body has places, and its parts stand in them.
IsBody(body) ==
  /\ body.places \in Nat
  /\ Len(body.parts) \in Nat /\ DOMAIN body.parts = 1..Len(body.parts)
  /\ \A i \in DOMAIN body.parts :
       body.parts[i].at \in 1..body.places /\ body.parts[i].file \in Nat /\ body.parts[i].size \in Nat

\* A set of parts of a body is finite, and their sizes are numbers.
LEMMA PartsFinite ==
  ASSUME NEW body, IsBody(body), NEW is, is \subseteq DOMAIN body.parts
  PROVE  is \subseteq Nat /\ IsFiniteSet(is)
<1>1. PICK n \in Nat : DOMAIN body.parts = 1..n
  BY DEF IsBody
<1>2. QED
  BY <1>1, PositionsFinite

\* The size of a set of parts is a number, at least that of each of them, and that of its only one.
LEMMA SizeOfParts ==
  ASSUME NEW body, IsBody(body), NEW is, is \subseteq DOMAIN body.parts
  PROVE  /\ SizeOf(body, is) \in Nat
         /\ \A i \in is : body.parts[i].size <= SizeOf(body, is) /\ (is = {i} => SizeOf(body, is) = body.parts[i].size)
<1> DEFINE n == [i \in is |-> body.parts[i].size]
<1>1. IsFiniteSet(is)
  BY PartsFinite
<1>2. \A i \in is : n[i] \in Nat /\ n[i] = body.parts[i].size
  BY DEF IsBody
<1>3. SizeOf(body, is) = SumOver(n, is)
  BY SumOfOver DEF SizeOf
<1> HIDE DEF n
<1>4. SumOver(n, is) \in Nat /\ \A i \in is : n[i] <= SumOver(n, is) /\ (is = {i} => SumOver(n, is) = n[i])
  <2>1. ASSUME NEW i \in is PROVE n[i] <= SumOver(n, is) /\ (is = {i} => SumOver(n, is) = n[i])
    BY <1>1, <1>2, SumAtLeast
  <2>2. SumOver(n, is) \in Nat
    BY <1>1, <1>2, SumFinite
  <2>3. QED
    BY <2>1, <2>2
<1>5. QED
  BY <1>2, <1>3, <1>4, Zenon

\* A unit of a body, whatever it says.
AnyUnit(body, u) ==
  \E kind, at, number, size, of : u = Unit(body, kind, at, number, size, of) /\ size \in Nat

\* A unit of the text of a body: it has all the text of what it comes from.
TextUnit(body, u) ==
  /\ AnyUnit(body, u)
  /\ u.of \subseteq DOMAIN body.parts
  /\ u.size \in Nat /\ u.size = SizeOf(body, u.of)

\* The text of a body is in its units.
TextIn(body, units) ==
  /\ units = [u \in DOMAIN units |-> units[u]]
  /\ \E n : InRow(units, n)
  /\ \A u \in DOMAIN units : TextUnit(body, units[u])
  /\ \A i \in DOMAIN body.parts : body.parts[i].kind \in TextKinds /\ body.parts[i].size > 0 =>
       \E u \in DOMAIN units : i \in units[u].of

\* With a unit for each place that has the size of its texts, every text is in a unit.
LEMMA PlaceUnits ==
  ASSUME NEW body, IsBody(body), NEW units, NEW kind,
         units = [at \in 1..body.places |->
                    Unit(body, kind[at], at, at, SizeOf(body, Among(body, at, TextKinds)), Among(body, at, TextKinds))]
  PROVE  TextIn(body, units)
<1>1. ASSUME NEW u \in 1..body.places
      PROVE  TextUnit(body, units[u]) /\ units[u].of = Among(body, u, TextKinds)
  <2> DEFINE of == Among(body, u, TextKinds)
             size == SizeOf(body, of)
  <2>1. of \subseteq DOMAIN body.parts
    BY DEF Among
  <2>2. size \in Nat
    BY <2>1, SizeOfParts
  <2>3. units[u] = Unit(body, kind[u], u, u, size, of)
    OBVIOUS
  <2> HIDE DEF of, size
  <2>4. AnyUnit(body, units[u])
    BY <2>2, <2>3 DEF AnyUnit
  <2>5. units[u].of = of /\ units[u].size = size
    BY <2>3 DEF Unit
  <2>6. QED
    BY <2>1, <2>2, <2>4, <2>5 DEF TextUnit, of, size
<1>2. DOMAIN units = 1..body.places
  OBVIOUS
<1>3. InRow(units, body.places)
  BY <1>1, <1>2 DEF InRow, TextUnit, IsBody
<1>4. ASSUME NEW i \in DOMAIN body.parts, body.parts[i].kind \in TextKinds
      PROVE  \E u \in DOMAIN units : i \in units[u].of
  <2>1. body.parts[i].at \in 1..body.places
    BY DEF IsBody
  <2>2. i \in Among(body, body.parts[i].at, TextKinds)
    BY <1>4 DEF Among
  <2>3. QED
    BY <1>1, <1>2, <2>1, <2>2
<1>5. units = [u \in DOMAIN units |-> units[u]]
  OBVIOUS
<1>6. QED
  BY <1>1, <1>2, <1>3, <1>4, <1>5 DEF TextIn

\* Every text of a body is in one of the units the parser reads.
LEMMA TextUnitsHaveText == ASSUME NEW body, IsBody(body) PROVE TextIn(body, TextUnits(body))
<1> DEFINE units == TextUnits(body)
<1>1. CASE body.type = "pdf"
  <2>1. units = [at \in 1..body.places |->
                   Unit(body, "text", at, at, SizeOf(body, Among(body, at, TextKinds)), Among(body, at, TextKinds))]
    BY <1>1 DEF TextUnits, PageUnit
  <2> HIDE DEF units
  <2> DEFINE kind == [at \in 1..body.places |-> "text"]
  <2>2. units = [at \in 1..body.places |->
                   Unit(body, kind[at], at, at, SizeOf(body, Among(body, at, TextKinds)), Among(body, at, TextKinds))]
    BY <2>1
  <2> HIDE DEF kind
  <2>3. TextIn(body, units)
    BY <2>2, PlaceUnits
  <2>4. QED
    BY <2>3 DEF units
<1>2. CASE body.type = "docx"
  <2> DEFINE kind == [at \in 1..body.places |-> IF Among(body, at, {"heading"}) = {} THEN "text" ELSE "heading"]
  <2>1. units = [at \in 1..body.places |->
                   Unit(body, kind[at], at, at, SizeOf(body, Among(body, at, TextKinds)), Among(body, at, TextKinds))]
    BY <1>2 DEF TextUnits, BlockUnit
  <2> HIDE DEF units, kind
  <2>2. TextIn(body, units)
    BY <2>1, PlaceUnits
  <2>3. QED
    BY <2>2 DEF units
<1>3. CASE body.type \notin {"pdf", "docx"}
  <2> DEFINE I == {i \in DOMAIN body.parts : Kept(body, i)}
             s == [i \in DOMAIN body.parts |-> PartUnit(body, i)]
  <2>1. units = Chosen(s, I)
    BY <1>3 DEF TextUnits
  <2>2. I \subseteq DOMAIN body.parts
    OBVIOUS
  <2>3. I \subseteq Nat /\ IsFiniteSet(I)
    <3> HIDE DEF I
    <3>1. QED
      BY <2>2, PartsFinite
  <2>4. ASSUME NEW i \in I PROVE TextUnit(body, s[i]) /\ s[i].of = {i}
    <3>1. i \in DOMAIN body.parts /\ {i} \subseteq DOMAIN body.parts /\ body.parts[i].size \in Nat
      BY DEF IsBody
    <3>2. SizeOf(body, {i}) = body.parts[i].size
      BY <3>1, SizeOfParts
    <3>3. s[i] = Unit(body, body.parts[i].kind, body.parts[i].at, body.parts[i].at, body.parts[i].size, {i})
      BY <3>1 DEF PartUnit
    <3> HIDE DEF s
    <3>4. AnyUnit(body, s[i])
      BY <3>1, <3>3 DEF AnyUnit
    <3>5. s[i].of = {i} /\ s[i].size = body.parts[i].size
      BY <3>3 DEF Unit
    <3>6. QED
      BY <3>1, <3>2, <3>4, <3>5 DEF TextUnit
  <2>5. \A i \in DOMAIN body.parts : body.parts[i].kind \in TextKinds /\ body.parts[i].size > 0 => i \in I
    BY DEF Kept, IsBody
  <2> HIDE DEF I, s, units
  <2>6. /\ Cardinality(I) \in Nat /\ DOMAIN units = 1..Cardinality(I)
        /\ ToSet(units) = {s[i] : i \in I}
    BY <2>1, <2>3, ChosenIs
  <2>7. ASSUME NEW u \in DOMAIN units PROVE TextUnit(body, units[u])
    <3>1. units[u] \in ToSet(units)
      BY DEF ToSet
    <3>2. PICK i \in I : units[u] = s[i]
      BY <2>6, <3>1
    <3>3. QED
      BY <2>4, <3>2
  <2>8. ASSUME NEW i \in I PROVE \E u \in DOMAIN units : i \in units[u].of
    <3>1. s[i] \in ToSet(units)
      BY <2>6
    <3>2. PICK u \in DOMAIN units : units[u] = s[i]
      BY <3>1 DEF ToSet
    <3>3. QED
      BY <2>4, <3>2
  <2>9. InRow(units, Cardinality(I))
    BY <2>6, <2>7 DEF InRow, TextUnit
  <2>10. units = [u \in DOMAIN units |-> units[u]]
    BY <2>1 DEF Chosen
  <2>11. QED
    BY <2>5, <2>7, <2>8, <2>9, <2>10 DEF TextIn, units
<1>4. QED
  BY <1>1, <1>2, <1>3

\* Units without text come from parts without text.
LEMMA NoTextNone ==
  ASSUME NEW body, IsBody(body), NoText(TextUnits(body)), NEW i \in DOMAIN body.parts, body.parts[i].kind \in TextKinds
  PROVE  body.parts[i].size = 0
<1> DEFINE units == TextUnits(body)
<1>1. TextIn(body, units) /\ \A u \in DOMAIN units : units[u].size = 0
  BY TextUnitsHaveText DEF NoText
<1> HIDE DEF units
<1>2. body.parts[i].size \in Nat
  BY DEF IsBody
<1>3. ASSUME body.parts[i].size > 0 PROVE FALSE
  <2>1. PICK u \in DOMAIN units : i \in units[u].of
    BY <1>1, <1>3 DEF TextIn
  <2>2. units[u].of \subseteq DOMAIN body.parts /\ SizeOf(body, units[u].of) = 0
    BY <1>1 DEF TextIn, TextUnit
  <2>3. body.parts[i].size <= SizeOf(body, units[u].of)
    BY <2>1, <2>2, SizeOfParts
  <2>4. QED
    BY <1>2, <1>3, <2>2, <2>3
<1>4. QED
  BY <1>2, <1>3

\* What holds at first and is kept by each step holds up to n.
LEMMA Steps ==
  ASSUME NEW n \in Nat, NEW P, 0 \in P, \A k \in 1..n : k - 1 \in P => k \in P
  PROVE  \A k \in 0..n : k \in P
<1> DEFINE B == {k \in 0..n : k \notin P}
<1>1. ASSUME B # {} PROVE FALSE
  <2>1. B \subseteq Nat
    OBVIOUS
  <2>2. PICK k \in B : \A j \in B : k <= j
    <3> HIDE DEF B
    <3>1. QED
      BY <1>1, <2>1, Least
  <2>3. k \in 1..n /\ k - 1 \in 0..n /\ ~ (k <= k - 1)
    BY <2>2
  <2>4. k - 1 \in P
    BY <2>2, <2>3
  <2>5. QED
    BY <2>2, <2>3, <2>4
<1>2. QED
  BY <1>1

Recursive(D, n, first, step) ==
  \E f \in [0..n -> D] : f[0] = first /\ \A k \in 1..n : f[k] = step[<<f[k - 1], k>>]

\* A recursion over the first n numbers has a result of the set its steps keep to.
LEMMA Recursion ==
  ASSUME NEW D, NEW n \in Nat, NEW first \in D, NEW step \in [D \X (1..n) -> D]
  PROVE  Recursive(D, n, first, step)
<1> DEFINE Good(f, m) == f \in [0..m -> D] /\ f[0] = first /\ \A k \in 1..m : f[k] = step[<<f[k - 1], k>>]
           P == {m \in 0..n : \E f : Good(f, m)}
<1>1. 0 \in P
  <2>1. Good([k \in 0..0 |-> first], 0)
    OBVIOUS
  <2> HIDE DEF Good
  <2>2. \E f : Good(f, 0)
    BY <2>1
  <2>3. QED
    BY <2>2
<1>2. ASSUME NEW m \in 1..n, m - 1 \in P PROVE m \in P
  <2>1. PICK f : Good(f, m - 1)
    BY <1>2
  <2> DEFINE g == [k \in 0..m |-> IF k = m THEN step[<<f[m - 1], m>>] ELSE f[k]]
  <2>2. m - 1 \in 0..(m - 1) /\ f[m - 1] \in D
    BY <2>1
  <2>3. step[<<f[m - 1], m>>] \in D
    BY <2>2
  <2>4. \A k \in 0..(m - 1) : k \in 0..m /\ k # m /\ f[k] \in D
    BY <2>1
  <2>5. \A k \in 0..m : k = m \/ k \in 0..(m - 1)
    OBVIOUS
  <2>6. g \in [0..m -> D]
    BY <2>3, <2>4, <2>5
  <2>7. \A k \in 0..(m - 1) : g[k] = f[k]
    BY <2>4
  <2>8. g[m] = step[<<f[m - 1], m>>] /\ 0 \in 0..(m - 1)
    OBVIOUS
  <2> HIDE DEF g
  <2>9. ASSUME NEW k \in 1..m PROVE g[k] = step[<<g[k - 1], k>>]
    <3>1. k - 1 \in 0..(m - 1) /\ (k = m \/ k \in 1..(m - 1))
      OBVIOUS
    <3>2. g[k - 1] = f[k - 1]
      BY <2>7, <3>1
    <3>3. CASE k = m
      BY <2>8, <3>2, <3>3
    <3>4. CASE k # m
      <4>1. k \in 1..(m - 1) /\ k \in 0..(m - 1)
        BY <3>4
      <4>2. f[k] = step[<<f[k - 1], k>>] /\ g[k] = f[k]
        BY <2>1, <2>7, <4>1
      <4>3. QED
        BY <3>2, <4>2
    <3>5. QED
      BY <3>3, <3>4
  <2>10. Good(g, m)
    BY <2>1, <2>6, <2>7, <2>8, <2>9
  <2>11. QED
    BY <2>10
<1> HIDE DEF P
<1>3. n \in P
  BY <1>1, <1>2, Steps
<1>4. QED
  BY <1>3 DEF P, Recursive

\* The n-th part a package gives is one of its parts.
LEMMA NthOfParts ==
  ASSUME NEW body, IsBody(body), NEW k \in 1..Len(body.parts)
  PROVE  Nth(body, k) \in DOMAIN body.parts
<1> DEFINE D == DOMAIN body.parts
           n == Len(body.parts)
           Before(i) == {j \in D : ReadBefore(body, j, i)}
           c == [i \in D |-> Cardinality(Before(i)) + 1]
<1>1. n \in Nat /\ D = 1..n /\ IsFiniteSet(D) /\ Cardinality(D) = n
  BY FS_Interval DEF IsBody
<1>2. \A i \in D : i \in Int /\ body.parts[i].file \in Int
  BY DEF IsBody
<1>3. \A i \in D : ~ ReadBefore(body, i, i)
  BY <1>2 DEF ReadBefore
<1>4. \A i, j \in D : i = j \/ ReadBefore(body, i, j) \/ ReadBefore(body, j, i)
  BY <1>2 DEF ReadBefore
<1>5. \A h, i, j \in D : ReadBefore(body, h, i) /\ ReadBefore(body, i, j) => ReadBefore(body, h, j)
  BY <1>2 DEF ReadBefore
<1> HIDE DEF D, n
<1>6. ASSUME NEW i \in D
      PROVE  IsFiniteSet(Before(i)) /\ Cardinality(Before(i)) \in Nat /\ c[i] = Cardinality(Before(i)) + 1 /\ c[i] \in 1..n
  <2>1. Before(i) \in SUBSET (D \ {i}) /\ Before(i) \in SUBSET D
    BY <1>3
  <2>2. IsFiniteSet(D \ {i}) /\ Cardinality(D \ {i}) = n - 1
    BY <1>1, FS_RemoveElement
  <2> DEFINE B == Before(i)
             E == D \ {i}
  <2> HIDE DEF B, E
  <2>3. IsFiniteSet(B) /\ Cardinality(B) <= n - 1
    BY <2>1, <2>2, FS_Subset DEF B, E
  <2>4. Cardinality(B) \in Nat
    BY <2>3, FS_CardinalityType
  <2>5. Cardinality(B) + 1 \in 1..n
    BY <1>1, <2>3, <2>4
  <2>6. QED
    BY <2>3, <2>4, <2>5 DEF B
<1>7. ASSUME NEW i \in D, NEW j \in D, ReadBefore(body, i, j) PROVE c[i] # c[j]
  <2>1. Before(i) \in SUBSET Before(j) /\ i \in Before(j) /\ i \notin Before(i)
    BY <1>3, <1>5, <1>7
  <2>2. Cardinality(Before(i)) # Cardinality(Before(j))
    BY <1>6, <2>1, FS_Subset
  <2> DEFINE a == Cardinality(Before(i))
             b == Cardinality(Before(j))
  <2>3. a \in Nat /\ b \in Nat /\ c[i] = a + 1 /\ c[j] = b + 1 /\ a # b
    BY <1>6, <2>2
  <2> HIDE DEF a, b, c
  <2>4. QED
    BY <2>3
<1>8. c \in Injection(D, 1..n)
  <2>1. c \in [D -> 1..n]
    BY <1>6
  <2>2. \A i, j \in D : c[i] = c[j] => i = j
    BY <1>4, <1>7
  <2> HIDE DEF c
  <2>3. QED
    BY <2>1, <2>2 DEF Injection, IsInjective
<1>9. IsFiniteSet(1..n) /\ Cardinality(1..n) = n
  BY <1>1, FS_Interval
<1>10. c \in Surjection(D, 1..n)
  BY <1>1, <1>8, <1>9, FS_Injection
<1>11. PICK i \in D : c[i] = k
  BY <1>10 DEF Surjection, n
<1>12. Cardinality(Before(i)) = k - 1
  <2> DEFINE a == Cardinality(Before(i))
  <2>1. a \in Nat /\ a + 1 = k
    BY <1>6, <1>11
  <2> HIDE DEF a
  <2>2. a = k - 1
    BY <2>1
  <2>3. QED
    BY <2>2 DEF a
<1>13. QED
  BY <1>12 DEF Nth, D

\* Where an image of part i says it is: for a picture of a slide the number in its name.
PlacesOf(body, i) ==
  IF body.type = "pptx" /\ body.parts[i].kind = "picture" THEN {body.parts[i].file} ELSE {body.parts[i].at}

\* An image of a part.  With the types in bare it has no number yet.
ImageOf(body, i, at, number, ocr) ==
  [image |-> body.parts[i].image, size |-> body.parts[i].size, kind |-> body.parts[i].kind, at |-> at,
   number |-> number, ocr |-> ocr, of |-> {i}]
NumberOf(body, bare, at) == IF body.type \in bare THEN 0 ELSE at
IsImage(body, bare, m) ==
  \E i \in DOMAIN body.parts : \E at \in PlacesOf(body, i) : \E ocr \in BOOLEAN : 
     m = ImageOf(body, i, at, NumberOf(body, bare, at), ocr)
ImagesOf(body, bare) ==
  UNION {UNION {{ImageOf(body, i, at, NumberOf(body, bare, at), ocr) : ocr \in BOOLEAN} : at \in PlacesOf(body, i)} :
         i \in DOMAIN body.parts}

\* Membership in ImagesOf, spelled out.
LEMMA ImagesAre ==
  ASSUME NEW body, NEW bare, NEW m
  PROVE  m \in ImagesOf(body, bare) <=> IsImage(body, bare, m)
BY DEF ImagesOf, IsImage

WithOcr(m, v) == [m EXCEPT !.ocr = v]
WithNumber(m, v) == [m EXCEPT !.number = v]

\* Marking or numbering an image leaves it an image of its part.
LEMMA ImageChanges ==
  ASSUME NEW body, NEW i, NEW at, NEW number, NEW ocr, NEW v
  PROVE  /\ WithOcr(ImageOf(body, i, at, number, ocr), v) = ImageOf(body, i, at, number, v)
         /\ WithNumber(ImageOf(body, i, at, number, ocr), v) = ImageOf(body, i, at, v, ocr)
BY DEF ImageOf, WithOcr, WithNumber

\* Reading a part adds an image of it, or none.
LEMMA WithPartKeeps ==
  ASSUME NEW body, NEW i \in DOMAIN body.parts, NEW images \in Seq(ImagesOf(body, {"xlsx"})),
         body.parts[i].kind = "page" => body.type # "xlsx"
  PROVE  WithPart(body, images, i) \in Seq(ImagesOf(body, {"xlsx"}))
<1> DEFINE T == ImagesOf(body, {"xlsx"})
           p == body.parts[i]
<1>0. images \in Seq(T)
  OBVIOUS
<1>1. CASE p.kind = "picture" /\ CanAppend(images, p)
  <2>1. WithPart(body, images, i) = Append(images, PictureAt(body, i))
    BY <1>1 DEF WithPart
  <2> DEFINE at == IF body.type = "pptx" THEN p.file ELSE p.at
  <2>2. at \in PlacesOf(body, i)
    BY <1>1 DEF PlacesOf
  <2>3. PictureAt(body, i) = ImageOf(body, i, at, NumberOf(body, {"xlsx"}, at), TRUE)
    BY DEF PictureAt, ImageAt, ImageOf, NumberOf
  <2> HIDE DEF at
  <2>4. PictureAt(body, i) \in T
    BY <2>2, <2>3, ImagesAre DEF IsImage
  <2> HIDE DEF T
  <2>5. Append(images, PictureAt(body, i)) \in Seq(T)
    BY <2>4, AppendProperties DEF T
  <2>6. QED
    BY <2>1, <2>5 DEF T
<1>2. CASE p.kind = "page" /\ WithPage(body, images, i) # images
  <2> DEFINE rest == [k \in DOMAIN images |-> [images[k] EXCEPT !.ocr = @ /\ images[k].at # p.at]]
             new == ImageAt(body, i, p.at, p.at)
  <2>1. WithPart(body, images, i) = Append(rest, new)
    BY <1>2 DEF WithPart, WithPage
  <2>2. new \in T
    <3>1. p.at \in PlacesOf(body, i) /\ body.type # "xlsx"
      BY <1>2 DEF PlacesOf
    <3>2. new = ImageOf(body, i, p.at, NumberOf(body, {"xlsx"}, p.at), TRUE)
      BY <3>1 DEF ImageAt, ImageOf, NumberOf
    <3>3. QED
      BY <3>1, <3>2, ImagesAre DEF IsImage
  <2>3. ASSUME NEW k \in DOMAIN images PROVE rest[k] \in T
    <3>1. images[k] \in T
      <4> HIDE DEF T
      <4>1. QED
        BY <1>0
    <3>a. PICK j \in DOMAIN body.parts : \E at \in PlacesOf(body, j) : \E ocr \in BOOLEAN :
             images[k] = ImageOf(body, j, at, NumberOf(body, {"xlsx"}, at), ocr)
      BY <3>1, ImagesAre DEF IsImage
    <3>2. PICK at \in PlacesOf(body, j), ocr \in BOOLEAN : images[k] = ImageOf(body, j, at, NumberOf(body, {"xlsx"}, at), ocr)
      BY <3>a
    <3> DEFINE left == images[k].ocr /\ images[k].at # p.at
    <3>3. rest[k] = [images[k] EXCEPT !.ocr = left]
      OBVIOUS
    <3>4. images[k].ocr = ocr
      BY <3>2 DEF ImageOf
    <3>5. PICK v \in BOOLEAN : v = left
      BY <3>4
    <3>6. rest[k] = WithOcr(images[k], v)
      BY <3>3, <3>5 DEF WithOcr
    <3> HIDE DEF left, rest
    <3>7. rest[k] = ImageOf(body, j, at, NumberOf(body, {"xlsx"}, at), v)
      BY <3>2, <3>6, ImageChanges
    <3>8. QED
      BY <3>5, <3>7, ImagesAre DEF IsImage
  <2>4. Len(images) \in Nat /\ DOMAIN images = 1..Len(images) /\ DOMAIN rest = DOMAIN images
    OBVIOUS
  <2> HIDE DEF T
  <2>5. rest \in Seq(T)
    <3>1. rest \in [1..Len(images) -> T]
      BY <2>3, <2>4
    <3> HIDE DEF rest
    <3>2. QED
      BY <2>4, <3>1
  <2> HIDE DEF rest, new
  <2>6. Append(rest, new) \in Seq(T)
    BY <2>2, <2>5, AppendProperties
  <2>7. QED
    BY <2>1, <2>6 DEF T
<1>3. CASE WithPart(body, images, i) = images
  BY <1>3
<1>4. QED
  BY <1>1, <1>2, <1>3 DEF WithPart

\* A sheet has no page that is an image.
HasPages(body) == \A i \in DOMAIN body.parts : body.parts[i].kind = "page" => body.type # "xlsx"

\* The pictures of a body are images of its parts.
LEMMA EmbeddedKeeps ==
  ASSUME NEW body, IsBody(body), HasPages(body)
  PROVE  Embedded(body) \in Seq(ImagesOf(body, {"xlsx"}))
<1> DEFINE n == Len(body.parts)
           D == Seq(ImagesOf(body, {"xlsx"}))
           Is(f) == f = [k \in 0..n |-> IF k = 0 THEN <<>> ELSE WithPart(body, f[k - 1], Nth(body, k))]
           step == [x \in D \X (1..n) |-> WithPart(body, x[1], Nth(body, x[2]))]
<1>1. n \in Nat
  BY DEF IsBody
<1>2. \A x \in D : \A k \in 1..n : WithPart(body, x, Nth(body, k)) \in D
  <2> SUFFICES ASSUME NEW x \in D, NEW k \in 1..n PROVE WithPart(body, x, Nth(body, k)) \in D
    OBVIOUS
  <2>1. Nth(body, k) \in DOMAIN body.parts
    BY NthOfParts
  <2>2. QED
    BY <2>1, WithPartKeeps DEF HasPages
<1>3. <<>> \in D
  OBVIOUS
<1>4. \E f : Is(f)
  <2>1. step \in [D \X (1..n) -> D]
    <3> HIDE DEF D, n
    <3>1. QED
      BY <1>2
  <2>2. PICK f \in [0..n -> D] : f[0] = <<>> /\ \A k \in 1..n : f[k] = step[<<f[k - 1], k>>]
    <3> DEFINE e == <<>>
    <3>0. e \in D
      BY <1>3
    <3> HIDE DEF D, n, step, e
    <3>1. Recursive(D, n, e, step)
      BY <1>1, <3>0, <2>1, Recursion
    <3>2. QED
      BY <3>1 DEF e, Recursive
  <2>3. \A k \in 1..n : f[k] = WithPart(body, f[k - 1], Nth(body, k))
    <3> SUFFICES ASSUME NEW k \in 1..n PROVE f[k] = WithPart(body, f[k - 1], Nth(body, k))
      OBVIOUS
    <3>1. k - 1 \in 0..n
      BY <1>1
    <3>2. f[k - 1] \in D
      BY <2>2, <3>1
    <3> HIDE DEF D, n
    <3>3. <<f[k - 1], k>> \in D \X (1..n)
      BY <3>2
    <3>4. QED
      BY <2>2, <3>3
  <2> HIDE DEF n, D, step
  <2>4. \A k \in 0..n : k = 0 \/ k \in 1..n
    BY <1>1
  <2> DEFINE g == [k \in 0..n |-> IF k = 0 THEN <<>> ELSE WithPart(body, f[k - 1], Nth(body, k))]
  <2>5. \A k \in 0..n : f[k] = g[k]
    BY <2>2, <2>3, <2>4
  <2>6. f = g
    BY <2>2, <2>5
  <2>7. QED
    BY <2>6
<1> DEFINE f == CHOOSE h : Is(h)
<1>5. Is(f)
  <2> HIDE DEF Is
  <2>1. QED
    BY <1>4
<1>6. Embedded(body) = f[n]
  BY DEF Embedded
<1> HIDE DEF f
<1>7. \A k \in 0..n : f[k] = IF k = 0 THEN <<>> ELSE WithPart(body, f[k - 1], Nth(body, k))
  BY <1>5
<1> DEFINE P == {k \in 0..n : f[k] \in D}
<1> HIDE DEF D, n
<1>8. 0 \in P
  <2>1. 0 \in 0..n
    BY <1>1
  <2>2. f[0] = <<>>
    BY <1>7, <2>1
  <2>3. QED
    BY <1>3, <2>1, <2>2
<1>9. ASSUME NEW k \in 1..n, k - 1 \in P PROVE k \in P
  <2>1. k \in 0..n /\ k # 0 /\ f[k - 1] \in D
    <3>1. f[k - 1] \in D
      BY <1>9
    <3>2. QED
      BY <1>1, <3>1
  <2>2. f[k] = WithPart(body, f[k - 1], Nth(body, k))
    BY <1>7, <2>1
  <2>3. QED
    BY <1>2, <2>1, <2>2
<1> HIDE DEF P
<1>10. n \in P
  <2>1. \A k \in 0..n : k \in P
    <3> HIDE DEF n
    <3>1. QED
      BY <1>1, <1>8, <1>9, Steps
  <2>2. QED
    BY <1>1, <2>1
<1>11. QED
  BY <1>6, <1>10 DEF P, D

\* Drawing a chart adds an image of it, or none.
LEMMA WithVisualKeeps ==
  ASSUME NEW body, NEW i \in DOMAIN body.parts, NEW images \in Seq(ImagesOf(body, {"xlsx"}))
  PROVE  WithVisual(body, images, i) \in Seq(ImagesOf(body, {"xlsx"}))
<1> DEFINE T == ImagesOf(body, {"xlsx"})
           p == body.parts[i]
           new == ImageAt(body, i, p.at, IF body.type = "xlsx" THEN 0 ELSE p.at)
<1>1. ASSUME i \in Visuals(body) PROVE new \in T
  <2>1. p.at \in PlacesOf(body, i)
    BY <1>1 DEF PlacesOf, Visuals
  <2>2. new = ImageOf(body, i, p.at, NumberOf(body, {"xlsx"}, p.at), TRUE)
    BY DEF ImageAt, ImageOf, NumberOf
  <2>3. QED
    BY <2>1, <2>2, ImagesAre DEF IsImage
<1>2. WithVisual(body, images, i) = images \/ (i \in Visuals(body) /\ WithVisual(body, images, i) = Append(images, new))
  BY DEF WithVisual
<1>3. images \in Seq(T)
  OBVIOUS
<1> HIDE DEF T, new
<1>4. i \in Visuals(body) => Append(images, new) \in Seq(T)
  BY <1>1, <1>3, AppendProperties
<1>5. QED
  BY <1>2, <1>4 DEF T

\* So are they with the drawn charts.
LEMMA WithVisualsKeeps ==
  ASSUME NEW body, IsBody(body), NEW images \in Seq(ImagesOf(body, {"xlsx"}))
  PROVE  WithVisuals(body, images) \in Seq(ImagesOf(body, {"xlsx"}))
<1> DEFINE n == Len(body.parts)
           D == Seq(ImagesOf(body, {"xlsx"}))
           Is(f) == f = [k \in 0..n |-> IF k = 0 THEN images ELSE WithVisual(body, f[k - 1], k)]
           step == [x \in D \X (1..n) |-> WithVisual(body, x[1], x[2])]
<1>1. n \in Nat
  BY DEF IsBody
<1>2. \A x \in D : \A k \in 1..n : WithVisual(body, x, k) \in D
  <2> SUFFICES ASSUME NEW x \in D, NEW k \in 1..n PROVE WithVisual(body, x, k) \in D
    OBVIOUS
  <2>1. k \in DOMAIN body.parts
    BY DEF IsBody
  <2>2. QED
    BY <2>1, WithVisualKeeps
<1>3. images \in D
  OBVIOUS
<1>4. \E f : Is(f)
  <2>1. step \in [D \X (1..n) -> D]
    <3> HIDE DEF D, n
    <3>1. QED
      BY <1>2
  <2>2. PICK f \in [0..n -> D] : f[0] = images /\ \A k \in 1..n : f[k] = step[<<f[k - 1], k>>]
    <3> DEFINE e == images
    <3>0. e \in D
      BY <1>3
    <3> HIDE DEF D, n, step, e
    <3>1. Recursive(D, n, e, step)
      BY <1>1, <3>0, <2>1, Recursion
    <3>2. QED
      BY <3>1 DEF e, Recursive
  <2>3. \A k \in 1..n : f[k] = WithVisual(body, f[k - 1], k)
    <3> SUFFICES ASSUME NEW k \in 1..n PROVE f[k] = WithVisual(body, f[k - 1], k)
      OBVIOUS
    <3>1. k - 1 \in 0..n
      BY <1>1
    <3>2. f[k - 1] \in D
      BY <2>2, <3>1
    <3> HIDE DEF D, n
    <3>3. <<f[k - 1], k>> \in D \X (1..n)
      BY <3>2
    <3>4. QED
      BY <2>2, <3>3
  <2> HIDE DEF n, D, step
  <2>4. \A k \in 0..n : k = 0 \/ k \in 1..n
    BY <1>1
  <2> DEFINE g == [k \in 0..n |-> IF k = 0 THEN images ELSE WithVisual(body, f[k - 1], k)]
  <2>5. \A k \in 0..n : f[k] = g[k]
    BY <2>2, <2>3, <2>4
  <2>6. f = g
    BY <2>2, <2>5
  <2>7. QED
    BY <2>6
<1> DEFINE f == CHOOSE h : Is(h)
<1>5. Is(f)
  <2> HIDE DEF Is
  <2>1. QED
    BY <1>4
<1>6. WithVisuals(body, images) = f[n]
  BY DEF WithVisuals
<1> HIDE DEF f
<1>7. \A k \in 0..n : f[k] = IF k = 0 THEN images ELSE WithVisual(body, f[k - 1], k)
  BY <1>5
<1> DEFINE P == {k \in 0..n : f[k] \in D}
<1> HIDE DEF D, n
<1>8. 0 \in P
  <2>1. 0 \in 0..n
    BY <1>1
  <2>2. f[0] = images
    BY <1>7, <2>1
  <2>3. QED
    BY <1>3, <2>1, <2>2
<1>9. ASSUME NEW k \in 1..n, k - 1 \in P PROVE k \in P
  <2>1. k \in 0..n /\ k # 0 /\ f[k - 1] \in D
    <3>1. f[k - 1] \in D
      BY <1>9
    <3>2. QED
      BY <1>1, <3>1
  <2>2. f[k] = WithVisual(body, f[k - 1], k)
    BY <1>7, <2>1
  <2>3. QED
    BY <1>2, <2>1, <2>2
<1> HIDE DEF P
<1>10. n \in P
  <2>1. \A k \in 0..n : k \in P
    <3> HIDE DEF n
    <3>1. QED
      BY <1>1, <1>8, <1>9, Steps
  <2>2. QED
    BY <1>1, <2>1
<1>11. QED
  BY <1>6, <1>10 DEF P, D
\* In the end every image has its number.
LEMMA WithSheetNumberKeeps ==
  ASSUME NEW body, NEW images \in Seq(ImagesOf(body, {"xlsx"}))
  PROVE  WithSheetNumber(body, images) \in Seq(ImagesOf(body, {}))
<1> DEFINE T == ImagesOf(body, {"xlsx"})
           U == ImagesOf(body, {})
<1>0. images \in Seq(T)
  OBVIOUS
<1>1. images \in Seq(T) /\ Len(images) \in Nat /\ DOMAIN images = 1..Len(images)
  <2> HIDE DEF T
  <2>1. QED
    BY <1>0
<1>2. CASE body.type # "xlsx"
  <2>1. \A at : NumberOf(body, {"xlsx"}, at) = NumberOf(body, {}, at)
    BY <1>2 DEF NumberOf
  <2>2. T = U
    BY <2>1 DEF ImagesOf
  <2>3. WithSheetNumber(body, images) = images
    BY <1>2 DEF WithSheetNumber
  <2> HIDE DEF T, U
  <2>4. QED
    BY <1>1, <2>2, <2>3 DEF U
<1>3. CASE body.type = "xlsx"
  <2> DEFINE new == [k \in DOMAIN images |-> [images[k] EXCEPT !.number = images[k].at]]
  <2>1. ASSUME NEW k \in DOMAIN images PROVE new[k] \in U
    <3>1. images[k] \in T
      <4> HIDE DEF T
      <4>1. QED
        BY <1>1
    <3>2. PICK j \in DOMAIN body.parts : \E at \in PlacesOf(body, j) : \E ocr \in BOOLEAN :
             images[k] = ImageOf(body, j, at, NumberOf(body, {"xlsx"}, at), ocr)
      BY <3>1, ImagesAre DEF IsImage
    <3>3. PICK at \in PlacesOf(body, j), ocr \in BOOLEAN : images[k] = ImageOf(body, j, at, NumberOf(body, {"xlsx"}, at), ocr)
      BY <3>2
    <3>4. images[k].at = at
      BY <3>3 DEF ImageOf
    <3>5. NumberOf(body, {}, at) = at
      BY DEF NumberOf
    <3>6. new[k] = WithNumber(images[k], at)
      BY <3>4 DEF WithNumber
    <3> HIDE DEF new
    <3>7. new[k] = ImageOf(body, j, at, NumberOf(body, {}, at), ocr)
      BY <3>3, <3>5, <3>6, ImageChanges
    <3>8. QED
      BY <3>7, ImagesAre DEF IsImage
  <2>2. WithSheetNumber(body, images) = new /\ DOMAIN new = DOMAIN images
    BY <1>3 DEF WithSheetNumber
  <2> HIDE DEF U
  <2>3. new \in [1..Len(images) -> U]
    BY <1>1, <2>1
  <2> HIDE DEF new
  <2>4. new \in Seq(U)
    BY <1>1, <2>3
  <2>5. QED
    BY <2>2, <2>4 DEF U
<1>4. QED
  BY <1>2, <1>3

\* The chosen elements are a sequence of what they are chosen from.
LEMMA ChosenSeq ==
  ASSUME NEW U, NEW s, NEW I, I \subseteq Nat, IsFiniteSet(I), \A i \in I : s[i] \in U
  PROVE  Chosen(s, I) \in Seq(U)
<1> DEFINE c == Chosen(s, I)
           n == Cardinality(I)
<1>1. n \in Nat /\ DOMAIN c = 1..n /\ ToSet(c) = {s[i] : i \in I}
  BY ChosenIs
<1>2. ASSUME NEW k \in 1..n PROVE c[k] \in U
  <2>1. c[k] \in ToSet(c)
    BY <1>1 DEF ToSet
  <2>2. QED
    BY <1>1, <2>1
<1>3. c = [k \in 1..n |-> c[k]]
  BY <1>1 DEF Chosen
<1> HIDE DEF c, n
<1>4. c \in [1..n -> U]
  BY <1>2, <1>3
<1>5. QED
  BY <1>1, <1>4 DEF c

\* Units found later are put between the others, none of which is lost.
LEMMA MergedKeeps ==
  ASSUME NEW U, NEW units \in Seq(U), NEW found \in Seq(U)
  PROVE  /\ Merged(units, found) \in Seq(U)
         /\ \A u \in 1..Len(units) : \E i \in 1..Len(Merged(units, found)) : Merged(units, found)[i] = units[u]
<1> DEFINE n == Len(units)
           m == Len(found)
           At(at) == Chosen(found, {k \in DOMAIN found : found[k].at = at})
           last(i) == \A j \in DOMAIN units : units[j].at = units[i].at => j <= i
           homeless(i) == /\ \A j \in DOMAIN units : units[j].at # found[i].at
                          /\ \A j \in 1..(i - 1) : found[j].at # found[i].at
           placed(i) == IF last(i) THEN At(units[i].at) ELSE <<>>
           left(i) == IF homeless(i) THEN At(found[i].at) ELSE <<>>
           ss == [i \in 1..n |-> <<units[i]>> \o placed(i)]
           tt == [i \in 1..m |-> left(i)]
<1>1. /\ n \in Nat /\ m \in Nat /\ DOMAIN units = 1..n /\ DOMAIN found = 1..m
      /\ \A i \in 1..n : units[i] \in U
      /\ \A i \in 1..m : found[i] \in U
  OBVIOUS
<1>2. Merged(units, found) = FlattenSeq(ss) \o FlattenSeq(tt)
  BY <1>1 DEF Merged
<1>3. \A at : At(at) \in Seq(U)
  <2> TAKE at
  <2> DEFINE I == {k \in DOMAIN found : found[k].at = at}
  <2>1. I \subseteq 1..m
    BY <1>1
  <2> HIDE DEF I
  <2>2. I \subseteq Nat /\ IsFiniteSet(I)
    BY <1>1, <2>1, PositionsFinite
  <2>3. \A k \in I : found[k] \in U
    BY <1>1, <2>1
  <2>4. Chosen(found, I) \in Seq(U)
    BY <2>2, <2>3, ChosenSeq
  <2>5. QED
    BY <2>4 DEF I
<1> HIDE DEF At, last, homeless
<1>4. <<>> \in Seq(U)
  OBVIOUS
<1>5. \A i \in 1..n : placed(i) \in Seq(U) /\ <<units[i]>> \in Seq(U)
  BY <1>1, <1>3, <1>4
<1>6. \A i \in 1..m : left(i) \in Seq(U)
  BY <1>3, <1>4
<1> HIDE DEF placed, left
<1>7. ASSUME NEW i \in 1..n
      PROVE  ss[i] \in Seq(U) /\ Len(ss[i]) \in Nat /\ 1 \in 1..Len(ss[i]) /\ ss[i][1] = units[i]
  <2> DEFINE a == <<units[i]>>
             b == placed(i)
  <2>1. a \in Seq(U) /\ b \in Seq(U) /\ Len(a) = 1 /\ a[1] = units[i]
    BY <1>5
  <2>2. ss[i] = a \o b
    OBVIOUS
  <2> HIDE DEF a, b, ss
  <2>3. /\ a \o b \in Seq(U) /\ Len(a \o b) = Len(a) + Len(b) /\ Len(b) \in Nat
        /\ \A k \in 1..(Len(a) + Len(b)) : (a \o b)[k] = IF k <= Len(a) THEN a[k] ELSE b[k - Len(a)]
    BY <2>1, ConcatProperties, LenProperties
  <2>4. 1 \in 1..(Len(a) + Len(b))
    BY <2>1, <2>3
  <2>5. (a \o b)[1] = a[1]
    BY <2>1, <2>3, <2>4
  <2>6. QED
    BY <2>1, <2>2, <2>3, <2>4, <2>5
<1>8. ss \in Seq(Seq(U)) /\ Len(ss) = n
  <2>1. ss \in [1..n -> Seq(U)]
    BY <1>7
  <2> HIDE DEF ss
  <2>2. QED
    BY <1>1, <2>1
<1>9. tt \in Seq(Seq(U))
  <2>1. tt \in [1..m -> Seq(U)]
    BY <1>6
  <2> HIDE DEF tt
  <2>2. QED
    BY <1>1, <2>1
<1> DEFINE f == FlattenSeq(ss)
           g == FlattenSeq(tt)
           r == f \o g
<1> HIDE DEF ss, tt
<1>10. f \in Seq(U) /\ Joins(f, ss, n) /\ g \in Seq(U)
  BY <1>8, <1>9, FlattenJoins
<1> HIDE DEF f, g
<1>11. /\ r \in Seq(U) /\ Len(r) = Len(f) + Len(g) /\ Len(f) \in Nat /\ Len(g) \in Nat
       /\ \A k \in 1..(Len(f) + Len(g)) : r[k] = IF k <= Len(f) THEN f[k] ELSE g[k - Len(f)]
  BY <1>10, ConcatProperties, LenProperties
<1> HIDE DEF r
<1>12. ASSUME NEW u \in 1..n PROVE \E i \in 1..Len(r) : r[i] = units[u]
  <2>1. \E c \in 1..Len(f) : f[c] = ss[u][1]
    BY <1>7, <1>10 DEF Joins
  <2>2. PICK c \in 1..Len(f) : f[c] = units[u]
    BY <1>7, <2>1
  <2>3. c \in 1..Len(r) /\ c \in 1..(Len(f) + Len(g)) /\ c <= Len(f)
    BY <1>11
  <2>4. QED
    BY <1>11, <2>2, <2>3
<1>13. Merged(units, found) = r
  BY <1>2 DEF f, g, r
<1>14. QED
  BY <1>11, <1>12, <1>13

\* The units stay units of the same kind, and those of the text stay.
MergesIn(U, units, found) ==
  /\ Merged(units, found) \in Seq(U)
  /\ \A u \in 1..Len(units) : \E i \in 1..Len(Merged(units, found)) : Merged(units, found)[i] = units[u]

LEMMA MergedIn == ASSUME NEW U, NEW units \in Seq(U), NEW found \in Seq(U) PROVE MergesIn(U, units, found)
  BY ZenonT(60), MergedKeeps DEF MergesIn

\* The new units have the contents of the old.
SameContents(new, old) ==
  /\ DOMAIN new = DOMAIN old
  /\ \A i \in DOMAIN old : new[i].size = old[i].size /\ new[i].of = old[i].of

\* Titles change nothing else.
LEMMA PreparedKeeps ==
  ASSUME NEW type, NEW body, NEW units, \A i \in DOMAIN units : AnyUnit(body, units[i])
  PROVE  SameContents(Prepared(type, units), units)
<1> USE DEF SameContents
<1>1. CASE type # "docx"
  BY <1>1 DEF Prepared
<1>2. CASE type = "docx"
  <2> DEFINE Is(h) == h = [i \in 0..Len(units) |->
                             IF i = 0 THEN [section |-> 0, title |-> [at |-> 0, size |-> 0]]
                             ELSE TitleAfter(h[i - 1], units[i])]
             state == CHOOSE h : Is(h)
  <2>1. Prepared(type, units) = [i \in DOMAIN units |-> [units[i] EXCEPT !.title = state[i].title]]
    BY <1>2 DEF Prepared
  <2> HIDE DEF state
  <2>2. ASSUME NEW i \in DOMAIN units, NEW title
        PROVE  [units[i] EXCEPT !.title = title].size = units[i].size /\ [units[i] EXCEPT !.title = title].of = units[i].of
    BY DEF AnyUnit, Unit
  <2>3. ASSUME NEW i \in DOMAIN units
        PROVE  Prepared(type, units)[i].size = units[i].size /\ Prepared(type, units)[i].of = units[i].of
    <3>1. Prepared(type, units)[i] = [units[i] EXCEPT !.title = state[i].title]
      BY <2>1
    <3>2. QED
      BY <2>2, <3>1
  <2>4. QED
    BY <2>1, <2>3
<1>3. QED
  BY <1>1, <1>2

\* Chunks cover a body whose text is in its units.
LEMMA CoveredWhenTextIn ==
  ASSUME NEW body, NEW units, NEW n, InRow(units, n),
         \A i \in DOMAIN body.parts : body.parts[i].kind \in TextKinds /\ body.parts[i].size > 0 =>
           \E u \in DOMAIN units : i \in units[u].of /\ units[u].size = SizeOf(body, units[u].of)
  PROVE  Covered(body, units, Chunks(units))
<1>1. DOMAIN units = 1..n
  BY DEF InRow
<1>2. /\ \A u \in 1..n : \A x \in (0..(units[u].size - 1)) \ Blanks :
           \E k \in DOMAIN Chunks(units) : /\ Chunks(units)[k].unit = u
                                           /\ Chunks(units)[k].start <= x /\ x < Chunks(units)[k].end
      /\ \A k, l \in DOMAIN Chunks(units) : Chunks(units)[k].unit < Chunks(units)[l].unit =>
           Chunks(units)[k].offset + (Chunks(units)[k].end - Chunks(units)[k].start) < Chunks(units)[l].offset
  BY ChunksCover
<1> DEFINE cs == Chunks(units)
<1> HIDE DEF cs
<1>3. QED
  BY <1>1, <1>2 DEF Covered, cs

-----------------------------------------------------------------------------
(* The pool of OCR workers                                                 *)

USE PoolAssumption

Listed(s) == \E i \in 1..Len(free) : free[i] = s

\* A call has a slot once it has asked for one; a thread that spawns a worker holds the lock,
\* and none does when the pool is closed.
CallsInv ==
  /\ \A c \in Calls : call[c].pc \in {"exchange", "repair"} \/ exchange[c] # "none" \/ repair[c] # "none"
                       => call[c].slot \in Slots
  /\ \A c \in Calls : call[c].pc = "answered" => exchange[c] = "over" /\ got[c] = c
  /\ \A c \in Calls : call[c].pc \notin {"repair"} \cup Ended => repair[c] = "none"
  /\ starter # None => pool = "down" /\ starter \in Calls /\ call[starter].pc = "start"
  /\ pool = "down" => free = <<>> /\ \A c \in Calls : call[c].pc \notin {"queue", "exchange", "repair"}
  /\ \A c \in Calls : repair[c] = "spawning" <=> lock = c
  /\ pool = "closed" => lock = None

PoolInv == PoolTypeOK /\ CallsInv /\ SlotsAccounted

\* The row of all slots has each of them once.
LEMMA SlotsInARow ==
  /\ SetToSeq(Slots) \in Seq(Slots)
  /\ \A i, j \in 1..Len(SetToSeq(Slots)) : SetToSeq(Slots)[i] = SetToSeq(Slots)[j] => i = j
  /\ \A s \in Slots : \E i \in 1..Len(SetToSeq(Slots)) : SetToSeq(Slots)[i] = s
<1> DEFINE n == Cardinality(Slots)
<1>1. n \in Nat /\ \E f \in Bijection(1..n, Slots) : TRUE
  BY FS_CardinalityType DEF ExistsBijection
<1>2. PICK f \in Bijection(1..n, Slots) : TRUE
  BY <1>1
<1>3. f \in [1..n -> Slots] /\ IsInjective(f)
  BY <1>2 DEF Bijection, Injection, IsInjective
<1>4. SetToSeq(Slots) \in [1..n -> Slots] /\ IsInjective(SetToSeq(Slots))
  BY <1>3 DEF SetToSeq
<1>5. SetToSeq(Slots) \in Injection(1..n, Slots)
  BY <1>4 DEF Injection, IsInjective
<1>6. n = Cardinality(1..n)
  BY <1>1, FS_Interval
<1>7. SetToSeq(Slots) \in Surjection(1..n, Slots)
  BY <1>5, <1>6, FS_Injection
<1>8. \A s \in Slots : \E i \in 1..n : SetToSeq(Slots)[i] = s
  BY <1>7 DEF Surjection
<1>9. QED
  BY <1>1, <1>4, <1>8 DEF IsInjective

Pipe == [alive : BOOLEAN, inbox : Seq(Calls), outbox : Seq(Calls)]

\* A worker's pipes change one at a time.
LEMMA PipesKeepType ==
  ASSUME worker \in [Slots -> Pipe], NEW s \in Slots, NEW x \in Pipe
  PROVE  [worker EXCEPT ![s] = x] \in [Slots -> Pipe]
OBVIOUS

\* A worker's pipe is changed as a whole.
LEMMA PipeParts ==
  ASSUME NEW x \in Pipe, NEW v \in Seq(Calls)
  PROVE  [x EXCEPT !.inbox = v] \in Pipe /\ [x EXCEPT !.outbox = v] \in Pipe
BY DEF Pipe

\* The types of the pool are kept.
LEMMA TypeStep == PoolTypeOK /\ CallsInv /\ [PoolNext]_poolVars => PoolTypeOK'
<1> SUFFICES ASSUME PoolTypeOK, CallsInv, [PoolNext]_poolVars PROVE PoolTypeOK'
  OBVIOUS
<1> USE DEF PoolTypeOK, Fresh, Stopped, Ended, Inside, Goes, LeavesWith, AskRepair, BrokenOn, Closing
<1>s. \A c \in Calls : call[c].pc \in {"exchange", "repair"} \/ exchange[c] # "none" \/ repair[c] # "none"
                       => call[c].slot \in Slots
  BY DEF CallsInv
<1>w. \A s \in Slots : worker[s] \in [alive : BOOLEAN, inbox : Seq(Calls), outbox : Seq(Calls)]
  OBVIOUS
<1>p. worker \in [Slots -> Pipe] /\ \A s \in Slots : worker[s] \in Pipe
  BY DEF Pipe
<1>b. \A s \in Slots : Append(free, s) \in Seq(Slots)
  BY AppendProperties
<1>0. CASE UNCHANGED poolVars
  BY <1>0 DEF poolVars
<1>1. ASSUME NEW c \in Calls, EnterPool(c) PROVE PoolTypeOK'
  BY ZenonT(60), <1>1 DEF EnterPool
<1>2. ASSUME NEW c \in Calls, StartPool(c) PROVE PoolTypeOK'
  BY <1>2 DEF StartPool
<1>3. ASSUME NEW c \in Calls, PoolStarts(c) PROVE PoolTypeOK'
  BY <1>3, SlotsInARow DEF PoolStarts
<1>4. ASSUME NEW c \in Calls, PoolStartFails(c) PROVE PoolTypeOK'
  <2>1. PICK how \in {"failed", "crashed"} : Goes(c, how)
    BY <1>4 DEF PoolStartFails
  <2>2. QED
    BY ZenonT(60), <1>4, <2>1 DEF PoolStartFails
<1>5. ASSUME NEW c \in Calls, Require(c) PROVE PoolTypeOK'
  BY ZenonT(60), <1>5 DEF Require
<1>6. ASSUME NEW c \in Calls, TakeSlot(c) PROVE PoolTypeOK'
  <2>1. Head(free) \in Slots /\ Tail(free) \in Seq(Slots)
    BY <1>6, HeadTailProperties DEF TakeSlot
  <2>2. QED
    BY ZenonT(60), <1>6, <2>1 DEF TakeSlot
<1>7. ASSUME NEW c \in Calls, Send(c) PROVE PoolTypeOK'
  <2> DEFINE s == call[c].slot
  <2>1. s \in Slots /\ worker[s].inbox \in Seq(Calls)
    BY <1>7, <1>s, <1>w DEF Send
  <2>2. Append(worker[s].inbox, c) \in Seq(Calls)
    BY <2>1, AppendProperties
  <2>3. [worker EXCEPT ![s].inbox = Append(@, c)] \in [Slots -> Pipe]
    <3>1. [worker EXCEPT ![s].inbox = Append(@, c)]
          = [worker EXCEPT ![s] = [worker[s] EXCEPT !.inbox = Append(worker[s].inbox, c)]]
      OBVIOUS
    <3>2. [worker[s] EXCEPT !.inbox = Append(worker[s].inbox, c)] \in Pipe
      BY <1>p, <2>1, <2>2, PipeParts
    <3>3. QED
      BY <1>p, <2>1, <3>1, <3>2, PipesKeepType
  <2>4. QED
    BY <1>7, <2>3 DEF Send, Pipe
<1>8. ASSUME NEW c \in Calls, Receive(c) PROVE PoolTypeOK'
  <2> DEFINE s == call[c].slot
  <2>1. s \in Slots /\ worker[s].outbox \in Seq(Calls) /\ worker[s].outbox # <<>>
    BY <1>8, <1>s, <1>w DEF Receive
  <2>2. Head(worker[s].outbox) \in Calls /\ Tail(worker[s].outbox) \in Seq(Calls)
    BY <2>1, HeadTailProperties
  <2>3. [worker EXCEPT ![s].outbox = Tail(@)]
        \in [Slots -> [alive : BOOLEAN, inbox : Seq(Calls), outbox : Seq(Calls)]]
    BY ZenonT(60), <2>1, <2>2
  <2>4. QED
    BY <1>8, <2>2, <2>3 DEF Receive
<1>9. ASSUME NEW c \in Calls, BreaksOff(c) PROVE PoolTypeOK'
  BY <1>9 DEF BreaksOff
<1>10. ASSUME NEW c \in Calls, Answered(c) PROVE PoolTypeOK'
  <2>1. \A back \in BOOLEAN : \A pc : LeavesWith(c, pc, back) => free' \in Seq(Slots)
    BY <1>10, <1>s, <1>b DEF Answered
  <2>2. free' \in Seq(Slots)
    BY <1>10, <1>s, <1>w, <2>1 DEF Answered
  <2>3. PICK pc \in {"answered", "failed"} : call' = [call EXCEPT ![c].pc = pc]
    BY <1>10 DEF Answered
  <2>4. UNCHANGED <<pool, starter, worker, lock, exchange, got, repair>>
    BY <1>10 DEF Answered
  <2>5. call' \in [Calls -> [pc : {"idle"} \cup Inside \cup Ended, slot : Slots \cup {None}, then : {"failed", "timeout"}]]
    BY ZenonT(60), <2>3
  <2>6. QED
    BY <2>2, <2>4, <2>5
<1>11. ASSUME NEW c \in Calls, ExchangeFails(c) PROVE PoolTypeOK'
  BY ZenonT(60), <1>11 DEF ExchangeFails
<1>12. ASSUME NEW c \in Calls, RepairBegins(c) PROVE PoolTypeOK'
  <2>1. call[c].slot \in Slots /\ Stopped \in [alive : BOOLEAN, inbox : Seq(Calls), outbox : Seq(Calls)]
    BY <1>12, <1>s DEF RepairBegins
  <2>2. [worker EXCEPT ![call[c].slot] = Stopped]
        \in [Slots -> [alive : BOOLEAN, inbox : Seq(Calls), outbox : Seq(Calls)]]
    BY <2>1
  <2>3. QED
    BY <1>12, <2>2 DEF RepairBegins
<1>13. ASSUME NEW c \in Calls, RepairSpawns(c) PROVE PoolTypeOK'
  <2>1. call[c].slot \in Slots /\ Fresh \in [alive : BOOLEAN, inbox : Seq(Calls), outbox : Seq(Calls)]
    BY <1>13, <1>s DEF RepairSpawns
  <2>2. [worker EXCEPT ![call[c].slot] = Fresh]
        \in [Slots -> [alive : BOOLEAN, inbox : Seq(Calls), outbox : Seq(Calls)]]
    BY <2>1
  <2>3. QED
    BY <1>13, <2>2 DEF RepairSpawns
<1>14. ASSUME NEW c \in Calls, RepairFails(c) PROVE PoolTypeOK'
  BY <1>14 DEF RepairFails
<1>15. ASSUME NEW c \in Calls, Repaired(c) PROVE PoolTypeOK'
  <2>1. \A back \in BOOLEAN : \A pc : LeavesWith(c, pc, back) => free' \in Seq(Slots)
    BY <1>15, <1>s, <1>b DEF Repaired
  <2>2. free' \in Seq(Slots)
    BY <1>15, <1>s, <1>w, <2>1 DEF Repaired
  <2>3. PICK pc \in {"failed", "timeout", "crashed"} : call' = [call EXCEPT ![c].pc = pc]
    BY <1>15 DEF Repaired
  <2>4. UNCHANGED <<pool, starter, worker, lock, exchange, got, repair>>
    BY <1>15 DEF Repaired
  <2>5. call' \in [Calls -> [pc : {"idle"} \cup Inside \cup Ended, slot : Slots \cup {None}, then : {"failed", "timeout"}]]
    BY ZenonT(60), <2>3
  <2>6. QED
    BY <2>2, <2>4, <2>5
<1>16. ASSUME NEW c \in Calls, CancelWaiting(c) PROVE PoolTypeOK'
  BY ZenonT(60), <1>16 DEF CancelWaiting
<1>17. ASSUME NEW c \in Calls, CancelExchange(c) PROVE PoolTypeOK'
  BY ZenonT(60), <1>17 DEF CancelExchange
<1>18. ASSUME NEW c \in Calls, CancelRepair(c) PROVE PoolTypeOK'
  BY ZenonT(60), <1>18, <1>s, <1>b DEF CancelRepair
<1>19. ASSUME NEW c \in Calls, CancelIdle(c) PROVE PoolTypeOK'
  BY ZenonT(60), <1>19 DEF CancelIdle
<1>20. ASSUME NEW s \in Slots, WorkerAnswers(s) PROVE PoolTypeOK'
  <2>1. Head(worker[s].inbox) \in Calls /\ Tail(worker[s].inbox) \in Seq(Calls) /\ worker[s].outbox \in Seq(Calls)
    BY <1>20, <1>w, HeadTailProperties DEF WorkerAnswers
  <2>2. Append(worker[s].outbox, Head(worker[s].inbox)) \in Seq(Calls)
    BY <2>1, AppendProperties
  <2> DEFINE x == [worker[s] EXCEPT !.inbox = Tail(worker[s].inbox)]
             y == [x EXCEPT !.outbox = Append(worker[s].outbox, Head(worker[s].inbox))]
  <2>3. x \in Pipe
    BY <1>p, <2>1, PipeParts
  <2>4. y \in Pipe
    <3> HIDE DEF x
    <3> QED BY <2>2, <2>3, PipeParts
  <2>5. worker' = [worker EXCEPT ![s] = y]
    BY <1>20, <1>p DEF WorkerAnswers, Pipe
  <2>6. worker' \in [Slots -> Pipe]
    <3> HIDE DEF y
    <3> QED BY <1>p, <2>4, <2>5, PipesKeepType
  <2>7. QED
    BY <1>20, <2>6 DEF WorkerAnswers, Pipe
<1>21. ASSUME NEW s \in Slots, WorkerDies(s) PROVE PoolTypeOK'
  <2> DEFINE x == [worker[s] EXCEPT !.alive = FALSE]
  <2>1. x \in Pipe
    BY <1>p DEF Pipe
  <2>2. worker' = [worker EXCEPT ![s] = x]
    BY <1>21 DEF WorkerDies
  <2>3. worker' \in [Slots -> Pipe]
    <3> HIDE DEF x
    <3> QED BY <1>p, <2>1, <2>2, PipesKeepType
  <2>4. QED
    BY <1>21, <2>3 DEF WorkerDies, Pipe
<1>22. CASE CloseBegins
  BY <1>22 DEF CloseBegins
<1>23. CASE CloseWorkers
  BY <1>23 DEF CloseWorkers
<1>24. QED
  BY <1>0, <1>1, <1>2, <1>3, <1>4, <1>5, <1>6, <1>7, <1>8, <1>9, <1>10, <1>11, <1>12, <1>13, <1>14,
       <1>15, <1>16, <1>17, <1>18, <1>19, <1>20, <1>21, <1>22, <1>23 DEF PoolNext, CallStep


\* What the steps need of the types.
Shape ==
  /\ free \in Seq(Slots)
  /\ call \in [Calls -> [pc : {"idle"} \cup Inside \cup Ended, slot : Slots \cup {None}, then : {"failed", "timeout"}]]
  /\ exchange \in [Calls -> {"none", "sending", "polling", "over", "broken"}]
  /\ got \in [Calls -> Calls \cup {None}]
  /\ repair \in [Calls -> {"none", "waiting", "spawning", "over", "failed", "crashed"}]

\* A call that leaves keeps the invariant of the calls.
LEMMA LeavesCalls ==
  ASSUME Shape, CallsInv, NEW c \in Calls, call[c].pc \in {"exchange", "repair"}, NEW pc \in Ended,
         pc = "answered" => exchange[c] = "over" /\ got[c] = c,
         call' = [call EXCEPT ![c].pc = pc], UNCHANGED <<pool, starter, lock, exchange, got, repair>>
  PROVE  CallsInv'
BY DEF CallsInv, Shape, Ended, Inside

\* So does one that asks for a repair.
LEMMA AskRepairCalls ==
  ASSUME Shape, CallsInv, NEW c \in Calls, NEW then \in {"failed", "timeout"}, AskRepair(c, then)
  PROVE  CallsInv'
<1> USE DEF Shape, AskRepair
<1>1. repair[c] = "none"
  BY DEF CallsInv, Ended
<1>2. QED
  BY <1>1 DEF CallsInv, Ended, Inside

\* Each step keeps what the calls, the lock and the starter owe one another.
LEMMA CallsStep == Shape /\ CallsInv /\ [PoolNext]_poolVars => CallsInv'
<1> SUFFICES ASSUME Shape, CallsInv, [PoolNext]_poolVars PROVE CallsInv'
  OBVIOUS
<1> USE DEF CallsInv, Shape, Ended, Inside, Goes, LeavesWith, AskRepair, BrokenOn, Closing, Matches
<1>0. CASE UNCHANGED poolVars
  BY <1>0 DEF poolVars
<1>1. ASSUME NEW c \in Calls, EnterPool(c) PROVE CallsInv'
  BY <1>1 DEF EnterPool
<1>2. ASSUME NEW c \in Calls, StartPool(c) PROVE CallsInv'
  BY <1>2 DEF StartPool
<1>3. ASSUME NEW c \in Calls, PoolStarts(c) PROVE CallsInv'
  BY <1>3 DEF PoolStarts
<1>4. ASSUME NEW c \in Calls, PoolStartFails(c) PROVE CallsInv'
  BY <1>4 DEF PoolStartFails
<1>5. ASSUME NEW c \in Calls, Require(c) PROVE CallsInv'
  BY <1>5 DEF Require
<1>6. ASSUME NEW c \in Calls, TakeSlot(c) PROVE CallsInv'
  <2>1. Head(free) \in Slots
    BY <1>6, HeadTailProperties DEF TakeSlot
  <2>2. pool # "down" /\ UNCHANGED <<pool, starter, lock, got, repair>>
    BY <1>6 DEF TakeSlot
  <2>3. call' = [call EXCEPT ![c].pc = "exchange", ![c].slot = Head(free)] /\ call[c].pc = "queue"
    BY <1>6 DEF TakeSlot
  <2>4. exchange' = [exchange EXCEPT ![c] = "sending"]
    BY <1>6 DEF TakeSlot
  <2>5. QED
    BY <2>1, <2>2, <2>3, <2>4
<1>7. ASSUME NEW c \in Calls, Send(c) PROVE CallsInv'
  BY <1>7 DEF Send
<1>8. ASSUME NEW c \in Calls, Receive(c) PROVE CallsInv'
  BY <1>8 DEF Receive
<1>9. ASSUME NEW c \in Calls, BreaksOff(c) PROVE CallsInv'
  BY <1>9 DEF BreaksOff
<1>10. ASSUME NEW c \in Calls, Answered(c) PROVE CallsInv'
  <2>1. call' = [call EXCEPT ![c].pc = "answered"] \/ call' = [call EXCEPT ![c].pc = "failed"]
    BY <1>10 DEF Answered
  <2>2. QED
    BY <1>10, <2>1, LeavesCalls DEF Answered
<1>11. ASSUME NEW c \in Calls, ExchangeFails(c) PROVE CallsInv'
  <2>1. call[c].pc = "exchange" /\ AskRepair(c, "failed")
    BY <1>11 DEF ExchangeFails
  <2>2. QED
    BY <2>1, AskRepairCalls
<1>12. ASSUME NEW c \in Calls, RepairBegins(c) PROVE CallsInv'
  BY <1>12 DEF RepairBegins
<1>13. ASSUME NEW c \in Calls, RepairSpawns(c) PROVE CallsInv'
  BY <1>13 DEF RepairSpawns
<1>14. ASSUME NEW c \in Calls, RepairFails(c) PROVE CallsInv'
  BY <1>14 DEF RepairFails
<1>15. ASSUME NEW c \in Calls, Repaired(c) PROVE CallsInv'
  <2>1. \E pc \in {"failed", "crashed", "timeout"} : call' = [call EXCEPT ![c].pc = pc]
    BY <1>15 DEF Repaired
  <2>2. QED
    BY <1>15, <2>1, LeavesCalls DEF Repaired
<1>16. ASSUME NEW c \in Calls, CancelWaiting(c) PROVE CallsInv'
  BY <1>16 DEF CancelWaiting
<1>17. ASSUME NEW c \in Calls, CancelExchange(c) PROVE CallsInv'
  BY <1>17, AskRepairCalls DEF CancelExchange
<1>18. ASSUME NEW c \in Calls, CancelRepair(c) PROVE CallsInv'
  BY <1>18 DEF CancelRepair
<1>19. ASSUME NEW c \in Calls, CancelIdle(c) PROVE CallsInv'
  BY <1>19 DEF CancelIdle
<1>20. ASSUME NEW s \in Slots, WorkerAnswers(s) PROVE CallsInv'
  BY <1>20 DEF WorkerAnswers
<1>21. ASSUME NEW s \in Slots, WorkerDies(s) PROVE CallsInv'
  BY <1>21 DEF WorkerDies
<1>22. CASE CloseBegins
  BY <1>22 DEF CloseBegins
<1>23. CASE CloseWorkers
  BY <1>23 DEF CloseWorkers
<1>24. QED
  BY <1>0, <1>1, <1>2, <1>3, <1>4, <1>5, <1>6, <1>7, <1>8, <1>9, <1>10, <1>11, <1>12, <1>13, <1>14,
       <1>15, <1>16, <1>17, <1>18, <1>19, <1>20, <1>21, <1>22, <1>23 DEF PoolNext, CallStep

\* A slot that is given back, or lost to an error, is accounted for.
LEMMA LeavesAccounted ==
  ASSUME Shape, SlotsAccounted, NEW c \in Calls, call[c].pc \in {"exchange", "repair"}, call[c].slot \in Slots,
         NEW pc \in Ended, NEW back \in BOOLEAN, LeavesWith(c, pc, back), ~back => pc \in {"failed", "crashed"},
         UNCHANGED <<pool, worker>>
  PROVE  SlotsAccounted'
<1> DEFINE s == call[c].slot
<1>1. call' = [call EXCEPT ![c].pc = pc]
  BY DEF LeavesWith, Goes
<1>2. \A o \in Calls, t \in Slots : Holds(o, t)' => Holds(o, t) /\ o # c /\ t # s
  BY <1>1 DEF Holds, Shape, Ended, SlotsAccounted
<1>3. \A o \in Calls, t \in Slots : Holds(o, t) /\ o # c => Holds(o, t)'
  BY <1>1 DEF Holds, Shape
<1>4. \A o \in Calls, t \in Slots : call[o].slot = t /\ call[o].pc \in {"failed", "crashed"}
                                    => call'[o].slot = t /\ call'[o].pc \in {"failed", "crashed"}
  BY <1>1 DEF Shape
<1>5. \A i \in 1..Len(free) : free[i] # s
  BY DEF SlotsAccounted, Holds
<1>6. CASE free' = free /\ (pool = "up" => pc \in {"failed", "crashed"})
  <2>1. pool' = "up" => \A t \in Slots : \/ \E i \in 1..Len(free') : free'[i] = t
          \/ \E o \in Calls : Holds(o, t)' \/ (call'[o].slot = t /\ call'[o].pc \in {"failed", "crashed"})
    <3> SUFFICES ASSUME pool = "up", NEW t \in Slots, \A i \in 1..Len(free) : free[i] # t
                 PROVE  \E o \in Calls : Holds(o, t)' \/ (call'[o].slot = t /\ call'[o].pc \in {"failed", "crashed"})
      BY <1>6
    <3>1. PICK o \in Calls : Holds(o, t) \/ (call[o].slot = t /\ call[o].pc \in {"failed", "crashed"})
      BY DEF SlotsAccounted
    <3>2. CASE Holds(o, t) /\ o = c
      <4>1. t = s /\ call'[c].slot = s /\ call'[c].pc = pc
        BY <1>1, <3>2 DEF Holds, Shape
      <4>2. QED
        BY <1>6, <4>1
    <3>3. QED
      BY <1>3, <1>4, <3>1, <3>2
  <2>2. QED
    BY <1>2, <1>6, <2>1 DEF SlotsAccounted
<1>7. CASE free' = Append(free, s)
  <2>1. /\ free \in Seq(Slots) /\ Len(free') = Len(free) + 1 /\ Len(free) \in Nat
        /\ \A i \in 1..Len(free) : free'[i] = free[i]
        /\ free'[Len(free) + 1] = s
    BY <1>7, AppendProperties, LenProperties DEF Shape
  <2>2. \A i, j \in 1..Len(free') : free'[i] = free'[j] => i = j
    BY <1>5, <2>1 DEF SlotsAccounted
  <2>3. \A o \in Calls, t \in Slots : Holds(o, t)' => \A i \in 1..Len(free') : free'[i] # t
    BY <1>2, <2>1 DEF SlotsAccounted
  <2>4. \A t \in Slots : (\E i \in 1..Len(free) : free[i] = t) \/ t = s => \E i \in 1..Len(free') : free'[i] = t
    BY <2>1
  <2>5. \A o \in Calls, t \in Slots : Holds(o, t) => t = s \/ Holds(o, t)'
    BY <1>3 DEF Holds
  <2>6. pool' = "up" => \A t \in Slots : \/ \E i \in 1..Len(free') : free'[i] = t
          \/ \E o \in Calls : Holds(o, t)' \/ (call'[o].slot = t /\ call'[o].pc \in {"failed", "crashed"})
    BY <1>4, <2>4, <2>5 DEF SlotsAccounted
  <2>7. \A t \in Slots : \A o, q \in Calls : Holds(o, t)' /\ Holds(q, t)' => q = o
    BY <1>2 DEF SlotsAccounted
  <2>8. QED
    BY <2>2, <2>3, <2>6, <2>7 DEF SlotsAccounted
<1>8. QED
  BY <1>6, <1>7 DEF LeavesWith

\* What touches neither the slots nor who holds them.
LEMMA SlotsUntouched ==
  ASSUME SlotsAccounted, free' = free, pool' = "up" => pool = "up",
         \A o \in Calls, t \in Slots : Holds(o, t)' <=> Holds(o, t),
         \A o \in Calls : call[o].pc \in {"failed", "crashed"} => call'[o] = call[o],
         pool' = "closed" => \A t \in Slots : ~worker'[t].alive
  PROVE  SlotsAccounted'
BY DEF SlotsAccounted

\* Each step keeps every slot free or held by one call.
LEMMA AccountedStep == PoolInv /\ [PoolNext]_poolVars => SlotsAccounted'
<1> SUFFICES ASSUME PoolInv, [PoolNext]_poolVars PROVE SlotsAccounted'
  OBVIOUS
<1>s. Shape /\ CallsInv /\ SlotsAccounted /\ (\A t \in Slots : worker[t].alive \in BOOLEAN)
  BY DEF PoolInv, PoolTypeOK, Shape, Ended, Inside
<1>w. pool = "closed" => (\A t \in Slots : ~worker[t].alive) /\ lock = None
  BY <1>s DEF SlotsAccounted, CallsInv
<1>u. ASSUME free' = free, call' = call, pool' = pool, worker' = worker
      PROVE  SlotsAccounted'
  BY <1>s, <1>u DEF SlotsAccounted, Holds
<1>c. ASSUME NEW c \in Calls, NEW pc \in {"start", "queue", "failed", "crashed", "timeout"}, Goes(c, pc),
             call[c].pc \in {"idle", "start", "queue"}, free' = free, pool' = pool, worker' = worker
      PROVE  SlotsAccounted'
  <2>1. \A o \in Calls, t \in Slots : Holds(o, t)' <=> Holds(o, t)
    BY <1>s, <1>c DEF Holds, Goes, Shape
  <2>2. \A o \in Calls : call[o].pc \in {"failed", "crashed"} => call'[o] = call[o]
    BY <1>s, <1>c DEF Goes, Shape
  <2>3. QED
    BY <1>s, <1>c, <1>w, <2>1, <2>2, SlotsUntouched
<1>r. ASSUME NEW c \in Calls, NEW then, AskRepair(c, then) PROVE SlotsAccounted'
  <2>1. \A o \in Calls, t \in Slots : Holds(o, t)' <=> Holds(o, t)
    BY <1>s, <1>r DEF Holds, AskRepair, Shape
  <2>2. \A o \in Calls : call[o].pc \in {"failed", "crashed"} => call'[o] = call[o]
    BY <1>s, <1>r DEF AskRepair, Shape
  <2>3. QED
    BY <1>s, <1>r, <1>w, <2>1, <2>2, SlotsUntouched DEF AskRepair
<1>k. ASSUME free' = free, call' = call, pool' = pool, pool = "closed" => \A t \in Slots : ~worker'[t].alive
      PROVE  SlotsAccounted'
  BY <1>s, <1>k, SlotsUntouched DEF Holds
<1>0. CASE UNCHANGED poolVars
  BY <1>0, <1>u DEF poolVars
<1>1. ASSUME NEW c \in Calls, EnterPool(c) PROVE SlotsAccounted'
  BY <1>1, <1>c DEF EnterPool
<1>2. ASSUME NEW c \in Calls, StartPool(c) PROVE SlotsAccounted'
  BY <1>2, <1>u DEF StartPool
<1>3. ASSUME NEW c \in Calls, PoolStarts(c) PROVE SlotsAccounted'
  <2>1. \A o \in Calls, t \in Slots : ~Holds(o, t)'
    BY <1>3, <1>s DEF PoolStarts, Holds, CallsInv
  <2>2. pool' = "up" /\ free' = SetToSeq(Slots)
    BY <1>3 DEF PoolStarts
  <2>3. QED
    BY <2>1, <2>2, SlotsInARow DEF SlotsAccounted
<1>4. ASSUME NEW c \in Calls, PoolStartFails(c) PROVE SlotsAccounted'
  <2>1. PICK how \in {"failed", "crashed"} : Goes(c, how)
    BY <1>4 DEF PoolStartFails
  <2>2. call[c].pc = "start"
    BY <1>4, <1>s DEF PoolStartFails, CallsInv
  <2>3. QED
    BY <1>4, <1>c, <2>1, <2>2 DEF PoolStartFails
<1>5. ASSUME NEW c \in Calls, Require(c) PROVE SlotsAccounted'
  BY <1>5, <1>c DEF Require
<1>6. ASSUME NEW c \in Calls, TakeSlot(c) PROVE SlotsAccounted'
  <2>1. /\ free \in Seq(Slots) /\ free # <<>> /\ Len(free) \in Nat /\ Len(free) > 0
        /\ Head(free) = free[1] /\ Head(free) \in Slots
        /\ Len(Tail(free)) = Len(free) - 1 /\ \A i \in 1..Len(Tail(free)) : Tail(free)[i] = free[i + 1]
    BY <1>6, <1>s, HeadTailProperties, LenProperties, EmptySeq DEF TakeSlot, Shape
  <2>2. free' = Tail(free) /\ pool' = pool /\ worker' = worker /\ call[c].pc = "queue"
        /\ call' = [call EXCEPT ![c].pc = "exchange", ![c].slot = Head(free)]
    BY <1>6 DEF TakeSlot
  <2>3. \A o \in Calls, t \in Slots : Holds(o, t)' <=> Holds(o, t) \/ (o = c /\ t = Head(free))
    BY <2>1, <2>2, <1>s DEF Holds, Shape
  <2>4. \A o \in Calls : call[o].pc \in {"failed", "crashed"} => call'[o] = call[o]
    BY <2>2, <1>s DEF Shape
  <2>5. \A i, j \in 1..Len(free') : free'[i] = free'[j] => i = j
    BY <2>1, <2>2, <1>s DEF SlotsAccounted
  <2>6. \A i \in 1..Len(free') : i + 1 \in 1..Len(free) /\ free'[i] = free[i + 1] /\ free'[i] # Head(free)
    BY <2>1, <2>2, <1>s DEF SlotsAccounted
  <2>7. \A t \in Slots : \A o \in Calls : Holds(o, t)' =>
          (\A i \in 1..Len(free') : free'[i] # t) /\ \A q \in Calls : Holds(q, t)' => q = o
    <3> SUFFICES ASSUME NEW t \in Slots, NEW o \in Calls, Holds(o, t)'
                 PROVE  (\A i \in 1..Len(free') : free'[i] # t) /\ \A q \in Calls : Holds(q, t)' => q = o
      OBVIOUS
    <3>1. CASE t = Head(free)
      <4>1. \A q \in Calls : ~Holds(q, t)
        BY <3>1, <2>1, <1>s DEF SlotsAccounted
      <4>2. QED
        BY <3>1, <4>1, <2>3, <2>6
    <3>2. CASE t # Head(free)
      BY <3>2, <2>3, <2>6, <1>s DEF SlotsAccounted
    <3>3. QED
      BY <3>1, <3>2
  <2>8. \A t \in Slots : (\E i \in 1..Len(free) : free[i] = t)
        => t = Head(free) \/ \E i \in 1..Len(free') : free'[i] = t
    <3> SUFFICES ASSUME NEW i \in 1..Len(free), i # 1 PROVE \E j \in 1..Len(free') : free'[j] = free[i]
      BY <2>1
    <3>1. i - 1 \in 1..Len(free') /\ free'[i - 1] = free[i]
      BY <2>1, <2>2
    <3>2. QED
      BY <3>1
  <2>9. pool' = "up" => \A t \in Slots : \/ \E i \in 1..Len(free') : free'[i] = t
          \/ \E o \in Calls : Holds(o, t)' \/ (call'[o].slot = t /\ call'[o].pc \in {"failed", "crashed"})
    BY ZenonT(60), <2>2, <2>3, <2>4, <2>8, <1>s DEF SlotsAccounted
  <2>10. QED
    BY <2>2, <2>5, <2>7, <2>9, <1>w DEF SlotsAccounted
<1>7. ASSUME NEW c \in Calls, Send(c) PROVE SlotsAccounted'
  <2>1. \A t \in Slots : worker'[t].alive = worker[t].alive
    <3>1. CASE UNCHANGED worker
      BY <3>1
    <3>2. CASE worker' = [worker EXCEPT ![call[c].slot].inbox = Append(@, c)]
      BY <3>2 DEF PoolInv, PoolTypeOK
    <3>3. QED
      BY <1>7, <3>1, <3>2 DEF Send
  <2>2. QED
    BY <1>7, <1>k, <1>w, <2>1 DEF Send
<1>8. ASSUME NEW c \in Calls, Receive(c) PROVE SlotsAccounted'
  <2>1. \A t \in Slots : worker'[t].alive = worker[t].alive
    BY <1>8, <1>s DEF Receive, PoolInv, PoolTypeOK
  <2>2. QED
    BY <1>8, <1>k, <1>w, <2>1 DEF Receive
<1>9. ASSUME NEW c \in Calls, BreaksOff(c) PROVE SlotsAccounted'
  BY <1>9, <1>u DEF BreaksOff
<1>10. ASSUME NEW c \in Calls, Answered(c) PROVE SlotsAccounted'
  <2>1. call[c].slot \in Slots /\ call[c].pc \in {"exchange", "repair"} /\ UNCHANGED <<pool, worker>>
    BY <1>10, <1>s DEF Answered, CallsInv
  <2>2. \/ LeavesWith(c, "answered", TRUE)
        \/ \E back \in BOOLEAN : LeavesWith(c, "failed", back)
    BY <1>10, <2>1, <1>s DEF Answered
  <2>3. QED
    BY <1>s, <2>1, <2>2, LeavesAccounted DEF Ended
<1>11. ASSUME NEW c \in Calls, ExchangeFails(c) PROVE SlotsAccounted'
  BY <1>11, <1>r DEF ExchangeFails
<1>12. ASSUME NEW c \in Calls, RepairBegins(c) PROVE SlotsAccounted'
  <2>1. \A t \in Slots : ~worker[t].alive => ~worker'[t].alive
    BY <1>12 DEF RepairBegins, PoolInv, PoolTypeOK, Stopped
  <2>2. QED
    BY <1>12, <1>k, <1>w, <2>1 DEF RepairBegins
<1>13. ASSUME NEW c \in Calls, RepairSpawns(c) PROVE SlotsAccounted'
  <2>1. pool # "closed"
    BY <1>13, <1>s, <1>w DEF RepairSpawns, CallsInv
  <2>2. QED
    BY <1>13, <1>k, <2>1 DEF RepairSpawns
<1>14. ASSUME NEW c \in Calls, RepairFails(c) PROVE SlotsAccounted'
  BY <1>14, <1>u DEF RepairFails
<1>15. ASSUME NEW c \in Calls, Repaired(c) PROVE SlotsAccounted'
  <2>1. call[c].slot \in Slots /\ call[c].pc \in {"exchange", "repair"} /\ UNCHANGED <<pool, worker>>
    BY <1>15, <1>s DEF Repaired, CallsInv
  <2>2. \E pc \in {"failed", "crashed", "timeout"}, back \in BOOLEAN : LeavesWith(c, pc, back)
        /\ (pc = "timeout" => back)
    <3>1. CASE repair[c] = "over" /\ LeavesWith(c, call[c].then, call[c].then = "timeout" \/ worker[call[c].slot].alive)
      BY <3>1, <2>1, <1>s DEF Shape
    <3>2. CASE repair[c] \in {"failed", "crashed"} /\ LeavesWith(c, repair[c], worker[call[c].slot].alive)
      BY <3>2, <2>1, <1>s
    <3>3. QED
      BY <1>15, <3>1, <3>2 DEF Repaired
  <2>3. QED
    BY <1>s, <2>1, <2>2, LeavesAccounted DEF Ended
<1>16. ASSUME NEW c \in Calls, CancelWaiting(c) PROVE SlotsAccounted'
  BY <1>16, <1>c DEF CancelWaiting
<1>17. ASSUME NEW c \in Calls, CancelExchange(c) PROVE SlotsAccounted'
  BY <1>17, <1>r DEF CancelExchange
<1>18. ASSUME NEW c \in Calls, CancelRepair(c) PROVE SlotsAccounted'
  BY <1>18, <1>s, LeavesAccounted DEF CancelRepair, CallsInv, Ended
<1>19. ASSUME NEW c \in Calls, CancelIdle(c) PROVE SlotsAccounted'
  BY <1>19, <1>c DEF CancelIdle
<1>20. ASSUME NEW s \in Slots, WorkerAnswers(s) PROVE SlotsAccounted'
  <2>1. \A t \in Slots : worker'[t].alive = worker[t].alive
    BY <1>20 DEF WorkerAnswers, PoolInv, PoolTypeOK
  <2>2. QED
    BY <1>20, <1>k, <1>w, <2>1 DEF WorkerAnswers
<1>21. ASSUME NEW s \in Slots, WorkerDies(s) PROVE SlotsAccounted'
  <2>1. \A t \in Slots : ~worker[t].alive => ~worker'[t].alive
    BY <1>21 DEF WorkerDies, PoolInv, PoolTypeOK
  <2>2. QED
    BY <1>21, <1>k, <1>w, <2>1 DEF WorkerDies
<1>22. CASE CloseBegins
  BY <1>22, <1>s, SlotsUntouched DEF CloseBegins, Holds
<1>23. CASE CloseWorkers
  <2>1. \A t \in Slots : ~worker'[t].alive
    BY <1>23 DEF CloseWorkers, Stopped
  <2>2. QED
    BY <1>23, <1>s, <2>1, SlotsUntouched DEF CloseWorkers, Holds
<1>24. QED
  BY <1>0, <1>1, <1>2, <1>3, <1>4, <1>5, <1>6, <1>7, <1>8, <1>9, <1>10, <1>11, <1>12, <1>13, <1>14,
       <1>15, <1>16, <1>17, <1>18, <1>19, <1>20, <1>21, <1>22, <1>23 DEF PoolNext, CallStep

\* The pool starts with its invariant.
LEMMA PoolStart == PoolInit => PoolInv
<1> SUFFICES ASSUME PoolInit PROVE PoolInv
  OBVIOUS
<1>1. PoolTypeOK
  BY DEF PoolInit, PoolTypeOK, Stopped, Inside, Ended
<1>2. CallsInv
  BY DEF PoolInit, CallsInv, Ended
<1>3. SlotsAccounted
  BY DEF PoolInit, SlotsAccounted, Holds
<1>4. QED
  BY <1>1, <1>2, <1>3 DEF PoolInv

\* Each step of the pool keeps its invariant.
LEMMA PoolStep == PoolInv /\ [PoolNext]_poolVars => PoolInv'
<1>1. PoolInv => Shape
  BY DEF PoolInv, PoolTypeOK, Shape
<1>2. QED
  BY <1>1, TypeStep, CallsStep, AccountedStep DEF PoolInv

(***************************************************************************)
(* The documents use the pool as it is specified.                          *)
(***************************************************************************)

\* Every step is a step of the pool or leaves the pool alone.
LEMMA StepsOfThePool == [Next]_vars => [PoolNext]_poolVars
<1> SUFFICES ASSUME [Next]_vars PROVE [PoolNext]_poolVars
  OBVIOUS
<1>1. CASE UNCHANGED vars
  BY <1>1 DEF vars
<1>2. ASSUME NEW d \in Documents, DocumentStep(d) PROVE [PoolNext]_poolVars
  <2>1. ASSUME NEW c \in Calls, Recognise(d, c) PROVE PoolNext
    BY <2>1 DEF Recognise, PoolNext
  <2>2. ASSUME NEW c \in Calls, CancelTask(d, c) PROVE PoolNext
    BY <2>2 DEF CancelTask, PoolNext
  <2>3. CASE \/ FetchManifest(d) \/ Download(d) \/ ExtractImages(d) \/ ImagesFail(d) \/ AskOffice(d) \/ Rendered(d)
             \/ ReadText(d) \/ TextFails(d) \/ OcrEnds(d) \/ Embed(d) \/ Index(d) \/ Publish(d)
    BY <2>3 DEF FetchManifest, Download, ExtractImages, ImagesFail, AskOffice, Rendered, ReadText,
         TextFails,
                OcrEnds, Embed, Index, Publish
  <2>4. QED
    BY <1>2, <2>1, <2>2, <2>3 DEF DocumentStep
<1>3. ASSUME NEW d \in Documents, OcrTimeout(d) PROVE [PoolNext]_poolVars
  BY <1>3 DEF OcrTimeout
<1>4. ASSUME NEW c \in Calls, CallStep(c) \/ CancelRepair(c) PROVE PoolNext
  BY <1>4 DEF PoolNext
<1>5. ASSUME NEW s \in Slots, WorkerAnswers(s) \/ WorkerDies(s) PROVE PoolNext
  BY <1>5 DEF PoolNext
<1>6. CASE Shutdown
  BY <1>6 DEF Shutdown, PoolNext
<1>7. QED
  BY <1>1, <1>2, <1>3, <1>4, <1>5, <1>6 DEF Next

\* Whatever the documents, Office and the services do, the OCR pool behaves as its own
\* specification says (EasyOcrEngine).
THEOREM ReadingUsesPool == Spec => PoolSpec
<1>1. Init => PoolInit
  BY DEF Init
<1>2. QED
  BY <1>1, StepsOfThePool, PTL DEF Spec, PoolSpec

\* The pool's inductive invariant: types, which thread is where, and every slot accounted for.
THEOREM PoolSafe == Spec => []PoolInv
<1>1. PoolSpec => []PoolInv
  BY PoolStart, PoolStep, PTL DEF PoolSpec
<1>2. QED
  BY <1>1, ReadingUsesPool, PTL

\* An image never gets the text of another, however many threads read one pipe.
THEOREM RepliesAlwaysMatch == Spec => []RepliesMatch
<1>1. PoolInv => RepliesMatch
  BY DEF PoolInv, CallsInv, RepliesMatch
<1>2. QED
  BY <1>1, PoolSafe, PTL

\* No slot of the pool is lost to a timeout or shared by two calls.
THEOREM SlotsAlwaysAccounted == Spec => []SlotsAccounted
<1>1. PoolInv => SlotsAccounted
  BY DEF PoolInv
<1>2. QED
  BY <1>1, PoolSafe, PTL

(***************************************************************************)
(* Office                                                                  *)
(***************************************************************************)

OfficeInv ==
  /\ OfficeSerialized
  /\ officeLock \in Documents \cup {NoDocument}
  /\ render \in [Documents -> {"none", "queued", "working", "collect", "over"}]
  /\ office \in [Documents -> {"none", "up", "known"}]

\* Every step is a step of Office, a request to it, or leaves Office alone.
LEMMA StepsOfOffice ==
  [Next]_vars => [OfficeNext \/ \E d \in Documents : RenderAsk(d)]_<<officeLock, render, office>>
<1> DEFINE Stays == UNCHANGED <<officeLock, render, office>>
<1> SUFFICES ASSUME [Next]_vars PROVE Stays \/ OfficeNext \/ \E d \in Documents : RenderAsk(d)
  OBVIOUS
<1>1. CASE UNCHANGED vars
  BY <1>1 DEF vars, officeVars
<1>2. ASSUME NEW d \in Documents, DocumentStep(d) PROVE Stays \/ RenderAsk(d)
  <2>1. CASE AskOffice(d)
    BY <2>1 DEF AskOffice
  <2>2. CASE \E c \in Calls : Recognise(d, c) \/ CancelTask(d, c)
    BY <2>2 DEF Recognise, CancelTask, officeVars
  <2>3. CASE ExtractImages(d) \/ Rendered(d)
    BY <2>3 DEF ExtractImages, Rendered, officeVars
  <2>4. CASE \/ FetchManifest(d) \/ Download(d) \/ ImagesFail(d) \/ ReadText(d) \/ TextFails(d) \/ OcrEnds(d)
             \/ Embed(d) \/ Index(d) \/ Publish(d)
    BY <2>4 DEF FetchManifest, Download, ImagesFail, ReadText, TextFails, OcrEnds, Embed, Index,
         Publish, officeVars
  <2>5. QED
    BY <1>2, <2>1, <2>2, <2>3, <2>4 DEF DocumentStep
<1>3. ASSUME NEW d \in Documents, OcrTimeout(d) PROVE Stays
  BY <1>3 DEF OcrTimeout, officeVars
<1>4. CASE UNCHANGED officeVars
  BY <1>4 DEF officeVars
<1>5. QED
  BY <1>1, <1>2, <1>3, <1>4 DEF Next

\* Each step keeps the lock of the Office applications.
LEMMA OfficeStep ==
  OfficeInv /\ [OfficeNext \/ \E d \in Documents : RenderAsk(d)]_<<officeLock, render, office>> => OfficeInv'
<1> SUFFICES ASSUME OfficeInv, [OfficeNext \/ \E d \in Documents : RenderAsk(d)]_<<officeLock, render, office>>
             PROVE  OfficeInv'
  OBVIOUS
<1> USE ReadingConstants DEF OfficeInv, OfficeSerialized
<1>1. CASE UNCHANGED <<officeLock, render, office>>
  BY <1>1
<1>2. ASSUME NEW d \in Documents, RenderAsk(d) PROVE OfficeInv'
  BY <1>2 DEF RenderAsk
<1>3. ASSUME NEW d \in Documents, RenderStep(d) PROVE OfficeInv'
  <2>1. CASE RenderStarts(d)
    BY <2>1 DEF RenderStarts
  <2>2. CASE RenderRefused(d)
    BY <2>2 DEF RenderRefused
  <2>3. CASE WorkerEnds(d)
    BY <2>3 DEF WorkerEnds
  <2>4. CASE Collect(d)
    BY <2>4 DEF Collect, Cleaned
  <2>5. CASE ResultSaved(d) \/ RenderTimeout(d)
    BY <2>5 DEF ResultSaved, RenderTimeout
  <2>6. QED
    BY <1>3, <2>1, <2>2, <2>3, <2>4, <2>5 DEF RenderStep
<1>4. ASSUME NEW d \in Documents, OfficeOpens(d) \/ PidWritten(d) \/ OfficeExits(d) PROVE OfficeInv'
  BY <1>4 DEF OfficeOpens, PidWritten, OfficeExits
<1>5. QED
  BY <1>1, <1>2, <1>3, <1>4 DEF OfficeNext

\* One Office process at a time, however late its worker ends and whoever still waits for it.
THEOREM OfficeAlwaysSerialized == Spec => []OfficeSerialized
<1>1. Init => OfficeInv
  BY ReadingConstants DEF Init, OfficeInit, OfficeInv, OfficeSerialized
<1>2. OfficeInv /\ [Next]_vars => OfficeInv'
  BY StepsOfOffice, OfficeStep
<1>3. OfficeInv => OfficeSerialized
  BY DEF OfficeInv
<1>4. QED
  BY <1>1, <1>2, <1>3, PTL DEF Spec

(***************************************************************************)
(* Reports                                                                 *)
(***************************************************************************)

Unreported == {"manifest", "download", "images", "render", "text", "ocr", "embed", "index"}
WithFile == {"images", "render", "text", "ocr"}

\* A request has the fields it was given.
Shaped(x) == DOMAIN x = DOMAIN [pc |-> 0, tries |-> 0, images |-> 0, units |-> 0, late |-> 0, code |-> 0, sent |-> 0]

\* Successes only, or one failure.
OneKind(x) ==
  \/ \A i \in 1..Len(x.sent) : x.sent[i] = "success"
  \/ x.sent = <<"failure">> /\ x.code # "FILE_INDEXING_COMPLETED"

\* A request that publishes has sent one success less than it is at tries.
Reported(x) ==
  /\ Shaped(x)
  /\ x.pc \in Unreported \cup Over \cup {"publish"}
  /\ x.tries \in 1..MaxTries /\ x.sent \in Seq({"success", "failure"})
  /\ x.pc \in Unreported \cup {"unknown"} => x.sent = <<>> /\ x.code # "FILE_INDEXING_COMPLETED"
  /\ x.pc \in Unreported \ {"manifest"} => x.tries = 1
  /\ x.pc = "publish" => Len(x.sent) = x.tries - 1 /\ \A i \in 1..Len(x.sent) : x.sent[i] = "success"
  /\ x.pc = "ended" => Len(x.sent) \in 1..MaxTries /\ OneKind(x)

ReportsInv ==
  /\ DOMAIN doc = Documents
  /\ \A d \in Documents : Reported(doc[d]) /\ (d \in temp => doc[d].pc \in WithFile)

\* A request is tried at least once.
LEMMA TriesPositive == MaxTries \in Nat \ {0}
BY ReadingConstants

\* The invariant implies that the reports agree.
LEMMA ReportsSuffice == ReportsInv => ReportsAgree
<1> SUFFICES ASSUME ReportsInv, NEW d \in Documents, doc[d].pc \in Over
             PROVE  /\ d \notin temp
                    /\ doc[d].sent = <<>> <=> doc[d].pc = "unknown"
                    /\ Cardinality(Range(doc[d].sent)) <= 1 /\ Len(doc[d].sent) <= MaxTries
                    /\ doc[d].code = "FILE_INDEXING_COMPLETED" => "success" \in Range(doc[d].sent)
  BY DEF ReportsAgree
<1> DEFINE x == doc[d]
<1>1. Reported(x) /\ (d \in temp => x.pc \in WithFile) /\ x.pc \in Over
  BY DEF ReportsInv
<1> HIDE DEF x
<1>2. d \notin temp
  BY <1>1 DEF Over, WithFile
<1>3. x.sent \in Seq({"success", "failure"}) /\ Len(x.sent) \in Nat /\ DOMAIN x.sent = 1..Len(x.sent)
  BY <1>1, LenProperties DEF Reported
<1>4. CASE x.pc = "unknown"
  <2>1. x.sent = <<>> /\ x.code # "FILE_INDEXING_COMPLETED" /\ Len(x.sent) = 0
    BY <1>1, <1>4 DEF Reported
  <2>2. Range(x.sent) = {}
    BY <2>1, <1>3 DEF Range
  <2>3. Cardinality(Range(x.sent)) = 0
    BY <2>2, FS_EmptySet
  <2>4. QED
    BY <1>2, <1>4, <2>1, <2>3, TriesPositive DEF x
<1>5. CASE x.pc = "ended"
  <2>1. Len(x.sent) \in 1..MaxTries /\ OneKind(x) /\ x.sent # <<>>
    BY <1>1, <1>5, <1>3 DEF Reported
  <2>2. \E kind \in {"success", "failure"} : (\A i \in 1..Len(x.sent) : x.sent[i] = kind)
        /\ (x.code = "FILE_INDEXING_COMPLETED" => kind = "success")
    <3>1. CASE \A i \in 1..Len(x.sent) : x.sent[i] = "success"
      BY <3>1
    <3>2. CASE x.sent = <<"failure">> /\ x.code # "FILE_INDEXING_COMPLETED"
      BY <3>2
    <3>3. QED
      BY <2>1, <3>1, <3>2 DEF OneKind
  <2>3. PICK kind : (\A i \in 1..Len(x.sent) : x.sent[i] = kind)
        /\ (x.code = "FILE_INDEXING_COMPLETED" => kind = "success")
    BY <2>2
  <2>4. Range(x.sent) = {kind}
    <3>1. 1 \in DOMAIN x.sent
      BY <1>3, <2>1, TriesPositive
    <3>2. \A i \in DOMAIN x.sent : x.sent[i] = kind
      <4>1. \A i \in 1..Len(x.sent) : x.sent[i] = kind
        BY <2>3
      <4>2. QED
        BY <1>3, <4>1
    <3>3. QED
      BY <3>1, <3>2 DEF Range
  <2>5. Cardinality(Range(x.sent)) = 1
    BY <2>4, FS_Singleton
  <2>6. Cardinality(Range(x.sent)) <= 1 /\ Len(x.sent) <= MaxTries
    BY <1>3, <2>1, <2>5, TriesPositive
  <2>7. x.code = "FILE_INDEXING_COMPLETED" => "success" \in Range(x.sent)
    <3>1. kind \in Range(x.sent)
      BY <2>4
    <3>2. QED
      BY <2>3, <3>1
  <2>8. QED
    BY <1>2, <1>5, <2>1, <2>6, <2>7 DEF x
<1>6. QED
  BY <1>1, <1>4, <1>5 DEF Over

\* One document moves, the others do not.
LEMMA Moved ==
  ASSUME ReportsInv, NEW d \in Documents, NEW x, Moves(d, x), Reported(x), temp' \subseteq temp \cup {d},
         d \in temp' => x.pc \in WithFile
  PROVE  ReportsInv'
<1>1. DOMAIN doc' = Documents /\ doc'[d] = x /\ \A o \in Documents \ {d} : doc'[o] = doc[o]
  BY DEF ReportsInv, Moves
<1>2. ASSUME NEW o \in Documents PROVE Reported(doc'[o]) /\ (o \in temp' => doc'[o].pc \in WithFile)
  BY <1>1 DEF ReportsInv
<1>3. QED
  BY <1>1, <1>2 DEF ReportsInv

\* A request that moves on keeps the reports.
LEMMA ToReported ==
  ASSUME NEW x, Reported(x), x.pc \in Unreported \ {"manifest"}, NEW pc \in (Unreported \ {"manifest"}) \cup {"publish"}
  PROVE  Reported([x EXCEPT !.pc = pc]) /\ [x EXCEPT !.pc = pc].pc = pc
BY DEF Reported, Shaped, Unreported, Over

\* A request that fails is reported as a failure.
LEMMA FailsReported ==
  ASSUME ReportsInv, NEW d \in Documents, NEW code, code # "FILE_INDEXING_COMPLETED", doc[d].sent = <<>>,
         Fails(d, code), temp' = temp \ {d}
  PROVE  ReportsInv'
<1> DEFINE x == [doc[d] EXCEPT !.pc = "ended", !.images = <<>>, !.units = <<>>, !.late = {},
                               !.code = code, !.sent = Append(doc[d].sent, "failure")]
<1>1. Append(doc[d].sent, "failure") = <<"failure">>
  OBVIOUS
<1>2. Reported(doc[d])
  BY DEF ReportsInv
<1>3. x.pc = "ended" /\ x.tries = doc[d].tries /\ x.code = code /\ x.sent = <<"failure">> /\ Shaped(x)
  BY <1>1, <1>2 DEF Reported, Shaped
<1>4. Reported(x)
  <2> HIDE DEF x
  <2>1. Len(x.sent) = 1 /\ x.sent \in Seq({"success", "failure"})
    BY <1>3
  <2>2. QED
    BY <1>2, <1>3, <2>1, TriesPositive DEF Reported, OneKind, Unreported, Over
<1>5. Moves(d, x)
  BY DEF Fails, Ends
<1>6. QED
  <2> HIDE DEF x
  <2> QED BY <1>4, <1>5, Moved

\* None of the error codes is the code of the success.
LEMMA DownloadErrors == ASSUME NEW f PROVE DownloadProblem(f) # "FILE_INDEXING_COMPLETED"
BY DEF DownloadProblem, BodyProblem, HeaderProblem, MagicProblem, PackageProblem

\* Each step keeps what a request has reported.
LEMMA ReportsStep == ReportsInv /\ [Next]_vars => ReportsInv'
<1> SUFFICES ASSUME ReportsInv, [Next]_vars PROVE ReportsInv'
  OBVIOUS
<1>0. CASE UNCHANGED <<doc, temp>>
  BY <1>0 DEF ReportsInv
<1>1. ASSUME NEW d \in Documents, DocumentStep(d) \/ OcrTimeout(d) PROVE ReportsInv'
  <2> DEFINE x == doc[d]
  <2>r. Reported(x) /\ (d \in temp => x.pc \in WithFile)
    BY DEF ReportsInv
  <2>f. ASSUME NEW code, code # "FILE_INDEXING_COMPLETED", x.pc \in Unreported, Fails(d, code), temp' = temp \ {d}
        PROVE  ReportsInv'
    BY <2>f, <2>r, FailsReported DEF Reported
  <2>t. ASSUME NEW pc \in (Unreported \ {"manifest"}) \cup {"publish"}, x.pc \in Unreported \ {"manifest"}, To(d, pc),
               temp' \subseteq temp \cup {d}, d \in temp' => pc \in WithFile
        PROVE  ReportsInv'
    <3> DEFINE y == [x EXCEPT !.pc = pc]
    <3>1. Reported(y) /\ y.pc = pc
      BY <2>t, <2>r, ToReported
    <3>2. Moves(d, y)
      BY <2>t DEF To
    <3> HIDE DEF y
    <3>3. QED
      BY <2>t, <3>1, <3>2, Moved
  <2>m. ASSUME NEW y, Moves(d, y), Shaped(y), y.pc \in Unreported \ {"manifest"}, y.tries = x.tries, y.code = x.code,
               y.sent = x.sent, x.pc \in Unreported \ {"manifest"}, temp' \subseteq temp \cup {d}, d \in temp' => y.pc \in WithFile
        PROVE  ReportsInv'
    <3>1. Reported(y)
      BY <2>m, <2>r DEF Reported, Unreported, Over
    <3>2. QED
      BY <2>m, <3>1, Moved
  <2>1. CASE FetchManifest(d)
    <3>1. CASE Moves(d, [x EXCEPT !.pc = "download", !.tries = 1])
      <4> DEFINE y == [x EXCEPT !.pc = "download", !.tries = 1]
      <4>1. x.pc = "manifest" /\ d \notin temp
        BY <2>1, <2>r DEF FetchManifest, WithFile
      <4>2. temp' = temp
        BY <2>1 DEF FetchManifest
      <4>3. Shaped(y) /\ y.pc = "download" /\ y.tries = 1 /\ y.code = x.code /\ y.sent = x.sent
        BY <2>r DEF Reported, Shaped
      <4> HIDE DEF y
      <4>4. Reported(y)
        BY <2>r, <4>1, <4>3, TriesPositive DEF Reported, Unreported, Over
      <4>5. QED
        BY <3>1, <4>1, <4>2, <4>4, Moved DEF y
    <3>2. ASSUME NEW answer, Again(d, answer), Moves(d, [x EXCEPT !.tries = @ + 1]) PROVE ReportsInv'
      <4> DEFINE y == [x EXCEPT !.tries = @ + 1]
      <4>1. x.pc = "manifest" /\ d \notin temp
        BY <2>1, <2>r DEF FetchManifest, WithFile
      <4>2. temp' = temp
        BY <2>1 DEF FetchManifest
      <4>3. Shaped(y) /\ y.pc = "manifest" /\ y.tries = x.tries + 1 /\ y.code = x.code /\ y.sent = x.sent
        BY <2>r, <4>1 DEF Reported, Shaped
      <4> HIDE DEF y
      <4>4. Reported(y)
        BY <2>r, <3>2, <4>1, <4>3, TriesPositive DEF Again, Reported, Unreported, Over
      <4>5. QED
        BY <3>2, <4>1, <4>2, <4>4, Moved DEF y
    <3>3. ASSUME NEW answer, Moves(d, [x EXCEPT !.pc = "unknown", !.code = RequestCode(answer)]) PROVE ReportsInv'
      <4> DEFINE y == [x EXCEPT !.pc = "unknown", !.code = RequestCode(answer)]
      <4>0. RequestCode(answer) # "FILE_INDEXING_COMPLETED"
        BY DEF RequestCode
      <4>1. Reported(y) /\ d \notin temp
        BY <2>1, <2>r, <4>0 DEF FetchManifest, Reported, Shaped, Unreported, Over, WithFile
      <4>2. temp' = temp
        BY <2>1 DEF FetchManifest
      <4> HIDE DEF y
      <4>3. QED
        BY <3>3, <4>1, <4>2, Moved DEF y
    <3>4. QED
      BY <2>1, <3>1, <3>2, <3>3 DEF FetchManifest
  <2>2. CASE Download(d)
    <3>1. x.pc = "download" /\ d \notin temp
      BY <2>2, <2>r DEF Download, WithFile
    <3>2. CASE To(d, "images") /\ temp' = temp \cup {d}
      BY <3>1, <3>2, <2>t DEF Unreported, WithFile
    <3>3. CASE Fails(d, DownloadProblem(file[d])) /\ UNCHANGED temp
      BY <3>1, <3>3, <2>f, DownloadErrors DEF Unreported
    <3>4. QED
      BY <2>2, <3>2, <3>3 DEF Download
  <2>3. CASE ExtractImages(d)
    <3>1. x.pc = "images" /\ temp' = temp
      BY <2>3 DEF ExtractImages
    <3>2. CASE To(d, "text")
      BY <3>1, <3>2, <2>t DEF Unreported, WithFile
    <3>3. ASSUME NEW pc \in {"text", "render"}, NEW images, Moves(d, [x EXCEPT !.pc = pc, !.images = images])
          PROVE ReportsInv'
      <4> DEFINE y == [x EXCEPT !.pc = pc, !.images = images]
      <4>1. Shaped(y) /\ y.pc = pc /\ y.tries = x.tries /\ y.code = x.code /\ y.sent = x.sent
        BY <2>r DEF Reported, Shaped
      <4>2. Moves(d, y)
        BY <3>3
      <4> HIDE DEF y
      <4>3. QED
        BY <3>1, <4>1, <4>2, <2>m DEF Unreported, WithFile
    <3>4. QED
      BY <2>3, <3>2, <3>3 DEF ExtractImages
  <2>4. CASE ImagesFail(d)
    BY <2>4, <2>t DEF ImagesFail, Unreported, WithFile
  <2>5. CASE AskOffice(d)
    BY <2>5, <1>0 DEF AskOffice, ownVars
  <2>6. CASE Rendered(d)
    <3>1. x.pc = "render" /\ temp' = temp
      BY <2>6 DEF Rendered
    <3>2. ASSUME NEW images, Moves(d, [x EXCEPT !.pc = "text", !.images = images]) PROVE ReportsInv'
      <4> DEFINE y == [x EXCEPT !.pc = "text", !.images = images]
      <4>1. Shaped(y) /\ y.pc = "text" /\ y.tries = x.tries /\ y.code = x.code /\ y.sent = x.sent
        BY <2>r DEF Reported, Shaped
      <4>2. Moves(d, y)
        BY <3>2
      <4> HIDE DEF y
      <4>3. QED
        BY <3>1, <4>1, <4>2, <2>m DEF Unreported, WithFile
    <3>3. QED
      BY <2>6, <3>2 DEF Rendered
  <2>7. CASE ReadText(d)
    <3>1. x.pc = "text"
      BY <2>7 DEF ReadText
    <3>2. ASSUME NEW code \in {"INVALID_DOCUMENT", "DOCUMENT_TEXT_NOT_FOUND"}, Fails(d, code), temp' = temp \ {d}
          PROVE ReportsInv'
      BY <3>1, <3>2, <2>f DEF Unreported
    <3>3. ASSUME NEW units, Moves(d, [x EXCEPT !.pc = "ocr", !.units = units]), temp' = temp PROVE ReportsInv'
      <4> DEFINE y == [x EXCEPT !.pc = "ocr", !.units = units]
      <4>1. Shaped(y) /\ y.pc = "ocr" /\ y.tries = x.tries /\ y.code = x.code /\ y.sent = x.sent
        BY <2>r DEF Reported, Shaped
      <4>2. Moves(d, y)
        BY <3>3
      <4> HIDE DEF y
      <4>3. QED
        BY <3>1, <3>3, <4>1, <4>2, <2>m DEF Unreported, WithFile
    <3>4. QED
      BY <2>7, <3>2, <3>3 DEF ReadText
  <2>8. CASE TextFails(d)
    <3>1. PICK code \in ParserMayFail : Fails(d, code)
      BY <2>8 DEF TextFails
    <3>2. code # "FILE_INDEXING_COMPLETED"
      BY <3>1, ReadingConstants DEF ParserErrors
    <3>3. QED
      BY <2>8, <3>1, <3>2, <2>f DEF TextFails, Unreported
  <2>9. CASE \E c \in Calls : Recognise(d, c) \/ CancelTask(d, c)
    BY <2>9, <1>0 DEF Recognise, CancelTask, ownVars
  <2>10. CASE OcrTimeout(d)
    <3>1. x.pc = "ocr" /\ temp' = temp
      BY <2>10 DEF OcrTimeout
    <3>2. PICK late : Moves(d, [x EXCEPT !.late = late])
      BY <2>10 DEF OcrTimeout
    <3> DEFINE y == [x EXCEPT !.late = late]
    <3>3. Shaped(y) /\ y.pc = "ocr" /\ y.tries = x.tries /\ y.code = x.code /\ y.sent = x.sent
      BY <2>r, <3>1 DEF Reported, Shaped
    <3>4. Moves(d, y)
      BY <3>2
    <3> HIDE DEF y
    <3>5. QED
      BY <3>1, <3>3, <3>4, <2>m DEF Unreported, WithFile
  <2>11. CASE OcrEnds(d)
    <3>1. x.pc = "ocr" /\ temp' = temp \ {d}
      BY <2>11 DEF OcrEnds
    <3>2. ASSUME NEW code \in {"INTERNAL_SERVER_ERROR", "DOCUMENT_TEXT_NOT_FOUND"}, Fails(d, code)
          PROVE ReportsInv'
      BY <3>1, <3>2, <2>f DEF Unreported
    <3>3. ASSUME NEW units, Moves(d, [x EXCEPT !.pc = "embed", !.images = <<>>, !.late = {}, !.units = units])
          PROVE ReportsInv'
      <4> DEFINE y == [x EXCEPT !.pc = "embed", !.images = <<>>, !.late = {}, !.units = units]
      <4>1. Shaped(y) /\ y.pc = "embed" /\ y.tries = x.tries /\ y.code = x.code /\ y.sent = x.sent
        BY <2>r DEF Reported, Shaped
      <4>2. Moves(d, y)
        BY <3>3
      <4> HIDE DEF y
      <4>3. QED
        BY <3>1, <4>1, <4>2, <2>m DEF Unreported, WithFile
    <3>4. QED
      BY <2>11, <3>2, <3>3 DEF OcrEnds
  <2>12. CASE Embed(d)
    <3>1. x.pc = "embed" /\ temp' = temp /\ d \notin temp
      BY <2>12, <2>r DEF Embed, WithFile
    <3>2. CASE To(d, "index")
      BY <3>1, <3>2, <2>t DEF Unreported
    <3>3. ASSUME NEW fault, Fails(d, EmbeddingCode(fault)) PROVE ReportsInv'
      <4>1. EmbeddingCode(fault) # "FILE_INDEXING_COMPLETED"
        BY DEF EmbeddingCode
      <4>2. QED
        BY <3>1, <3>3, <4>1, <2>f DEF Unreported
    <3>4. QED
      BY <2>12, <3>2, <3>3 DEF Embed
  <2>13. CASE Index(d)
    <3>1. x.pc = "index" /\ temp' = temp /\ d \notin temp
      BY <2>13, <2>r DEF Index, WithFile
    <3>2. CASE To(d, "publish")
      BY <3>1, <3>2, <2>t DEF Unreported
    <3>3. ASSUME NEW error, Fails(d, IndexCode(error)) PROVE ReportsInv'
      <4>1. IndexCode(error) # "FILE_INDEXING_COMPLETED"
        BY DEF IndexCode
      <4>2. QED
        BY <3>1, <3>3, <4>1, <2>f DEF Unreported
    <3>4. QED
      BY <2>13, <3>2, <3>3 DEF Index
  <2>14. CASE Publish(d)
    <3>1. x.pc = "publish" /\ temp' = temp /\ d \notin temp
      BY <2>14, <2>r DEF Publish, WithFile
    <3>s. /\ x.sent \in Seq({"success", "failure"}) /\ Len(x.sent) = x.tries - 1 /\ x.tries \in 1..MaxTries
          /\ \A i \in 1..Len(x.sent) : x.sent[i] = "success"
      BY <3>1, <2>r DEF Reported
    <3>t. /\ Told(d) \in Seq({"success", "failure"}) /\ Len(Told(d)) = x.tries
          /\ \A i \in 1..Len(Told(d)) : Told(d)[i] = "success"
      BY <3>s, AppendProperties DEF Told
    <3>2. ASSUME NEW code, Ends(d, code, Told(d)) PROVE ReportsInv'
      <4> DEFINE y == [x EXCEPT !.pc = "ended", !.images = <<>>, !.units = <<>>, !.late = {}, !.code = code, !.sent = Told(d)]
      <4>1. Shaped(y) /\ y.pc = "ended" /\ y.tries = x.tries /\ y.sent = Told(d)
        BY <2>r DEF Reported, Shaped
      <4>2. Moves(d, y)
        BY <3>2 DEF Ends
      <4> HIDE DEF y
      <4>3. Reported(y)
        BY <3>s, <3>t, <4>1, TriesPositive DEF Reported, OneKind, Unreported, Over
      <4>4. QED
        BY <3>1, <4>2, <4>3, Moved
    <3>3. ASSUME NEW answer, Again(d, answer), Moves(d, [x EXCEPT !.tries = @ + 1, !.sent = Told(d)])
          PROVE ReportsInv'
      <4> DEFINE y == [x EXCEPT !.tries = @ + 1, !.sent = Told(d)]
      <4>1. Shaped(y) /\ y.pc = "publish" /\ y.tries = x.tries + 1 /\ y.sent = Told(d)
        BY <2>r, <3>1 DEF Reported, Shaped
      <4>2. Moves(d, y)
        BY <3>3
      <4> HIDE DEF y
      <4>3. x.tries < MaxTries
        BY <3>3 DEF Again
      <4>4. Reported(y)
        <5>1. y.tries \in 1..MaxTries /\ Len(y.sent) = y.tries - 1
          BY <3>s, <3>t, <4>1, <4>3, TriesPositive
        <5>2. QED
          BY <3>t, <4>1, <5>1 DEF Reported, Unreported, Over
      <4>5. QED
        BY <3>1, <4>2, <4>4, Moved
    <3>4. CASE x.sent = <<>> /\ Fails(d, "LOCAL_RAG_STORAGE_FAILED")
      BY <3>1, <3>4, FailsReported
    <3>5. QED
      BY <2>14, <3>2, <3>3, <3>4 DEF Publish
  <2>15. QED
    BY <1>1, <2>1, <2>2, <2>3, <2>4, <2>5, <2>6, <2>7, <2>8, <2>9, <2>10, <2>11, <2>12, <2>13, <2>14
         DEF DocumentStep
<1>2. QED
  BY <1>0, <1>1 DEF Next, vars, ownVars

\* A request is reported as a success or as a failure, never as both, and leaves no file behind.
THEOREM ReportsAlwaysAgree == Spec => []ReportsAgree
<1>1. ASSUME Init PROVE ReportsInv
  <2>1. DOMAIN doc = Documents /\ temp = {}
    BY <1>1 DEF Init
  <2>2. ASSUME NEW d \in Documents PROVE Reported(doc[d])
    <3>1. /\ Shaped(doc[d]) /\ doc[d].pc = "manifest" /\ doc[d].tries = 1
          /\ doc[d].code = "none" /\ doc[d].sent = <<>>
      BY <1>1 DEF Init, Shaped
    <3>2. QED
      BY <3>1, TriesPositive DEF Reported, Unreported, Over
  <2>3. QED
    BY <2>1, <2>2 DEF ReportsInv
<1>2. QED
  BY <1>1, ReportsStep, ReportsSuffice, PTL DEF Spec

-----------------------------------------------------------------------------
(* All the text of a document is in its chunks                             *)

\* The units OCR adds to: those of the text, or those of the places with an image.
BaseUnits(body, images) == IF NoText(TextUnits(body)) THEN AnchorUnits(body, images) ELSE TextUnits(body)

\* What a request has read of its file: images until OCR ends, then units.
ReadSoFar(f, x) ==
  LET body == f.response.body
  IN /\ Shaped(x)
     /\ x.pc \in {"manifest", "download", "images"} => x.images = <<>>
     /\ x.pc = "render" => x.images \in Seq(ImagesOf(body, {"xlsx"}))
     /\ x.pc \in {"text", "ocr"} => x.images \in Seq(ImagesOf(body, {}))
     /\ x.pc = "ocr" => f.type = body.type /\ x.units = BaseUnits(body, x.images)
     /\ x.pc = "embed" => \E images \in Seq(ImagesOf(body, {})) : \E read :
                            x.units = Prepared(body.type, Merged(BaseUnits(body, images), Recognized(body, images, read)))
     /\ x.code = "DOCUMENT_TEXT_NOT_FOUND" => NoText(TextUnits(body))

TextInv ==
  /\ file \in Cases /\ DOMAIN doc = Documents
  /\ \A d \in Documents : ReadSoFar(file[d], doc[d])

\* A block that is a heading is nothing else.
HeadingsAlone(body) ==
  body.type = "docx" => \A i \in DOMAIN body.parts :
    body.parts[i].kind = "heading" => Among(body, body.parts[i].at, TextKinds) = {i}

\* The bodies of the cases are such as a document has.
LEMMA BodiesAre ==
  ASSUME file \in Cases, NEW d \in Documents
  PROVE  IsBody(Body(d)) /\ HasPages(Body(d)) /\ HeadingsAlone(Body(d)) /\ Body(d) \in Bodies
<1> DEFINE body == file[d].response.body
<1>1. file[d].response \in Response /\ InPlace(body)
  BY ReadingConstants
<1>2. /\ \A i \in DOMAIN body.parts : body.parts[i].at \in 1..body.places /\ (body.parts[i].kind = "page" => body.type = "pdf")
      /\ HeadingsAlone(body)
  <2>1. InPlace(body)
    BY <1>1
  <2> HIDE DEF body
  <2>2. QED
    BY <2>1 DEF InPlace, HeadingsAlone
<1> DEFINE P == [at : Nat, file : Nat, kind : TextKinds \cup {"picture", "visual", "page", "drawing"},
                 size : Nat, image : Calls \cup {NoImage}, cover : Nat, ends : BOOLEAN]
<1>3. body.places \in Nat /\ body.parts \in Seq(P)
  BY <1>1 DEF Response
<1>4. body \in Bodies
  BY DEF Bodies
<1> HIDE DEF body
<1>5. IsBody(body)
  <2>0. \A p \in P : p.file \in Nat /\ p.size \in Nat
    OBVIOUS
  <2> HIDE DEF P
  <2>1. Len(body.parts) \in Nat /\ DOMAIN body.parts = 1..Len(body.parts)
    BY <1>3
  <2>2. \A i \in DOMAIN body.parts : body.parts[i].file \in Nat /\ body.parts[i].size \in Nat
    BY <1>3, <2>0
  <2>3. QED
    BY <1>2, <1>3, <2>1, <2>2 DEF IsBody
<1>6. HasPages(body)
  BY <1>2 DEF HasPages
<1>7. QED
  BY <1>2, <1>4, <1>5, <1>6 DEF Body, body

\* Found units are units of the body, at most one for each image.
LEMMA RecognizedUnits ==
  ASSUME NEW body, NEW T, NEW images \in Seq(T), NEW read
  PROVE  /\ Recognized(body, images, read) \in Seq({u \in {Unit(body, "ocr", images[k].at, images[k].number, OcrLength, images[k].of) :
                                                           k \in DOMAIN images} : AnyUnit(body, u)})
<1> DEFINE s == [k \in DOMAIN images |-> Unit(body, "ocr", images[k].at, images[k].number, OcrLength, images[k].of)]
           I == {k \in Candidates(images) : images[k].image \in read}
           U == {u \in {Unit(body, "ocr", images[k].at, images[k].number, OcrLength, images[k].of) : k \in DOMAIN images} :
                   AnyUnit(body, u)}
<1>1. Len(images) \in Nat /\ DOMAIN images = 1..Len(images)
  OBVIOUS
<1>2. I \subseteq 1..Len(images)
  BY <1>1 DEF Candidates
<1>3. I \subseteq Nat /\ IsFiniteSet(I)
  <2> HIDE DEF I
  <2>1. QED
    BY <1>1, <1>2, PositionsFinite
<1>4. ASSUME NEW k \in I PROVE s[k] \in U
  <2>1. k \in DOMAIN images
    BY <1>1, <1>2
  <2>2. s[k] = Unit(body, "ocr", images[k].at, images[k].number, OcrLength, images[k].of)
    BY <2>1
  <2> HIDE DEF s
  <2>3. AnyUnit(body, s[k])
    BY <2>2, TextConstants DEF AnyUnit
  <2>4. QED
    BY <2>1, <2>2, <2>3
<1>5. Recognized(body, images, read) = Chosen(s, I)
  BY DEF Recognized
<1> HIDE DEF I, s, U
<1>6. Chosen(s, I) \in Seq(U)
  BY <1>3, <1>4, ChosenSeq
<1>7. QED
  BY <1>5, <1>6 DEF U

\* The empty units of the places with an image.
Anchors(body, images) ==
  {u \in {Unit(body, "anchor", images[k].at, images[k].number, 0, {}) : k \in DOMAIN images}
         \cup {Unit(body, "anchor", at, at, 0, {}) : at \in 1..body.places} : AnyUnit(body, u)}

\* Those of the places are.
LEMMA AnchorsOfPlaces ==
  ASSUME NEW body, IsBody(body), NEW images, body.type = "pdf"
  PROVE  AnchorUnits(body, images) \in Seq(Anchors(body, images))
<1> DEFINE s == [at \in 1..body.places |-> Unit(body, "anchor", at, at, 0, {})]
           I == {at \in 1..body.places : ImageOnlyPage(body, at)}
           U == Anchors(body, images)
<1>1. body.places \in Nat /\ I \subseteq 1..body.places
  BY DEF IsBody
<1>2. I \subseteq Nat /\ IsFiniteSet(I)
  <2> HIDE DEF I
  <2>1. QED
    BY <1>1, PositionsFinite
<1>3. ASSUME NEW at \in I PROVE s[at] \in U
  <2>1. at \in 1..body.places /\ s[at] = Unit(body, "anchor", at, at, 0, {})
    BY <1>1
  <2> HIDE DEF s, I
  <2>2. AnyUnit(body, s[at])
    BY <2>1 DEF AnyUnit
  <2>3. QED
    BY <2>1, <2>2 DEF Anchors
<1>4. AnchorUnits(body, images) = Chosen(s, I)
  BY DEF AnchorUnits
<1> HIDE DEF I, s, U
<1>5. Chosen(s, I) \in Seq(U)
  BY <1>2, <1>3, ChosenSeq
<1>6. QED
  BY <1>4, <1>5 DEF U

\* The units of the places with an image are units of the body.
LEMMA AnchorUnitsAre ==
  ASSUME NEW body, IsBody(body), NEW T, NEW images \in Seq(T)
  PROVE  AnchorUnits(body, images) \in Seq(Anchors(body, images))
<1> SUFFICES ASSUME body.type # "pdf" PROVE AnchorUnits(body, images) \in Seq(Anchors(body, images))
  BY AnchorsOfPlaces
<1> DEFINE s == [k \in DOMAIN images |-> Unit(body, "anchor", images[k].at, images[k].number, 0, {})]
           I == {k \in DOMAIN images : \A j \in 1..(k - 1) : images[j].at # images[k].at}
           U == Anchors(body, images)
<1>1. Len(images) \in Nat /\ DOMAIN images = 1..Len(images)
  OBVIOUS
<1>2. I \subseteq 1..Len(images)
  BY <1>1
<1>3. I \subseteq Nat /\ IsFiniteSet(I)
  <2> HIDE DEF I
  <2>1. QED
    BY <1>1, <1>2, PositionsFinite
<1>4. ASSUME NEW k \in I PROVE s[k] \in U
  <2>1. k \in DOMAIN images
    BY <1>1, <1>2
  <2>2. s[k] = Unit(body, "anchor", images[k].at, images[k].number, 0, {})
    BY <2>1
  <2> HIDE DEF s
  <2>3. AnyUnit(body, s[k])
    BY <2>2 DEF AnyUnit
  <2>4. QED
    BY <2>1, <2>2, <2>3 DEF Anchors
<1>5. AnchorUnits(body, images) = Chosen(s, I)
  BY DEF AnchorUnits
<1> HIDE DEF I, s, U
<1>6. Chosen(s, I) \in Seq(U)
  BY <1>3, <1>4, ChosenSeq
<1>7. QED
  BY <1>5, <1>6 DEF U

\* What OCR has added to is units of the body, and every one of them is still there.
LEMMA MergedUnits ==
  ASSUME NEW body, IsBody(body), NEW bare, NEW images \in Seq(ImagesOf(body, bare)), NEW read
  PROVE  LET base == BaseUnits(body, images)
             units == Merged(base, Recognized(body, images, read))
         IN /\ \E n : InRow(units, n)
            /\ \A i \in DOMAIN units : AnyUnit(body, units[i])
            /\ \A u \in DOMAIN base : \E i \in DOMAIN units : units[i] = base[u]
<1> DEFINE base == BaseUnits(body, images)
           found == Recognized(body, images, read)
           units == Merged(base, found)
           U == {u \in {base[i] : i \in DOMAIN base} \cup {found[i] : i \in DOMAIN found} : AnyUnit(body, u)}
<1>1. Len(found) \in Nat /\ DOMAIN found = 1..Len(found) /\ found = [i \in DOMAIN found |-> found[i]] /\ \A i \in 1..Len(found) : AnyUnit(body, found[i])
  <2> DEFINE V == {u \in {Unit(body, "ocr", images[k].at, images[k].number, OcrLength, images[k].of) : k \in DOMAIN images} :
                   AnyUnit(body, u)}
  <2>1. found \in Seq(V)
    BY RecognizedUnits
  <2>2. \A u \in V : AnyUnit(body, u)
    OBVIOUS
  <2> HIDE DEF V, found
  <2>3. QED
    BY <2>1, <2>2
<1>2. /\ base = [i \in DOMAIN base |-> base[i]]
      /\ \E n \in Nat : DOMAIN base = 1..n /\ \A i \in 1..n : AnyUnit(body, base[i])
  <2>1. CASE NoText(TextUnits(body))
    <3> DEFINE V == Anchors(body, images)
    <3>1. AnchorUnits(body, images) \in Seq(V)
      BY AnchorUnitsAre
    <3>2. \A u \in V : AnyUnit(body, u)
      BY DEF Anchors
    <3>3. base = AnchorUnits(body, images)
      BY <2>1 DEF BaseUnits
    <3> HIDE DEF V, base
    <3>4. base = [i \in DOMAIN base |-> base[i]] /\ Len(base) \in Nat /\ DOMAIN base = 1..Len(base) /\ \A i \in 1..Len(base) : AnyUnit(body, base[i])
      BY <3>1, <3>2, <3>3
    <3>5. QED
      BY <3>4
  <2>2. CASE ~ NoText(TextUnits(body))
    <3>1. base = TextUnits(body)
      BY <2>2 DEF BaseUnits
    <3> HIDE DEF base
    <3>2. TextIn(body, base)
      BY <3>1, TextUnitsHaveText
    <3>3. PICK n : InRow(base, n)
      BY <3>2 DEF TextIn
    <3>4. QED
      BY <3>2, <3>3 DEF TextIn, InRow, TextUnit
  <2>3. QED
    BY <2>1, <2>2
<1> HIDE DEF base, found
<1>3. PICK n \in Nat : DOMAIN base = 1..n /\ \A i \in 1..n : AnyUnit(body, base[i])
  BY <1>2
<1>4. /\ \A i \in 1..n : base[i] \in U
      /\ \A i \in 1..Len(found) : found[i] \in U
      /\ \A u \in U : AnyUnit(body, u)
  BY <1>1, <1>3
<1> HIDE DEF U
<1>5. base \in Seq(U) /\ found \in Seq(U) /\ Len(base) = n
  <2>1. base = [i \in 1..n |-> base[i]] /\ found = [i \in 1..Len(found) |-> found[i]]
    BY <1>1, <1>2, <1>3
  <2>2. QED
    BY SMTT(30), <1>1, <1>3, <1>4, <2>1
<1>6. /\ units \in Seq(U)
      /\ \A u \in 1..n : \E i \in 1..Len(units) : units[i] = base[u]
  <2>1. base \in Seq(U) /\ found \in Seq(U) /\ Len(base) = n /\ units = Merged(base, found)
    BY <1>5
  <2> HIDE DEF units
  <2>2. MergesIn(U, base, found)
    BY <2>1, MergedIn
  <2>3. QED
    BY <2>1, <2>2 DEF MergesIn
<1> HIDE DEF units
<1>7. Len(units) \in Nat /\ DOMAIN units = 1..Len(units) /\ \A i \in 1..Len(units) : AnyUnit(body, units[i])
  BY <1>4, <1>6
<1>8. ASSUME NEW i \in 1..Len(units) PROVE units[i].size \in Nat
  BY <1>7 DEF AnyUnit, Unit
<1>9. InRow(units, Len(units))
  BY <1>7, <1>8 DEF InRow
<1>10. QED
  BY <1>3, <1>6, <1>7, <1>9 DEF units, base, found

\* All the text of a document is in the chunks of its units, whatever OCR has added.
LEMMA EmbeddedCovered ==
  ASSUME NEW body, IsBody(body), NEW images \in Seq(ImagesOf(body, {})), NEW read, NEW units,
         units = Prepared(body.type, Merged(BaseUnits(body, images), Recognized(body, images, read)))
  PROVE  Covered(body, units, Chunks(units))
<1> DEFINE base == BaseUnits(body, images)
           merged == Merged(base, Recognized(body, images, read))
<1>1. /\ \E n : InRow(merged, n)
      /\ \A i \in DOMAIN merged : AnyUnit(body, merged[i])
      /\ \A u \in DOMAIN base : \E i \in DOMAIN merged : merged[i] = base[u]
  BY MergedUnits
<1>2. units = Prepared(body.type, merged)
  OBVIOUS
<1>3. NoText(TextUnits(body)) \/ base = TextUnits(body)
  BY DEF BaseUnits
<1> HIDE DEF merged, base
<1>4. PICK n : InRow(merged, n)
  BY <1>1
<1>5. /\ DOMAIN units = DOMAIN merged
      /\ \A i \in DOMAIN merged : units[i].size = merged[i].size /\ units[i].of = merged[i].of
  <2>1. \A i \in DOMAIN merged : AnyUnit(body, merged[i])
    BY <1>1
  <2>2. SameContents(Prepared(body.type, merged), merged)
    BY <2>1, PreparedKeeps
  <2>3. QED
    BY <1>2, <2>2 DEF SameContents
<1>6. InRow(units, n)
  BY <1>4, <1>5 DEF InRow
<1>7. ASSUME NEW i \in DOMAIN body.parts, body.parts[i].kind \in TextKinds, body.parts[i].size > 0
      PROVE  \E u \in DOMAIN units : i \in units[u].of /\ units[u].size = SizeOf(body, units[u].of)
  <2>1. base = TextUnits(body)
    <3>1. ~ (body.parts[i].size = 0)
      BY <1>7
    <3>2. QED
      BY <1>3, <1>7, <3>1, NoTextNone
  <2>2. TextIn(body, base)
    BY <2>1, TextUnitsHaveText
  <2>3. PICK u \in DOMAIN base : i \in base[u].of /\ base[u].size = SizeOf(body, base[u].of)
    BY <1>7, <2>2 DEF TextIn, TextUnit
  <2>4. PICK k \in DOMAIN merged : merged[k] = base[u]
    BY <1>1
  <2>5. QED
    BY <1>5, <2>3, <2>4
<1>8. QED
  BY <1>6, <1>7, CoveredWhenTextIn

\* If there is no text after OCR, there was none before.
LEMMA NoTextAfter ==
  ASSUME NEW body, IsBody(body), NEW bare, NEW images \in Seq(ImagesOf(body, bare)), NEW read,
         NoText(Merged(BaseUnits(body, images), Recognized(body, images, read)))
  PROVE  NoText(TextUnits(body))
<1> DEFINE base == BaseUnits(body, images)
           merged == Merged(base, Recognized(body, images, read))
<1>1. \A u \in DOMAIN base : \E i \in DOMAIN merged : merged[i] = base[u]
  BY MergedUnits
<1>2. NoText(TextUnits(body)) \/ base = TextUnits(body)
  BY DEF BaseUnits
<1>3. \A i \in DOMAIN merged : merged[i].size = 0
  BY DEF NoText
<1> HIDE DEF base, merged
<1>4. QED
  BY <1>1, <1>2, <1>3 DEF NoText

\* One document moves, the others do not, and none changes its file.
LEMMA MovedText ==
  ASSUME TextInv, NEW d \in Documents, NEW x, Moves(d, x), ReadSoFar(file[d], x), UNCHANGED file
  PROVE  TextInv'
<1>1. DOMAIN doc' = Documents /\ doc'[d] = x /\ \A o \in Documents \ {d} : doc'[o] = doc[o]
  BY DEF TextInv, Moves
<1>2. ASSUME NEW o \in Documents PROVE ReadSoFar(file[o], doc'[o])
  BY <1>1 DEF TextInv
<1>3. QED
  BY <1>1, <1>2 DEF TextInv

Later == {"download", "index", "publish", "ended", "unknown"}
NotFound == "DOCUMENT_TEXT_NOT_FOUND"

\* After the embedding, and when it fails, a request holds nothing of its file.
LEMMA MovesLater ==
  ASSUME TextInv, NEW d \in Documents, NEW x, Moves(d, x), Shaped(x), x.pc \in Later, x.pc = "download" => x.images = <<>>,
         x.code = NotFound => doc[d].code = NotFound \/ NoText(TextUnits(Body(d))), UNCHANGED file
  PROVE  TextInv'
<1>1. doc[d].code = NotFound => NoText(TextUnits(Body(d)))
  BY DEF TextInv, ReadSoFar, Body, NotFound
<1>2. ReadSoFar(file[d], x)
  BY <1>1 DEF ReadSoFar, Body, Later, NotFound
<1>3. QED
  BY <1>2, MovedText

\* A request that fails has read nothing more.
LEMMA FailsLater ==
  ASSUME TextInv, NEW d \in Documents, NEW code, code = NotFound => NoText(TextUnits(Body(d))), NEW sent,
         Ends(d, code, sent), UNCHANGED file
  PROVE  TextInv'
<1> DEFINE x == [doc[d] EXCEPT !.pc = "ended", !.images = <<>>, !.units = <<>>, !.late = {}, !.code = code, !.sent = sent]
<1>1. Shaped(doc[d])
  BY DEF TextInv, ReadSoFar
<1>2. Shaped(x) /\ x.pc = "ended" /\ x.code = code
  BY <1>1 DEF Shaped
<1>3. Moves(d, x)
  BY DEF Ends
<1> HIDE DEF x
<1>4. QED
  BY <1>2, <1>3, MovesLater DEF Later

\* None of the errors of the services says that there is no text.
LEMMA OtherErrors ==
  /\ \A f : DownloadProblem(f) # NotFound
  /\ \A answer : RequestCode(answer) # NotFound
  /\ \A fault : EmbeddingCode(fault) # NotFound
  /\ \A error : IndexCode(error) # NotFound
  /\ \A code \in ParserMayFail : code # NotFound
<1>1. ParserMayFail \subseteq ParserErrors
  BY ReadingConstants
<1>2. \A f : DownloadProblem(f) # NotFound
  BY DEF DownloadProblem, BodyProblem, HeaderProblem, MagicProblem, PackageProblem, NotFound
<1>3. \A answer : RequestCode(answer) # NotFound
  BY DEF RequestCode, NotFound
<1>4. (\A fault : EmbeddingCode(fault) # NotFound) /\ (\A error : IndexCode(error) # NotFound)
  BY DEF EmbeddingCode, IndexCode, NotFound
<1>5. QED
  BY <1>1, <1>2, <1>3, <1>4 DEF ParserErrors, NotFound

\* Each step keeps what a request has read of its file.
LEMMA TextStep == TextInv /\ [Next]_vars => TextInv'
<1> SUFFICES ASSUME TextInv, [Next]_vars PROVE TextInv'
  OBVIOUS
<1>0. CASE UNCHANGED <<file, doc>>
  BY <1>0 DEF TextInv
<1>1. ASSUME NEW d \in Documents, DocumentStep(d) \/ OcrTimeout(d) PROVE TextInv'
  <2> DEFINE x == doc[d]
             body == Body(d)
  <2>r. ReadSoFar(file[d], x) /\ Shaped(x)
    BY DEF TextInv, ReadSoFar
  <2>b. IsBody(body) /\ HasPages(body) /\ body \in Bodies
    BY BodiesAre DEF TextInv
  <2>f. body = file[d].response.body
    BY DEF Body
  <2> HIDE DEF body
  <2>e. EmbeddedIn[body] = Embedded(body) /\ UnitsIn[body] = TextUnits(body)
    BY <2>b DEF EmbeddedIn, UnitsIn
  <2>g. x.code = NotFound => NoText(TextUnits(body))
    BY <2>r, <2>f DEF ReadSoFar, NotFound
  <2>1. CASE FetchManifest(d)
    <3>1. x.pc = "manifest" /\ x.images = <<>> /\ file' = file
      BY <2>1, <2>r DEF FetchManifest, ReadSoFar
    <3>2. CASE Moves(d, [x EXCEPT !.pc = "download", !.tries = 1])
      <4> DEFINE y == [x EXCEPT !.pc = "download", !.tries = 1]
      <4>1. Shaped(y) /\ y.pc = "download" /\ y.code = x.code /\ y.images = <<>>
        BY <2>r, <3>1 DEF Shaped
      <4> HIDE DEF y
      <4>2. QED
        BY <3>1, <3>2, <4>1, MovesLater DEF Later, y
    <3>3. CASE Moves(d, [x EXCEPT !.tries = @ + 1])
      <4> DEFINE y == [x EXCEPT !.tries = @ + 1]
      <4>1. Shaped(y) /\ y.pc = "manifest" /\ y.code = x.code /\ y.images = <<>>
        BY <2>r, <3>1 DEF Shaped
      <4> HIDE DEF y
      <4>2. ReadSoFar(file[d], y)
        BY <2>r, <4>1 DEF ReadSoFar
      <4>3. QED
        BY <3>1, <3>3, <4>2, MovedText DEF y
    <3>4. ASSUME NEW answer, Moves(d, [x EXCEPT !.pc = "unknown", !.code = RequestCode(answer)]) PROVE TextInv'
      <4> DEFINE y == [x EXCEPT !.pc = "unknown", !.code = RequestCode(answer)]
      <4>1. Shaped(y) /\ y.pc = "unknown" /\ y.code # NotFound
        BY <2>r, OtherErrors DEF Shaped
      <4> HIDE DEF y
      <4>2. QED
        BY <3>1, <3>4, <4>1, MovesLater DEF Later, y
    <3>5. QED
      BY <2>1, <3>2, <3>3, <3>4 DEF FetchManifest
  <2>2. CASE Download(d)
    <3>1. x.pc = "download" /\ file' = file
      BY <2>2 DEF Download
    <3>2. CASE To(d, "images")
      <4> DEFINE y == [x EXCEPT !.pc = "images"]
      <4>1. Shaped(y) /\ y.pc = "images" /\ y.code = x.code /\ y.images = <<>>
        BY <2>r, <3>1 DEF Shaped, ReadSoFar
      <4>2. Moves(d, y)
        BY <3>2 DEF To
      <4> HIDE DEF y
      <4>3. ReadSoFar(file[d], y)
        BY <2>r, <4>1 DEF ReadSoFar
      <4>4. QED
        BY <3>1, <4>2, <4>3, MovedText
    <3>3. CASE Fails(d, DownloadProblem(file[d]))
      BY <3>1, <3>3, FailsLater, OtherErrors DEF Fails
    <3>4. QED
      BY <2>2, <3>2, <3>3 DEF Download
  <2>i. ASSUME NEW images \in Seq(ImagesOf(body, {})), Moves(d, [x EXCEPT !.pc = "text", !.images = images]), file' = file
        PROVE  TextInv'
    <3> DEFINE y == [x EXCEPT !.pc = "text", !.images = images]
    <3>1. Shaped(y) /\ y.pc = "text" /\ y.code = x.code /\ y.images = images
      BY <2>r DEF Shaped
    <3> HIDE DEF y
    <3>2. ReadSoFar(file[d], y)
      BY <2>i, <2>f, <2>g, <3>1 DEF ReadSoFar, NotFound
    <3>3. QED
      BY <2>i, <3>2, MovedText DEF y
  <2>t. ASSUME x.pc = "images", To(d, "text"), file' = file PROVE TextInv'
    <3>1. x.images = <<>> /\ <<>> \in Seq(ImagesOf(body, {}))
      BY <2>r, <2>t DEF ReadSoFar
    <3> DEFINE y == [x EXCEPT !.pc = "text"]
    <3>2. Shaped(y) /\ y.pc = "text" /\ y.code = x.code /\ y.images = <<>>
      BY <2>r, <3>1 DEF Shaped
    <3>3. Moves(d, y)
      BY <2>t DEF To
    <3> HIDE DEF y
    <3>4. ReadSoFar(file[d], y)
      BY <2>f, <2>g, <3>1, <3>2 DEF ReadSoFar, NotFound
    <3>5. QED
      BY <2>t, <3>3, <3>4, MovedText
  <2>3. CASE ExtractImages(d)
    <3>1. x.pc = "images" /\ file' = file
      BY <2>3 DEF ExtractImages
    <3>2. CASE To(d, "text")
      BY <3>1, <3>2, <2>t
    <3>3. EmbeddedIn[body] \in Seq(ImagesOf(body, {"xlsx"})) /\ WithSheetNumber(body, EmbeddedIn[body]) \in Seq(ImagesOf(body, {}))
      BY <2>b, <2>e, EmbeddedKeeps, WithSheetNumberKeeps
    <3>4. CASE Moves(d, [x EXCEPT !.pc = "text", !.images = WithSheetNumber(body, EmbeddedIn[body])])
      BY <2>i, <3>1, <3>3, <3>4
    <3>5. CASE Moves(d, [x EXCEPT !.pc = "render", !.images = EmbeddedIn[body]])
      <4> DEFINE y == [x EXCEPT !.pc = "render", !.images = EmbeddedIn[body]]
      <4>1. Shaped(y) /\ y.pc = "render" /\ y.code = x.code /\ y.images = EmbeddedIn[body]
        BY <2>r DEF Shaped
      <4> HIDE DEF y
      <4>2. ReadSoFar(file[d], y)
        BY <2>f, <2>g, <3>3, <4>1 DEF ReadSoFar, NotFound
      <4>3. QED
        BY <3>1, <3>5, <4>2, MovedText DEF y
    <3>6. QED
      BY <2>3, <3>2, <3>4, <3>5 DEF ExtractImages, body
  <2>4. CASE ImagesFail(d)
    BY <2>4, <2>t DEF ImagesFail
  <2>5. CASE AskOffice(d)
    BY <2>5, <1>0 DEF AskOffice, ownVars
  <2>6. CASE Rendered(d)
    <3>1. x.pc = "render" /\ file' = file /\ x.images \in Seq(ImagesOf(body, {"xlsx"}))
      BY <2>6, <2>r, <2>f DEF Rendered, ReadSoFar
    <3>2. WithVisuals(body, x.images) \in Seq(ImagesOf(body, {"xlsx"}))
      BY <2>b, <3>1, WithVisualsKeeps
    <3>3. /\ WithSheetNumber(body, x.images) \in Seq(ImagesOf(body, {}))
          /\ WithSheetNumber(body, WithVisuals(body, x.images)) \in Seq(ImagesOf(body, {}))
          /\ <<>> \in Seq(ImagesOf(body, {}))
      BY <3>1, <3>2, WithSheetNumberKeeps
    <3>4. PICK images \in {WithSheetNumber(body, x.images), WithSheetNumber(body, WithVisuals(body, x.images)), <<>>} :
             Moves(d, [x EXCEPT !.pc = "text", !.images = images])
      BY <2>6 DEF Rendered, body
    <3>5. QED
      BY <2>i, <3>1, <3>3, <3>4
  <2>7. CASE ReadText(d)
    <3>1. x.pc = "text" /\ file' = file /\ x.images \in Seq(ImagesOf(body, {}))
      BY <2>7, <2>r, <2>f DEF ReadText, ReadSoFar
    <3>2. CASE Fails(d, "INVALID_DOCUMENT")
      BY <3>1, <3>2, FailsLater DEF Fails, NotFound
    <3>3. CASE Fails(d, "DOCUMENT_TEXT_NOT_FOUND") /\ NoText(UnitsIn[body])
      BY <2>e, <3>1, <3>3, FailsLater DEF Fails, body
    <3>4. CASE /\ file[d].type = body.type
               /\ Moves(d, [x EXCEPT !.pc = "ocr",
                              !.units = IF NoText(UnitsIn[body]) THEN AnchorUnits(body, x.images) ELSE UnitsIn[body]])
      <4> DEFINE y == [x EXCEPT !.pc = "ocr",
                         !.units = IF NoText(UnitsIn[body]) THEN AnchorUnits(body, x.images) ELSE UnitsIn[body]]
      <4>1. Shaped(y) /\ y.pc = "ocr" /\ y.code = x.code /\ y.images = x.images /\ y.units = BaseUnits(body, x.images)
        BY <2>r, <2>e DEF Shaped, BaseUnits
      <4> HIDE DEF y
      <4>2. ReadSoFar(file[d], y)
        BY <2>f, <2>g, <3>1, <3>4, <4>1 DEF ReadSoFar, NotFound
      <4>3. QED
        BY <3>1, <3>4, <4>2, MovedText DEF y
    <3>5. QED
      BY <2>7, <3>2, <3>3, <3>4 DEF ReadText, body
  <2>8. CASE TextFails(d)
    BY <2>8, FailsLater, OtherErrors DEF TextFails, Fails
  <2>9. CASE \E c \in Calls : Recognise(d, c) \/ CancelTask(d, c)
    BY <2>9, <1>0 DEF Recognise, CancelTask, ownVars
  <2>10. CASE OcrTimeout(d)
    <3>1. x.pc = "ocr" /\ file' = file
      BY <2>10 DEF OcrTimeout
    <3>2. PICK late : Moves(d, [x EXCEPT !.late = late])
      BY <2>10 DEF OcrTimeout
    <3> DEFINE y == [x EXCEPT !.late = late]
    <3>3. Shaped(y) /\ y.pc = "ocr" /\ y.code = x.code /\ y.images = x.images /\ y.units = x.units
      BY <2>r, <3>1 DEF Shaped
    <3> HIDE DEF y
    <3>4. ReadSoFar(file[d], y)
      BY <2>r, <3>1, <3>3 DEF ReadSoFar
    <3>5. QED
      BY <3>1, <3>2, <3>4, MovedText DEF y
  <2>11. CASE OcrEnds(d)
    <3>1. x.pc = "ocr" /\ file' = file
      BY <2>11 DEF OcrEnds
    <3>2. file[d].type = body.type /\ x.images \in Seq(ImagesOf(body, {})) /\ x.units = BaseUnits(body, x.images)
      BY <3>1, <2>r, <2>f DEF ReadSoFar
    <3>3. PICK read :
            LET units == Merged(x.units, Recognized(body, x.images, read))
            IN \/ Fails(d, "INTERNAL_SERVER_ERROR")
               \/ NoText(units) /\ Fails(d, "DOCUMENT_TEXT_NOT_FOUND")
               \/ Moves(d, [x EXCEPT !.pc = "embed", !.images = <<>>, !.late = {}, !.units = Prepared(file[d].type, units)])
      BY <2>11 DEF OcrEnds, body
    <3> DEFINE units == Merged(x.units, Recognized(body, x.images, read))
    <3>4. CASE Fails(d, "INTERNAL_SERVER_ERROR")
      BY <3>1, <3>4, FailsLater DEF Fails, NotFound
    <3>5. CASE NoText(units) /\ Fails(d, "DOCUMENT_TEXT_NOT_FOUND")
      <4>1. NoText(TextUnits(body))
        BY <2>b, <3>2, <3>5, NoTextAfter
      <4>2. QED
        BY <3>1, <3>5, <4>1, FailsLater DEF Fails, body
    <3>6. CASE Moves(d, [x EXCEPT !.pc = "embed", !.images = <<>>, !.late = {}, !.units = Prepared(file[d].type, units)])
      <4> DEFINE y == [x EXCEPT !.pc = "embed", !.images = <<>>, !.late = {}, !.units = Prepared(file[d].type, units)]
      <4>1. Shaped(y) /\ y.pc = "embed" /\ y.code = x.code /\ y.units = Prepared(body.type, units)
        BY <2>r, <3>2 DEF Shaped
      <4> HIDE DEF y
      <4>2. \E images \in Seq(ImagesOf(body, {})) : \E r :
              y.units = Prepared(body.type, Merged(BaseUnits(body, images), Recognized(body, images, r)))
        BY <3>2, <4>1
      <4>3. ReadSoFar(file[d], y)
        BY <2>f, <2>g, <4>1, <4>2 DEF ReadSoFar, NotFound
      <4>4. QED
        BY <3>1, <3>6, <4>3, MovedText DEF y
    <3>7. QED
      BY <3>3, <3>4, <3>5, <3>6
  <2>l. ASSUME NEW pc \in {"index", "publish"}, To(d, pc), file' = file PROVE TextInv'
    <3> DEFINE y == [x EXCEPT !.pc = pc]
    <3>1. Shaped(y) /\ y.pc = pc /\ y.code = x.code
      BY <2>r DEF Shaped
    <3>2. Moves(d, y)
      BY <2>l DEF To
    <3> HIDE DEF y
    <3>3. QED
      BY <2>l, <3>1, <3>2, MovesLater DEF Later
  <2>12. CASE Embed(d)
    BY <2>12, <2>l, FailsLater, OtherErrors DEF Embed, Fails
  <2>13. CASE Index(d)
    BY <2>13, <2>l, FailsLater, OtherErrors DEF Index, Fails
  <2>14. CASE Publish(d)
    <3>1. x.pc = "publish" /\ file' = file
      BY <2>14 DEF Publish
    <3>2. ASSUME NEW code, code # NotFound, NEW sent, Ends(d, code, sent) PROVE TextInv'
      BY <3>1, <3>2, FailsLater
    <3>3. CASE Moves(d, [x EXCEPT !.tries = @ + 1, !.sent = Told(d)])
      <4> DEFINE y == [x EXCEPT !.tries = @ + 1, !.sent = Told(d)]
      <4>1. Shaped(y) /\ y.pc = "publish" /\ y.code = x.code
        BY <2>r, <3>1 DEF Shaped
      <4> HIDE DEF y
      <4>2. QED
        BY <3>1, <3>3, <4>1, MovesLater DEF Later, y
    <3>4. QED
      BY <2>14, <3>2, <3>3, OtherErrors DEF Publish, Fails, NotFound
  <2>15. QED
    BY <1>1, <2>1, <2>2, <2>3, <2>4, <2>5, <2>6, <2>7, <2>8, <2>9, <2>10, <2>11, <2>12, <2>13, <2>14
         DEF DocumentStep
<1>2. QED
  BY <1>0, <1>1 DEF Next, vars, ownVars

\* The run begins with nothing read of any document.
LEMMA TextStart == Init => TextInv
<1> SUFFICES ASSUME Init PROVE TextInv
  OBVIOUS
<1>1. file \in Cases /\ DOMAIN doc = Documents
  BY DEF Init
<1>2. ASSUME NEW d \in Documents PROVE ReadSoFar(file[d], doc[d])
  <2>1. Shaped(doc[d]) /\ doc[d].pc = "manifest" /\ doc[d].code = "none" /\ doc[d].images = <<>>
    BY DEF Init, Shaped
  <2>2. QED
    BY <2>1 DEF ReadSoFar
<1>3. QED
  BY <1>1, <1>2 DEF TextInv

\* No text of a document is lost on the way to its chunks, and no document with text is refused.
THEOREM TextAlwaysSurvives == Spec => []TextSurvives
<1>2. ASSUME TextInv PROVE TextSurvives
  <2> SUFFICES ASSUME NEW d \in Documents
               PROVE  /\ doc[d].pc = "embed" => Covered(Body(d), doc[d].units, Chunks(doc[d].units))
                      /\ doc[d].code = "DOCUMENT_TEXT_NOT_FOUND" =>
                           \A p \in Range(Body(d).parts) : p.kind \in TextKinds => p.size = 0
    BY DEF TextSurvives
  <2>1. IsBody(Body(d)) /\ ReadSoFar(file[d], doc[d])
    BY <1>2, BodiesAre DEF TextInv
  <2>2. ASSUME doc[d].pc = "embed" PROVE Covered(Body(d), doc[d].units, Chunks(doc[d].units))
    <3>1. PICK images \in Seq(ImagesOf(Body(d), {})) : \E read :
            doc[d].units = Prepared(Body(d).type, Merged(BaseUnits(Body(d), images), Recognized(Body(d), images, read)))
      BY <2>1, <2>2 DEF ReadSoFar, Body
    <3>2. QED
      BY <2>1, <3>1, EmbeddedCovered
  <2>3. ASSUME doc[d].code = "DOCUMENT_TEXT_NOT_FOUND", NEW p \in Range(Body(d).parts), p.kind \in TextKinds
        PROVE  p.size = 0
    <3>1. NoText(TextUnits(Body(d)))
      BY <2>1, <2>3 DEF ReadSoFar, Body
    <3>2. PICK i \in DOMAIN Body(d).parts : p = Body(d).parts[i]
      BY DEF Range
    <3>3. QED
      BY <2>1, <2>3, <3>1, <3>2, NoTextNone
  <2>4. QED
    BY <2>2, <2>3
<1>3. QED
  BY <1>2, TextStart, TextStep, PTL DEF Spec

-----------------------------------------------------------------------------
(* A chunk is cited where its content stands                                 *)

\* A unit with text comes from a part at the place it says, under the number it says, or from
\* a picture on a slide that was moved.
Placed(body, u) ==
  u.size > 0 => \E i \in u.of : /\ i \in DOMAIN body.parts
                                /\ OnMovedSlide(body, i) \/ (u.number = body.parts[i].at /\ u.at = body.parts[i].at)

NoTitle == [at |-> 0, size |-> 0]

\* A unit as it is before the headings are known.
Bare(body, u) == Placed(body, u) /\ u.title = NoTitle

\* A unit with text has a part.
LEMMA TextHasPart ==
  ASSUME NEW body, NEW of, SizeOf(body, of) > 0
  PROVE  of # {}
<1>1. SUFFICES ASSUME of = {} PROVE FALSE
  OBVIOUS
<1> DEFINE n == [i \in of |-> body.parts[i].size]
<1>2. DOMAIN n = {}
  BY <1>1
<1>3. SizeOf(body, of) = SumOver(n, DOMAIN n)
  BY SumOfOver DEF SizeOf
<1> HIDE DEF n
<1>4. SumOver(n, DOMAIN n) = 0
  BY <1>2, SumEmpty
<1>5. QED
  BY <1>3, <1>4

\* The units the parsers read say where they stand.
LEMMA TextUnitsPlaced ==
  ASSUME NEW body, IsBody(body), NEW u \in DOMAIN TextUnits(body)
  PROVE  Bare(body, TextUnits(body)[u])
<1> DEFINE units == TextUnits(body)
           of == Among(body, u, TextKinds)
<1>1. ASSUME NEW kind, units[u] = Unit(body, kind, u, u, SizeOf(body, of), of) PROVE Bare(body, units[u])
  <2>1. /\ units[u].size = SizeOf(body, of) /\ units[u].of = of /\ units[u].number = u /\ units[u].at = u
        /\ units[u].title = NoTitle
    BY <1>1 DEF Unit, NoTitle
  <2>2. \A i \in of : i \in DOMAIN body.parts /\ body.parts[i].at = u
    BY DEF Among
  <2> HIDE DEF units, of
  <2>3. units[u].size > 0 => of # {}
    BY <2>1, TextHasPart
  <2>4. QED
    BY <2>1, <2>2, <2>3 DEF Bare, Placed
<1>2. CASE body.type = "pdf"
  <2>1. u \in 1..body.places /\ units[u] = Unit(body, "text", u, u, SizeOf(body, of), of)
    BY <1>2 DEF TextUnits, PageUnit
  <2>2. QED
    BY <1>1, <2>1
<1>3. CASE body.type = "docx"
  <2>1. u \in 1..body.places
    BY <1>3 DEF TextUnits
  <2>2. \E kind : units[u] = Unit(body, kind, u, u, SizeOf(body, of), of)
    BY <1>3, <2>1 DEF TextUnits, BlockUnit
  <2>3. QED
    BY <1>1, <2>2
<1>4. CASE body.type \notin {"pdf", "docx"}
  <2> DEFINE I == {i \in DOMAIN body.parts : Kept(body, i)}
             s == [i \in DOMAIN body.parts |-> PartUnit(body, i)]
  <2>1. units = Chosen(s, I)
    BY <1>4 DEF TextUnits
  <2>2. I \subseteq DOMAIN body.parts
    OBVIOUS
  <2>3. \A i \in I : s[i] = PartUnit(body, i)
    OBVIOUS
  <2> HIDE DEF I, s
  <2>4. I \subseteq Nat /\ IsFiniteSet(I)
    BY <2>2, PartsFinite
  <2>5. ToSet(Chosen(s, I)) = {s[i] : i \in I}
    BY <2>4, ChosenIs
  <2>6. units[u] \in ToSet(units)
    BY DEF ToSet
  <2>7. PICK i \in I : units[u] = PartUnit(body, i)
    BY <2>1, <2>3, <2>5, <2>6
  <2>8. /\ units[u].number = body.parts[i].at /\ units[u].at = body.parts[i].at
        /\ units[u].of = {i} /\ units[u].title = NoTitle
    BY <2>7 DEF PartUnit, Unit, NoTitle
  <2> HIDE DEF units
  <2>9. Bare(body, units[u])
    BY <2>2, <2>8 DEF Bare, Placed
  <2>10. QED
    BY <2>9 DEF units
<1>5. QED
  BY <1>2, <1>3, <1>4

\* So do the units of what was read in the images.
LEMMA FoundPlaced ==
  ASSUME NEW body, NEW images \in Seq(ImagesOf(body, {})), NEW read,
         NEW found, found = Recognized(body, images, read), NEW u \in DOMAIN found
  PROVE  /\ Bare(body, found[u]) /\ found[u].kind = "ocr"
         /\ body.type # "pptx" => \E i \in DOMAIN body.parts : found[u].at = body.parts[i].at
         /\ found[u].section = Section(body, found[u].at)
<1> DEFINE T == {Unit(body, "ocr", images[k].at, images[k].number, OcrLength, images[k].of) : k \in DOMAIN images}
           U == {v \in T : AnyUnit(body, v)}
<1>1. found \in Seq(U)
  BY RecognizedUnits
<1> DEFINE V == T
<1>2. found[u] \in T
  <2>1. U \subseteq V
    OBVIOUS
  <2> HIDE DEF T, U, V
  <2>2. found[u] \in U
    BY <1>1
  <2>3. QED
    BY <2>1, <2>2 DEF V
<1>3. PICK k \in DOMAIN images : found[u] = Unit(body, "ocr", images[k].at, images[k].number, OcrLength, images[k].of)
  BY <1>2
<1>4. images[k] \in ImagesOf(body, {})
  OBVIOUS
<1>5. PICK i \in DOMAIN body.parts : \E at \in PlacesOf(body, i) : \E ocr \in BOOLEAN :
         images[k] = ImageOf(body, i, at, NumberOf(body, {}, at), ocr)
  BY <1>4, ImagesAre DEF IsImage
<1>6. PICK at \in PlacesOf(body, i), ocr \in BOOLEAN : images[k] = ImageOf(body, i, at, NumberOf(body, {}, at), ocr)
  BY <1>5
<1>7. at = body.parts[i].at \/ (body.type = "pptx" /\ OnMovedSlide(body, i))
  BY DEF PlacesOf, OnMovedSlide
<1>8. images[k].at = at /\ images[k].number = at /\ images[k].of = {i}
  BY <1>6 DEF ImageOf, NumberOf
<1>9. /\ found[u].at = at /\ found[u].number = at /\ found[u].of = {i} /\ found[u].title = NoTitle
      /\ found[u].kind = "ocr" /\ found[u].section = Section(body, at)
  BY <1>3, <1>8 DEF Unit, NoTitle
<1> HIDE DEF T, U, V
<1>10. QED
  BY <1>7, <1>9 DEF Bare, Placed

\* s has the first n of the units base in their order, and units found by OCR at the places of each.
InOrder(s, base, n) ==
  /\ Len(s) \in Nat \ {0} /\ DOMAIN s = 1..Len(s)
  /\ s[1] = base[1] /\ s[Len(s)].at = n
  /\ \A k \in 1..Len(s) : s[k].at \in 1..n
  /\ \A k \in 2..Len(s) : \/ s[k].at = s[k - 1].at /\ s[k].kind = "ocr"
                          \/ s[k].at = s[k - 1].at + 1 /\ s[k] = base[s[k].at]

\* All units of t are found by OCR at place n.
AllAt(t, n) == \A k \in 1..Len(t) : t[k].at = n /\ t[k].kind = "ocr"

\* A sequence of one put before another.
LEMMA OneBefore ==
  ASSUME NEW U, NEW b \in Seq(U), Len(b) = 1, NEW t \in Seq(U)
  PROVE  /\ b \o t \in Seq(U) /\ Len(b \o t) = 1 + Len(t) /\ Len(t) \in Nat
         /\ \A k \in 1..(1 + Len(t)) : (b \o t)[k] = IF k <= 1 THEN b[k] ELSE t[k - 1]
<1>1. Len(t) \in Nat
  BY LenProperties
<1>2. /\ b \o t \in Seq(U)
      /\ Len(b \o t) = Len(b) + Len(t)
      /\ \A k \in 1..Len(b) + Len(t) : (b \o t)[k] = IF k <= Len(b) THEN b[k] ELSE t[k - Len(b)]
  BY ConcatProperties, ZenonT(30)
<1>3. QED
  BY <1>1, <1>2

\* The first unit with what is found at its place is in order.
LEMMA FirstInOrder ==
  ASSUME NEW U, NEW base, base[1] \in U, base[1].at = 1, NEW t \in Seq(U), AllAt(t, 1)
  PROVE  InOrder(<<base[1]>> \o t, base, 1)
<1> DEFINE b == <<base[1]>>
           r == b \o t
           m == Len(t)
<1>1. b \in Seq(U) /\ Len(b) = 1 /\ b[1] = base[1]
  OBVIOUS
<1> HIDE DEF b
<1>2. /\ r \in Seq(U) /\ Len(r) = 1 + m /\ m \in Nat
      /\ \A k \in 1..(1 + m) : r[k] = IF k <= 1 THEN b[k] ELSE t[k - 1]
  BY <1>1, OneBefore
<1> HIDE DEF m
<1>3. DOMAIN r = 1..Len(r)
  BY <1>2
<1> HIDE DEF r
<1>4. 1 \in 1..(1 + m) /\ r[1] = base[1]
  BY <1>1, <1>2
<1>5. ASSUME NEW k \in 2..Len(r) PROVE r[k].at = 1 /\ r[k].kind = "ocr"
  <2>1. k \in 1..(1 + m) /\ ~ (k <= 1) /\ k - 1 \in 1..m
    BY <1>2
  <2>2. r[k] = t[k - 1]
    BY <1>2, <2>1
  <2>3. QED
    BY <2>1, <2>2 DEF AllAt, m
<1>6. ASSUME NEW k \in 1..Len(r) PROVE r[k].at = 1
  <2>1. k = 1 \/ k \in 2..Len(r)
    BY <1>2
  <2>2. QED
    BY <1>4, <1>5, <2>1
<1>7. ASSUME NEW k \in 2..Len(r) PROVE r[k - 1].at = 1
  <2>1. k - 1 \in 1..Len(r)
    BY <1>2
  <2>2. QED
    BY <1>6, <2>1
<1>8. Len(r) \in 1..Len(r)
  BY <1>2
<1>9. InOrder(r, base, 1)
  BY <1>2, <1>3, <1>4, <1>5, <1>6, <1>7, <1>8 DEF InOrder
<1>10. QED
  BY <1>9 DEF r, b

\* And so is each that follows.
LEMMA NextInOrder ==
  ASSUME NEW U, NEW n \in Nat \ {0}, NEW base, base[n + 1] \in U, base[n + 1].at = n + 1,
         NEW s \in Seq(U), InOrder(s, base, n), NEW t \in Seq(U), AllAt(t, n + 1)
  PROVE  InOrder(s \o (<<base[n + 1]>> \o t), base, n + 1)
<1> DEFINE b == <<base[n + 1]>>
           q == b \o t
           r == s \o q
           l == Len(s)
           m == Len(t)
<1>1. b \in Seq(U) /\ Len(b) = 1 /\ b[1] = base[n + 1]
  OBVIOUS
<1> HIDE DEF b
<1>2. /\ q \in Seq(U) /\ Len(q) = 1 + m /\ m \in Nat
      /\ \A k \in 1..(1 + m) : q[k] = IF k <= 1 THEN b[k] ELSE t[k - 1]
  BY <1>1, OneBefore
<1> HIDE DEF q, m
<1>3. /\ r \in Seq(U) /\ Len(r) = l + (1 + m) /\ l \in Nat \ {0}
      /\ \A k \in 1..(l + (1 + m)) : r[k] = IF k <= l THEN s[k] ELSE q[k - l]
  <2>1. l \in Nat \ {0}
    BY DEF InOrder
  <2>2. /\ s \o q \in Seq(U) /\ Len(s \o q) = Len(s) + Len(q)
        /\ \A k \in 1..(Len(s) + Len(q)) : (s \o q)[k] = IF k <= Len(s) THEN s[k] ELSE q[k - Len(s)]
    BY <1>2, ConcatProperties
  <2>3. QED
    BY <1>2, <2>1, <2>2
<1>a. DOMAIN r = 1..Len(r)
  BY <1>3
<1> HIDE DEF r, l
<1>4. \A k \in 1..l : k \in 1..Len(r) /\ r[k] = s[k]
  BY <1>2, <1>3
<1>5. l + 1 \in 1..Len(r) /\ r[l + 1] = base[n + 1]
  <2>1. l + 1 \in 1..(l + (1 + m)) /\ ~ (l + 1 <= l) /\ (l + 1) - l = 1 /\ 1 \in 1..(1 + m)
    BY <1>2, <1>3
  <2>2. r[l + 1] = q[1] /\ q[1] = b[1]
    BY <1>2, <1>3, <2>1
  <2>3. QED
    BY <1>1, <1>3, <2>1, <2>2
<1>6. ASSUME NEW k \in (l + 2)..Len(r) PROVE r[k].at = n + 1 /\ r[k].kind = "ocr"
  <2>1. /\ k \in 1..(l + (1 + m)) /\ ~ (k <= l) /\ k - l \in 1..(1 + m) /\ ~ (k - l <= 1)
        /\ (k - l) - 1 \in 1..m
    BY <1>2, <1>3
  <2>2. r[k] = q[k - l] /\ q[k - l] = t[(k - l) - 1]
    BY <1>2, <1>3, <2>1
  <2>3. QED
    BY <2>1, <2>2 DEF AllAt, m
<1>7. /\ s[1] = base[1] /\ s[l].at = n
      /\ \A k \in 1..l : s[k].at \in 1..n
      /\ \A k \in 2..l : \/ s[k].at = s[k - 1].at /\ s[k].kind = "ocr"
                         \/ s[k].at = s[k - 1].at + 1 /\ s[k] = base[s[k].at]
  BY DEF InOrder, l
<1>8. \A k \in 1..Len(r) : k \in 1..l \/ k = l + 1 \/ k \in (l + 2)..Len(r)
  BY <1>2, <1>3
<1>9. ASSUME NEW k \in 1..Len(r) PROVE r[k].at \in 1..(n + 1) /\ (k > l => r[k].at = n + 1)
  <2>1. CASE k \in 1..l
    <3>1. r[k].at \in 1..n
      BY <1>4, <1>7, <2>1
    <3>2. ~ (k > l)
      BY <1>3, <2>1
    <3>3. QED
      BY <3>1, <3>2
  <2>2. CASE k = l + 1
    BY <1>5, <2>2
  <2>3. CASE k \in (l + 2)..Len(r)
    <3>1. r[k].at = n + 1
      BY <1>6, <2>3
    <3>2. QED
      BY <3>1
  <2>4. QED
    BY <1>8, <2>1, <2>2, <2>3
<1>10. ASSUME NEW k \in 2..Len(r)
       PROVE  \/ r[k].at = r[k - 1].at /\ r[k].kind = "ocr"
              \/ r[k].at = r[k - 1].at + 1 /\ r[k] = base[r[k].at]
  <2>1. CASE k \in 1..l
    <3>1. k \in 2..l /\ k - 1 \in 1..l
      BY <1>3, <2>1
    <3>2. r[k] = s[k] /\ r[k - 1] = s[k - 1]
      BY <1>4, <3>1
    <3>3. QED
      BY <1>7, <3>1, <3>2
  <2>2. CASE k = l + 1
    <3>1. k - 1 = l /\ l \in 1..l
      BY <1>3, <2>2
    <3>2. r[k - 1] = s[l]
      BY <1>4, <3>1
    <3>3. r[k] = base[n + 1] /\ r[k].at = n + 1
      BY <1>5, <2>2
    <3>4. QED
      BY <1>7, <3>2, <3>3
  <2>3. CASE k \in (l + 2)..Len(r)
    <3>1. k - 1 \in 1..Len(r) /\ k - 1 > l
      BY <1>3, <2>3
    <3>2. r[k - 1].at = n + 1
      BY <1>9, <3>1
    <3>3. QED
      BY <1>6, <2>3, <3>2
  <2>4. k \in 1..Len(r)
    BY <1>3
  <2>5. QED
    BY <1>8, <2>1, <2>2, <2>3, <2>4
<1>11. r[1] = base[1]
  <2>1. 1 \in 1..l
    BY <1>3
  <2>2. QED
    BY <1>4, <1>7, <2>1
<1>12. Len(r) \in Nat \ {0} /\ r[Len(r)].at = n + 1
  <2>1. Len(r) \in 1..Len(r) /\ Len(r) > l /\ Len(r) \in Nat \ {0}
    BY <1>2, <1>3
  <2>2. QED
    BY <1>9, <2>1
<1>13. InOrder(r, base, n + 1)
  BY <1>a, <1>9, <1>10, <1>11, <1>12 DEF InOrder
<1>14. QED
  BY <1>13 DEF r, q, b

\* Units that OCR finds at the places of others are put behind them, in order.
LEMMA MergedInOrder ==
  ASSUME NEW U, NEW base \in Seq(U), base # <<>>, \A i \in 1..Len(base) : base[i].at = i,
         NEW found \in Seq(U),
         \A k \in 1..Len(found) : found[k].at \in 1..Len(base) /\ found[k].kind = "ocr"
  PROVE  InOrder(Merged(base, found), base, Len(base))
<1> DEFINE n == Len(base)
           m == Len(found)
           At(at) == Chosen(found, {k \in DOMAIN found : found[k].at = at})
           last(i) == \A j \in DOMAIN base : base[j].at = base[i].at => j <= i
           homeless(i) == /\ \A j \in DOMAIN base : base[j].at # found[i].at
                          /\ \A j \in 1..(i - 1) : found[j].at # found[i].at
           ss == [i \in DOMAIN base |-> <<base[i]>> \o IF last(i) THEN At(base[i].at) ELSE <<>>]
           tt == [i \in DOMAIN found |-> IF homeless(i) THEN At(found[i].at) ELSE <<>>]
<1>1. /\ n \in Nat \ {0} /\ m \in Nat /\ DOMAIN base = 1..n /\ DOMAIN found = 1..m
      /\ \A i \in 1..n : base[i] \in U /\ base[i].at = i
      /\ \A k \in 1..m : found[k] \in U /\ found[k].at \in 1..n /\ found[k].kind = "ocr"
  OBVIOUS
<1>2. Merged(base, found) = FlattenSeq(ss) \o FlattenSeq(tt)
  BY DEF Merged
<1>3. ASSUME NEW at PROVE At(at) \in Seq(U) /\ AllAt(At(at), at)
  <2> DEFINE I == {k \in DOMAIN found : found[k].at = at}
             V == {v \in U : v.at = at /\ v.kind = "ocr"}
             t == Chosen(found, I)
  <2>1. I \subseteq 1..m /\ \A k \in I : found[k] \in V
    BY <1>1
  <2> HIDE DEF I
  <2>2. I \subseteq Nat /\ IsFiniteSet(I)
    BY <1>1, <2>1, PositionsFinite
  <2>v. V \subseteq U /\ \A v \in V : v.at = at /\ v.kind = "ocr"
    OBVIOUS
  <2> HIDE DEF V
  <2>3. t \in Seq(V)
    BY <2>1, <2>2, ChosenSeq
  <2> HIDE DEF t
  <2>4. t \in Seq(U) /\ \A k \in 1..Len(t) : t[k] \in V
    BY <2>3, <2>v
  <2>5. AllAt(t, at)
    BY <2>4, <2>v DEF AllAt
  <2>6. QED
    BY <2>4, <2>5 DEF t, I
<1>4. \A i \in 1..n : last(i)
  BY <1>1
<1>5. \A i \in 1..m : ~ homeless(i)
  BY <1>1
<1>6. \A i \in 1..n : ss[i] = <<base[i]>> \o At(i)
  BY <1>1, <1>4
<1>7. DOMAIN ss = 1..n /\ ss = [i \in 1..n |-> ss[i]]
  BY <1>1
<1>8. tt = [i \in 1..m |-> <<>>]
  BY <1>1, <1>5
<1> HIDE DEF At, ss, tt, n, m
<1>9. FlattenSeq(tt) = <<>>
  <2> DEFINE g == FlattenSeq(tt)
  <2>1. tt \in Seq(Seq(U)) /\ Len(tt) = m
    BY <1>1, <1>8
  <2>2. g \in Seq(U) /\ Joins(g, tt, m)
    BY <2>1, FlattenJoins
  <2> HIDE DEF g
  <2>3. \A i \in 1..m : 1..Len(tt[i]) = {}
    BY <1>8
  <2>4. ~ \E c \in 1..Len(g) : TRUE
    BY <2>2, <2>3 DEF Joins
  <2>5. Len(g) = 0
    <3>1. Len(g) \in Nat
      BY <2>2
    <3>2. QED
      BY <2>4, <3>1
  <2>6. g = <<>>
    BY <2>2, <2>5
  <2>7. QED
    BY <2>6 DEF g
<1>10. \A i \in 1..n : ss[i] \in Seq(U)
  <2> SUFFICES ASSUME NEW i \in 1..n PROVE ss[i] \in Seq(U)
    OBVIOUS
  <2>1. <<base[i]>> \in Seq(U) /\ At(i) \in Seq(U)
    BY <1>1, <1>3
  <2>2. Len(<<base[i]>>) = 1
    OBVIOUS
  <2>3. <<base[i]>> \o At(i) \in Seq(U)
    BY <2>1, <2>2, OneBefore
  <2>4. QED
    BY <1>6, <2>3
<1>11. ss \in Seq(Seq(U)) /\ Len(ss) = n /\ ss # <<>>
  <2>1. ss \in [1..n -> Seq(U)]
    BY <1>7, <1>10
  <2>2. QED
    BY <1>1, <2>1
<1>12. PICK f : IsFlat(f, ss, n) /\ FlattenSeq(ss) = f[n]
  BY <1>11, FlattenFound
<1> DEFINE P == {i \in 0..n : i = 0 \/ (f[i] \in Seq(U) /\ InOrder(f[i], base, i))}
<1>13. 0 \in P
  BY <1>1
<1>14. ASSUME NEW i \in 1..n, i - 1 \in P PROVE i \in P
  <2>1. /\ base[i] \in U /\ base[i].at = i /\ At(i) \in Seq(U) /\ AllAt(At(i), i)
        /\ ss[i] = <<base[i]>> \o At(i) /\ ss[i] \in Seq(U)
    BY <1>1, <1>3, <1>6, <1>10
  <2>2. CASE i = 1
    <3>1. f[i] = ss[1]
      BY <1>1, <1>12, <2>2 DEF IsFlat
    <3>2. InOrder(<<base[1]>> \o At(1), base, 1)
      BY <2>1, <2>2, FirstInOrder
    <3>3. f[i] = ss[i] /\ ss[i] = <<base[1]>> \o At(1)
      BY <2>1, <2>2, <3>1
    <3>4. f[i] \in Seq(U)
      BY <2>1, <3>3
    <3>5. InOrder(f[i], base, i)
      BY <2>2, <3>2, <3>3
    <3>6. QED
      BY <1>1, <3>4, <3>5
  <2>3. CASE i # 1
    <3> DEFINE j == i - 1
    <3>1. j \in Nat \ {0} /\ j + 1 = i /\ i \in Nat
      BY <1>1, <2>3
    <3>2. f[j] \in Seq(U) /\ InOrder(f[j], base, j)
      BY <1>14, <3>1
    <3>3. f[i] = f[j] \o ss[i]
      BY <1>12, <2>3 DEF IsFlat
    <3> HIDE DEF j
    <3>4. f[i] \in Seq(U)
      BY <2>1, <3>2, <3>3, ConcatProperties
    <3>5. /\ base[j + 1] \in U /\ base[j + 1].at = j + 1 /\ At(j + 1) \in Seq(U) /\ AllAt(At(j + 1), j + 1)
      BY <2>1, <3>1
    <3>6. InOrder(f[j] \o (<<base[j + 1]>> \o At(j + 1)), base, j + 1)
      BY <3>1, <3>2, <3>5, NextInOrder
    <3>7. InOrder(f[i], base, i)
      BY <2>1, <3>1, <3>3, <3>6
    <3>8. QED
      BY <3>4, <3>7
  <2>4. QED
    BY <2>2, <2>3
<1> HIDE DEF P
<1>15. \A i \in 0..n : i \in P
  BY <1>1, <1>13, <1>14, Steps
<1>16. f[n] \in Seq(U) /\ InOrder(f[n], base, n)
  <2>1. n \in P
    BY <1>1, <1>15
  <2>2. QED
    BY <1>1, <2>1 DEF P
<1>17. Merged(base, found) = f[n]
  <2>1. f[n] \o <<>> = f[n]
    BY <1>16
  <2>2. QED
    BY <1>2, <1>9, <1>12, <2>1
<1>18. QED
  BY <1>16, <1>17 DEF n

\* The headings a reader may find above a place.
Heads(body, at) ==
  {i \in DOMAIN body.parts : /\ body.parts[i].kind = "heading" /\ body.parts[i].size > 0
                             /\ body.parts[i].at <= at
                             /\ Section(body, body.parts[i].at) = Section(body, at)}
NoHeading(body, at) ==
  \A i \in DOMAIN body.parts : ~ (body.parts[i].kind = "heading" /\ body.parts[i].size > 0 /\ body.parts[i].at = at)

\* HeadingAbove is the last of them.
LEMMA HeadsAbove ==
  ASSUME NEW body, NEW at
  PROVE  HeadingAbove(body, at) = IF body.type # "docx" \/ Heads(body, at) = {} THEN 0
                                  ELSE Max({body.parts[i].at : i \in Heads(body, at)})
BY DEF HeadingAbove, Heads

\* Sections are numbered in the order of the places.
LEMMA SectionsGrow ==
  ASSUME NEW body, IsBody(body), NEW a \in Nat, NEW b \in Nat, a <= b
  PROVE  Section(body, a) \in Nat \ {0} /\ Section(body, b) \in Nat /\ Section(body, a) <= Section(body, b)
<1> DEFINE Closed(at) == {i \in DOMAIN body.parts : body.parts[i].at < at /\ body.parts[i].ends}
           A == Closed(a)
           B == Closed(b)
<1>1. A \subseteq B /\ B \subseteq DOMAIN body.parts
  BY DEF IsBody
<1>2. Section(body, a) = 1 + Cardinality(A) /\ Section(body, b) = 1 + Cardinality(B)
  BY DEF Section
<1> HIDE DEF A, B
<1>3. IsFiniteSet(B)
  BY <1>1, PartsFinite
<1>4. IsFiniteSet(A) /\ Cardinality(A) <= Cardinality(B)
  BY <1>1, <1>3, FS_Subset
<1>5. Cardinality(A) \in Nat /\ Cardinality(B) \in Nat
  BY <1>3, <1>4, FS_CardinalityType
<1>6. QED
  BY <1>2, <1>4, <1>5

\* Above a heading is nothing but itself.
LEMMA HeadingHere ==
  ASSUME NEW body, IsBody(body), body.type = "docx", NEW i \in DOMAIN body.parts,
         body.parts[i].kind = "heading", body.parts[i].size > 0
  PROVE  HeadingAbove(body, body.parts[i].at) = body.parts[i].at
<1> DEFINE at == body.parts[i].at
           S == {body.parts[j].at : j \in Heads(body, at)}
<1>1. at \in Nat /\ i \in Heads(body, at)
  BY DEF IsBody, Heads
<1>2. S \subseteq 0..at
  BY DEF IsBody, Heads
<1>3. at \in S /\ HeadingAbove(body, at) = Max(S)
  BY <1>1, HeadsAbove
<1> HIDE DEF S, at
<1>4. Max(S) \in S /\ Max(S) >= at
  BY <1>1, <1>2, <1>3, Greatest
<1>5. Max(S) \in 0..at
  BY <1>2, <1>4
<1>6. Max(S) = at
  BY <1>1, <1>4, <1>5
<1>7. QED
  BY <1>3, <1>6 DEF at

\* A place that is none has the heading of the place before, unless a section begins with it.
LEMMA HeadingNext ==
  ASSUME NEW body, IsBody(body), body.type = "docx", NEW at \in Nat, NoHeading(body, at + 1)
  PROVE  /\ Section(body, at) = Section(body, at + 1) => HeadingAbove(body, at + 1) = HeadingAbove(body, at)
         /\ at = 0 \/ Section(body, at) # Section(body, at + 1) => HeadingAbove(body, at + 1) = 0
<1>1. \A i \in DOMAIN body.parts : body.parts[i].at \in Nat \ {0}
  BY DEF IsBody
<1>2. \A i \in Heads(body, at + 1) : body.parts[i].at <= at
  BY <1>1 DEF Heads, NoHeading
<1>3. ASSUME Section(body, at) = Section(body, at + 1)
      PROVE  Heads(body, at + 1) = Heads(body, at)
  <2>1. \A i \in Heads(body, at + 1) : i \in Heads(body, at)
    BY <1>2, <1>3 DEF Heads
  <2>2. \A i \in Heads(body, at) : i \in Heads(body, at + 1)
    BY <1>1, <1>3 DEF Heads
  <2>3. QED
    BY <2>1, <2>2
<1>4. ASSUME at = 0 \/ Section(body, at) # Section(body, at + 1)
      PROVE  Heads(body, at + 1) = {}
  <2>1. SUFFICES ASSUME NEW i \in Heads(body, at + 1) PROVE FALSE
    OBVIOUS
  <2> DEFINE a == body.parts[i].at
  <2>2. a \in Nat \ {0} /\ a <= at /\ Section(body, a) = Section(body, at + 1)
    BY <1>1, <1>2 DEF Heads
  <2> HIDE DEF a
  <2>3. Section(body, a) <= Section(body, at) /\ Section(body, at) <= Section(body, at + 1)
    BY <2>2, SectionsGrow
  <2>4. Section(body, a) \in Nat /\ Section(body, at) \in Nat /\ Section(body, at + 1) \in Nat
    BY <2>2, SectionsGrow
  <2>5. QED
    BY <1>4, <2>2, <2>3, <2>4
<1>5. QED
  BY <1>3, <1>4, HeadsAbove

Start == [section |-> 0, title |-> NoTitle]

\* The titles of a DOCX are those of a recursion over its units.
IsTitled(h, units) ==
  /\ h[0] = Start
  /\ \A k \in 1..Len(units) : h[k] = TitleAfter(h[k - 1], units[k])
  /\ Prepared("docx", units) = [k \in DOMAIN units |-> [units[k] EXCEPT !.title = h[k].title]]

\* What _DocxStructureStrategy gives the units are the titles of such headings.
LEMMA TitlesFound ==
  ASSUME NEW units, Len(units) \in Nat, DOMAIN units = 1..Len(units),
         \A k \in 1..Len(units) : units[k].section \in Nat /\ units[k].size \in Nat
  PROVE  \E h : IsTitled(h, units)
<1> DEFINE n == Len(units)
           A == {0} \cup {units[k].at : k \in 1..n}
           D == [section : Nat, title : [at : A, size : Nat]]
           Is(h) == h = [k \in 0..n |-> IF k = 0 THEN [section |-> 0, title |-> [at |-> 0, size |-> 0]]
                                        ELSE TitleAfter(h[k - 1], units[k])]
           step == [x \in D \X (1..n) |-> TitleAfter(x[1], units[x[2]])]
<1>1. \A x \in D : \A k \in 1..n : TitleAfter(x, units[k]) \in D
  <2> SUFFICES ASSUME NEW x \in D, NEW k \in 1..n PROVE TitleAfter(x, units[k]) \in D
    OBVIOUS
  <2>1. units[k].section \in Nat /\ [at |-> units[k].at, size |-> units[k].size] \in [at : A, size : Nat]
    OBVIOUS
  <2>2. QED
    BY <2>1 DEF TitleAfter
<1>2. Start \in D
  BY DEF Start, NoTitle
<1>3. \E h : Is(h)
  <2>1. step \in [D \X (1..n) -> D]
    <3> HIDE DEF D, n
    <3>1. QED
      BY <1>1
  <2>2. PICK f \in [0..n -> D] : f[0] = Start /\ \A k \in 1..n : f[k] = step[<<f[k - 1], k>>]
    <3> HIDE DEF D, n, step
    <3>1. Recursive(D, n, Start, step)
      BY <1>2, <2>1, Recursion DEF n
    <3>2. QED
      BY <3>1 DEF Recursive
  <2>3. ASSUME NEW k \in 1..n PROVE f[k] = TitleAfter(f[k - 1], units[k])
    <3>1. k - 1 \in 0..n
      OBVIOUS
    <3>2. f[k - 1] \in D
      BY <2>2, <3>1
    <3> HIDE DEF D, n
    <3>3. <<f[k - 1], k>> \in D \X (1..n)
      BY <3>2
    <3>4. QED
      BY <2>2, <3>3
  <2>4. \A k \in 0..n : k = 0 \/ k \in 1..n
    OBVIOUS
  <2> HIDE DEF n, D, step
  <2> DEFINE g == [k \in 0..n |-> IF k = 0 THEN [section |-> 0, title |-> [at |-> 0, size |-> 0]]
                                  ELSE TitleAfter(f[k - 1], units[k])]
  <2>5. \A k \in 0..n : f[k] = g[k]
    BY <2>2, <2>3, <2>4 DEF Start, NoTitle
  <2>6. f = g
    BY <2>2, <2>5
  <2>7. QED
    BY <2>6
<1> DEFINE h == CHOOSE f : Is(f)
<1>4. Is(h)
  <2> HIDE DEF Is
  <2>1. QED
    BY <1>3
<1>5. Prepared("docx", units) = [k \in DOMAIN units |-> [units[k] EXCEPT !.title = h[k].title]]
  BY DEF Prepared
<1> HIDE DEF h
<1>6. \A k \in 0..n : h[k] = IF k = 0 THEN [section |-> 0, title |-> [at |-> 0, size |-> 0]]
                             ELSE TitleAfter(h[k - 1], units[k])
  BY <1>4
<1>7. 0 \in 0..n /\ \A k \in 1..n : k \in 0..n /\ k # 0
  OBVIOUS
<1> HIDE DEF n
<1>8. h[0] = Start /\ \A k \in 1..n : h[k] = TitleAfter(h[k - 1], units[k])
  BY <1>6, <1>7 DEF Start, NoTitle
<1>9. QED
  BY <1>5, <1>8 DEF IsTitled, n

\* A title is that of a heading, or none.
IsTitle(body, title) ==
  \/ title = NoTitle
  \/ \E i \in DOMAIN body.parts : /\ body.parts[i].kind = "heading"
                                  /\ title.at = body.parts[i].at /\ title.size = body.parts[i].size

\* The title is that of the heading a reader finds.
TitleOf(body, x, at) == x.title.at = HeadingAbove(body, at) /\ IsTitle(body, x.title)

\* A unit of a block has its place, its section and, if it has text and a heading, its title.
LEMMA BlocksAre ==
  ASSUME NEW body, IsBody(body), HeadingsAlone(body), body.type = "docx", NEW at \in 1..body.places,
         NEW u, u = BlockUnit(body, at)
  PROVE  /\ u.at = at /\ u.section = Section(body, at) /\ u.size \in Nat
         /\ u.kind = "heading" /\ u.size > 0 =>
              HeadingAbove(body, at) = at /\ IsTitle(body, [at |-> at, size |-> u.size])
         /\ ~ (u.kind = "heading" /\ u.size > 0) => NoHeading(body, at)
<1> DEFINE of == Among(body, at, TextKinds)
           kind == IF Among(body, at, {"heading"}) = {} THEN "text" ELSE "heading"
<1>1. u.at = at /\ u.section = Section(body, at) /\ u.size = SizeOf(body, of) /\ u.kind = kind
  BY DEF BlockUnit, Unit
<1>2. of \subseteq DOMAIN body.parts
  BY DEF Among
<1>3. \A i \in Among(body, at, {"heading"}) : /\ i \in DOMAIN body.parts /\ body.parts[i].kind = "heading"
                                              /\ body.parts[i].at = at
                                              /\ of = {i}
  BY DEF Among, HeadingsAlone
<1>4. \A i \in DOMAIN body.parts : body.parts[i].kind = "heading" /\ body.parts[i].at = at => i \in Among(body, at, {"heading"})
  BY DEF Among
<1> HIDE DEF of
<1>5. u.size \in Nat
  BY <1>1, <1>2, SizeOfParts
<1>6. \A i \in Among(body, at, {"heading"}) : u.size = body.parts[i].size
  BY <1>1, <1>2, <1>3, SizeOfParts
<1>7. ASSUME u.kind = "heading", u.size > 0
      PROVE  HeadingAbove(body, at) = at /\ IsTitle(body, [at |-> at, size |-> u.size])
  <2>1. PICK i \in Among(body, at, {"heading"}) : TRUE
    BY <1>1, <1>7
  <2>2. /\ i \in DOMAIN body.parts /\ body.parts[i].kind = "heading" /\ body.parts[i].at = at
        /\ body.parts[i].size = u.size
    BY <1>3, <1>6
  <2>3. HeadingAbove(body, body.parts[i].at) = body.parts[i].at
    BY <1>7, <2>2, HeadingHere
  <2>4. IsTitle(body, [at |-> at, size |-> u.size])
    BY <2>2 DEF IsTitle
  <2>5. QED
    BY <2>2, <2>3, <2>4
<1>8. ASSUME ~ (u.kind = "heading" /\ u.size > 0) PROVE NoHeading(body, at)
  <2>1. SUFFICES ASSUME NEW i \in DOMAIN body.parts, body.parts[i].kind = "heading", body.parts[i].size > 0,
                        body.parts[i].at = at
                 PROVE  FALSE
    BY DEF NoHeading
  <2>2. i \in Among(body, at, {"heading"})
    BY <1>4, <2>1
  <2>3. u.kind = "heading" /\ u.size = body.parts[i].size
    BY <1>1, <1>6, <2>2
  <2>4. QED
    BY <1>8, <2>1, <2>3
<1>9. QED
  BY <1>1, <1>5, <1>7, <1>8

\* In particular its place.
LEMMA BlockPlace ==
  ASSUME NEW body, IsBody(body), HeadingsAlone(body), body.type = "docx", NEW at \in 1..body.places
  PROVE  BlockUnit(body, at).at = at
  BY ZenonT(30), BlocksAre

\* In order, each unit has the title of the heading above it.
LEMMA TitlesInOrder ==
  ASSUME NEW body, IsBody(body), HeadingsAlone(body), body.type = "docx",
         NEW base, base = TextUnits(body), NEW units, InOrder(units, base, body.places),
         \A k \in 1..Len(units) : units[k].section = Section(body, units[k].at) /\ units[k].size \in Nat,
         NEW h, IsTitled(h, units)
  PROVE  \A k \in 1..Len(units) : TitleOf(body, h[k], units[k].at)
<1> DEFINE n == Len(units)
           Good(k) == h[k].section = Section(body, units[k].at) /\ TitleOf(body, h[k], units[k].at)
           P == {k \in 0..n : k = 0 \/ Good(k)}
<1>1. /\ n \in Nat \ {0} /\ units[1] = base[1]
      /\ \A k \in 1..n : units[k].at \in 1..body.places
      /\ \A k \in 2..n : \/ units[k].at = units[k - 1].at /\ units[k].kind = "ocr"
                         \/ units[k].at = units[k - 1].at + 1 /\ units[k] = base[units[k].at]
  BY DEF InOrder
<1>2. \A at \in 1..body.places : base[at] = BlockUnit(body, at)
  BY DEF TextUnits
<1>3. h[0] = Start /\ \A k \in 1..n : h[k] = TitleAfter(h[k - 1], units[k])
  BY DEF IsTitled
<1>4. body.places \in Nat
  BY DEF IsBody
<1> HIDE DEF n
<1>5. ASSUME NEW k \in 1..n, NEW before \in Nat, units[k].at = before + 1, units[k] = BlockUnit(body, before + 1),
             IsTitle(body, h[k - 1].title),
             before = 0 => h[k - 1].section = 0,
             before # 0 => /\ h[k - 1].section = Section(body, before)
                           /\ h[k - 1].title.at = HeadingAbove(body, before)
      PROVE  Good(k)
  <2> DEFINE u == units[k]
             at == before + 1
  <2>1. at \in 1..body.places /\ u.at = at
    BY <1>1, <1>5
  <2>2. /\ u.section = Section(body, at) /\ u.size \in Nat
        /\ u.kind = "heading" /\ u.size > 0 =>
             HeadingAbove(body, at) = at /\ IsTitle(body, [at |-> at, size |-> u.size])
        /\ ~ (u.kind = "heading" /\ u.size > 0) => NoHeading(body, at)
    BY <1>5, <2>1, BlocksAre
  <2>3. h[k] = TitleAfter(h[k - 1], u)
    BY <1>3
  <2> HIDE DEF u
  <2>4. h[k].section = u.section
    BY <2>3 DEF TitleAfter
  <2>5. CASE u.kind = "heading" /\ u.size > 0
    <3>1. h[k].title = [at |-> u.at, size |-> u.size]
      BY <2>3, <2>5 DEF TitleAfter
    <3>2. QED
      BY <2>1, <2>2, <2>4, <2>5, <3>1 DEF TitleOf, u
  <2>6. CASE ~ (u.kind = "heading" /\ u.size > 0)
    <3>1. /\ Section(body, before) = Section(body, at) => HeadingAbove(body, at) = HeadingAbove(body, before)
          /\ before = 0 \/ Section(body, before) # Section(body, at) => HeadingAbove(body, at) = 0
      BY <2>2, <2>6, HeadingNext
    <3>2. CASE u.section # h[k - 1].section
      <4>1. h[k].title = NoTitle
        BY <2>3, <2>6, <3>2 DEF TitleAfter, NoTitle
      <4>2. before = 0 \/ Section(body, before) # Section(body, at)
        BY <1>5, <2>2, <3>2
      <4>3. HeadingAbove(body, at) = 0
        BY <3>1, <4>2
      <4>4. QED
        BY <2>1, <2>2, <2>4, <4>1, <4>3 DEF TitleOf, IsTitle, NoTitle, u
    <3>3. CASE u.section = h[k - 1].section
      <4>1. h[k].title = h[k - 1].title
        BY <2>3, <2>6, <3>3 DEF TitleAfter
      <4>2. Section(body, at) \in Nat \ {0}
        BY <2>1, <1>4, SectionsGrow
      <4>3. before # 0 /\ Section(body, before) = Section(body, at)
        BY <1>5, <2>2, <3>3, <4>2
      <4>4. h[k].title.at = HeadingAbove(body, at)
        BY <1>5, <3>1, <4>1, <4>3
      <4>5. QED
        BY <1>5, <2>1, <2>2, <2>4, <4>1, <4>4 DEF TitleOf, u
    <3>4. QED
      BY <3>2, <3>3
  <2>7. QED
    BY <2>5, <2>6
<1>6. ASSUME NEW k \in 1..n, k - 1 \in P PROVE k \in P
  <2>1. CASE k = 1
    <3>1. 1 \in 1..body.places
      BY <1>1, <1>4
    <3>2. units[k] = BlockUnit(body, 0 + 1)
      BY <1>1, <1>2, <2>1, <3>1
    <3>3. units[k].at = 0 + 1
      BY <3>1, <3>2, BlockPlace
    <3>4. h[k - 1] = Start
      BY <1>3, <2>1
    <3>5. IsTitle(body, h[k - 1].title) /\ h[k - 1].section = 0
      BY <3>4 DEF Start, IsTitle
    <3>6. Good(k)
      BY <1>5, <3>2, <3>3, <3>5
    <3>7. QED
      BY <1>1, <3>6
  <2>2. CASE k # 1
    <3> DEFINE before == units[k - 1].at
    <3>1. k \in 2..n /\ k - 1 \in 1..n /\ k - 1 # 0
      BY <1>1, <2>2
    <3>2. before \in 1..body.places /\ units[k].at \in 1..body.places
      BY <1>1, <3>1
    <3>3. /\ h[k - 1].section = Section(body, before) /\ h[k - 1].title.at = HeadingAbove(body, before)
          /\ IsTitle(body, h[k - 1].title)
      BY <1>6, <3>1 DEF TitleOf
    <3>4. CASE units[k].at = before + 1 /\ units[k] = base[units[k].at]
      <4>1. units[k] = BlockUnit(body, before + 1)
        BY <1>2, <3>2, <3>4
      <4>2. before \in Nat /\ before # 0
        BY <1>4, <3>2
      <4> HIDE DEF before
      <4>3. Good(k)
        BY <1>5, <3>3, <3>4, <4>1, <4>2
      <4>4. QED
        BY <1>1, <4>3
    <3>5. CASE units[k].at = before /\ units[k].kind = "ocr"
      <4>1. h[k] = TitleAfter(h[k - 1], units[k])
        BY <1>3
      <4>2. units[k].section = Section(body, before) /\ units[k].kind # "heading"
        BY <3>5 DEF n
      <4> HIDE DEF before
      <4>3. h[k].section = Section(body, before) /\ h[k].title = h[k - 1].title
        BY <3>3, <4>1, <4>2 DEF TitleAfter
      <4>4. Good(k)
        BY <3>3, <3>5, <4>3 DEF TitleOf
      <4>5. QED
        BY <1>1, <4>4
    <3>6. QED
      BY <1>1, <3>1, <3>4, <3>5
  <2>3. QED
    BY <2>1, <2>2
<1>7. 0 \in P
  BY <1>1
<1> HIDE DEF P
<1>8. \A k \in 0..n : k \in P
  BY <1>1, <1>6, <1>7, Steps
<1>9. ASSUME NEW k \in 1..n PROVE TitleOf(body, h[k], units[k].at)
  <2>1. k \in 0..n /\ k # 0
    BY <1>1
  <2>2. k \in P
    BY <1>8, <2>1
  <2>3. QED
    BY <2>1, <2>2 DEF P
<1>10. QED
  BY <1>9 DEF n

\* The units of a document are those of the text, or of its images, and those OCR has found.
LEMMA UnitsAre ==
  ASSUME NEW body, IsBody(body), NEW images \in Seq(ImagesOf(body, {})), NEW read,
         NEW base, base = BaseUnits(body, images), NEW found, found = Recognized(body, images, read),
         NEW U, U = {base[i] : i \in DOMAIN base} \cup {found[i] : i \in DOMAIN found}
  PROVE  base \in Seq(U) /\ found \in Seq(U) /\ Merged(base, found) \in Seq(U)
<1>1. base = [i \in DOMAIN base |-> base[i]] /\ \E n \in Nat : DOMAIN base = 1..n
  <2>1. CASE NoText(TextUnits(body))
    <3> DEFINE V == Anchors(body, images)
    <3>1. base \in Seq(V)
      BY <2>1, AnchorUnitsAre DEF BaseUnits
    <3> HIDE DEF V
    <3>2. QED
      BY <3>1
  <2>2. CASE ~ NoText(TextUnits(body))
    <3>1. base = TextUnits(body)
      BY <2>2 DEF BaseUnits
    <3>2. TextIn(body, base)
      BY <3>1, TextUnitsHaveText
    <3>3. QED
      BY <3>2 DEF TextIn, InRow
  <2>3. QED
    BY <2>1, <2>2
<1>2. found = [i \in DOMAIN found |-> found[i]] /\ \E n \in Nat : DOMAIN found = 1..n
  <2> DEFINE V == {u \in {Unit(body, "ocr", images[k].at, images[k].number, OcrLength, images[k].of) : k \in DOMAIN images} :
                   AnyUnit(body, u)}
  <2>1. found \in Seq(V)
    BY RecognizedUnits
  <2> HIDE DEF V
  <2>2. QED
    BY <2>1
<1>3. base \in Seq(U)
  <2>1. PICK n \in Nat : DOMAIN base = 1..n
    BY <1>1
  <2>2. \A i \in 1..n : base[i] \in U
    BY <2>1
  <2>3. base \in [1..n -> U]
    BY <1>1, <2>1, <2>2
  <2>4. QED
    BY <2>1, <2>3
<1>4. found \in Seq(U)
  <2>1. PICK n \in Nat : DOMAIN found = 1..n
    BY <1>2
  <2>2. \A i \in 1..n : found[i] \in U
    BY <2>1
  <2>3. found \in [1..n -> U]
    BY <1>2, <2>1, <2>2
  <2>4. QED
    BY <2>1, <2>3
<1>5. QED
  BY <1>3, <1>4, MergedKeeps

\* An empty unit of an image says nothing and is no heading.
LEMMA AnchorsBare ==
  ASSUME NEW body, IsBody(body), NEW images \in Seq(ImagesOf(body, {})), NEW base, base = AnchorUnits(body, images),
         NEW i \in DOMAIN base
  PROVE  Bare(body, base[i]) /\ base[i].kind = "anchor"
<1>1. base \in Seq(Anchors(body, images))
  BY AnchorUnitsAre
<1>2. base[i] \in Anchors(body, images)
  BY <1>1
<1>3. \E at : \E number : base[i] = Unit(body, "anchor", at, number, 0, {})
  BY <1>2 DEF Anchors
<1>4. base[i].size = 0 /\ base[i].title = NoTitle /\ base[i].kind = "anchor"
  BY <1>3 DEF Unit, NoTitle
<1>5. QED
  BY <1>4 DEF Bare, Placed

\* No unit has a title before the headings are known, and each with text says where it stands.
LEMMA MergedBare ==
  ASSUME NEW body, IsBody(body), NEW images \in Seq(ImagesOf(body, {})), NEW read,
         NEW base, base = BaseUnits(body, images), NEW found, found = Recognized(body, images, read),
         NEW units, units = Merged(base, found), NEW k \in DOMAIN units
  PROVE  /\ Bare(body, units[k])
         /\ NoText(TextUnits(body)) => units[k].kind # "heading"
         /\ (\E i \in DOMAIN base : units[k] = base[i]) \/ (\E i \in DOMAIN found : units[k] = found[i])
<1> DEFINE U == {base[i] : i \in DOMAIN base} \cup {found[i] : i \in DOMAIN found}
<1>1. units \in Seq(U)
  BY UnitsAre
<1>2. units[k] \in U
  <2> HIDE DEF U
  <2>1. QED
    BY <1>1
<1>3. (\E i \in DOMAIN base : units[k] = base[i]) \/ (\E i \in DOMAIN found : units[k] = found[i])
  BY <1>2
<1> HIDE DEF U
<1>4. ASSUME NEW i \in DOMAIN found PROVE Bare(body, found[i]) /\ found[i].kind # "heading"
  <2>1. Bare(body, found[i]) /\ found[i].kind = "ocr"
    BY FoundPlaced
  <2>2. QED
    BY <2>1
<1>5. ASSUME NEW i \in DOMAIN base
      PROVE  Bare(body, base[i]) /\ (NoText(TextUnits(body)) => base[i].kind # "heading")
  <2>1. CASE NoText(TextUnits(body))
    <3>1. base = AnchorUnits(body, images)
      BY <2>1 DEF BaseUnits
    <3>2. Bare(body, base[i]) /\ base[i].kind = "anchor"
      BY <3>1, AnchorsBare
    <3>3. QED
      BY <3>2
  <2>2. CASE ~ NoText(TextUnits(body))
    <3>1. base = TextUnits(body)
      BY <2>2 DEF BaseUnits
    <3>2. QED
      BY <2>2, <3>1, TextUnitsPlaced
  <2>3. QED
    BY <2>1, <2>2
<1>6. QED
  BY <1>3, <1>4, <1>5

\* Without text there is no heading and no title.
LEMMA NoTitles ==
  ASSUME NEW units, Len(units) \in Nat, \A k \in 1..Len(units) : units[k].kind # "heading", NEW h, IsTitled(h, units)
  PROVE  \A k \in 1..Len(units) : h[k].title = NoTitle
<1> DEFINE n == Len(units)
           P == {k \in 0..n : h[k].title = NoTitle}
<1>1. h[0].title = NoTitle
  BY DEF IsTitled, Start
<1>2. \A k \in 1..n : h[k] = TitleAfter(h[k - 1], units[k])
  BY DEF IsTitled
<1> HIDE DEF n
<1>n. n \in Nat
  BY DEF n
<1>3. 0 \in P
  BY <1>1, <1>n
<1>4. ASSUME NEW k \in 1..n, k - 1 \in P PROVE k \in P
  <2>1. h[k - 1].title = NoTitle /\ units[k].kind # "heading" /\ k \in 0..n
    BY <1>4, <1>n DEF n
  <2> DEFINE x == h[k - 1]
             u == units[k]
  <2>2. h[k] = TitleAfter(x, u) /\ x.title = NoTitle /\ u.kind # "heading"
    BY <1>2, <2>1
  <2> HIDE DEF x, u
  <2>3. TitleAfter(x, u).title = IF u.section # x.section THEN NoTitle ELSE x.title
    BY <2>2 DEF TitleAfter, NoTitle
  <2>4. h[k].title = NoTitle
    BY <2>2, <2>3
  <2>5. QED
    BY <2>1, <2>4
<1> HIDE DEF P
<1>5. \A k \in 0..n : k \in P
  BY <1>3, <1>4, <1>n, Steps
<1>6. ASSUME NEW k \in 1..n PROVE h[k].title = NoTitle
  <2>1. k \in P
    BY <1>5, <1>n
  <2>2. QED
    BY <2>1 DEF P
<1>7. QED
  BY <1>6 DEF n

\* Titles are the only thing that changes, and each is that of the heading above the unit.
Titled(body, new, old) ==
  /\ DOMAIN new = DOMAIN old
  /\ \A k \in DOMAIN old : /\ new[k].size = old[k].size /\ new[k].of = old[k].of
                           /\ new[k].number = old[k].number /\ new[k].at = old[k].at
                           /\ TitleOf(body, new[k], old[k].at)

\* What a unit of a body says of its section and its text.
LEMMA UnitFields ==
  ASSUME NEW body, IsBody(body), NEW u, AnyUnit(body, u), NEW title
  PROVE  /\ u.section = Section(body, u.at) /\ u.section \in Nat /\ u.size \in Nat
         /\ LET v == [u EXCEPT !.title = title]
            IN v.title = title /\ v.size = u.size /\ v.of = u.of /\ v.number = u.number /\ v.at = u.at
<1>1. PICK kind, at, number, size, of : u = Unit(body, kind, at, number, size, of) /\ size \in Nat
  BY DEF AnyUnit
<1>2. u.section = Section(body, u.at) /\ u.size \in Nat
  BY <1>1 DEF Unit
<1>3. Section(body, u.at) \in Nat
  <2> DEFINE E == {i \in DOMAIN body.parts : body.parts[i].at < u.at /\ body.parts[i].ends}
  <2>1. Section(body, u.at) = 1 + Cardinality(E)
    BY DEF Section
  <2>2. E \subseteq DOMAIN body.parts
    OBVIOUS
  <2> HIDE DEF E
  <2>3. Cardinality(E) \in Nat
    BY <2>2, PartsFinite, FS_CardinalityType
  <2>4. QED
    BY <2>1, <2>3
<1>4. LET v == [u EXCEPT !.title = title]
      IN v.title = title /\ v.size = u.size /\ v.of = u.of /\ v.number = u.number /\ v.at = u.at
  BY <1>1 DEF Unit
<1>5. QED
  BY <1>2, <1>3, <1>4

\* The blocks of a DOCX get the titles a reader finds, also those OCR has found.
LEMMA DocxTitled ==
  ASSUME NEW body, IsBody(body), HeadingsAlone(body), body.type = "docx", NEW images \in Seq(ImagesOf(body, {})), NEW read,
         NEW base, base = BaseUnits(body, images), NEW found, found = Recognized(body, images, read),
         NEW units, units = Merged(base, found)
  PROVE  Titled(body, Prepared("docx", units), units)
<1> DEFINE U == {base[i] : i \in DOMAIN base} \cup {found[i] : i \in DOMAIN found}
           n == Len(units)
<1>1. base \in Seq(U) /\ found \in Seq(U) /\ units \in Seq(U)
  BY UnitsAre
<1> HIDE DEF U
<1>2. n \in Nat /\ DOMAIN units = 1..n
  BY <1>1
<1>3. \A k \in DOMAIN units : AnyUnit(body, units[k])
  BY MergedUnits
<1>4. \A k \in 1..n : /\ units[k].section = Section(body, units[k].at)
                      /\ units[k].section \in Nat /\ units[k].size \in Nat
  BY <1>2, <1>3, UnitFields
<1>5. PICK h : IsTitled(h, units)
  BY <1>2, <1>4, TitlesFound
<1>6. \A k \in 1..n : TitleOf(body, h[k], units[k].at)
  <2>1. CASE NoText(TextUnits(body))
    <3>1. \A k \in 1..n : units[k].kind # "heading"
      BY <1>2, <2>1, MergedBare
    <3>2. \A k \in 1..n : h[k].title = NoTitle
      BY <1>2, <1>5, <3>1, NoTitles
    <3>3. \A i \in DOMAIN body.parts : body.parts[i].kind = "heading" => body.parts[i].size = 0
      BY <2>1, NoTextNone DEF TextKinds
    <3>4. \A at : Heads(body, at) = {}
      BY <3>3 DEF Heads
    <3>5. \A at : HeadingAbove(body, at) = 0
      BY <3>4, HeadsAbove
    <3>6. QED
      BY <3>2, <3>5 DEF TitleOf, IsTitle, NoTitle
  <2>2. CASE ~ NoText(TextUnits(body))
    <3>1. base = TextUnits(body)
      BY <2>2 DEF BaseUnits
    <3>2. DOMAIN base = 1..body.places /\ \A at \in 1..body.places : base[at] = BlockUnit(body, at)
      BY <3>1 DEF TextUnits
    <3>3. body.places \in Nat /\ Len(base) = body.places
      BY <1>1, <3>2 DEF IsBody
    <3>4. base # <<>>
      <4>1. \E i \in DOMAIN base : TRUE
        BY <2>2, <3>1 DEF NoText
      <4>2. 1..body.places # {}
        BY <3>2, <4>1
      <4>3. QED
        BY <3>3, <4>2
    <3>5. \A i \in 1..Len(base) : base[i].at = i
      BY <3>2, <3>3, BlockPlace
    <3>6. \A k \in 1..Len(found) : found[k].at \in 1..Len(base) /\ found[k].kind = "ocr"
      <4> SUFFICES ASSUME NEW k \in 1..Len(found) PROVE found[k].at \in 1..Len(base) /\ found[k].kind = "ocr"
        OBVIOUS
      <4>1. k \in DOMAIN found
        BY <1>1
      <4>2. found[k].kind = "ocr" /\ \E i \in DOMAIN body.parts : found[k].at = body.parts[i].at
        BY <4>1, FoundPlaced
      <4>3. QED
        BY <3>3, <4>2 DEF IsBody
    <3>7. InOrder(units, base, body.places)
      <4>1. InOrder(Merged(base, found), base, Len(base))
        BY <1>1, <3>4, <3>5, <3>6, MergedInOrder, ZenonT(60)
      <4>2. QED
        BY <3>3, <4>1
    <3>8. QED
      BY <1>4, <1>5, <3>1, <3>7, TitlesInOrder
  <2>3. QED
    BY <2>1, <2>2
<1> DEFINE new == Prepared("docx", units)
<1>7. new = [k \in DOMAIN units |-> [units[k] EXCEPT !.title = h[k].title]]
  BY <1>5 DEF IsTitled
<1> HIDE DEF new
<1>8. ASSUME NEW k \in DOMAIN units
      PROVE  /\ new[k].size = units[k].size /\ new[k].of = units[k].of
             /\ new[k].number = units[k].number /\ new[k].at = units[k].at
             /\ TitleOf(body, new[k], units[k].at)
  <2>1. new[k] = [units[k] EXCEPT !.title = h[k].title]
    BY <1>7
  <2>2. /\ new[k].title = h[k].title /\ new[k].size = units[k].size /\ new[k].of = units[k].of
        /\ new[k].number = units[k].number /\ new[k].at = units[k].at
    BY <1>3, <2>1, UnitFields
  <2>3. TitleOf(body, h[k], units[k].at)
    BY <1>2, <1>6
  <2>4. QED
    BY <2>2, <2>3 DEF TitleOf
<1>9. DOMAIN new = DOMAIN units
  BY <1>7
<1>10. QED
  BY <1>8, <1>9 DEF Titled, new

\* A chunk is that of a slice of a unit.
LEMMA ChunkHasSlice ==
  ASSUME NEW units, NEW n, InRow(units, n)
  PROVE  \A c \in DOMAIN Chunks(units) : \E i \in 1..n : \E k \in 1..Len(Slices(units[i].size)) :
           Chunks(units)[c] = ChunkOf(units, i, Slices(units[i].size)[k])
  BY ChunksAre

\* A chunk is cited where its content stands, or comes from a picture on a slide that was moved.
CitedIn(body, units, chunk) ==
  /\ \/ CitesItsPlaceIn(body, units, chunk)
     \/ \E i \in units[chunk.unit].of : OnMovedSlide(body, i)
  /\ Citable(chunk) \/ RefusedForHeading(body, chunk)

LEMMA EmbeddedCited ==
  ASSUME NEW body, IsBody(body), HeadingsAlone(body), NEW images \in Seq(ImagesOf(body, {})), NEW read, NEW units,
         units = Prepared(body.type, Merged(BaseUnits(body, images), Recognized(body, images, read)))
  PROVE  \A chunk \in Range(Chunks(units)) : CitedIn(body, units, chunk)
<1> DEFINE base == BaseUnits(body, images)
           found == Recognized(body, images, read)
           merged == Merged(base, found)
<1>1. \E n : InRow(merged, n)
  BY MergedUnits
<1>2. \A k \in DOMAIN merged : Bare(body, merged[k])
  BY MergedBare
<1>3. units = Prepared(body.type, merged)
  OBVIOUS
<1>4. body.type = "docx" => Titled(body, Prepared("docx", merged), merged)
  BY DocxTitled
<1> HIDE DEF base, found, merged
<1>5. Titled(body, units, merged)
  <2>1. CASE body.type = "docx"
    BY <1>3, <1>4, <2>1
  <2>2. CASE body.type # "docx"
    <3>1. units = merged
      BY <1>3, <2>2 DEF Prepared
    <3>2. \A at : HeadingAbove(body, at) = 0
      BY <2>2, HeadsAbove
    <3>3. \A k \in DOMAIN merged : merged[k].title = NoTitle
      BY <1>2 DEF Bare
    <3>4. \A k \in DOMAIN merged : TitleOf(body, merged[k], merged[k].at)
      BY <3>2, <3>3 DEF TitleOf, IsTitle, NoTitle
    <3>5. QED
      BY <3>1, <3>4 DEF Titled
  <2>3. QED
    BY <2>1, <2>2
<1>6. PICK n : InRow(merged, n)
  BY <1>1
<1>7. InRow(units, n)
  BY <1>5, <1>6 DEF InRow, Titled
<1>r. \A c \in DOMAIN Chunks(units) : \E i \in 1..n : \E k \in 1..Len(Slices(units[i].size)) :
        Chunks(units)[c] = ChunkOf(units, i, Slices(units[i].size)[k])
  BY <1>7, ChunkHasSlice
<1>8. SUFFICES ASSUME NEW c \in DOMAIN Chunks(units)
               PROVE  CitedIn(body, units, Chunks(units)[c])
  BY DEF Range
<1>9. PICK i \in 1..n :
        \E k \in 1..Len(Slices(units[i].size)) : Chunks(units)[c] = ChunkOf(units, i, Slices(units[i].size)[k])
  BY <1>r
<1> DEFINE chunk == Chunks(units)[c]
           u == units[i]
<1>10. chunk.unit = i /\ chunk.number = u.number /\ chunk.at = u.at /\ chunk.title = u.title
  BY <1>9 DEF ChunkOf
<1>11. u.size \in Nat /\ u.size > 0
  <2>1. u.size \in Nat
    BY <1>7 DEF InRow
  <2>2. u.size = 0 => Slices(u.size) = <<>>
    BY DEF Slices
  <2>3. u.size = 0 => 1..Len(Slices(u.size)) = {}
    BY <2>2
  <2>4. u.size # 0
    BY <1>9, <2>3
  <2>5. QED
    BY <2>1, <2>4
<1> HIDE DEF chunk, u
<1>12. /\ i \in DOMAIN merged
       /\ u.size = merged[i].size /\ u.of = merged[i].of /\ u.number = merged[i].number /\ u.at = merged[i].at
       /\ TitleOf(body, u, merged[i].at)
  BY <1>5, <1>6 DEF InRow, Titled, u
<1>13. PICK j \in u.of : /\ j \in DOMAIN body.parts
                         /\ OnMovedSlide(body, j) \/ (u.number = body.parts[j].at /\ u.at = body.parts[j].at)
  BY <1>2, <1>11, <1>12 DEF Bare, Placed
<1>14. units[chunk.unit].of = u.of
  BY <1>10 DEF u
<1>15. ASSUME ~ OnMovedSlide(body, j)
       PROVE  CitesItsPlaceIn(body, units, chunk)
  <2>1. u.number = body.parts[j].at /\ u.at = body.parts[j].at /\ body.parts[j].at \in Nat \ {0}
    BY <1>13, <1>15 DEF IsBody
  <2>2. CitedPlace(chunk) = body.parts[j].at
    BY <1>10, <2>1 DEF CitedPlace
  <2>3. chunk.title.at = HeadingAbove(body, body.parts[j].at)
    BY <1>10, <1>12, <2>1 DEF TitleOf
  <2>4. QED
    BY <1>13, <1>14, <2>2, <2>3 DEF CitesItsPlaceIn
<1>16. Citable(chunk) \/ RefusedForHeading(body, chunk)
  <2>1. IsTitle(body, chunk.title)
    BY <1>10, <1>12 DEF TitleOf
  <2>2. CASE chunk.title = NoTitle
    <3>1. chunk.title.size = 0 /\ MaxTitle \in Nat
      BY <2>2, TextConstants DEF NoTitle
    <3>2. QED
      BY <3>1 DEF Citable
  <2>3. CASE chunk.title # NoTitle
    <3>1. PICK p \in DOMAIN body.parts : /\ body.parts[p].kind = "heading"
                                        /\ chunk.title.at = body.parts[p].at /\ chunk.title.size = body.parts[p].size
      BY <2>1, <2>3 DEF IsTitle
    <3>2. body.parts[p].size \in Nat /\ MaxTitle \in Nat
      BY TextConstants DEF IsBody
    <3>3. chunk.title.size <= MaxTitle \/ body.parts[p].size > MaxTitle
      BY <3>1, <3>2
    <3>4. QED
      BY <3>1, <3>3 DEF Citable, RefusedForHeading
  <2>4. QED
    BY <2>2, <2>3
<1>17. QED
  BY <1>13, <1>14, <1>15, <1>16 DEF CitedIn, chunk

(* Whatever a document is and whatever OCR and Office add, a chunk is cited as the page, slide, *)
(* sheet, block or line its content stands on and under the heading a reader finds there,       *)
(* unless it was read in a picture on a slide that was moved; and it is refused only for a      *)
(* heading that is too long (_merge_units, _DocxStructureStrategy, build_source_locator).       *)
THEOREM AlwaysCitesUnlessMoved == Spec => []CitesUnlessMoved
<1>1. ASSUME TextInv PROVE CitesUnlessMoved
  <2> SUFFICES ASSUME NEW d \in Documents, doc[d].pc = "embed"
               PROVE  \A chunk \in Range(Chunks(doc[d].units)) : CitedIn(Body(d), doc[d].units, chunk)
    BY DEF CitesUnlessMoved, CitedIn
  <2> DEFINE body == Body(d)
  <2>1. IsBody(body) /\ HeadingsAlone(body) /\ body = file[d].response.body
    BY <1>1, BodiesAre DEF TextInv, Body
  <2> HIDE DEF body
  <2>2. PICK images \in Seq(ImagesOf(body, {})) : \E read :
           doc[d].units = Prepared(body.type, Merged(BaseUnits(body, images), Recognized(body, images, read)))
    BY <1>1, <2>1 DEF TextInv, ReadSoFar
  <2>3. PICK read : doc[d].units = Prepared(body.type, Merged(BaseUnits(body, images), Recognized(body, images, read)))
    BY <2>2
  <2>4. \A chunk \in Range(Chunks(doc[d].units)) : CitedIn(body, doc[d].units, chunk)
    BY <2>1, <2>3, EmbeddedCited
  <2>5. QED
    BY <2>4 DEF body
<1>2. QED
  BY <1>1, TextStart, TextStep, PTL DEF Spec

=============================================================================
