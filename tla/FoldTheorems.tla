---------------------------- MODULE FoldTheorems ----------------------------
(***************************************************************************)
(* What the proofs of several components need of natural numbers, finite   *)
(* sets and folds.  Induction is stated with a set in place of a           *)
(* predicate.                                                              *)
(***************************************************************************)
EXTENDS Integers, Sequences, FiniteSets, FiniteSetsExt, SequencesExt, Totals,
        FiniteSetTheorems, WellFoundedInduction, TLAPS

\* A set of natural numbers that is not empty has a least element.
LEMMA Minimum ==
    ASSUME NEW S, S \subseteq Nat, S # {}
    PROVE  \E n \in S : \A m \in S : n <= m
<1>1. PICK n \in S : \A m \in S : ~ (<<m, n>> \in OpToRel(<, Nat))
  BY WFMin, NatLessThanWellFounded, Zenon
<1>2. \A m \in S : ~ (m < n)
  BY <1>1 DEF OpToRel
<1> QED
  BY <1>2

\* A set that holds 0 and with each number its successor holds every number.
LEMMA Induction ==
    ASSUME NEW N, 0 \in N, \A n \in Nat : n \in N => n + 1 \in N
    PROVE  \A n \in Nat : n \in N
<1>1. SUFFICES ASSUME Nat \ N # {} PROVE FALSE
  OBVIOUS
<1>2. PICK n \in Nat \ N : \A m \in Nat \ N : n <= m
  BY <1>1, Minimum
<1>3. n # 0 /\ n - 1 \in Nat /\ n - 1 \in N
  BY <1>2
<1> QED
  BY <1>2, <1>3

\* A family of subsets of a finite set that holds the empty set, and each set with
\* what is left of it without any one element, holds every subset.
LEMMA SubsetInduction ==
    ASSUME NEW S, IsFiniteSet(S), NEW Q, {} \in Q,
           \A s \in SUBSET S : s # {} /\ (\A x \in s : s \ {x} \in Q) => s \in Q
    PROVE  \A s \in SUBSET S : s \in Q
<1>1. SUFFICES ASSUME NEW t \in SUBSET S, t \notin Q PROVE FALSE
  OBVIOUS
<1> DEFINE Bad == {n \in Nat : \E s \in SUBSET S : s \notin Q /\ Cardinality(s) = n}
<1>2. \A s \in SUBSET S : IsFiniteSet(s) /\ Cardinality(s) \in Nat
  BY FS_Subset, FS_CardinalityType
<1>3. Bad # {} /\ Bad \subseteq Nat
  BY <1>1, <1>2
<1>4. PICK n \in Bad : \A m \in Bad : n <= m
  <2> HIDE DEF Bad
  <2> QED
    BY <1>3, Minimum
<1>5. PICK s \in SUBSET S : s \notin Q /\ Cardinality(s) = n
  BY <1>4
<1>6. PICK x \in s : s \ {x} \notin Q
  BY <1>5
<1>7. s \ {x} \in SUBSET S /\ s \ {x} \notin Q /\ Cardinality(s \ {x}) = n - 1
  BY <1>2, <1>5, <1>6, FS_RemoveElement
<1>8. n - 1 \in Bad
  BY <1>2, <1>7
<1> QED
  <2> HIDE DEF Bad
  <2> QED
    BY <1>3, <1>4, <1>8

\* g folds the subsets of S: it takes an element out of the set, folds the rest and
\* adds the element.
IsFold(g, S, base, F, pick) ==
    g = [s \in SUBSET S |-> IF s = {} THEN base ELSE F[pick[s]][g[s \ {pick[s]}]]]

\* The element pick[s] is taken out of s; F adds an element to a value in V.
Foldable(S, V, base, F, pick) ==
    /\ IsFiniteSet(S)
    /\ base \in V /\ F \in [S -> [V -> V]]
    /\ \A s \in SUBSET S : s # {} => pick[s] \in s

\* A fold over a finite set has a value.
LEMMA FoldExists ==
    ASSUME NEW S, NEW V, NEW base, NEW F, NEW pick, Foldable(S, V, base, F, pick)
    PROVE  \E g \in [SUBSET S -> V] : IsFold(g, S, base, F, pick)
<1> USE DEF Foldable
<1> DEFINE Sub(n) == {s \in SUBSET S : Cardinality(s) <= n}
           Folds(g, D) == g = [s \in D |-> IF s = {} THEN base
                                           ELSE F[pick[s]][g[s \ {pick[s]}]]]
           N == {n \in Nat : \E g \in [Sub(n) -> V] : Folds(g, Sub(n))}
<1>1. \A s \in SUBSET S : IsFiniteSet(s) /\ Cardinality(s) \in Nat
  BY FS_Subset, FS_CardinalityType
<1>2. \A s \in SUBSET S : s # {} => /\ s \ {pick[s]} \in SUBSET S
                                    /\ Cardinality(s \ {pick[s]}) = Cardinality(s) - 1
  BY <1>1, FS_RemoveElement
<1>3. 0 \in N
  <2>1. \A s \in SUBSET S : s \in Sub(0) <=> s = {}
    BY <1>1, FS_EmptySet
  <2>2. [s \in Sub(0) |-> base] \in [Sub(0) -> V]
    OBVIOUS
  <2>3. Folds([s \in Sub(0) |-> base], Sub(0))
    BY <2>1
  <2> QED
    BY <2>2, <2>3
<1>4. ASSUME NEW n \in Nat, n \in N PROVE n + 1 \in N
  <2>1. PICK g \in [Sub(n) -> V] : Folds(g, Sub(n))
    BY <1>4
  <2> DEFINE h == [s \in Sub(n + 1) |-> IF s = {} THEN base
                                        ELSE F[pick[s]][g[s \ {pick[s]}]]]
  <2>2. \A s \in Sub(n + 1) : s # {} => s \ {pick[s]} \in Sub(n) /\ pick[s] \in S
    BY <1>1, <1>2
  <2>3. h \in [Sub(n + 1) -> V]
    <3>1. \A s \in Sub(n + 1) : s # {} => F[pick[s]][g[s \ {pick[s]}]] \in V
      BY <2>2
    <3> QED
      BY <3>1
  <2>4. \A s \in Sub(n) : s \in Sub(n + 1) /\ h[s] = g[s]
    <3>1. Sub(n) \subseteq Sub(n + 1)
      BY <1>1
    <3>2. \A s \in Sub(n) : g[s] = IF s = {} THEN base ELSE F[pick[s]][g[s \ {pick[s]}]]
      BY <2>1
    <3> QED
      BY <3>1, <3>2
  <2>5. \A s \in Sub(n + 1) : s # {} => h[s \ {pick[s]}] = g[s \ {pick[s]}]
    BY <2>2, <2>4
  <2>6. Folds(h, Sub(n + 1))
    <3> HIDE DEF Sub
    <3> QED
      BY <2>5
  <2> HIDE DEF Sub, Folds, h
  <2> QED
    BY <2>3, <2>6
<1>5. Cardinality(S) \in N
  <2> HIDE DEF N
  <2> QED
    BY <1>1, <1>3, <1>4, Induction
<1>6. Sub(Cardinality(S)) = SUBSET S
  BY FS_Subset
<1>7. PICK g \in [SUBSET S -> V] : Folds(g, SUBSET S)
  <2> HIDE DEF Sub, Folds
  <2>1. PICK g \in [Sub(Cardinality(S)) -> V] : Folds(g, Sub(Cardinality(S)))
    BY <1>5
  <2>2. g \in [SUBSET S -> V]
    BY <1>6, <2>1
  <2>3. Folds(g, SUBSET S)
    BY <1>6, <2>1
  <2> QED
    BY <2>2, <2>3
<1> WITNESS g \in [SUBSET S -> V]
<1> QED
  BY <1>7, Zenon DEF IsFold

----------------------------------------------------------------------------
(* Sums over a sequence.                                                   *)

\* A set of numbers that ends at n and is not empty has a greatest element.
LEMMA MaxIn ==
    ASSUME NEW n \in Nat, NEW s \in SUBSET (1 .. n), s # {}
    PROVE  Max(s) \in s /\ \A y \in s : Max(s) >= y
<1> DEFINE D == {d \in 0 .. n : n - d \in s}
<1>1. D # {} /\ D \subseteq Nat
  <2>1. PICK x \in s : TRUE
    OBVIOUS
  <2>2. n - x \in D
    BY <2>1
  <2>3. D \subseteq Nat
    OBVIOUS
  <2> HIDE DEF D
  <2> QED
    BY <2>2, <2>3
<1>2. PICK d \in D : \A m \in D : d <= m
  <2> HIDE DEF D
  <2> QED
    BY <1>1, Minimum
<1>3. ASSUME NEW y \in s PROVE n - d >= y
  <2>1. n - y \in D /\ y \in Nat /\ d \in Nat
    BY <1>3
  <2> HIDE DEF D
  <2>2. d <= n - y
    BY <1>2, <2>1
  <2> QED
    BY <2>1, <2>2
<1>4. \E x \in s : \A y \in s : x >= y
  BY <1>2, <1>3
<1> QED
  BY <1>4 DEF Max

\* h adds up the numbers one by one.
RunningTotal(h, numbers) ==
    /\ h \in [0 .. Len(numbers) -> Nat]
    /\ h[0] = 0
    /\ \A i \in 1 .. Len(numbers) : h[i] = h[i - 1] + numbers[i]

\* A total is the last of the running totals.
LEMMA TotalRuns ==
    ASSUME NEW q \in Seq(Nat)
    PROVE  \E h : RunningTotal(h, q) /\ Total(q) = h[Len(q)]
<1> DEFINE n == Len(q)
           D == SUBSET (1 .. n)
           Sums(g) == g = [s \in SUBSET DOMAIN q |-> IF s = {} THEN 0
                                                     ELSE g[s \ {Max(s)}] + q[Max(s)]]
           iter == CHOOSE g : Sums(g)
<1>1. n \in Nat /\ DOMAIN q = 1 .. n /\ \A i \in 1 .. n : q[i] \in Nat
  OBVIOUS
<1>2. Total(q) = iter[DOMAIN q]
  BY DEF Total, FoldLeft, MapThenFoldSet
<1>3. \A s \in D : s # {} => Max(s) \in s /\ \A y \in s : Max(s) >= y
  BY <1>1, MaxIn
<1> HIDE DEF n
<1>4. \E g : Sums(g)
  <2> DEFINE F == [i \in 1 .. n |-> [v \in Nat |-> v + q[i]]]
             pick == [s \in D |-> Max(s)]
  <2>1. Foldable(1 .. n, Nat, 0, F, pick)
    <3>1. F \in [1 .. n -> [Nat -> Nat]]
      BY <1>1
    <3>2. \A s \in D : s # {} => pick[s] \in s
      BY <1>3
    <3>3. IsFiniteSet(1 .. n)
      BY <1>1, FS_Interval
    <3> HIDE DEF F, pick
    <3> QED
      BY <3>1, <3>2, <3>3 DEF Foldable
  <2>2. PICK g \in [D -> Nat] : IsFold(g, 1 .. n, 0, F, pick)
    <3> HIDE DEF F, pick
    <3> QED
      BY <2>1, FoldExists
  <2>3. ASSUME NEW s \in D, s # {}
        PROVE  F[pick[s]][g[s \ {pick[s]}]] = g[s \ {Max(s)}] + q[Max(s)]
    <3>1. Max(s) \in 1 .. n /\ s \ {Max(s)} \in D
      BY <1>3, <2>3
    <3> QED
      BY <3>1
  <2>4. Sums(g)
    <3> HIDE DEF F, pick
    <3> QED
      BY <1>1, <2>2, <2>3 DEF IsFold
  <2> QED
    BY <2>4
<1>5. Sums(iter)
  <2> HIDE DEF Sums
  <2> QED
    BY <1>4
<1> HIDE DEF iter
<1>6. iter[{}] = 0 /\ \A s \in D : s # {} => iter[s] = iter[s \ {Max(s)}] + q[Max(s)]
  BY <1>1, <1>5
<1>7. \A s \in D : iter[s] \in Nat
  <2> DEFINE Q == {s \in D : iter[s] \in Nat}
  <2> SUFFICES \A s \in D : s \in Q
    OBVIOUS
  <2>1. {} \in Q
    BY <1>6
  <2>2. ASSUME NEW s \in D, s # {}, \A x \in s : s \ {x} \in Q
        PROVE  s \in Q
    <3>1. Max(s) \in s /\ q[Max(s)] \in Nat
      BY <1>1, <1>3, <2>2
    <3>2. iter[s \ {Max(s)}] \in Nat
      BY <2>2, <3>1
    <3>3. iter[s] = iter[s \ {Max(s)}] + q[Max(s)]
      BY <1>6, <2>2
    <3>4. iter[s] \in Nat
      BY <3>1, <3>2, <3>3
    <3> QED
      BY <2>2, <3>4
  <2>3. IsFiniteSet(1 .. n)
    BY <1>1, FS_Interval
  <2> HIDE DEF Q
  <2>4. \A s \in SUBSET (1 .. n) : s # {} /\ (\A x \in s : s \ {x} \in Q) => s \in Q
    BY <2>2
  <2> QED
    BY <2>1, <2>3, <2>4, SubsetInduction, Zenon
<1> DEFINE h == [i \in 0 .. n |-> iter[1 .. i]]
<1>8. h \in [0 .. n -> Nat]
  BY <1>1, <1>7
<1>9. h[0] = 0
  BY <1>1, <1>6
<1>10. ASSUME NEW i \in 1 .. n PROVE h[i] = h[i - 1] + q[i]
  <2>1. 1 .. i \in D /\ 1 .. i # {} /\ i \in 1 .. i
    BY <1>1
  <2>2. Max(1 .. i) = i
    <3>1. Max(1 .. i) \in 1 .. i /\ \A y \in 1 .. i : Max(1 .. i) >= y
      <4> HIDE DEF D
      <4> QED
        BY <1>3, <2>1
    <3> QED
      BY <1>1, <2>1, <3>1
  <2>3. (1 .. i) \ {i} = 1 .. i - 1
    BY <1>1
  <2>4. iter[1 .. i] = iter[1 .. i - 1] + q[i]
    <3> HIDE DEF D
    <3> QED
      BY <1>6, <2>1, <2>2, <2>3
  <2>5. h[i] = iter[1 .. i] /\ h[i - 1] = iter[1 .. i - 1]
    BY <1>1
  <2> QED
    BY <2>4, <2>5
<1>11. Total(q) = h[n]
  BY <1>1, <1>2
<1> HIDE DEF h
<1>12. RunningTotal(h, q)
  BY <1>8, <1>9, <1>10 DEF RunningTotal, n
<1> QED
  BY <1>11, <1>12 DEF n

\* Running totals that agree on the numbers agree.
LEMMA RunningTotalUnique ==
    ASSUME NEW p \in Seq(Nat), NEW q \in Seq(Nat), NEW g, NEW h,
           RunningTotal(g, p), RunningTotal(h, q),
           NEW n \in Nat, n <= Len(p), n <= Len(q), \A i \in 1 .. n : p[i] = q[i]
    PROVE  g[n] = h[n]
<1> DEFINE N == {m \in Nat : m <= n => g[m] = h[m]}
<1>1. 0 \in N
  BY DEF RunningTotal
<1>2. ASSUME NEW m \in Nat, m \in N PROVE m + 1 \in N
  <2>1. SUFFICES ASSUME m + 1 <= n PROVE g[m + 1] = h[m + 1]
    OBVIOUS
  <2>2. g[m] = h[m] /\ p[m + 1] = q[m + 1] /\ m + 1 \in 1 .. Len(p) /\ m + 1 \in 1 .. Len(q)
    BY <1>2, <2>1
  <2>3. g[m + 1] = g[(m + 1) - 1] + p[m + 1] /\ h[m + 1] = h[(m + 1) - 1] + q[m + 1]
    BY <2>2 DEF RunningTotal
  <2> QED
    BY <2>2, <2>3
<1>3. n \in N
  <2> HIDE DEF N
  <2> QED
    BY <1>1, <1>2, Induction
<1> QED
  BY <1>3

\* A total is a natural number.
LEMMA TotalType ==
    ASSUME NEW q \in Seq(Nat)
    PROVE  Total(q) \in Nat
<1>1. PICK h : RunningTotal(h, q) /\ Total(q) = h[Len(q)]
  BY TotalRuns
<1> QED
  BY <1>1 DEF RunningTotal

\* The total of the first n numbers is the n-th running total.
LEMMA PartialTotals ==
    ASSUME NEW q \in Seq(Nat)
    PROVE  \E h : /\ RunningTotal(h, q)
                  /\ \A n \in 0 .. Len(q) : Total(SubSeq(q, 1, n)) = h[n]
<1>1. PICK h : RunningTotal(h, q)
  BY TotalRuns
<1>2. ASSUME NEW n \in 0 .. Len(q)
      PROVE  Total(SubSeq(q, 1, n)) = h[n]
  <2> DEFINE p == SubSeq(q, 1, n)
  <2>1. /\ p \in Seq(Nat) /\ Len(p) = n /\ \A i \in 1 .. n : p[i] = q[i]
        /\ n \in Nat /\ n <= Len(p) /\ n <= Len(q)
    <3>1. n \in Nat /\ n <= Len(q) /\ Len(q) \in Nat
      OBVIOUS
    <3>2. Len(p) = n
      BY <3>1
    <3>3. p \in Seq(Nat) /\ \A i \in 1 .. n : p[i] = q[i]
      BY <3>1
    <3> QED
      BY <3>1, <3>2, <3>3
  <2> HIDE DEF p
  <2>2. PICK g : RunningTotal(g, p) /\ Total(p) = g[Len(p)]
    BY <2>1, TotalRuns
  <2>3. g[n] = h[n]
    <3>1. RunningTotal(g, p) /\ RunningTotal(h, q)
      BY <1>1, <2>2
    <3>2. \A G, H : RunningTotal(G, p) /\ RunningTotal(H, q) => G[n] = H[n]
      BY <2>1, RunningTotalUnique, SMTT(30)
    <3> QED
      BY <3>1, <3>2, Zenon
  <2> QED
    BY <2>1, <2>2, <2>3 DEF p
<1> QED
  BY <1>1, <1>2

\* Running totals never go down.
LEMMA RunningTotalGrows ==
    ASSUME NEW q \in Seq(Nat), NEW h, RunningTotal(h, q),
           NEW m \in 0 .. Len(q), NEW n \in m .. Len(q)
    PROVE  h[m] \in Nat /\ h[n] \in Nat /\ h[m] <= h[n]
<1> DEFINE N == {k \in Nat : m + k <= Len(q) => h[m] <= h[m + k]}
<1>1. \A k \in 0 .. Len(q) : h[k] \in Nat
  BY DEF RunningTotal
<1>2. 0 \in N
  BY <1>1
<1>3. ASSUME NEW k \in Nat, k \in N PROVE k + 1 \in N
  <2>1. SUFFICES ASSUME m + (k + 1) <= Len(q) PROVE h[m] <= h[m + (k + 1)]
    OBVIOUS
  <2>2. m + (k + 1) \in 1 .. Len(q) /\ (m + (k + 1)) - 1 = m + k /\ m + k \in 0 .. Len(q)
    BY <2>1
  <2>3. h[m + (k + 1)] = h[m + k] + q[m + (k + 1)] /\ q[m + (k + 1)] \in Nat
    BY <2>2 DEF RunningTotal
  <2>4. h[m] <= h[m + k]
    BY <1>3, <2>2
  <2> QED
    BY <1>1, <2>2, <2>3, <2>4
<1>4. n - m \in N
  <2>1. n - m \in Nat
    OBVIOUS
  <2> HIDE DEF N
  <2> QED
    BY <1>2, <1>3, <2>1, Induction
<1> QED
  BY <1>1, <1>4

\* A total is that of all but the last number and the last number.
LEMMA TotalSteps ==
    /\ Total(<<>>) = 0
    /\ \A q \in Seq(Nat) : \A x \in Nat : Total(Append(q, x)) = Total(q) + x
<1>1. Total(<<>>) = 0
  <2>1. PICK h : RunningTotal(h, <<>>) /\ Total(<<>>) = h[Len(<<>>)]
    <3>1. <<>> \in Seq(Nat)
      OBVIOUS
    <3> QED
      BY <3>1, TotalRuns
  <2> QED
    BY <2>1 DEF RunningTotal
<1>2. ASSUME NEW q \in Seq(Nat), NEW x \in Nat
      PROVE  Total(Append(q, x)) = Total(q) + x
  <2> DEFINE p == Append(q, x)
             n == Len(q)
  <2>1. /\ p \in Seq(Nat) /\ n \in Nat /\ Len(p) = n + 1 /\ p[n + 1] = x
        /\ \A i \in 1 .. n : p[i] = q[i]
        /\ n <= Len(p) /\ n <= Len(q) /\ n + 1 \in 1 .. Len(p) /\ (n + 1) - 1 = n
    OBVIOUS
  <2> HIDE DEF p
  <2>2. PICK g : RunningTotal(g, p) /\ Total(p) = g[n + 1]
    BY <2>1, TotalRuns
  <2>3. PICK h : RunningTotal(h, q) /\ Total(q) = h[n]
    BY TotalRuns
  <2> HIDE DEF n
  <2>4. g[n] = h[n]
    BY <2>1, <2>2, <2>3, RunningTotalUnique
  <2>5. g[n + 1] = g[n] + p[n + 1]
    BY <2>1, <2>2 DEF RunningTotal
  <2> QED
    BY <2>1, <2>2, <2>3, <2>4, <2>5 DEF p
<1> QED
  BY <1>1, <1>2

----------------------------------------------------------------------------
(* Functions defined by recursion on numbers.                              *)

\* h recurs up to n: F[i] makes the i-th value from the one before.
Recurs(h, n, base, F) == h[0] = base /\ \A i \in 1 .. n : h[i] = F[i][h[i - 1]]

\* Each step makes a value in V from one in V.
Recursive(n, V, base, F) == n \in Nat /\ base \in V /\ F \in [1 .. n -> [V -> V]]

\* A recursion over the numbers up to n has a value.
LEMMA RecursionExists ==
    ASSUME NEW n, NEW V, NEW base, NEW F, Recursive(n, V, base, F)
    PROVE  \E h \in [0 .. n -> V] : Recurs(h, n, base, F)
<1> USE DEF Recursive, Recurs
<1> DEFINE Follows(h, m) == h[0] = base /\ \A i \in 1 .. m : h[i] = F[i][h[i - 1]]
           N == {m \in Nat : m <= n => \E h \in [0 .. m -> V] : Follows(h, m)}
<1>1. 0 \in N
  <2> DEFINE h == [i \in 0 .. 0 |-> base]
  <2>1. h \in [0 .. 0 -> V] /\ Follows(h, 0)
    OBVIOUS
  <2> QED
    BY <2>1
<1>2. ASSUME NEW m \in Nat, m \in N PROVE m + 1 \in N
  <2>1. SUFFICES ASSUME m + 1 <= n PROVE \E h \in [0 .. m + 1 -> V] : Follows(h, m + 1)
    OBVIOUS
  <2>2. PICK g \in [0 .. m -> V] : Follows(g, m)
    BY <1>2, <2>1
  <2> DEFINE h == [i \in 0 .. m + 1 |-> IF i = m + 1 THEN F[m + 1][g[m]] ELSE g[i]]
  <2>3. F[m + 1][g[m]] \in V
    <3>1. m + 1 \in 1 .. n /\ m \in 0 .. m
      BY <2>1
    <3> QED
      BY <2>2, <3>1
  <2>4. \A i \in 0 .. m + 1 : h[i] \in V
    BY <2>2, <2>3
  <2>5. h \in [0 .. m + 1 -> V]
    BY <2>4
  <2>6. h[0] = base
    BY <2>2
  <2>7. ASSUME NEW i \in 1 .. m + 1 PROVE h[i] = F[i][h[i - 1]]
    <3>1. CASE i = m + 1
      BY <3>1
    <3>2. CASE i # m + 1
      <4>1. i \in 1 .. m /\ h[i] = g[i] /\ h[i - 1] = g[i - 1]
        BY <3>2
      <4> QED
        BY <2>2, <4>1
    <3> QED
      BY <3>1, <3>2
  <2> HIDE DEF h
  <2> QED
    BY <2>5, <2>6, <2>7
<1>3. n \in N
  <2> HIDE DEF N
  <2> QED
    BY <1>1, <1>2, Induction
<1> QED
  BY <1>3

----------------------------------------------------------------------------
(* Flattened sequences.                                                    *)

Lengths(seqs) == [i \in DOMAIN seqs |-> Len(seqs[i])]

\* at[i] elements of whole are those of the first i sequences of seqs.
Concatenates(whole, seqs, at) ==
    /\ RunningTotal(at, Lengths(seqs))
    /\ at[Len(seqs)] = Len(whole)
    /\ \A i \in 1 .. Len(seqs) : \A s \in 1 .. Len(seqs[i]) :
          whole[at[i - 1] + s] = seqs[i][s]

\* The second of two sequences lies behind the first.
LEMMA Behind ==
    ASSUME NEW E, NEW a \in Seq(E), NEW b \in Seq(E)
    PROVE  /\ a \o b \in Seq(E) /\ Len(a) \in Nat /\ Len(b) \in Nat
           /\ Len(a \o b) = Len(a) + Len(b)
           /\ \A i \in 1 .. Len(a) : (a \o b)[i] = a[i]
           /\ \A i \in 1 .. Len(b) : (a \o b)[Len(a) + i] = b[i]
OBVIOUS

\* A sequence with the elements of one and then those of another joins them.
LEMMA Concatenation ==
    ASSUME NEW E, NEW a \in Seq(E), NEW b \in Seq(E), NEW c \in Seq(E),
           Len(c) = Len(a) + Len(b),
           \A i \in 1 .. Len(a) : c[i] = a[i],
           \A i \in 1 .. Len(b) : c[Len(a) + i] = b[i]
    PROVE  c = a \o b
<1> DEFINE d == a \o b
<1>1. /\ d \in Seq(E) /\ Len(a) \in Nat /\ Len(b) \in Nat /\ Len(d) = Len(a) + Len(b)
      /\ \A i \in 1 .. Len(a) : d[i] = a[i]
      /\ \A i \in 1 .. Len(b) : d[Len(a) + i] = b[i]
  BY Behind
<1> HIDE DEF d
<1>2. ASSUME NEW i \in 1 .. Len(a) + Len(b) PROVE c[i] = d[i]
  <2>1. CASE i \in 1 .. Len(a)
    BY <1>1, <2>1
  <2>2. CASE i \notin 1 .. Len(a)
    <3>1. i - Len(a) \in 1 .. Len(b) /\ i = Len(a) + (i - Len(a))
      BY <1>1, <2>2
    <3>2. PICK j \in 1 .. Len(b) : i = Len(a) + j
      BY <3>1
    <3> QED
      BY <1>1, <3>2
  <2> QED
    BY <2>1, <2>2
<1>3. c = d
  BY <1>1, <1>2
<1> QED
  BY <1>3 DEF d

\* h[i] joins the first i sequences of seqs.
Joins(h, seqs) == h[0] = <<>> /\ \A i \in 1 .. Len(seqs) : h[i] = h[i - 1] \o seqs[i]

\* Flattening joins the sequences one by one.
LEMMA FlattenRuns ==
    ASSUME NEW E, NEW Q \in Seq(Seq(E))
    PROVE  \E h \in [0 .. Len(Q) -> Seq(E)] : Joins(h, Q) /\ FlattenSeq(Q) = h[Len(Q)]
<1> DEFINE n == Len(Q)
           F == [i \in 1 .. n |-> [v \in Seq(E) |-> v \o Q[i]]]
<1>1. n \in Nat /\ DOMAIN Q = 1 .. n /\ \A i \in 1 .. n : Q[i] \in Seq(E)
  OBVIOUS
<1>2. PICK h \in [0 .. n -> Seq(E)] : Recurs(h, n, <<>>, F)
  <2>1. Recursive(n, Seq(E), <<>>, F)
    <3>1. F \in [1 .. n -> [Seq(E) -> Seq(E)]] /\ <<>> \in Seq(E)
      BY <1>1
    <3> HIDE DEF F, n
    <3> QED
      BY <1>1, <3>1 DEF Recursive
  <2> HIDE DEF F, n
  <2> QED
    BY <2>1, RecursionExists
<1>3. h[0] = <<>> /\ \A i \in 1 .. n : h[i] = h[i - 1] \o Q[i]
  <2>1. \A i \in 1 .. n : i - 1 \in 0 .. n
    BY <1>1
  <2> QED
    BY <1>2, <2>1 DEF Recurs
<1> HIDE DEF F
<1>4. FlattenSeq(Q) = h[n]
  <2>1. CASE n = 0
    BY <1>3, <2>1 DEF FlattenSeq
  <2>2. CASE n # 0
    <3> DEFINE Flattens(f) == f = [i \in 1 .. n |-> IF i = 1 THEN Q[i] ELSE f[i - 1] \o Q[i]]
               flatten == CHOOSE f : Flattens(f)
               g == [i \in 1 .. n |-> h[i]]
    <3>1. FlattenSeq(Q) = flatten[n]
      BY <2>2 DEF FlattenSeq
    <3>2. Flattens(g)
      <4>1. ASSUME NEW i \in 1 .. n
            PROVE  h[i] = IF i = 1 THEN Q[i] ELSE g[i - 1] \o Q[i]
        <5>1. CASE i = 1
          <6>1. h[i] = <<>> \o Q[i]
            <7>1. h[i] = h[i - 1] \o Q[i]
              BY <1>3
            <7>2. i - 1 = 0
              BY <5>1
            <7> QED
              BY <1>3, <7>1, <7>2
          <6>2. Q[i] \in Seq(E)
            BY <1>1
          <6> QED
            BY <5>1, <6>1, <6>2
        <5>2. CASE i # 1
          <6>1. i - 1 \in 1 .. n
            BY <1>1, <5>2
          <6> QED
            BY <1>3, <5>2, <6>1
        <5> QED
          BY <5>1, <5>2
      <4> QED
        BY <4>1, Zenon
    <3>3. Flattens(flatten)
      <4> HIDE DEF g, Flattens
      <4> QED
        BY <3>2
    <3> HIDE DEF flatten
    <3> DEFINE N == {m \in Nat : m + 1 <= n => flatten[m + 1] = h[m + 1]}
    <3>4. \A i \in 1 .. n : flatten[i] = IF i = 1 THEN Q[i] ELSE flatten[i - 1] \o Q[i]
      BY <3>3, Zenon
    <3>5. 0 \in N
      <4>1. SUFFICES ASSUME 1 <= n PROVE flatten[1] = h[1]
        OBVIOUS
      <4>2. 1 \in 1 .. n
        BY <1>1, <4>1
      <4>3. flatten[1] = Q[1]
        BY <3>4, <4>2
      <4>4. h[1] = h[1 - 1] \o Q[1] /\ Q[1] \in Seq(E)
        BY <1>1, <1>3, <4>2
      <4>5. h[1 - 1] = <<>>
        BY <1>3
      <4> QED
        BY <4>3, <4>4, <4>5
    <3>6. ASSUME NEW m \in Nat, m \in N PROVE m + 1 \in N
      <4>1. SUFFICES ASSUME m + 2 <= n PROVE flatten[m + 2] = h[m + 2]
        OBVIOUS
      <4>2. m + 2 \in 1 .. n /\ m + 2 # 1 /\ (m + 2) - 1 = m + 1 /\ m + 1 <= n
        BY <1>1, <4>1
      <4>3. flatten[m + 1] = h[m + 1]
        BY <3>6, <4>2
      <4>4. flatten[m + 2] = flatten[m + 1] \o Q[m + 2]
        BY <3>4, <4>2
      <4>5. h[m + 2] = h[m + 1] \o Q[m + 2]
        BY <1>3, <4>2
      <4> QED
        BY <4>3, <4>4, <4>5
    <3>7. n - 1 \in N
      <4>1. n - 1 \in Nat
        BY <1>1, <2>2
      <4> HIDE DEF N
      <4> QED
        BY <3>5, <3>6, <4>1, Induction
    <3>8. (n - 1) + 1 = n
      BY <1>1
    <3> QED
      BY <1>1, <3>1, <3>7, <3>8
  <2> QED
    BY <2>1, <2>2
<1>5. Joins(h, Q)
  BY <1>3 DEF Joins
<1> QED
  BY <1>2, <1>4, <1>5

\* Flattening puts the elements of the sequences one behind the other.
LEMMA Flattened ==
    ASSUME NEW E, NEW Q \in Seq(Seq(E))
    PROVE  /\ FlattenSeq(Q) \in Seq(E)
           /\ \E at : Concatenates(FlattenSeq(Q), Q, at)
<1> DEFINE n == Len(Q)
<1>1. n \in Nat /\ DOMAIN Q = 1 .. n /\ \A i \in 1 .. n : Q[i] \in Seq(E)
  OBVIOUS
<1>2. PICK h \in [0 .. n -> Seq(E)] : Joins(h, Q) /\ FlattenSeq(Q) = h[n]
  BY FlattenRuns
<1>3. h[0] = <<>> /\ \A i \in 1 .. n : h[i] = h[i - 1] \o Q[i]
  BY <1>2 DEF Joins
<1>4. FlattenSeq(Q) = h[n]
  BY <1>2
<1> DEFINE at == [i \in 0 .. n |-> Len(h[i])]
<1>5. RunningTotal(at, Lengths(Q))
  <2>1. \A i \in 0 .. n : at[i] \in Nat /\ at[i] = Len(h[i]) /\ h[i] \in Seq(E)
    BY <1>2
  <2>2. Len(Lengths(Q)) = n /\ \A i \in 1 .. n : Lengths(Q)[i] = Len(Q[i])
    BY <1>1 DEF Lengths
  <2>3. ASSUME NEW i \in 1 .. n PROVE at[i] = at[i - 1] + Len(Q[i])
    <3>1. i \in 0 .. n /\ i - 1 \in 0 .. n
      BY <1>1
    <3>2. h[i] = h[i - 1] \o Q[i] /\ Q[i] \in Seq(E)
      BY <1>1, <1>3
    <3>3. Len(h[i]) = Len(h[i - 1]) + Len(Q[i])
      BY <2>1, <3>1, <3>2
    <3> QED
      BY <2>1, <3>1, <3>3
  <2>4. at[0] = 0
    BY <1>1, <1>3
  <2>5. at \in [0 .. n -> Nat]
    BY <2>1
  <2> HIDE DEF at, n
  <2> QED
    BY <2>2, <2>3, <2>4, <2>5 DEF RunningTotal
<1> DEFINE Placed(m) == \A i \in 1 .. m : \A s \in 1 .. Len(Q[i]) :
                            /\ at[i - 1] + s <= Len(h[m])
                            /\ h[m][at[i - 1] + s] = Q[i][s]
           M == {m \in Nat : m <= n => Placed(m)}
<1>6. 0 \in M
  OBVIOUS
<1>7. ASSUME NEW m \in Nat, m \in M PROVE m + 1 \in M
  <2> HIDE DEF n, Placed, at
  <2>1. SUFFICES ASSUME m + 1 <= n PROVE Placed(m + 1)
    OBVIOUS
  <2>2. m + 1 \in 1 .. n /\ m \in 0 .. n /\ (m + 1) - 1 = m
    BY <1>1, <2>1
  <2> DEFINE a == h[m]
             b == Q[m + 1]
             c == h[m + 1]
  <2>3. a \in Seq(E) /\ b \in Seq(E) /\ c = a \o b
    <3>1. h[m + 1] = h[(m + 1) - 1] \o Q[m + 1]
      BY <1>3, <2>2
    <3> QED
      BY <1>1, <1>2, <2>2, <3>1
  <2>4. Placed(m)
    BY <1>7, <1>1, <2>1
  <2>5. at[m] = Len(a)
    BY <2>2 DEF at
  <2>6. \A i \in 0 .. m : at[i] \in Nat
    <3>1. \A i \in 0 .. m : h[i] \in Seq(E) /\ i \in 0 .. n
      BY <1>1, <1>2, <2>1
    <3> QED
      BY <3>1 DEF at
  <2>7. /\ Len(a) \in Nat /\ Len(b) \in Nat /\ Len(c) = Len(a) + Len(b)
        /\ \A j \in 1 .. Len(a) : c[j] = a[j]
        /\ \A j \in 1 .. Len(b) : c[Len(a) + j] = b[j]
    <3> HIDE DEF a, b, c
    <3> QED
      BY <2>3, Behind
  <2>8. ASSUME NEW i \in 1 .. m + 1, NEW s \in 1 .. Len(Q[i])
        PROVE  at[i - 1] + s <= Len(c) /\ c[at[i - 1] + s] = Q[i][s]
    <3>1. CASE i = m + 1
      <4>1. at[i - 1] = Len(a) /\ Q[i] = b
        BY <2>5, <3>1
      <4> HIDE DEF a, b, c
      <4>2. s \in 1 .. Len(b) /\ Q[i][s] = b[s]
        BY <4>1
      <4>3. c[Len(a) + s] = b[s]
        BY <2>7, <4>2
      <4>4. Len(a) + s <= Len(c)
        BY <2>7, <4>2
      <4> QED
        BY <4>1, <4>2, <4>3, <4>4
    <3>2. CASE i # m + 1
      <4>1. i \in 1 .. m /\ i - 1 \in 0 .. m
        BY <3>2
      <4>2. at[i - 1] + s <= Len(a) /\ a[at[i - 1] + s] = Q[i][s]
        BY <2>4, <4>1 DEF Placed
      <4> DEFINE x == at[i - 1]
      <4>3. x \in Nat
        BY <2>6, <4>1
      <4> DEFINE y == x + s
      <4>4. y <= Len(a) /\ a[y] = Q[i][s]
        BY <4>2
      <4> HIDE DEF a, b, c, x
      <4>5. y \in 1 .. Len(a) /\ y <= Len(c)
        BY <2>7, <4>3, <4>4
      <4> HIDE DEF y
      <4>6. c[y] = Q[i][s]
        BY <2>7, <4>4, <4>5
      <4> QED
        BY <4>5, <4>6 DEF x, y
    <3> QED
      BY <3>1, <3>2
  <2> QED
    BY <2>8 DEF Placed
<1>8. Placed(n)
  <2>1. n \in M
    <3> HIDE DEF M
    <3> QED
      BY <1>1, <1>6, <1>7, Induction
  <2> QED
    BY <1>1, <2>1
<1>9. h[n] \in Seq(E) /\ at[n] = Len(h[n])
  BY <1>1, <1>2
<1>10. Concatenates(h[n], Q, at)
  <2> HIDE DEF at
  <2> QED
    BY <1>5, <1>8, <1>9 DEF Concatenates
<1> QED
  BY <1>4, <1>9, <1>10

\* Joins of sequences that agree agree.
LEMMA JoinsUnique ==
    ASSUME NEW A, NEW B, NEW g, NEW h, Joins(g, A), Joins(h, B),
           Len(A) \in Nat, Len(B) \in Nat
    PROVE  \A n \in Nat :
              n <= Len(A) /\ n <= Len(B) /\ (\A i \in 1 .. n : A[i] = B[i]) => g[n] = h[n]
<1> SUFFICES ASSUME NEW n \in Nat, n <= Len(A), n <= Len(B), \A i \in 1 .. n : A[i] = B[i]
             PROVE  g[n] = h[n]
  OBVIOUS
<1> DEFINE N == {m \in Nat : m <= n => g[m] = h[m]}
<1>1. 0 \in N
  BY DEF Joins
<1>2. ASSUME NEW m \in Nat, m \in N PROVE m + 1 \in N
  <2>1. SUFFICES ASSUME m + 1 <= n PROVE g[m + 1] = h[m + 1]
    OBVIOUS
  <2>2. /\ g[m] = h[m] /\ A[m + 1] = B[m + 1] /\ (m + 1) - 1 = m
        /\ m + 1 \in 1 .. Len(A) /\ m + 1 \in 1 .. Len(B)
    BY <1>2, <2>1
  <2>3. g[m + 1] = g[(m + 1) - 1] \o A[m + 1] /\ h[m + 1] = h[(m + 1) - 1] \o B[m + 1]
    BY <2>2 DEF Joins
  <2> QED
    BY <2>2, <2>3
<1>3. n \in N
  <2> HIDE DEF N
  <2> QED
    BY <1>1, <1>2, Induction
<1> QED
  BY <1>3

\* Nothing flattens to nothing, and empty sequences do.
LEMMA FlattenEmpty ==
    ASSUME NEW E, NEW Q \in Seq(Seq(E)), \A i \in 1 .. Len(Q) : Q[i] = <<>>
    PROVE  FlattenSeq(Q) = <<>>
<1>1. PICK h \in [0 .. Len(Q) -> Seq(E)] : Joins(h, Q) /\ FlattenSeq(Q) = h[Len(Q)]
  BY FlattenRuns
<1> DEFINE N == {m \in Nat : m <= Len(Q) => h[m] = <<>>}
<1>2. Len(Q) \in Nat
  OBVIOUS
<1>3. 0 \in N
  BY <1>1 DEF Joins
<1>4. ASSUME NEW m \in Nat, m \in N PROVE m + 1 \in N
  <2>1. SUFFICES ASSUME m + 1 <= Len(Q) PROVE h[m + 1] = <<>>
    OBVIOUS
  <2>2. m + 1 \in 1 .. Len(Q) /\ (m + 1) - 1 = m /\ h[m] = <<>>
    BY <1>2, <1>4, <2>1
  <2>3. h[m + 1] = h[(m + 1) - 1] \o Q[m + 1]
    BY <1>1, <2>2 DEF Joins
  <2>4. Q[m + 1] = <<>>
    BY <2>2
  <2> QED
    BY <2>2, <2>3, <2>4
<1>5. Len(Q) \in N
  <2> HIDE DEF N
  <2> QED
    BY <1>2, <1>3, <1>4, Induction
<1> QED
  BY <1>1, <1>5

\* Joining is associative.
LEMMA JoinedTwice ==
    ASSUME NEW E, NEW a \in Seq(E), NEW b \in Seq(E), NEW c \in Seq(E)
    PROVE  (a \o b) \o c = a \o (b \o c) /\ a \o <<>> = a /\ <<>> \o a = a
OBVIOUS

\* It does not matter which of three sequences are joined first.
LEMMA Associates ==
    \A E : \A u, v, w \in Seq(E) : (u \o v) \o w = u \o (v \o w)
<1>1. ASSUME NEW E, NEW u \in Seq(E), NEW v \in Seq(E), NEW w \in Seq(E)
      PROVE  (u \o v) \o w = u \o (v \o w)
  OBVIOUS
<1> QED
  BY <1>1, Zenon

\* A sequence that repeats another from its second entry on is its tail.
LEMMA TailGiven ==
    ASSUME NEW E, NEW q \in Seq(E), NEW r \in Seq(E), q # <<>>,
           Len(r) = Len(q) - 1, \A i \in 1 .. Len(r) : r[i] = q[i + 1]
    PROVE  Tail(q) = r
<1>1. /\ Tail(q) \in Seq(E) /\ Len(Tail(q)) = Len(q) - 1
      /\ \A i \in 1 .. Len(q) - 1 : Tail(q)[i] = q[i + 1]
  OBVIOUS
<1>2. Len(Tail(q)) = Len(r) /\ \A i \in 1 .. Len(r) : Tail(q)[i] = r[i]
  BY <1>1
<1> QED
  BY <1>1, <1>2

\* What is flattened in two parts is flattened.
LEMMA FlattenConcat ==
    ASSUME NEW E, NEW A \in Seq(Seq(E)), NEW B \in Seq(Seq(E))
    PROVE  FlattenSeq(A \o B) = FlattenSeq(A) \o FlattenSeq(B)
<1> DEFINE C == A \o B
           a == Len(A)
           b == Len(B)
<1>1. /\ a \in Nat /\ b \in Nat /\ C \in Seq(Seq(E)) /\ Len(C) = a + b
      /\ \A i \in 1 .. a : C[i] = A[i]
      /\ \A i \in 1 .. b : C[a + i] = B[i]
      /\ \A i \in 1 .. b : B[i] \in Seq(E)
  BY Behind
<1> HIDE DEF C, a, b
<1>2. PICK f : f \in [0 .. a -> Seq(E)] /\ Joins(f, A) /\ FlattenSeq(A) = f[a]
  BY FlattenRuns DEF a
<1>3. PICK g : g \in [0 .. b -> Seq(E)] /\ Joins(g, B) /\ FlattenSeq(B) = g[b]
  BY FlattenRuns DEF b
<1>4. PICK h : h \in [0 .. Len(C) -> Seq(E)] /\ Joins(h, C) /\ FlattenSeq(C) = h[Len(C)]
  BY <1>1, FlattenRuns
<1>5. h[a] = f[a]
  <2>1. Len(A) = a
    BY DEF a
  <2>2. a \in Nat /\ Len(A) \in Nat /\ Len(C) \in Nat /\ a <= Len(A) /\ a <= Len(C)
    BY <1>1, <2>1
  <2>3. \A i \in 1 .. a : C[i] = A[i]
    BY <1>1
  <2>4. Joins(h, C) /\ Joins(f, A)
    BY <1>2, <1>4
  <2>5. \A n \in Nat :
           n <= Len(C) /\ n <= Len(A) /\ (\A i \in 1 .. n : C[i] = A[i]) => h[n] = f[n]
    BY <2>2, <2>4, JoinsUnique
  <2> QED
    BY <2>2, <2>3, <2>5
<1>6. f[a] \in Seq(E) /\ \A m \in 0 .. b : g[m] \in Seq(E)
  <2>1. a \in 0 .. a
    BY <1>1
  <2>2. f[a] \in Seq(E)
    BY <1>2, <2>1
  <2> QED
    BY <1>3, <2>2
<1> DEFINE N == {m \in Nat : m <= b => h[a + m] = f[a] \o g[m]}
<1>7. 0 \in N
  <2>1. a + 0 = a /\ g[0] = <<>>
    BY <1>1, <1>3 DEF Joins
  <2>2. f[a] \o <<>> = f[a]
    BY <1>6
  <2> QED
    BY <1>5, <2>1, <2>2
<1>8. ASSUME NEW m \in Nat, m \in N PROVE m + 1 \in N
  <2>1. SUFFICES ASSUME m + 1 <= b PROVE h[a + (m + 1)] = f[a] \o g[m + 1]
    <3>1. m + 1 \in Nat
      OBVIOUS
    <3> QED
      BY <2>1, <3>1, Zenon
  <2>2. /\ m + 1 \in 1 .. b /\ (m + 1) - 1 = m /\ m \in 0 .. b /\ m <= b
        /\ a + (m + 1) \in 1 .. Len(C) /\ (a + (m + 1)) - 1 = a + m
    <3>1. a \in Nat /\ b \in Nat /\ Len(C) = a + b
      BY <1>1
    <3> HIDE DEF N
    <3> QED
      BY <2>1, <3>1
  <2>3. h[a + m] = f[a] \o g[m]
    BY <1>8, <2>2, Zenon
  <2>4. h[a + (m + 1)] = h[(a + (m + 1)) - 1] \o C[a + (m + 1)]
    BY <1>4, <2>2 DEF Joins
  <2>5. g[m + 1] = g[(m + 1) - 1] \o B[m + 1]
    BY <1>3, <2>2 DEF Joins, b
  <2>6. C[a + (m + 1)] = B[m + 1] /\ B[m + 1] \in Seq(E)
    BY <1>1, <2>2
  <2>7. (f[a] \o g[m]) \o B[m + 1] = f[a] \o (g[m] \o B[m + 1])
    <3>1. f[a] \in Seq(E) /\ g[m] \in Seq(E) /\ B[m + 1] \in Seq(E)
      BY <1>6, <2>2, <2>6
    <3>2. \A x, y, z \in Seq(E) : (x \o y) \o z = x \o (y \o z)
      BY Associates, SMTT(30)
    <3> HIDE DEF N
    <3> QED
      BY <3>1, <3>2, Zenon
  <2> QED
    BY <2>2, <2>3, <2>4, <2>5, <2>6, <2>7
<1>9. b \in N
  <2> HIDE DEF N
  <2> QED
    BY <1>1, <1>7, <1>8, Induction
<1>10. h[a + b] = f[a] \o g[b]
  <2>1. b <= b
    BY <1>1
  <2> QED
    BY <1>9, <2>1, Zenon
<1> QED
  BY <1>1, <1>2, <1>3, <1>4, <1>10 DEF C

\* A single sequence is flat.
LEMMA FlattenOne ==
    ASSUME NEW E, NEW x \in Seq(E)
    PROVE  FlattenSeq(<<x>>) = x
<1>1. <<x>> \in Seq(Seq(E))
  OBVIOUS
<1>2. PICK h \in [0 .. Len(<<x>>) -> Seq(E)] :
         Joins(h, <<x>>) /\ FlattenSeq(<<x>>) = h[Len(<<x>>)]
  BY <1>1, FlattenRuns
<1>3. Len(<<x>>) = 1 /\ <<x>>[1] = x /\ 1 \in 1 .. 1 /\ 1 - 1 = 0
  OBVIOUS
<1>4. h[0] = <<>> /\ h[1] = h[0] \o x
  BY <1>2, <1>3 DEF Joins
<1> QED
  BY <1>2, <1>3, <1>4

\* Flattening begins with the first sequence.
LEMMA FlattenCons ==
    ASSUME NEW E, NEW Q \in Seq(Seq(E)), Q # <<>>
    PROVE  FlattenSeq(Q) = Head(Q) \o FlattenSeq(Tail(Q))
<1>1. PICK x \in Seq(E) : x = Head(Q)
  OBVIOUS
<1>2. <<x>> \in Seq(Seq(E)) /\ Tail(Q) \in Seq(Seq(E)) /\ Q = <<x>> \o Tail(Q)
  BY <1>1
<1>3. FlattenSeq(<<x>>) = x
  BY FlattenOne
<1>4. FlattenSeq(<<x>> \o Tail(Q)) = FlattenSeq(<<x>>) \o FlattenSeq(Tail(Q))
  BY <1>2, FlattenConcat
<1> QED
  BY <1>1, <1>2, <1>3, <1>4

\* The total of two parts is that of the one and that of the other.
LEMMA TotalConcat ==
    ASSUME NEW p \in Seq(Nat), NEW q \in Seq(Nat)
    PROVE  Total(p \o q) = Total(p) + Total(q)
<1> DEFINE r == p \o q
           a == Len(p)
           b == Len(q)
<1>1. /\ a \in Nat /\ b \in Nat /\ r \in Seq(Nat) /\ Len(r) = a + b
      /\ \A i \in 1 .. a : r[i] = p[i]
      /\ \A i \in 1 .. b : r[a + i] = q[i] /\ q[i] \in Nat
  BY Behind
<1> HIDE DEF r, a, b
<1>2. PICK f : RunningTotal(f, p) /\ Total(p) = f[a]
  BY TotalRuns DEF a
<1>3. PICK g : RunningTotal(g, q) /\ Total(q) = g[b]
  BY TotalRuns DEF b
<1>4. PICK h : RunningTotal(h, r) /\ Total(r) = h[Len(r)]
  BY <1>1, TotalRuns
<1>5. h[a] = f[a]
  <2>1. Len(p) = a
    BY DEF a
  <2>2. a \in Nat /\ a <= Len(p) /\ a <= Len(r)
    BY <1>1, <2>1
  <2>3. \A i \in 1 .. a : r[i] = p[i]
    BY <1>1
  <2>4. r \in Seq(Nat) /\ RunningTotal(h, r) /\ RunningTotal(f, p)
    BY <1>1, <1>2, <1>4
  <2> QED
    BY <2>2, <2>3, <2>4, RunningTotalUnique
<1>6. f[a] \in Nat /\ \A m \in 0 .. b : g[m] \in Nat
  <2>1. Len(p) = a /\ Len(q) = b
    BY DEF a, b
  <2>2. f \in [0 .. a -> Nat] /\ g \in [0 .. b -> Nat]
    BY <1>2, <1>3, <2>1 DEF RunningTotal
  <2>3. a \in 0 .. a
    BY <1>1
  <2> QED
    BY <2>2, <2>3
<1> DEFINE N == {m \in Nat : m <= b => h[a + m] = f[a] + g[m]}
<1>7. 0 \in N
  BY <1>1, <1>3, <1>5, <1>6 DEF RunningTotal
<1>8. ASSUME NEW m \in Nat, m \in N PROVE m + 1 \in N
  <2>1. SUFFICES ASSUME m + 1 <= b PROVE h[a + (m + 1)] = f[a] + g[m + 1]
    OBVIOUS
  <2>2. /\ m + 1 \in 1 .. b /\ (m + 1) - 1 = m /\ m \in 0 .. b
        /\ a + (m + 1) \in 1 .. Len(r) /\ (a + (m + 1)) - 1 = a + m
    BY <1>1, <2>1
  <2>3. h[a + m] = f[a] + g[m]
    BY <1>8, <2>2
  <2>4. h[a + (m + 1)] = h[a + m] + r[a + (m + 1)]
    BY <1>4, <2>2 DEF RunningTotal
  <2>5. g[m + 1] = g[m] + q[m + 1]
    BY <1>3, <2>2 DEF RunningTotal, b
  <2>6. r[a + (m + 1)] = q[m + 1] /\ q[m + 1] \in Nat /\ g[m] \in Nat /\ f[a] \in Nat
    BY <1>1, <1>6, <2>2
  <2>7. (f[a] + g[m]) + q[m + 1] = f[a] + (g[m] + q[m + 1])
    BY <2>6
  <2> QED
    BY <2>3, <2>4, <2>5, <2>6, <2>7
<1>9. b \in N
  <2> HIDE DEF N
  <2> QED
    BY <1>1, <1>7, <1>8, Induction
<1> QED
  BY <1>1, <1>2, <1>3, <1>4, <1>9 DEF r
=============================================================================
