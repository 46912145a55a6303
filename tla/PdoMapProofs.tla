---------------------------- MODULE PdoMapProofs ----------------------------
(***************************************************************************)
(* For a slave that the walk and SOEM read with the same types and PDOs    *)
(* (SameLayout), the walk publishes variables in the order of the image,   *)
(* apart from each other and inside it, whatever else is lost; as long as  *)
(* none of its entries is lost and the slaves before it are byte oriented, *)
(* exactly where SOEM put them.                                            *)
(***************************************************************************)
EXTENDS PdoMap, FoldTheorems

----------------------------------------------------------------------------
(* The layout of the image.                                                *)

\* The image is laid out from PDOs.
Mapping == [Dir -> Seq(Seq(Entry))]
Laid == laid \in [SlaveId -> Mapping]

\* The sync manager type and the first byte of direction d in the image.
TypeOf(d) == IF d = "out" THEN 3 ELSE 4
Base(k, d) == MapOffset(k, TypeOf(d))

\* The bits of the first n entries.
FirstBits(entries, n) == SumBits(SubSeq(entries, 1, n))

\* The bits of a sequence of entries add up entry by entry.
LEMMA BitsAddUp ==
    ASSUME NEW e \in Seq(Entry)
    PROVE  /\ SumBits(e) \in Nat /\ FirstBits(e, Len(e)) = SumBits(e)
           /\ FirstBits(e, 0) = 0
           /\ \A n \in 0 .. Len(e) : FirstBits(e, n) \in Nat
           /\ \A n \in 1 .. Len(e) : FirstBits(e, n) = FirstBits(e, n - 1) + e[n].bits
           /\ \A m \in 0 .. Len(e) : \A n \in m .. Len(e) :
                 FirstBits(e, m) <= FirstBits(e, n)
<1> DEFINE q == [i \in DOMAIN e |-> e[i].bits]
<1>1. /\ Len(e) \in Nat /\ \A i \in 1 .. Len(e) : e[i].bits \in Nat
      /\ DOMAIN e = 1 .. Len(e)
  <2>1. Len(e) \in Nat /\ DOMAIN e = 1 .. Len(e) /\ \A i \in 1 .. Len(e) : e[i] \in Entry
    OBVIOUS
  <2>2. \A x \in Entry : x.bits \in Nat
    BY DEF Entry
  <2> QED
    BY <2>1, <2>2
<1>2. q \in Seq(Nat) /\ Len(q) = Len(e) /\ \A i \in 1 .. Len(e) : q[i] = e[i].bits
  BY <1>1
<1>3. ASSUME NEW n \in 0 .. Len(e)
      PROVE  FirstBits(e, n) = Total(SubSeq(q, 1, n))
  <2> DEFINE f == SubSeq(e, 1, n)
  <2>1. /\ f \in Seq(Entry) /\ DOMAIN f = 1 .. n
        /\ \A i \in 1 .. n : f[i] = e[i] /\ i \in DOMAIN e
    BY <1>1
  <2>2. SubSeq(q, 1, n) = [i \in 1 .. n |-> q[i]]
    BY <1>2
  <2>3. [i \in DOMAIN f |-> f[i].bits] = [i \in 1 .. n |-> q[i]]
    <3> HIDE DEF f
    <3> QED
      BY <2>1
  <2> QED
    BY <2>2, <2>3 DEF FirstBits, SumBits
<1> HIDE DEF q
<1>4. PICK h : /\ RunningTotal(h, q)
               /\ \A n \in 0 .. Len(q) : Total(SubSeq(q, 1, n)) = h[n]
  BY <1>2, PartialTotals
<1>5. \A n \in 0 .. Len(e) : FirstBits(e, n) = h[n]
  BY <1>2, <1>3, <1>4
<1>6. /\ h[0] = 0
      /\ \A n \in 1 .. Len(e) : h[n] = h[n - 1] + e[n].bits
      /\ \A n \in 0 .. Len(e) : h[n] \in Nat
  BY <1>2, <1>4 DEF RunningTotal
<1>7. \A m \in 0 .. Len(e) : \A n \in m .. Len(e) : h[m] <= h[n]
  BY <1>2, <1>4, RunningTotalGrows
<1>8. SumBits(e) = FirstBits(e, Len(e))
  <2>1. SubSeq(e, 1, Len(e)) = e
    OBVIOUS
  <2> QED
    BY <2>1 DEF FirstBits
<1>9. /\ \A n \in 1 .. Len(e) : n \in 0 .. Len(e) /\ n - 1 \in 0 .. Len(e)
      /\ \A m \in 0 .. Len(e) : \A n \in m .. Len(e) : n \in 0 .. Len(e)
      /\ 0 \in 0 .. Len(e) /\ Len(e) \in 0 .. Len(e)
  BY <1>1
<1>10. \A n \in 1 .. Len(e) : FirstBits(e, n) = FirstBits(e, n - 1) + e[n].bits
  BY <1>5, <1>6, <1>9
<1>11. \A m \in 0 .. Len(e) : \A n \in m .. Len(e) : FirstBits(e, m) <= FirstBits(e, n)
  BY <1>5, <1>7, <1>9
<1> QED
  BY <1>5, <1>6, <1>8, <1>9, <1>10, <1>11

\* The PDOs of a slave and their entries.
LEMMA EntriesType ==
    ASSUME Laid, NEW k \in SlaveId, NEW d \in Dir
    PROVE  /\ laid[k][d] \in Seq(Seq(Entry))
           /\ Entries(k, d) \in Seq(Entry)
<1>1. laid[k][d] \in Seq(Seq(Entry))
  BY DEF Laid, Mapping
<1> QED
  BY <1>1, Flattened DEF Entries

\* A slave has as many whole bytes as its bits need, or none.
LEMMA BitsAndBytes ==
    ASSUME Laid, NEW k \in SlaveId, NEW d \in Dir
    PROVE  /\ Bits(k, d) \in Nat /\ Bytes(k, d) \in Nat
           /\ FirstBits(Entries(k, d), Len(Entries(k, d))) = Bits(k, d)
           /\ Bits(k, d) > 7 => Bytes(k, d) > 0 /\ Bits(k, d) \div 8 <= Bytes(k, d)
           /\ Bits(k, d) <= 7 => Bytes(k, d) = 0
<1>1. Bits(k, d) \in Nat /\ FirstBits(Entries(k, d), Len(Entries(k, d))) = Bits(k, d)
  BY EntriesType, BitsAddUp DEF Bits
<1> QED
  BY <1>1 DEF Bytes

\* The variables of a slave begin behind the whole bytes of the slaves before.
LEMMA BasesAddUp ==
    ASSUME PdoAssumption, Laid, NEW d \in Dir
    PROVE  /\ Base(1, d) = 0
           /\ \A k \in 1 .. NumSlaves + 1 : Base(k, d) \in Nat
           /\ \A k \in SlaveId : Base(k + 1, d) = Base(k, d) + Bytes(k, d)
           /\ \A k \in 1 .. NumSlaves + 1 : \A l \in k .. NumSlaves + 1 :
                 Base(k, d) <= Base(l, d)
<1> DEFINE q == [j \in 1 .. NumSlaves |-> Bytes(j, d)]
<1>1. NumSlaves \in Nat
  BY DEF PdoAssumption
<1>2. \A j \in 1 .. NumSlaves : Bytes(j, d) \in Nat
  BY BitsAndBytes DEF SlaveId
<1>3. /\ q \in Seq(Nat) /\ Len(q) = NumSlaves
      /\ \A j \in 1 .. NumSlaves : q[j] = Bytes(j, d)
  BY <1>1, <1>2
<1> HIDE DEF q
<1>4. ASSUME NEW k \in 1 .. NumSlaves + 1
      PROVE  Base(k, d) = Total(SubSeq(q, 1, k - 1))
  <2>1. (IF TypeOf(d) = 3 THEN "out" ELSE "in") = d
    BY DEF TypeOf, Dir
  <2>2. \A j \in 1 .. k - 1 : j \in 1 .. NumSlaves
    BY <1>1
  <2>3. SubSeq(q, 1, k - 1) = [j \in 1 .. k - 1 |-> q[j]]
    BY <1>1, <1>3
  <2>4. [j \in 1 .. k - 1 |-> Bytes(j, d)] = [j \in 1 .. k - 1 |-> q[j]]
    BY <1>3, <2>2
  <2>5. Base(k, d) = Total([j \in 1 .. k - 1 |-> Bytes(j, d)])
    BY <2>1 DEF Base, MapOffset
  <2> QED
    BY <2>3, <2>4, <2>5
<1>5. PICK h : /\ RunningTotal(h, q)
               /\ \A n \in 0 .. Len(q) : Total(SubSeq(q, 1, n)) = h[n]
  BY <1>3, PartialTotals
<1>6. \A k \in 1 .. NumSlaves + 1 : k - 1 \in 0 .. NumSlaves /\ Base(k, d) = h[k - 1]
  BY <1>1, <1>3, <1>4, <1>5
<1>7. /\ h[0] = 0
      /\ \A n \in 1 .. NumSlaves : h[n] = h[n - 1] + Bytes(n, d)
      /\ \A n \in 0 .. NumSlaves : h[n] \in Nat
  BY <1>3, <1>5 DEF RunningTotal
<1>8. \A m \in 0 .. NumSlaves : \A n \in m .. NumSlaves : h[m] <= h[n]
  BY <1>3, <1>5, RunningTotalGrows
<1>9. Base(1, d) = 0
  <2>1. 1 \in 1 .. NumSlaves + 1 /\ 1 - 1 = 0
    BY <1>1
  <2> QED
    BY <1>6, <1>7, <2>1
<1>10. ASSUME NEW k \in SlaveId PROVE Base(k + 1, d) = Base(k, d) + Bytes(k, d)
  <2>1. /\ k \in 1 .. NumSlaves /\ k \in 1 .. NumSlaves + 1
        /\ k + 1 \in 1 .. NumSlaves + 1 /\ (k + 1) - 1 = k
    BY <1>1 DEF SlaveId
  <2>2. Base(k + 1, d) = h[k] /\ Base(k, d) = h[k - 1]
    BY <1>6, <2>1
  <2> QED
    BY <1>7, <2>1, <2>2
<1>11. ASSUME NEW k \in 1 .. NumSlaves + 1, NEW l \in k .. NumSlaves + 1
       PROVE  Base(k, d) <= Base(l, d)
  <2>1. l \in 1 .. NumSlaves + 1 /\ k - 1 \in 0 .. NumSlaves /\ l - 1 \in k - 1 .. NumSlaves
    BY <1>1
  <2> QED
    BY <1>6, <1>8, <2>1
<1> QED
  BY <1>6, <1>7, <1>9, <1>10, <1>11

\* The data of each slave lies behind that of the slaves before.
LEMMA EndsAddUp ==
    ASSUME PdoAssumption, Laid, NEW d \in Dir
    PROVE  /\ ImageEnd(0, d) = 0
           /\ \A k \in 0 .. NumSlaves : ImageEnd(k, d) \in Nat
           /\ \A k \in SlaveId :
                 ImageEnd(k, d) = IF Bytes(k, d) > 0
                                  THEN ByteAligned(ImageEnd(k - 1, d)) + 8 * Bytes(k, d)
                                  ELSE ImageEnd(k - 1, d) + Bits(k, d)
<1> DEFINE n == NumSlaves
           After(b, j) == IF Bytes(j, d) > 0
                          THEN StartAfter(b, j, d) + 8 * Bytes(j, d)
                          ELSE b + Bits(j, d)
           F == [j \in 1 .. n |-> [b \in Nat |-> After(b, j)]]
<1>1. n \in Nat /\ SlaveId = 1 .. n
  BY DEF PdoAssumption, SlaveId
<1>2. ASSUME NEW j \in 1 .. n, NEW b \in Nat PROVE After(b, j) \in Nat
  <2>1. Bytes(j, d) \in Nat /\ Bits(j, d) \in Nat
    BY <1>1, BitsAndBytes
  <2> QED
    BY <2>1 DEF StartAfter, ByteAligned
<1> HIDE DEF n, After
<1>3. PICK h \in [0 .. n -> Nat] : Recurs(h, n, 0, F)
  <2>1. Recursive(n, Nat, 0, F)
    <3>1. F \in [1 .. n -> [Nat -> Nat]]
      BY <1>2
    <3> HIDE DEF F
    <3> QED
      BY <1>1, <3>1 DEF Recursive
  <2> HIDE DEF F
  <2> QED
    BY <2>1, RecursionExists
<1>4. h[0] = 0 /\ \A j \in 1 .. n : h[j] = After(h[j - 1], j)
  <2>1. \A j \in 1 .. n : j - 1 \in 0 .. n
    BY <1>1
  <2> QED
    BY <1>3, <2>1 DEF Recurs
<1>5. ASSUME NEW k \in 0 .. n PROVE ImageEnd(k, d) = h[k]
  <2> DEFINE Ends(f) == f = [j \in 0 .. k |-> IF j = 0 THEN 0 ELSE After(f[j - 1], j)]
             end == CHOOSE f : Ends(f)
             g == [j \in 0 .. k |-> h[j]]
  <2>1. ImageEnd(k, d) = end[k]
    BY Zenon DEF ImageEnd, After
  <2>2. Ends(g)
    <3>1. ASSUME NEW j \in 0 .. k
          PROVE  h[j] = IF j = 0 THEN 0 ELSE After(g[j - 1], j)
      <4>1. CASE j = 0
        BY <1>4, <4>1
      <4>2. CASE j # 0
        <5>1. j \in 1 .. n /\ j - 1 \in 0 .. k
          BY <1>1, <4>2
        <5> QED
          BY <1>4, <4>2, <5>1
      <4> QED
        BY <4>1, <4>2
    <3> QED
      BY <3>1, Zenon
  <2>3. Ends(end)
    <3> HIDE DEF g, Ends
    <3> QED
      BY <2>2
  <2>4. \A j \in 0 .. k : end[j] = IF j = 0 THEN 0 ELSE After(end[j - 1], j)
    <3> HIDE DEF end
    <3> QED
      BY <2>3, Zenon
  <2> HIDE DEF end, Ends, g
  <2> DEFINE N == {m \in Nat : m <= k => end[m] = h[m]}
  <2>5. k \in Nat
    BY <1>1
  <2>6. 0 \in N
    <3>1. 0 \in 0 .. k
      BY <2>5
    <3> QED
      BY <1>4, <2>4, <3>1
  <2>7. ASSUME NEW m \in Nat, m \in N PROVE m + 1 \in N
    <3>1. SUFFICES ASSUME m + 1 <= k PROVE end[m + 1] = h[m + 1]
      OBVIOUS
    <3>2. /\ m + 1 \in 0 .. k /\ m + 1 \in 1 .. n /\ m + 1 # 0
          /\ (m + 1) - 1 = m /\ m <= k
      BY <1>1, <2>5, <3>1
    <3>3. end[m] = h[m]
      BY <2>7, <3>2
    <3>4. end[m + 1] = After(end[m], m + 1)
      BY <2>4, <3>2
    <3>5. h[m + 1] = After(h[m], m + 1)
      BY <1>4, <3>2
    <3> QED
      BY <3>3, <3>4, <3>5
  <2>8. k \in N
    <3> HIDE DEF N
    <3> QED
      BY <2>5, <2>6, <2>7, Induction
  <2> QED
    BY <2>1, <2>5, <2>8
<1>6. ASSUME NEW k \in 1 .. n
      PROVE  ImageEnd(k, d) = After(ImageEnd(k - 1, d), k)
  <2>1. k \in 0 .. n /\ k - 1 \in 0 .. n
    BY <1>1
  <2> QED
    BY <1>4, <1>5, <2>1
<1>7. \A k \in 0 .. n : ImageEnd(k, d) \in Nat
  BY <1>5
<1>8. ImageEnd(0, d) = 0
  <2>1. 0 \in 0 .. n
    BY <1>1
  <2> QED
    BY <1>4, <1>5, <2>1
<1> QED
  BY <1>1, <1>6, <1>7, <1>8 DEF n, After, StartAfter

\* The variables of the first k slaves end inside the image, and where the data of
\* these slaves ends if all of it is on whole bytes.
LEMMA BasesInImage ==
    ASSUME PdoAssumption, Laid, NEW d \in Dir
    PROVE  \A k \in 0 .. NumSlaves :
              /\ 8 * Base(k + 1, d) <= ImageEnd(k, d)
              /\ WholeBytesBefore(k + 1, d) => 8 * Base(k + 1, d) = ImageEnd(k, d)
<1> DEFINE Whole(k) == \A j \in 1 .. k : Bits(j, d) = 0 \/ Bits(j, d) > 7
           Fits(k) == /\ 8 * Base(k + 1, d) <= ImageEnd(k, d)
                      /\ Whole(k) => 8 * Base(k + 1, d) = ImageEnd(k, d)
           N == {k \in Nat : k <= NumSlaves => Fits(k)}
<1>1. NumSlaves \in Nat /\ SlaveId = 1 .. NumSlaves
  BY DEF PdoAssumption, SlaveId
<1>2. 0 \in N
  BY BasesAddUp, EndsAddUp
<1>3. ASSUME NEW m \in Nat, m \in N PROVE m + 1 \in N
  <2>1. SUFFICES ASSUME m + 1 <= NumSlaves PROVE Fits(m + 1)
    OBVIOUS
  <2>2. /\ Fits(m) /\ m + 1 \in SlaveId /\ m \in 0 .. NumSlaves
        /\ (m + 1) - 1 = m /\ m + 1 \in 1 .. NumSlaves + 1
    BY <1>1, <1>3, <2>1
  <2> DEFINE j == m + 1
             b == Bits(j, d)
             B == Bytes(j, d)
             s == Base(j, d)
             e == ImageEnd(m, d)
  <2>3. s \in Nat /\ e \in Nat /\ b \in Nat /\ B \in Nat
    BY <2>2, BasesAddUp, EndsAddUp, BitsAndBytes
  <2>4. Base(j + 1, d) = s + B
    BY <2>2, BasesAddUp
  <2>5. ImageEnd(j, d) = IF B > 0 THEN ByteAligned(e) + 8 * B ELSE e + b
    BY <2>2, EndsAddUp
  <2>6. Whole(j) => Whole(m) /\ (b = 0 \/ b > 7)
    <3>1. j \in 1 .. j /\ \A i \in 1 .. m : i \in 1 .. j
      OBVIOUS
    <3> QED
      BY <3>1
  <2>7. b > 7 => B > 0
    BY <2>2, BitsAndBytes
  <2>8. 8 * s <= e /\ (Whole(m) => 8 * s = e)
    BY <2>2
  <2> HIDE DEF j, b, B, s, e, Whole
  <2>9. 8 * (s + B) <= ImageEnd(j, d)
    BY <2>3, <2>5, <2>8 DEF ByteAligned
  <2>10. ASSUME Whole(j) PROVE 8 * (s + B) = ImageEnd(j, d)
    <3>1. 8 * s = e /\ (b = 0 \/ B > 0)
      BY <2>6, <2>7, <2>8, <2>10
    <3>2. ByteAligned(e) = e
      BY <2>3, <3>1 DEF ByteAligned
    <3> QED
      BY <2>3, <2>5, <3>1, <3>2
  <2> QED
    BY <2>4, <2>9, <2>10 DEF j
<1>4. \A k \in Nat : k \in N
  <2> HIDE DEF N
  <2> QED
    BY <1>2, <1>3, Induction
<1>5. ASSUME NEW k \in 0 .. NumSlaves PROVE WholeBytesBefore(k + 1, d) = Whole(k)
  <2>1. (k + 1) - 1 = k
    BY <1>1
  <2> QED
    BY <2>1 DEF WholeBytesBefore
<1>6. ASSUME NEW k \in 0 .. NumSlaves PROVE Fits(k)
  BY <1>1, <1>4
<1> HIDE DEF Whole
<1> QED
  BY <1>5, <1>6

----------------------------------------------------------------------------
(* The position of the walk in the image.                                  *)

\* The entries of slave k before PDO p + 1, and the bits before the entry s + 1 of
\* PDO p.
Before(k, d, p) == Total(SubSeq(Lengths(laid[k][d]), 1, p))
BitsBefore(k, d, p, s) == FirstBits(Entries(k, d), Before(k, d, p - 1) + s)

\* The entries of the PDOs are those of the image, one PDO behind the other.
LEMMA Positions ==
    ASSUME Laid, NEW k \in SlaveId, NEW d \in Dir
    PROVE  LET pdos == laid[k][d]
               N    == Len(Entries(k, d))
           IN /\ Before(k, d, 0) = 0
              /\ \A p \in 0 .. Len(pdos) : Before(k, d, p) \in 0 .. N
              /\ \A p \in 1 .. Len(pdos) :
                    /\ Before(k, d, p) = Before(k, d, p - 1) + Len(pdos[p])
                    /\ \A s \in 1 .. Len(pdos[p]) :
                          Entries(k, d)[Before(k, d, p - 1) + s] = pdos[p][s]
<1> DEFINE pdos == laid[k][d]
           n == Len(pdos)
           q == Lengths(pdos)
           B(p) == Before(k, d, p)
<1>1. pdos \in Seq(Seq(Entry)) /\ n \in Nat
  BY EntriesType
<1>2. PICK at : Concatenates(Entries(k, d), pdos, at)
  BY <1>1, Flattened DEF Entries
<1> HIDE DEF pdos
<1>3. q \in Seq(Nat) /\ Len(q) = n /\ \A p \in 1 .. n : q[p] = Len(pdos[p])
  BY <1>1 DEF Lengths
<1>4. PICK h : RunningTotal(h, q) /\ \A p \in 0 .. Len(q) : Total(SubSeq(q, 1, p)) = h[p]
  BY <1>3, PartialTotals
<1> HIDE DEF q, n
<1>5. \A p \in 0 .. n : B(p) = h[p]
  BY <1>3, <1>4 DEF Before, q, pdos
<1>6. \A p \in 0 .. n : h[p] = at[p]
  <2>1. RunningTotal(at, q)
    BY <1>2 DEF Concatenates, q
  <2>2. \A p \in 0 .. n : p \in Nat /\ p <= Len(q)
    BY <1>1, <1>3
  <2> QED
    BY <1>3, <1>4, <2>1, <2>2, RunningTotalUnique
<1>7. /\ at[n] = Len(Entries(k, d))
      /\ \A p \in 1 .. n : \A s \in 1 .. Len(pdos[p]) :
            Entries(k, d)[at[p - 1] + s] = pdos[p][s]
  BY <1>2 DEF Concatenates, n
<1>8. /\ h[0] = 0
      /\ \A p \in 1 .. n : h[p] = h[p - 1] + Len(pdos[p])
      /\ \A p \in 0 .. n : h[p] \in Nat
  BY <1>3, <1>4 DEF RunningTotal
<1>9. \A p \in 0 .. n : h[p] <= h[n]
  <2>1. \A p \in 0 .. n : n \in p .. n
    BY <1>1
  <2> QED
    BY <1>3, <1>4, <2>1, RunningTotalGrows
<1>10. /\ 0 \in 0 .. n /\ n \in 0 .. n
       /\ \A p \in 1 .. n : p \in 0 .. n /\ p - 1 \in 0 .. n
  BY <1>1
<1>11. B(0) = 0
  BY <1>5, <1>8, <1>10
<1>12. \A p \in 0 .. n : B(p) \in 0 .. Len(Entries(k, d))
  BY <1>5, <1>6, <1>7, <1>8, <1>9, <1>10
<1>13. ASSUME NEW p \in 1 .. n
       PROVE  /\ B(p) = B(p - 1) + Len(pdos[p])
              /\ \A s \in 1 .. Len(pdos[p]) : Entries(k, d)[B(p - 1) + s] = pdos[p][s]
  <2>1. B(p) = h[p] /\ B(p - 1) = h[p - 1] /\ h[p - 1] = at[p - 1]
    BY <1>5, <1>6, <1>10
  <2> QED
    BY <1>7, <1>8, <2>1
<1> QED
  BY <1>11, <1>12, <1>13 DEF n, pdos

\* The bits before the cursor grow with each entry by what it is long, and those
\* before a PDO are those before the end of the PDO in front.
LEMMA BitsWalked ==
    ASSUME Laid, NEW k \in SlaveId, NEW d \in Dir, NEW p \in 1 .. Len(laid[k][d])
    PROVE  LET pdos == laid[k][d]
           IN /\ pdos[p] \in Seq(Entry)
              /\ BitsBefore(k, d, 1, 0) = 0
              /\ BitsBefore(k, d, p + 1, 0) = BitsBefore(k, d, p, Len(pdos[p]))
              /\ \A s \in 0 .. Len(pdos[p]) :
                    /\ BitsBefore(k, d, p, s) \in Nat
                    /\ BitsBefore(k, d, p, s) <= Bits(k, d)
                    /\ BitsBefore(k, d, p, 0) <= BitsBefore(k, d, p, s)
              /\ \A s \in 1 .. Len(pdos[p]) :
                    /\ BitsBefore(k, d, p, s) = BitsBefore(k, d, p, s - 1) + pdos[p][s].bits
                    /\ \E n \in DOMAIN Entries(k, d) :
                          /\ Entries(k, d)[n] = pdos[p][s]
                          /\ FirstBits(Entries(k, d), n - 1) = BitsBefore(k, d, p, s - 1)
<1> DEFINE pdos == laid[k][d]
           e == Entries(k, d)
           a == Before(k, d, p - 1)
           l == Len(pdos[p])
<1>1. /\ pdos \in Seq(Seq(Entry)) /\ e \in Seq(Entry) /\ pdos[p] \in Seq(Entry)
      /\ Len(pdos) \in Nat /\ Len(e) \in Nat /\ l \in Nat /\ DOMAIN e = 1 .. Len(e)
  <2>1. pdos \in Seq(Seq(Entry)) /\ e \in Seq(Entry)
    BY EntriesType
  <2> HIDE DEF pdos, e
  <2>2. pdos[p] \in Seq(Entry)
    BY <2>1 DEF pdos
  <2> QED
    BY <2>1, <2>2
<1>2. /\ p - 1 \in 0 .. Len(pdos) /\ p \in 0 .. Len(pdos) /\ 1 - 1 = 0
      /\ (p + 1) - 1 = p
  BY <1>1
<1>3. /\ Before(k, d, 0) = 0
      /\ a \in Nat /\ Before(k, d, p) = a + l /\ a + l <= Len(e)
      /\ \A s \in 1 .. l : e[a + s] = pdos[p][s]
  <2>1. Before(k, d, p - 1) \in 0 .. Len(e) /\ Before(k, d, p) \in 0 .. Len(e)
    BY <1>2, Positions
  <2>2. Before(k, d, 0) = 0 /\ Before(k, d, p) = a + l
    BY Positions
  <2>3. \A s \in 1 .. l : e[a + s] = pdos[p][s]
    BY Positions
  <2> QED
    BY <1>1, <2>1, <2>2, <2>3
<1>4. /\ SumBits(e) \in Nat /\ FirstBits(e, Len(e)) = SumBits(e)
      /\ FirstBits(e, 0) = 0
      /\ \A n \in 0 .. Len(e) : FirstBits(e, n) \in Nat
      /\ \A n \in 1 .. Len(e) : FirstBits(e, n) = FirstBits(e, n - 1) + e[n].bits
      /\ \A m \in 0 .. Len(e) : \A n \in m .. Len(e) : FirstBits(e, m) <= FirstBits(e, n)
  BY <1>1, BitsAddUp
<1>5. \A s \in Nat : BitsBefore(k, d, p, s) = FirstBits(e, a + s)
  BY DEF BitsBefore
<1>6. BitsBefore(k, d, 1, 0) = 0
  <2>1. Before(k, d, 1 - 1) + 0 = 0
    BY <1>2, <1>3
  <2>2. BitsBefore(k, d, 1, 0) = FirstBits(e, 0)
    BY <2>1 DEF BitsBefore
  <2> QED
    BY <1>4, <2>2
<1>7. BitsBefore(k, d, p + 1, 0) = BitsBefore(k, d, p, l)
  <2>1. Before(k, d, (p + 1) - 1) + 0 = a + l
    <3>1. Before(k, d, (p + 1) - 1) = Before(k, d, p)
      BY <1>2
    <3>2. (a + l) + 0 = a + l
      BY <1>1, <1>3
    <3> QED
      BY <1>3, <3>1, <3>2
  <2> QED
    BY <2>1 DEF BitsBefore
<1>8. Bits(k, d) = SumBits(e)
  BY DEF Bits
<1> HIDE DEF e, a, pdos, l
<1>9. ASSUME NEW s \in 0 .. l
      PROVE  /\ BitsBefore(k, d, p, s) \in Nat
             /\ BitsBefore(k, d, p, s) <= Bits(k, d)
             /\ BitsBefore(k, d, p, 0) <= BitsBefore(k, d, p, s)
  <2>1. /\ a \in 0 .. Len(e) /\ a + 0 = a /\ a + s \in a .. Len(e)
        /\ a + s \in 0 .. Len(e) /\ Len(e) \in a + s .. Len(e)
        /\ s \in Nat /\ 0 \in Nat
    BY <1>1, <1>3
  <2>2. FirstBits(e, a + s) <= FirstBits(e, Len(e)) /\ FirstBits(e, a) <= FirstBits(e, a + s)
    BY <1>4, <2>1
  <2> QED
    BY <1>4, <1>5, <1>8, <2>1, <2>2
<1>10. ASSUME NEW s \in 1 .. l
       PROVE  /\ BitsBefore(k, d, p, s) = BitsBefore(k, d, p, s - 1) + pdos[p][s].bits
              /\ \E n \in DOMAIN e : /\ e[n] = pdos[p][s]
                                     /\ FirstBits(e, n - 1) = BitsBefore(k, d, p, s - 1)
  <2>1. /\ a + s \in 1 .. Len(e) /\ (a + s) - 1 = a + (s - 1)
        /\ s \in Nat /\ s - 1 \in Nat
    BY <1>1, <1>3
  <2>2. e[a + s] = pdos[p][s]
    BY <1>3
  <2>3. FirstBits(e, a + s) = FirstBits(e, (a + s) - 1) + e[a + s].bits
    BY <1>4, <2>1
  <2>4. BitsBefore(k, d, p, s) = FirstBits(e, a + s) /\
        BitsBefore(k, d, p, s - 1) = FirstBits(e, (a + s) - 1)
    BY <1>5, <2>1
  <2>5. a + s \in DOMAIN e
    BY <1>1, <2>1
  <2> QED
    BY <2>2, <2>3, <2>4, <2>5
<1> QED
  BY <1>1, <1>6, <1>7, <1>9, <1>10 DEF e, pdos, l

\* The layout of the image does not change.
LEMMA LayoutStays ==
    ASSUME laid' = laid
    PROVE  /\ \A k \in SlaveId, d \in Dir :
                 /\ Entries(k, d)' = Entries(k, d)
                 /\ Bits(k, d)' = Bits(k, d)
                 /\ Base(k, d)' = Base(k, d)
           /\ \A k \in SlaveId, d \in Dir, p, s \in Nat :
                 BitsBefore(k, d, p, s)' = BitsBefore(k, d, p, s)
<1> QED
  BY DEF Entries, Bits, Base, MapOffset, Bytes, BitsBefore, Before

----------------------------------------------------------------------------
(* The loops of the walk.                                                  *)

\* The dictionaries, the tables and what the walk has lost.
Typed ==
    /\ dict \in [SlaveId -> Dictionaries] /\ Laid
    /\ \A k \in SlaveId : Conforms(dict[k].types)
    /\ table \in [SlaveId -> [Dir -> Seq(PdVars)]]
    /\ overrun \in BOOLEAN
    /\ lost \in 0 .. MaxLost
    /\ shifted \subseteq SlaveId /\ mistyped \subseteq SlaveId

CursorTyped ==
    /\ pc \in {"map", "reassign", "count", "type", "assign", "pdo", "entry", "done"}
    /\ slave \in SlaveId
    /\ nSM \in 0 .. EC_MAXSM /\ iSM \in 0 .. nSM
    /\ bugAdd \in {0, 1} /\ tSM \in {0, 3, 4}
    /\ pdo \in Nat /\ sub \in Nat
    /\ bo \in [{3, 4} -> Nat] /\ bitoffset \in Nat

Walking == pc \in {"assign", "pdo", "entry"}

\* The sync manager, the PDO and the entry the walk stands at exist.
InDictionary ==
    /\ pc = "type" \/ Walking =>
          2 <= iSM /\ iSM <= nSM /\ nSM <= Len(dict[slave].types) + 1
    /\ Walking => iSM \in {2, 3} /\ tSM \in {3, 4}
    /\ pc \in {"pdo", "entry"} => pdo \in 1 .. Len(Assigned)
    /\ pc = "entry" => sub \in 1 .. Len(Assigned[pdo])

\* What SMt_bug_add is for the slave, and for a slave whose SM2 type was read: SM2 is
\* walked as output, SM3 as input, each from bit 0 on.
Workaround == IF dict[slave].types[1] = 2 THEN 1 ELSE 0

Numbered ==
    /\ pc \in {"map", "reassign", "count"} => bugAdd = 0 /\ bo[3] = 0 /\ bo[4] = 0
    /\ slave \notin mistyped =>
          /\ pc = "type" /\ iSM = 2 => bugAdd = 0 /\ bo[3] = 0 /\ bo[4] = 0
          /\ pc = "type" /\ iSM = 3 => bugAdd = Workaround /\ bo[4] = 0
          /\ Walking => tSM = TypeOf(DirOf(iSM))
          /\ Walking /\ iSM = 2 => bugAdd = Workaround /\ bo[4] = 0
          /\ pc = "assign" => bitoffset = 0

CursorInv == CursorTyped /\ InDictionary /\ Numbered

\* Between two walks: the next sync manager, the next slave or the end.
Between == pc \in {"type", "count", "done"}

\* The next slave starts afresh.
LEMMA NextSlaveStarts ==
    ASSUME PdoAssumption, CursorInv, NextSlave, dict' = dict
    PROVE  CursorInv' /\ Between'
<1> USE DEF NextSlave
<1>1. NumSlaves \in Nat
  BY DEF PdoAssumption
<1>2. pc' \in {"count", "done"}
  OBVIOUS
<1>3. CursorTyped'
  <2>1. slave' \in SlaveId
    BY <1>1 DEF CursorInv, CursorTyped, SlaveId
  <2> QED
    BY <1>2, <2>1 DEF CursorTyped, EC_MAXSM
<1>4. InDictionary'
  BY <1>2 DEF InDictionary, Walking
<1>5. Numbered'
  BY <1>2 DEF Numbered, Walking
<1> QED
  BY <1>2, <1>3, <1>4, <1>5 DEF CursorInv, Between

\* What the loop over the sync managers is left with when SM2 was of a slave that got
\* its workaround.
Leaves(offsets, bug) == slave \notin mistyped' /\ iSM = 2 =>
                            bug = Workaround /\ offsets[4] = 0

\* The next sync manager is numbered as the slave numbers its types.
LEMMA NextSMGoesOn ==
    ASSUME PdoAssumption, CursorInv, pc = "type" \/ Walking, NEW offsets, NEW bug,
           NextSM(offsets, bug), dict' = dict,
           offsets \in [{3, 4} -> Nat], bug \in {0, 1}, Leaves(offsets, bug)
    PROVE  CursorInv' /\ Between'
<1>1. CASE iSM < nSM
  <2>1. /\ pc' = "type" /\ iSM' = iSM + 1 /\ bo' = offsets /\ bugAdd' = bug
        /\ tSM' = 0 /\ pdo' = 0 /\ sub' = 0 /\ bitoffset' = 0
        /\ slave' = slave /\ nSM' = nSM
    BY <1>1 DEF NextSM
  <2>2. /\ slave \in SlaveId /\ nSM \in 0 .. EC_MAXSM /\ iSM \in 0 .. nSM
        /\ 2 <= iSM /\ nSM <= Len(dict[slave].types) + 1
    BY DEF CursorInv, CursorTyped, InDictionary
  <2>3. CursorTyped'
    BY <1>1, <2>1, <2>2 DEF CursorTyped, EC_MAXSM
  <2>4. InDictionary'
    BY <1>1, <2>1, <2>2 DEF InDictionary, Walking, EC_MAXSM
  <2>5. Workaround' = Workaround
    BY <2>1 DEF Workaround
  <2>6. iSM' # 2 /\ (iSM' = 3 => iSM = 2)
    BY <2>1, <2>2 DEF EC_MAXSM
  <2>7. Numbered'
    BY <2>1, <2>5, <2>6 DEF Numbered, Walking, Leaves
  <2> QED
    BY <2>1, <2>3, <2>4, <2>7 DEF CursorInv, Between
<1>2. CASE ~ (iSM < nSM)
  BY <1>2, NextSlaveStarts DEF NextSM
<1> QED
  BY <1>1, <1>2

\* The loop over the PDOs goes on with the next one, or the walk is over.
LEMMA NextPdoGoesOn ==
    ASSUME PdoAssumption, CursorInv, Walking, NEW p \in Nat, NextPdo(p),
           dict' = dict, mistyped' = mistyped
    PROVE  /\ CursorInv'
           /\ \/ /\ p < Len(Assigned) /\ pc' = "pdo" /\ pdo' = p + 1
                 /\ UNCHANGED <<slave, iSM, bitoffset>>
              \/ Between'
<1>1. CASE p < Len(Assigned)
  <2>1. /\ pc' = "pdo" /\ pdo' = p + 1
        /\ UNCHANGED <<slave, nSM, iSM, bugAdd, tSM, sub, bo, bitoffset>>
    BY <1>1 DEF NextPdo
  <2>2. Assigned' = Assigned
    BY <2>1 DEF Assigned, DirOf
  <2>3. CursorTyped'
    BY <2>1 DEF CursorInv, CursorTyped
  <2>4. InDictionary'
    <3>1. pdo' \in 1 .. Len(Assigned')
      BY <1>1, <2>1, <2>2
    <3> QED
      BY <2>1, <3>1 DEF CursorInv, InDictionary, Walking
  <2>5. Numbered'
    <3>1. Workaround' = Workaround /\ TypeOf(DirOf(iSM))' = TypeOf(DirOf(iSM))
      BY <2>1 DEF Workaround, TypeOf, DirOf
    <3> QED
      BY <2>1, <3>1 DEF CursorInv, Numbered, Walking
  <2> QED
    BY <1>1, <2>1, <2>3, <2>4, <2>5 DEF CursorInv
<1>2. CASE ~ (p < Len(Assigned))
  <2> DEFINE offsets == [bo EXCEPT ![tSM] = bitoffset]
  <2>1. NextSM(offsets, bugAdd)
    BY <1>2 DEF NextPdo, Return
  <2>2. offsets \in [{3, 4} -> Nat] /\ bugAdd \in {0, 1}
    BY DEF CursorInv, CursorTyped
  <2>3. Leaves(offsets, bugAdd)
    <3>1. SUFFICES ASSUME slave \notin mistyped, iSM = 2
                   PROVE  bugAdd = Workaround /\ offsets[4] = 0
      BY DEF Leaves
    <3>2. bugAdd = Workaround /\ bo[4] = 0 /\ tSM = 3
      BY <3>1 DEF CursorInv, Numbered, TypeOf, DirOf
    <3>3. offsets[4] = bo[4]
      BY <3>2 DEF CursorInv, CursorTyped
    <3> QED
      BY <3>2, <3>3
  <2> HIDE DEF offsets
  <2> QED
    BY <2>1, <2>2, <2>3, NextSMGoesOn
<1> QED
  BY <1>1, <1>2

----------------------------------------------------------------------------
(* The tables.                                                             *)

\* The variables follow each other and lie between two bytes of the image.
InOrder(vs) ==
    \A i, j \in DOMAIN vs : i < j => vs[i].offset + vs[i].size <= vs[j].offset
Within(vs, low, high) ==
    \A i \in DOMAIN vs : low <= vs[i].offset /\ vs[i].offset + vs[i].size <= high

\* Each variable is one of the entries, where the data that begins at byte base has it.
Matches(vs, entries, base) ==
    \A i \in DOMAIN vs : \E n \in DOMAIN entries :
        /\ entries[n].obj = vs[i].obj
        /\ vs[i].size = entries[n].bits \div 8
        /\ vs[i].offset = base + FirstBits(entries, n - 1) \div 8

Placed ==
    \A k \in SlaveId : \A d \in Dir : SameLayout(k, d) =>
        /\ InOrder(table[k][d])
        /\ Within(table[k][d], Base(k, d), Base(k, d) + Bits(k, d) \div 8)
        /\ k \notin shifted => Matches(table[k][d], Entries(k, d), Base(k, d))

\* Nothing is published before the walk of a sync manager.
Fresh ==
    /\ pc \in {"map", "reassign"} => \A k \in SlaveId : \A d \in Dir : table[k][d] = <<>>
    /\ pc = "assign" => table[slave][DirOf(iSM)] = <<>>

\* The walk is never ahead of the image, behind it only if something was lost, and has
\* published nothing beyond where it stands.
Cursor == BitsBefore(slave, DirOf(iSM), pdo, IF pc = "entry" THEN sub - 1 ELSE 0)
Seen == SameLayout(slave, DirOf(iSM))
Published(low, bits) == Within(table[slave][DirOf(iSM)], low, low + bits \div 8)

Walked ==
    pc \in {"pdo", "entry"} /\ Seen =>
        /\ bitoffset <= Cursor /\ (slave \notin shifted => bitoffset = Cursor)
        /\ Published(Base(slave, DirOf(iSM)), bitoffset)

Inv == Typed /\ CursorInv /\ Placed /\ Fresh /\ Walked

\* A variable published at the bit after the last one lies behind the others.
LEMMA Publish ==
    ASSUME NEW vs \in Seq(PdVars), NEW low \in Nat, NEW b \in Nat, NEW bits \in Nat,
           NEW all \in Nat, b + bits <= all,
           InOrder(vs), Within(vs, low, low + b \div 8), NEW v \in PdVars,
           v.offset = low + b \div 8, v.size = bits \div 8
    PROVE  /\ InOrder(Append(vs, v))
           /\ Within(Append(vs, v), low, low + (b + bits) \div 8)
           /\ Within(Append(vs, v), low, low + all \div 8)
<1> DEFINE w == Append(vs, v)
           n == Len(vs)
<1>1. /\ n \in Nat /\ DOMAIN w = 1 .. n + 1 /\ DOMAIN vs = 1 .. n /\ w[n + 1] = v
      /\ \A i \in 1 .. n : w[i] = vs[i] /\ vs[i].offset \in Nat /\ vs[i].size \in Nat
  <2>1. \A x \in PdVars : x.offset \in Nat /\ x.size \in Nat
    BY DEF PdVars
  <2>2. /\ n \in Nat /\ DOMAIN w = 1 .. n + 1 /\ DOMAIN vs = 1 .. n /\ w[n + 1] = v
        /\ \A i \in 1 .. n : w[i] = vs[i] /\ vs[i] \in PdVars
    OBVIOUS
  <2> QED
    BY <2>1, <2>2
<1> HIDE DEF w, n
<1>2. /\ b \div 8 \in Nat /\ bits \div 8 \in Nat
      /\ b \div 8 + bits \div 8 <= (b + bits) \div 8
      /\ (b + bits) \div 8 <= all \div 8 /\ all \div 8 \in Nat
  OBVIOUS
<1>3. \A i \in 1 .. n : /\ low <= vs[i].offset
                        /\ vs[i].offset + vs[i].size <= low + b \div 8
  BY <1>1 DEF Within
<1>4. \A i \in 1 .. n + 1 : i \in 1 .. n \/ i = n + 1
  BY <1>1
<1>5. InOrder(w)
  <2>1. SUFFICES ASSUME NEW i \in 1 .. n + 1, NEW j \in 1 .. n + 1, i < j
                 PROVE  w[i].offset + w[i].size <= w[j].offset
    BY <1>1 DEF InOrder
  <2>2. i \in 1 .. n
    BY <1>1, <2>1
  <2>3. CASE j \in 1 .. n
    BY <1>1, <2>1, <2>2, <2>3 DEF InOrder
  <2>4. CASE j = n + 1
    BY <1>1, <1>3, <2>2, <2>4
  <2> QED
    BY <1>4, <2>3, <2>4
<1>6. \A i \in 1 .. n + 1 : /\ low <= w[i].offset
                            /\ w[i].offset + w[i].size <= low + (b + bits) \div 8
                            /\ w[i].offset + w[i].size <= low + all \div 8
  <2>1. SUFFICES ASSUME NEW i \in 1 .. n + 1
                 PROVE  /\ low <= w[i].offset
                        /\ w[i].offset + w[i].size <= low + (b + bits) \div 8
                        /\ w[i].offset + w[i].size <= low + all \div 8
    OBVIOUS
  <2>2. CASE i \in 1 .. n
    <3> DEFINE e == vs[i].offset + vs[i].size
    <3>1. e \in Nat /\ e <= low + b \div 8
      BY <1>1, <1>3, <2>2
    <3>2. e <= low + (b + bits) \div 8 /\ e <= low + all \div 8
      <4> HIDE DEF e
      <4> QED
        BY <1>2, <3>1
    <3> QED
      BY <1>1, <1>3, <2>2, <3>2
  <2>3. CASE i = n + 1
    BY <1>1, <1>2, <2>3
  <2> QED
    BY <1>4, <2>2, <2>3
<1> QED
  BY <1>1, <1>5, <1>6 DEF Within, w

\* A variable that is an entry where the image has it joins others that are.
LEMMA PublishMatch ==
    ASSUME NEW vs \in Seq(PdVars), NEW entries, NEW base, Matches(vs, entries, base),
           NEW v, NEW n \in DOMAIN entries, entries[n].obj = v.obj,
           v.size = entries[n].bits \div 8,
           v.offset = base + FirstBits(entries, n - 1) \div 8
    PROVE  Matches(Append(vs, v), entries, base)
<1> DEFINE w == Append(vs, v)
<1>1. /\ Len(vs) \in Nat /\ DOMAIN w = 1 .. Len(vs) + 1 /\ DOMAIN vs = 1 .. Len(vs)
      /\ w[Len(vs) + 1] = v /\ \A i \in 1 .. Len(vs) : w[i] = vs[i]
  OBVIOUS
<1> HIDE DEF w
<1>2. ASSUME NEW i \in 1 .. Len(vs) + 1
      PROVE  \E m \in DOMAIN entries :
                /\ entries[m].obj = w[i].obj
                /\ w[i].size = entries[m].bits \div 8
                /\ w[i].offset = base + FirstBits(entries, m - 1) \div 8
  <2>1. CASE i = Len(vs) + 1
    BY <1>1, <2>1
  <2>2. CASE i # Len(vs) + 1
    <3>1. i \in DOMAIN vs /\ w[i] = vs[i]
      BY <1>1, <2>2
    <3> QED
      BY <3>1 DEF Matches
  <2> QED
    BY <2>1, <2>2
<1> QED
  BY <1>1, <1>2 DEF Matches, w

\* What the slave lists are the first PDOs of the image.
LEMMA PrefixWalked ==
    ASSUME Typed, NEW k \in SlaveId, NEW d \in Dir, SameLayout(k, d)
    PROVE  \A p \in 1 .. Len(dict[k][d]) :
              p \in 1 .. Len(laid[k][d]) /\ dict[k][d][p] = laid[k][d][p]
<1>1. dict[k][d] \in Seq(Seq(Entry)) /\ laid[k][d] \in Seq(Seq(Entry))
  BY DEF Typed, Laid, Mapping, Dictionaries, Dir
<1> DEFINE s == dict[k][d]
           t == laid[k][d]
<1>2. Len(s) <= Len(t) /\ SubSeq(s, 1, Len(s)) = SubSeq(t, 1, Len(s))
  BY DEF SameLayout, Moved, IsPrefix
<1> HIDE DEF s, t
<1>3. s \in Seq(Seq(Entry)) /\ t \in Seq(Seq(Entry))
  BY <1>1 DEF s, t
<1>4. \A p \in 1 .. Len(s) : p \in 1 .. Len(t) /\ s[p] = t[p]
  <2>1. \A p \in 1 .. Len(s) : SubSeq(s, 1, Len(s))[p] = s[p] /\ SubSeq(t, 1, Len(s))[p] = t[p]
    BY <1>2, <1>3
  <2> QED
    BY <1>2, <1>3, <2>1
<1> QED
  BY <1>4 DEF s, t

\* What is published stays where it is while the walk goes on.
LEMMA PlacedStays ==
    ASSUME Placed, laid' = laid, dict' = dict, table' = table,
           shifted \subseteq shifted', mistyped \subseteq mistyped'
    PROVE  Placed'
<1>1. ASSUME NEW k \in SlaveId, NEW d \in Dir, SameLayout(k, d)'
      PROVE  /\ InOrder(table'[k][d])
             /\ Within(table'[k][d], Base(k, d)', Base(k, d)' + Bits(k, d)' \div 8)
             /\ k \notin shifted' => Matches(table'[k][d], Entries(k, d)', Base(k, d)')
  <2>1. SameLayout(k, d)
    BY <1>1 DEF SameLayout, Moved
  <2>2. Entries(k, d)' = Entries(k, d) /\ Bits(k, d)' = Bits(k, d) /\ Base(k, d)' = Base(k, d)
    BY LayoutStays
  <2> QED
    BY <2>1, <2>2 DEF Placed
<1> QED
  BY <1>1 DEF Placed

----------------------------------------------------------------------------
(* The steps of the walk.                                                  *)

\* An upload counts as lost while it may.
LEMMA ReadCounts ==
    ASSUME PdoAssumption, lost \in 0 .. MaxLost, NEW ok, Read(ok)
    PROVE  lost' \in 0 .. MaxLost
BY DEF Read, PdoAssumption

\* What SOEM reads of a dictionary are PDOs.
LEMMA CollectedType ==
    ASSUME NEW s \in Dictionaries, NEW gone
    PROVE  Collected(s, gone) \in Mapping
<1>1. ASSUME NEW i \in {2, 3}
      PROVE  Remaining(s, i, gone) \in Seq(Seq(Entry))
  <2> DEFINE pdos == s[DirOf(i)]
             left(p) == [n \in DOMAIN pdos[p] |->
                           IF <<i, p, n>> \in gone THEN Nothing ELSE pdos[p][n]]
  <2>1. pdos \in Seq(Seq(Entry))
    BY DEF Dictionaries, DirOf
  <2>2. Nothing \in Entry
    BY DEF Nothing, Entry
  <2>3. Remaining(s, i, gone) = [p \in DOMAIN pdos |-> left(p)]
    BY DEF Remaining
  <2> HIDE DEF pdos
  <2>4. ASSUME NEW p \in DOMAIN pdos
        PROVE  left(p) \in Seq(Entry)
    <3>1. pdos[p] \in Seq(Entry)
      BY <2>1
    <3> DEFINE q == pdos[p]
    <3>2. q \in Seq(Entry)
      BY <3>1
    <3> HIDE DEF q
    <3> DEFINE e(n) == IF <<i, p, n>> \in gone THEN Nothing ELSE q[n]
    <3>3. DOMAIN q = 1 .. Len(q) /\ Len(q) \in Nat /\ \A n \in 1 .. Len(q) : e(n) \in Entry
      BY <2>2, <3>2
    <3>4. left(p) = [n \in 1 .. Len(q) |-> e(n)]
      BY <3>3 DEF q
    <3> HIDE DEF e, left
    <3> QED
      BY <3>3, <3>4
  <2>5. DOMAIN pdos = 1 .. Len(pdos) /\ Len(pdos) \in Nat
    BY <2>1
  <2> HIDE DEF left
  <2>6. [p \in 1 .. Len(pdos) |-> left(p)] \in Seq(Seq(Entry))
    BY <2>4, <2>5
  <2> QED
    BY <2>3, <2>5, <2>6
<1> DEFINE part(i, d) == IF SoemType(s, i, gone) = (IF d = "out" THEN 3 ELSE 4)
                         THEN Remaining(s, i, gone) ELSE <<>>
<1>2. \A d \in Dir : part(2, d) \in Seq(Seq(Entry)) /\ part(3, d) \in Seq(Seq(Entry))
  BY <1>1
<1>3. Collected(s, gone) = [d \in Dir |-> part(2, d) \o part(3, d)]
  BY DEF Collected
<1> HIDE DEF part
<1>4. \A d \in Dir : part(2, d) \o part(3, d) \in Seq(Seq(Entry))
  BY <1>2
<1> QED
  BY <1>3, <1>4 DEF Mapping

\* What it takes otherwise are PDOs too.
LEMMA OtherwiseType ==
    ASSUME Typed, NEW k \in SlaveId, PdoAssumption
    PROVE  Otherwise(k) \subseteq Mapping
<1>1. dict[k] \in Dictionaries
  BY DEF Typed
<1>2. dict[k].sii \in Mapping
  <2>1. dict[k].sii \in [out : Seq(Seq(Entry)), in : Seq(Seq(Entry))]
    BY <1>1 DEF Dictionaries
  <2> DEFINE m == dict[k].sii
  <2>2. m \in [out : Seq(Seq(Entry)), in : Seq(Seq(Entry))]
    BY <2>1
  <2> HIDE DEF m
  <2>3. m \in [{"out", "in"} -> Seq(Seq(Entry))]
    BY <2>2
  <2> QED
    BY <2>3 DEF m, Mapping, Dir
<1>3. \A j \in 1 .. k - 1 : j \in SlaveId
  BY DEF SlaveId, PdoAssumption
<1>4. \A j \in 1 .. k - 1 : laid[j] \in Mapping
  BY <1>3 DEF Typed, Laid
<1> QED
  BY <1>2, <1>4 DEF Otherwise

\* While SOEM maps the slaves nothing is published.
LEMMA MapSlaveKeeps ==
    ASSUME PdoAssumption, Inv, MapSlave
    PROVE  Inv'
<1>1. /\ pc = "map" /\ pc' \in {"map", "reassign"} /\ slave \in SlaveId /\ slave' \in SlaveId
      /\ UNCHANGED <<dict, nSM, iSM, bugAdd, tSM, pdo, sub, bo, bitoffset,
                     table, overrun, shifted, mistyped>>
  BY DEF MapSlave, Inv, CursorInv, CursorTyped, SlaveId, PdoAssumption
<1>2. PICK gone \in SUBSET Uploads(dict[slave]) :
         /\ lost' \in lost .. MaxLost
         /\ \E pdos \in IF HasBits(Collected(dict[slave], gone))
                          THEN {Collected(dict[slave], gone)} ELSE Otherwise(slave) :
               laid' = [laid EXCEPT ![slave] = pdos]
  BY DEF MapSlave
<1>3. PICK pdos \in Mapping : laid' = [laid EXCEPT ![slave] = pdos]
  <2>1. dict[slave] \in Dictionaries /\ Typed
    BY <1>1 DEF Inv, Typed
  <2>2. Collected(dict[slave], gone) \in Mapping /\ Otherwise(slave) \subseteq Mapping
    BY <1>1, <2>1, CollectedType, OtherwiseType
  <2> QED
    BY <1>2, <2>2
<1>4. Typed'
  <2>1. Laid'
    BY <1>3 DEF Inv, Typed, Laid
  <2>2. lost' \in 0 .. MaxLost
    BY <1>2 DEF Inv, Typed
  <2> QED
    BY <1>1, <2>1, <2>2 DEF Inv, Typed
<1>5. CursorInv'
  <2>1. CursorTyped'
    BY <1>1 DEF Inv, CursorInv, CursorTyped
  <2>2. InDictionary'
    BY <1>1 DEF InDictionary, Walking
  <2>3. Numbered'
    BY <1>1 DEF Inv, CursorInv, Numbered, Walking
  <2> QED
    BY <2>1, <2>2, <2>3 DEF CursorInv
<1>6. Placed'
  <2>1. \A k \in SlaveId : \A d \in Dir : table'[k][d] = <<>>
    BY <1>1 DEF Inv, Fresh
  <2>2. \A low, high, entries : /\ InOrder(<<>>) /\ Within(<<>>, low, high)
                                /\ Matches(<<>>, entries, low)
    BY DEF InOrder, Within, Matches
  <2> QED
    BY <2>1, <2>2 DEF Placed
<1>7. Fresh' /\ Walked'
  BY <1>1 DEF Inv, Fresh, Walked
<1> QED
  BY <1>4, <1>5, <1>6, <1>7 DEF Inv

\* No slave publishes anything before its PDOs are assigned, and those the master
\* assigns are PDOs as well.
LEMMA ReassignKeeps ==
    ASSUME PdoAssumption, Inv, Reassign
    PROVE  Inv'
<1>1. /\ pc = "reassign" /\ pc' = "count"
      /\ UNCHANGED <<laid, slave, nSM, iSM, bugAdd, tSM, pdo, sub, bo, bitoffset,
                     table, overrun, lost, shifted, mistyped>>
  BY DEF Reassign
<1>2. PICK taken \in SUBSET Dir :
         dict' = [dict EXCEPT ![1] = [f \in DOMAIN dict[1] |->
                     IF f \in taken THEN <<dict[1].first[f]>> ELSE dict[1][f]]]
  BY DEF Reassign
<1> DEFINE s == dict[1]
           t == [f \in DOMAIN s |-> IF f \in taken THEN <<s.first[f]>> ELSE s[f]]
<1>3. 1 \in SlaveId /\ dict \in [SlaveId -> Dictionaries] /\ s \in Dictionaries
  BY DEF Inv, Typed, SlaveId, PdoAssumption
<1>4. t \in Dictionaries /\ t.types = s.types
  <2> HIDE DEF s
  <2>1. /\ s = [types |-> s.types, out |-> s.out, in |-> s.in, first |-> s.first,
                sii |-> s.sii]
        /\ DOMAIN s = {"types", "out", "in", "first", "sii"}
        /\ s.types \in Seq(Nat) /\ s.out \in Seq(Seq(Entry)) /\ s.in \in Seq(Seq(Entry))
        /\ s.first \in [out : Seq(Entry), in : Seq(Entry)]
        /\ s.sii \in [out : Seq(Seq(Entry)), in : Seq(Seq(Entry))]
    BY <1>3 DEF Dictionaries
  <2>2. \A d \in Dir : <<s.first[d]>> \in Seq(Seq(Entry))
    BY <2>1 DEF Dir
  <2>3. /\ t.types = s.types /\ t.first = s.first /\ t.sii = s.sii
        /\ t.out \in Seq(Seq(Entry)) /\ t.in \in Seq(Seq(Entry))
    BY <1>2, <2>1, <2>2 DEF Dir
  <2>4. t = [f \in {"types", "out", "in", "first", "sii"} |-> t[f]]
    BY <2>1
  <2> HIDE DEF t
  <2>5. t = [types |-> t.types, out |-> t.out, in |-> t.in, first |-> t.first,
             sii |-> t.sii]
    BY <2>4
  <2> QED
    BY <2>1, <2>3, <2>5 DEF Dictionaries
<1>5. dict' = [dict EXCEPT ![1] = t]
  BY <1>2
<1> HIDE DEF s, t
<1>6. Typed'
  <2>1. dict' \in [SlaveId -> Dictionaries]
    BY <1>3, <1>4, <1>5
  <2>2. \A k \in SlaveId : Conforms(dict'[k].types)
    <3>1. \A k \in SlaveId : dict'[k].types = dict[k].types
      BY <1>3, <1>4, <1>5 DEF s
    <3> QED
      BY <3>1 DEF Inv, Typed
  <2> QED
    BY <1>1, <2>1, <2>2 DEF Inv, Typed, Laid
<1>7. CursorInv'
  BY <1>1 DEF Inv, CursorInv, CursorTyped, InDictionary, Numbered, Walking
<1>8. Placed'
  <2>1. \A k \in SlaveId : \A d \in Dir : table'[k][d] = <<>>
    BY <1>1 DEF Inv, Fresh
  <2>2. \A low, high, entries : /\ InOrder(<<>>) /\ Within(<<>>, low, high)
                                /\ Matches(<<>>, entries, low)
    BY DEF InOrder, Within, Matches
  <2> QED
    BY <2>1, <2>2 DEF Placed
<1>9. Fresh' /\ Walked'
  BY <1>1 DEF Fresh, Walked
<1> QED
  BY <1>6, <1>7, <1>8, <1>9 DEF Inv

\* A walk of a slave begins at SM2 and ends at its last sync manager.
LEMMA CountSMKeeps ==
    ASSUME PdoAssumption, Inv, CountSM
    PROVE  Inv'
<1>1. pc = "count" /\ UNCHANGED <<dict, laid, table, shifted, mistyped>>
  BY DEF CountSM
<1>2. PICK ok \in BOOLEAN :
         /\ Read(ok)
         /\ LET n == IF ok THEN Len(dict[slave].types) + 2 ELSE 0 IN
             IF n > 2
             THEN /\ pc' = "type" /\ iSM' = 2
                  /\ nSM' = IF n - 1 > EC_MAXSM THEN EC_MAXSM ELSE n - 1
                  /\ UNCHANGED <<slave, bugAdd, tSM, pdo, sub, bo, bitoffset>>
             ELSE NextSlave
  BY DEF CountSM
<1>3. Typed'
  <2>1. lost' \in 0 .. MaxLost
    BY <1>2, ReadCounts DEF Inv, Typed
  <2>2. overrun' \in BOOLEAN
    BY DEF CountSM
  <2> QED
    BY <1>1, <2>1, <2>2 DEF Inv, Typed, Laid
<1>4. CursorInv' /\ Between'
  <2> DEFINE l == Len(dict[slave].types)
             n == IF ok THEN l + 2 ELSE 0
  <2>1. l \in Nat
    <3>1. dict[slave] \in Dictionaries
      BY DEF Inv, Typed, CursorInv, CursorTyped
    <3> QED
      BY <3>1 DEF Dictionaries
  <2>2. CASE n > 2
    <3>1. /\ pc' = "type" /\ iSM' = 2
          /\ nSM' = (IF n - 1 > EC_MAXSM THEN EC_MAXSM ELSE n - 1)
          /\ UNCHANGED <<slave, bugAdd, tSM, pdo, sub, bo, bitoffset>>
      BY <1>2, <2>2
    <3>2. Len(dict[slave].types)' = l
      BY <1>1, <3>1
    <3> HIDE DEF l
    <3>3. n = l + 2 /\ l >= 1
      BY <2>1, <2>2
    <3>4. nSM' \in 2 .. EC_MAXSM /\ nSM' <= l + 1
      BY <2>1, <3>1, <3>3 DEF EC_MAXSM
    <3>5. CursorTyped'
      BY <3>1, <3>4 DEF Inv, CursorInv, CursorTyped, EC_MAXSM
    <3>6. InDictionary'
      BY <3>1, <3>2, <3>4 DEF InDictionary, Walking, EC_MAXSM
    <3>7. Numbered'
      BY <1>1, <3>1 DEF Inv, CursorInv, Numbered, Walking
    <3> QED
      BY <3>1, <3>5, <3>6, <3>7 DEF CursorInv, Between
  <2>3. CASE ~ (n > 2)
    <3>1. NextSlave
      BY <1>2, <2>3
    <3> QED
      BY <1>1, <3>1, NextSlaveStarts DEF Inv
  <2> QED
    BY <2>2, <2>3
<1>5. Placed'
  BY <1>1, PlacedStays DEF Inv
<1>6. Fresh' /\ Walked'
  BY <1>4 DEF Between, Fresh, Walked
<1> QED
  BY <1>3, <1>4, <1>5, <1>6 DEF Inv

\* A walk begins with an empty table, SM2 as output and SM3 as input.
LEMMA ReadTypeKeeps ==
    ASSUME PdoAssumption, Inv, ReadType
    PROVE  Inv'
<1> DEFINE types == dict[slave].types
           raw == types[iSM - 1]
           bug == IF iSM = 2 /\ raw = 2 THEN 1 ELSE bugAdd
           t   == IF raw > 0 THEN raw + bug ELSE 0
           d   == DirOf(iSM)
<1>1. pc = "type" /\ UNCHANGED <<dict, laid, overrun, shifted>>
  BY DEF ReadType
<1>2. PICK ok \in BOOLEAN :
         /\ Read(ok)
         /\ mistyped' = IF ok \/ bug = bugAdd THEN mistyped ELSE mistyped \cup {slave}
         /\ IF ok /\ t \in {3, 4} /\ iSM \in {2, 3}
            THEN /\ pc' = "assign" /\ tSM' = t /\ bugAdd' = bug
                 /\ bitoffset' = bo[t]
                 /\ table' = [table EXCEPT ![slave][d] = <<>>]
                 /\ UNCHANGED <<slave, nSM, iSM, pdo, sub, bo>>
            ELSE /\ NextSM(bo, IF ok THEN bug ELSE bugAdd)
                 /\ UNCHANGED table
  BY DEF ReadType
<1>3. /\ slave \in SlaveId /\ nSM \in 0 .. EC_MAXSM /\ iSM \in 0 .. nSM
      /\ bugAdd \in {0, 1} /\ bo \in [{3, 4} -> Nat]
      /\ 2 <= iSM /\ iSM <= nSM /\ nSM <= Len(types) + 1
      /\ d \in Dir
  BY <1>1 DEF Inv, CursorInv, CursorTyped, InDictionary, DirOf, Dir
<1>4. types \in Seq(Nat) /\ Conforms(types) /\ Len(types) \in Nat
  <2>1. dict[slave] \in Dictionaries /\ Conforms(dict[slave].types)
    BY <1>3 DEF Inv, Typed
  <2> QED
    BY <2>1 DEF Dictionaries
<1> HIDE DEF types
<1>5. raw \in Nat /\ iSM - 1 \in 1 .. Len(types)
  <2>1. iSM - 1 \in 1 .. Len(types)
    BY <1>3, <1>4 DEF EC_MAXSM
  <2> QED
    BY <1>4, <2>1
<1>6. bug \in {0, 1} /\ (iSM # 2 => bug = bugAdd)
  BY <1>3
<1>7. iSM = 2 => /\ raw = types[1] /\ raw # 4
                 /\ Workaround = IF raw = 2 THEN 1 ELSE 0
  BY <1>3, <1>4, <1>5 DEF Conforms, Workaround, types
<1>8. iSM = 3 => raw = types[2] /\ raw # (IF Workaround = 1 THEN 2 ELSE 3)
  BY <1>3, <1>4, <1>5 DEF Conforms, Workaround, types
<1>9. slave \notin mistyped =>
         /\ iSM = 2 => bugAdd = 0 /\ bo[3] = 0 /\ bo[4] = 0
         /\ iSM = 3 => bugAdd = Workaround /\ bo[4] = 0
  BY <1>1 DEF Inv, CursorInv, Numbered
<1>10. mistyped \subseteq mistyped' /\ mistyped' \subseteq SlaveId /\ lost' \in 0 .. MaxLost
  <2>1. lost' \in 0 .. MaxLost
    BY <1>2, ReadCounts DEF Inv, Typed
  <2> HIDE DEF bug
  <2> QED
    BY <1>2, <1>3, <2>1 DEF Inv, Typed
<1>11. CASE ok /\ t \in {3, 4} /\ iSM \in {2, 3}
  <2>1. /\ pc' = "assign" /\ tSM' = t /\ bugAdd' = bug /\ bitoffset' = bo[t]
        /\ table' = [table EXCEPT ![slave][d] = <<>>]
        /\ slave' = slave /\ nSM' = nSM /\ iSM' = iSM
        /\ pdo' = pdo /\ sub' = sub /\ bo' = bo
        /\ mistyped' = mistyped
    BY <1>2, <1>11
  <2>2. table \in [SlaveId -> [Dir -> Seq(PdVars)]]
    BY DEF Inv, Typed
  <2>3. Typed'
    <3>1. table' \in [SlaveId -> [Dir -> Seq(PdVars)]]
      <4>1. <<>> \in Seq(PdVars)
        OBVIOUS
      <4> HIDE DEF d
      <4> QED
        BY <1>3, <2>1, <2>2, <4>1
    <3> QED
      BY <1>1, <1>10, <3>1 DEF Inv, Typed, Laid
  <2>4. CursorTyped'
    <3>1. t \in {3, 4} /\ bo[t] \in Nat
      BY <1>3, <1>11
    <3> HIDE DEF t, bug
    <3> QED
      BY <1>3, <1>6, <2>1, <3>1 DEF Inv, CursorInv, CursorTyped
  <2>5. InDictionary'
    <3>1. t \in {3, 4} /\ iSM \in {2, 3} /\ Len(dict[slave].types)' = Len(dict[slave].types)
      BY <1>1, <1>11, <2>1
    <3> HIDE DEF t, bug
    <3> QED
      BY <1>3, <2>1, <3>1 DEF InDictionary, Walking, types
  <2>6. slave \notin mistyped => /\ t = TypeOf(d) /\ bo[t] = 0
                                 /\ iSM = 2 => bug = Workaround /\ bo[4] = 0
    <3>1. SUFFICES ASSUME slave \notin mistyped
                   PROVE  /\ t = TypeOf(d) /\ bo[t] = 0
                          /\ iSM = 2 => bug = Workaround /\ bo[4] = 0
      OBVIOUS
    <3> HIDE DEF raw
    <3>2. CASE iSM = 2
      <4>1. bug = Workaround
        BY <1>7, <1>9, <3>1, <3>2
      <4>2. t = 3
        BY <1>5, <1>7, <1>9, <1>11, <3>1, <3>2
      <4> QED
        BY <1>9, <3>1, <3>2, <4>1, <4>2 DEF TypeOf, DirOf
    <3>3. CASE iSM = 3
      <4>1. Workaround \in {0, 1} /\ bug = Workaround
        BY <1>9, <3>1, <3>3 DEF Workaround
      <4>2. t = 4
        <5> HIDE DEF bug
        <5> QED
          BY <1>5, <1>8, <1>11, <3>3, <4>1
      <4> QED
        BY <1>9, <3>1, <3>3, <4>2 DEF TypeOf, DirOf
    <3> QED
      BY <1>11, <3>2, <3>3
  <2>7. Numbered'
    <3>1. Workaround' = Workaround /\ TypeOf(DirOf(iSM))' = TypeOf(d)
      BY <1>1, <2>1 DEF Workaround, TypeOf, DirOf
    <3> HIDE DEF t, bug, d
    <3> QED
      BY <2>1, <2>6, <3>1 DEF Numbered, Walking
  <2>8. Placed'
    <3>1. ASSUME NEW k \in SlaveId, NEW c \in Dir, SameLayout(k, c)'
          PROVE  /\ InOrder(table'[k][c])
                 /\ Within(table'[k][c], Base(k, c)', Base(k, c)' + Bits(k, c)' \div 8)
                 /\ k \notin shifted' => Matches(table'[k][c], Entries(k, c)', Base(k, c)')
      <4>1. SameLayout(k, c)
        BY <1>1, <1>10, <3>1 DEF SameLayout, Moved
      <4>2. /\ Entries(k, c)' = Entries(k, c) /\ Bits(k, c)' = Bits(k, c)
            /\ Base(k, c)' = Base(k, c)
        BY <1>1, LayoutStays
      <4>3. CASE k = slave /\ c = d
        <5>1. table'[k][c] = <<>>
          BY <1>3, <2>1, <2>2, <4>3
        <5> QED
          BY <5>1 DEF InOrder, Within, Matches
      <4>4. CASE ~ (k = slave /\ c = d)
        <5>1. table'[k][c] = table[k][c]
          <6> HIDE DEF d
          <6> QED
            BY <1>3, <2>1, <2>2, <4>4
        <5> QED
          BY <1>1, <4>1, <4>2, <5>1 DEF Inv, Placed
      <4> QED
        BY <4>3, <4>4
    <3> QED
      BY <3>1 DEF Placed
  <2>9. Fresh' /\ Walked'
    <3>1. table'[slave][d] = <<>> /\ DirOf(iSM)' = d
      BY <1>3, <2>1, <2>2 DEF DirOf
    <3> HIDE DEF d
    <3> QED
      BY <2>1, <3>1 DEF Fresh, Walked
  <2> QED
    BY <2>3, <2>4, <2>5, <2>7, <2>8, <2>9 DEF Inv, CursorInv
<1>12. CASE ~ (ok /\ t \in {3, 4} /\ iSM \in {2, 3})
  <2> DEFINE b == IF ok THEN bug ELSE bugAdd
  <2>1. NextSM(bo, b) /\ table' = table
    BY <1>2, <1>12
  <2>2. b \in {0, 1}
    BY <1>3, <1>6
  <2>3. Leaves(bo, b)
    <3>1. SUFFICES ASSUME slave \notin mistyped', iSM = 2
                   PROVE  b = Workaround /\ bo[4] = 0
      BY DEF Leaves
    <3>2. slave \notin mistyped /\ (ok \/ bug = bugAdd)
      BY <1>2, <1>10, <3>1
    <3>3. bugAdd = 0 /\ bo[4] = 0 /\ bug = Workaround
      BY <1>7, <1>9, <3>1, <3>2
    <3> QED
      BY <3>2, <3>3
  <2> HIDE DEF b
  <2>4. CursorInv' /\ Between'
    BY <1>1, <1>3, <2>1, <2>2, <2>3, NextSMGoesOn DEF Inv
  <2>5. Typed'
    BY <1>1, <1>10, <2>1 DEF Inv, Typed, Laid
  <2>6. Placed'
    BY <1>1, <1>10, <2>1, PlacedStays DEF Inv
  <2>7. Fresh' /\ Walked'
    BY <2>4 DEF Between, Fresh, Walked
  <2> QED
    BY <2>4, <2>5, <2>6, <2>7 DEF Inv
<1> QED
  BY <1>11, <1>12

\* The walk stands at entry s + 1 of PDO p of the same sync manager as before.
LEMMA WalkedNext ==
    ASSUME laid' = laid, dict' = dict, mistyped' = mistyped, slave' = slave, iSM' = iSM,
           NEW p, NEW s, pdo' = p, s = IF pc' = "entry" THEN sub' - 1 ELSE 0,
           NEW d, d = DirOf(iSM), NEW b, b = bitoffset',
           SameLayout(slave, d) =>
              /\ b <= BitsBefore(slave, d, p, s)
              /\ slave \notin shifted' => b = BitsBefore(slave, d, p, s)
              /\ Within(table'[slave][d], Base(slave, d), Base(slave, d) + b \div 8)
    PROVE  Walked'
<1>1. DirOf(iSM)' = d
  BY DEF DirOf
<1>2. Cursor' = BitsBefore(slave, d, p, s)
  BY <1>1 DEF Cursor, BitsBefore, Before, Entries
<1>3. Base(slave, DirOf(iSM))' = Base(slave, d)
  BY <1>1 DEF Base, TypeOf, MapOffset, Bytes, Bits, Entries
<1>4. Seen' = SameLayout(slave, d)
  BY <1>1 DEF Seen, SameLayout, Moved
<1> DEFINE low == Base(slave, d)
<1>5. Published(Base(slave, DirOf(iSM)), bitoffset)'
      = Within(table'[slave][d], low, low + b \div 8)
  BY <1>1, <1>3 DEF Published
<1> QED
  BY <1>2, <1>4, <1>5 DEF Walked

\* The walk of a sync manager begins where the data of the slave does.
LEMMA CountPdoKeeps ==
    ASSUME PdoAssumption, Inv, CountPdo
    PROVE  Inv'
<1>1. pc = "assign" /\ UNCHANGED <<dict, laid, table, overrun, shifted, mistyped>>
  BY DEF CountPdo
<1>2. PICK ok \in BOOLEAN : Read(ok) /\ IF ok THEN NextPdo(0) ELSE Return
  BY DEF CountPdo
<1> DEFINE d == DirOf(iSM)
<1>3. /\ slave \in SlaveId /\ d \in Dir /\ Walking
      /\ dict[slave][d] \in Seq(Seq(Entry)) /\ Assigned = dict[slave][d]
  BY <1>1 DEF Inv, CursorInv, CursorTyped, DirOf, Dir, Walking, Assigned, Typed, Dictionaries
<1>4. Typed'
  <2>1. lost' \in 0 .. MaxLost
    BY <1>2, ReadCounts DEF Inv, Typed
  <2> QED
    BY <1>1, <2>1 DEF Inv, Typed, Laid
<1>5. PICK p \in {0, Len(Assigned)} : NextPdo(p)
  <2>1. Return => NextPdo(Len(Assigned))
    BY <1>3 DEF NextPdo
  <2> QED
    BY <1>2, <2>1
<1>6. /\ CursorInv'
      /\ \/ /\ p = 0 /\ 0 < Len(Assigned) /\ pc' = "pdo" /\ pdo' = 1
            /\ UNCHANGED <<slave, iSM, bitoffset>>
         \/ Between'
  <2>1. p \in Nat /\ Len(Assigned) \in Nat
    BY <1>3, <1>5
  <2>2. /\ CursorInv'
        /\ \/ /\ p < Len(Assigned) /\ pc' = "pdo" /\ pdo' = p + 1
              /\ UNCHANGED <<slave, iSM, bitoffset>>
           \/ Between'
    BY <1>1, <1>3, <1>5, <2>1, NextPdoGoesOn DEF Inv
  <2> QED
    BY <1>5, <2>1, <2>2
<1>7. Placed'
  BY <1>1, PlacedStays DEF Inv
<1>8. Fresh'
  BY <1>6 DEF Between, Fresh
<1>9. Walked'
  <2>1. CASE Between'
    BY <2>1 DEF Between, Walked
  <2>2. CASE ~ Between'
    <3>1. /\ 0 < Len(Assigned) /\ pc' = "pdo" /\ pdo' = 1
          /\ slave' = slave /\ iSM' = iSM /\ bitoffset' = bitoffset
      BY <1>6, <2>2
    <3>2. 0 = IF pc' = "entry" THEN sub' - 1 ELSE 0
      BY <3>1
    <3>3. ASSUME SameLayout(slave, d)
          PROVE  bitoffset = 0 /\ BitsBefore(slave, d, 1, 0) = 0
      <4>1. slave \notin mistyped
        BY <3>3 DEF SameLayout
      <4>2. bitoffset = 0
        BY <1>1, <4>1 DEF Inv, CursorInv, Numbered
      <4>3. 1 \in 1 .. Len(laid[slave][d])
        <5>1. 1 \in 1 .. Len(dict[slave][d])
          BY <1>3, <3>1
        <5> QED
          BY <1>3, <3>3, <5>1, PrefixWalked DEF Inv
      <4>4. BitsBefore(slave, d, 1, 0) = 0
        BY <1>3, <4>3, BitsWalked DEF Inv, Typed
      <4> QED
        BY <4>2, <4>4
    <3>4. table'[slave][d] = <<>>
      BY <1>1 DEF Inv, Fresh
    <3>5. SameLayout(slave, d) =>
             /\ bitoffset <= BitsBefore(slave, d, 1, 0)
             /\ slave \notin shifted' => bitoffset = BitsBefore(slave, d, 1, 0)
             /\ Within(table'[slave][d], Base(slave, d), Base(slave, d) + bitoffset \div 8)
      BY <3>3, <3>4 DEF Within
    <3> QED
      BY <1>1, <3>1, <3>2, <3>5, WalkedNext
  <2> QED
    BY <2>1, <2>2
<1> QED
  BY <1>4, <1>6, <1>7, <1>8, <1>9 DEF Inv

\* A PDO that is lost or without entries is passed over: the walk falls behind the
\* image or, if there was nothing to walk, stays where it is.
LEMMA ReadPdoKeeps ==
    ASSUME PdoAssumption, Inv, ReadPdo
    PROVE  Inv'
<1> DEFINE d == DirOf(iSM)
           walked == Assigned[pdo]
<1>1. pc = "pdo" /\ UNCHANGED <<dict, laid, table, overrun, mistyped>>
  BY DEF ReadPdo
<1>2. PICK ok \in BOOLEAN :
         /\ Read(ok)
         /\ shifted' = IF ok THEN shifted ELSE shifted \cup {slave}
         /\ IF ok /\ walked # <<>>
            THEN /\ pc' = "entry" /\ sub' = 1
                 /\ UNCHANGED <<slave, nSM, iSM, bugAdd, tSM, pdo, bo, bitoffset>>
            ELSE NextPdo(pdo)
  BY DEF ReadPdo
<1>3. /\ slave \in SlaveId /\ d \in Dir /\ Walking /\ pdo \in Nat /\ bitoffset \in Nat
      /\ Assigned = dict[slave][d] /\ pdo \in 1 .. Len(Assigned)
  BY <1>1 DEF Inv, CursorInv, CursorTyped, InDictionary, DirOf, Dir, Walking, Assigned
<1>4. walked \in Seq(Entry)
  <2>1. Assigned \in Seq(Seq(Entry))
    BY <1>3 DEF Inv, Typed, Dictionaries, Dir
  <2> QED
    BY <1>3, <2>1
<1>5. shifted \subseteq shifted' /\ shifted' \subseteq SlaveId
  BY <1>2, <1>3 DEF Inv, Typed
<1>6. Typed'
  <2>1. lost' \in 0 .. MaxLost
    BY <1>2, ReadCounts DEF Inv, Typed
  <2> QED
    BY <1>1, <1>5, <2>1 DEF Inv, Typed, Laid
<1>7. Placed'
  BY <1>1, <1>5, PlacedStays DEF Inv
<1> HIDE DEF walked
<1>8. SameLayout(slave, d) =>
         /\ bitoffset <= BitsBefore(slave, d, pdo, 0)
         /\ slave \notin shifted => bitoffset = BitsBefore(slave, d, pdo, 0)
         /\ Within(table[slave][d], Base(slave, d), Base(slave, d) + bitoffset \div 8)
         /\ pdo \in 1 .. Len(laid[slave][d]) /\ walked = laid[slave][d][pdo]
  <2>1. SUFFICES ASSUME SameLayout(slave, d)
                 PROVE  /\ bitoffset <= BitsBefore(slave, d, pdo, 0)
                        /\ slave \notin shifted => bitoffset = BitsBefore(slave, d, pdo, 0)
                        /\ Within(table[slave][d], Base(slave, d),
                                  Base(slave, d) + bitoffset \div 8)
                        /\ pdo \in 1 .. Len(laid[slave][d]) /\ walked = laid[slave][d][pdo]
    OBVIOUS
  <2>2. Cursor = BitsBefore(slave, d, pdo, 0)
    BY <1>1 DEF Cursor
  <2>3. pdo \in 1 .. Len(laid[slave][d]) /\ walked = laid[slave][d][pdo]
    BY <1>3, <2>1, PrefixWalked DEF Inv, walked
  <2> QED
    BY <1>1, <2>1, <2>2, <2>3 DEF Inv, Walked, Seen, Published
<1>9. CASE ok /\ walked # <<>>
  <2>1. /\ pc' = "entry" /\ sub' = 1
        /\ slave' = slave /\ nSM' = nSM /\ iSM' = iSM /\ bugAdd' = bugAdd /\ tSM' = tSM
        /\ pdo' = pdo /\ bo' = bo /\ bitoffset' = bitoffset
    BY <1>2, <1>9
  <2>2. Assigned' = Assigned /\ Workaround' = Workaround
        /\ TypeOf(DirOf(iSM))' = TypeOf(DirOf(iSM))
    BY <1>1, <2>1 DEF Assigned, Workaround, TypeOf, DirOf
  <2>3. 1 \in 1 .. Len(walked)
    BY <1>4, <1>9
  <2>4. CursorTyped'
    BY <2>1 DEF Inv, CursorInv, CursorTyped
  <2>5. InDictionary'
    <3>1. sub' \in 1 .. Len(Assigned'[pdo'])
      BY <2>1, <2>2, <2>3 DEF walked
    <3>2. 2 <= iSM /\ iSM <= nSM /\ nSM <= Len(dict[slave].types) + 1
      BY <1>3 DEF Inv, CursorInv, InDictionary
    <3>3. iSM \in {2, 3} /\ tSM \in {3, 4}
      BY <1>1 DEF Inv, CursorInv, InDictionary, Walking
    <3>4. (dict[slave].types)' = dict[slave].types
      BY <1>1, <2>1
    <3> QED
      BY <1>3, <2>1, <2>2, <3>1, <3>2, <3>3, <3>4 DEF InDictionary
  <2>6. Numbered'
    BY <1>1, <2>1, <2>2 DEF Inv, CursorInv, Numbered, Walking
  <2>7. Fresh'
    BY <2>1 DEF Fresh
  <2>8. Walked'
    <3>1. 0 = IF pc' = "entry" THEN sub' - 1 ELSE 0
      BY <2>1
    <3>2. shifted' = shifted
      BY <1>2, <1>9
    <3> QED
      BY <1>1, <1>8, <2>1, <3>1, <3>2, WalkedNext
  <2> QED
    BY <1>6, <1>7, <2>4, <2>5, <2>6, <2>7, <2>8 DEF Inv, CursorInv
<1>10. CASE ~ (ok /\ walked # <<>>)
  <2>1. NextPdo(pdo)
    BY <1>2, <1>10
  <2>2. /\ CursorInv'
        /\ \/ /\ pc' = "pdo" /\ pdo' = pdo + 1
              /\ UNCHANGED <<slave, iSM, bitoffset>>
           \/ Between'
    BY <1>1, <1>3, <2>1, NextPdoGoesOn DEF Inv
  <2>3. Fresh'
    BY <2>2 DEF Between, Fresh
  <2>4. Walked'
    <3>1. CASE Between'
      BY <3>1 DEF Between, Walked
    <3>2. CASE ~ Between'
      <4>1. /\ pc' = "pdo" /\ pdo' = pdo + 1 /\ slave' = slave /\ iSM' = iSM
            /\ bitoffset' = bitoffset /\ 0 = IF pc' = "entry" THEN sub' - 1 ELSE 0
        BY <2>2, <3>2
      <4>2. ASSUME SameLayout(slave, d)
            PROVE  /\ bitoffset <= BitsBefore(slave, d, pdo + 1, 0)
                   /\ slave \notin shifted' => bitoffset = BitsBefore(slave, d, pdo + 1, 0)
        <5> DEFINE l == Len(walked)
                   start == BitsBefore(slave, d, pdo, 0)
                   end == BitsBefore(slave, d, pdo, l)
        <5>1. l \in Nat /\ 0 \in 0 .. l /\ l \in 0 .. l
          BY <1>4
        <5>2. /\ BitsBefore(slave, d, pdo + 1, 0) = end
              /\ start \in Nat /\ end \in Nat /\ start <= end
          <6>1. Laid
            BY DEF Inv, Typed
          <6>2. \A s \in 0 .. l : /\ BitsBefore(slave, d, pdo, s) \in Nat
                                  /\ start <= BitsBefore(slave, d, pdo, s)
            BY <1>3, <1>8, <4>2, <6>1, BitsWalked
          <6>3. BitsBefore(slave, d, pdo + 1, 0) = end
            BY <1>3, <1>8, <4>2, <6>1, BitsWalked
          <6> QED
            BY <5>1, <6>2, <6>3
        <5>3. slave \notin shifted' => slave \notin shifted /\ start = end
          BY <1>2, <1>10
        <5> HIDE DEF start, end
        <5>4. bitoffset <= start /\ (slave \notin shifted => bitoffset = start)
          BY <1>8, <4>2 DEF start
        <5> QED
          BY <1>3, <5>2, <5>3, <5>4
      <4>3. table' = table
        BY <1>1
      <4>4. SameLayout(slave, d) =>
               /\ bitoffset <= BitsBefore(slave, d, pdo + 1, 0)
               /\ slave \notin shifted' => bitoffset = BitsBefore(slave, d, pdo + 1, 0)
               /\ Within(table'[slave][d], Base(slave, d), Base(slave, d) + bitoffset \div 8)
        BY <1>8, <4>2, <4>3
      <4> QED
        BY <1>1, <4>1, <4>4, WalkedNext
    <3> QED
      BY <3>1, <3>2
  <2> QED
    BY <1>6, <1>7, <2>2, <2>3, <2>4 DEF Inv
<1> QED
  BY <1>9, <1>10

\* The loop over the entries goes on in the PDO, with the next one, or the walk is over.
LEMMA NextEntryGoesOn ==
    ASSUME PdoAssumption, CursorInv, pc = "entry", NEW bits \in Nat, NextEntry(bits),
           Len(Assigned[pdo]) \in Nat, dict' = dict, mistyped' = mistyped
    PROVE  /\ CursorInv'
           /\ \/ /\ bitoffset' = bitoffset + bits /\ UNCHANGED <<slave, iSM>>
                 /\ \/ pc' = "entry" /\ pdo' = pdo /\ sub' = sub + 1
                    \/ pc' = "pdo" /\ pdo' = pdo + 1 /\ sub = Len(Assigned[pdo])
              \/ Between'
<1> DEFINE l == Len(Assigned[pdo])
<1>1. /\ Walking /\ 2 <= iSM /\ iSM <= nSM /\ nSM <= Len(dict[slave].types) + 1
      /\ iSM \in {2, 3} /\ tSM \in {3, 4}
      /\ pdo \in 1 .. Len(Assigned) /\ sub \in 1 .. l /\ bitoffset \in Nat
      /\ sub \in Nat /\ pdo \in Nat
  BY DEF CursorInv, CursorTyped, InDictionary, Walking
<1>2. ASSUME dict' = dict, slave' = slave, iSM' = iSM
      PROVE  /\ Assigned' = Assigned /\ Workaround' = Workaround
             /\ TypeOf(DirOf(iSM))' = TypeOf(DirOf(iSM))
             /\ (dict[slave].types)' = dict[slave].types
  BY <1>2 DEF Assigned, Workaround, TypeOf, DirOf
<1>3. CASE sub < l
  <2>1. /\ sub' = sub + 1 /\ bitoffset' = bitoffset + bits
        /\ pc' = pc /\ slave' = slave /\ nSM' = nSM /\ iSM' = iSM /\ bugAdd' = bugAdd
        /\ tSM' = tSM /\ pdo' = pdo /\ bo' = bo
    BY <1>3 DEF NextEntry
  <2>2. CursorTyped'
    BY <1>1, <2>1 DEF CursorInv, CursorTyped
  <2>3. InDictionary'
    <3>1. sub' \in 1 .. l /\ Assigned' = Assigned /\ (dict[slave].types)' = dict[slave].types
      BY <1>1, <1>2, <1>3, <2>1
    <3> QED
      BY <1>1, <2>1, <3>1 DEF InDictionary
  <2>4. Numbered'
    BY <1>2, <2>1 DEF CursorInv, Numbered, Walking
  <2> QED
    BY <2>1, <2>2, <2>3, <2>4 DEF CursorInv
<1>4. CASE ~ (sub < l) /\ pdo < Len(Assigned)
  <2>1. /\ pc' = "pdo" /\ pdo' = pdo + 1 /\ sub' = 0
        /\ bitoffset' = bitoffset + bits
        /\ slave' = slave /\ nSM' = nSM /\ iSM' = iSM /\ bugAdd' = bugAdd
        /\ tSM' = tSM /\ bo' = bo
    BY <1>4 DEF NextEntry
  <2>2. CursorTyped'
    BY <1>1, <2>1 DEF CursorInv, CursorTyped
  <2>3. InDictionary'
    <3>1. /\ pdo' \in 1 .. Len(Assigned) /\ Assigned' = Assigned
          /\ (dict[slave].types)' = dict[slave].types
      BY <1>1, <1>2, <1>4, <2>1
    <3> QED
      BY <1>1, <2>1, <3>1 DEF InDictionary
  <2>4. Numbered'
    BY <1>2, <2>1 DEF CursorInv, Numbered, Walking
  <2>5. sub = l
    BY <1>1, <1>4
  <2> QED
    BY <2>1, <2>2, <2>3, <2>4, <2>5 DEF CursorInv
<1>5. CASE ~ (sub < l) /\ ~ (pdo < Len(Assigned))
  <2> DEFINE offsets == [bo EXCEPT ![tSM] = bitoffset + bits]
  <2>1. NextSM(offsets, bugAdd)
    BY <1>5 DEF NextEntry
  <2>2. offsets \in [{3, 4} -> Nat] /\ bugAdd \in {0, 1}
    <3>1. bitoffset + bits \in Nat
      BY <1>1
    <3> QED
      BY <3>1 DEF CursorInv, CursorTyped
  <2>3. Leaves(offsets, bugAdd)
    <3>1. SUFFICES ASSUME slave \notin mistyped, iSM = 2
                   PROVE  bugAdd = Workaround /\ offsets[4] = 0
      BY DEF Leaves
    <3>2. bugAdd = Workaround /\ bo[4] = 0 /\ tSM = 3
      BY <1>1, <3>1 DEF CursorInv, Numbered, TypeOf, DirOf
    <3>3. offsets[4] = bo[4]
      BY <3>2 DEF CursorInv, CursorTyped
    <3> QED
      BY <3>2, <3>3
  <2> HIDE DEF offsets
  <2> QED
    BY <1>1, <2>1, <2>2, <2>3, NextSMGoesOn
<1> QED
  BY <1>3, <1>4, <1>5

\* The room grows with the bits walked.
LEMMA RoomGrows ==
    ASSUME NEW vs \in Seq(PdVars), NEW low \in Nat, NEW b \in Nat, NEW c \in Nat, b <= c,
           Within(vs, low, low + b \div 8)
    PROVE  Within(vs, low, low + c \div 8)
<1>1. b \div 8 <= c \div 8 /\ b \div 8 \in Nat /\ c \div 8 \in Nat
  OBVIOUS
<1>2. \A i \in DOMAIN vs : vs[i].offset \in Nat /\ vs[i].size \in Nat
  <2>1. \A x \in PdVars : x.offset \in Nat /\ x.size \in Nat
    BY DEF PdVars
  <2>2. \A i \in DOMAIN vs : vs[i] \in PdVars
    OBVIOUS
  <2> QED
    BY <2>1, <2>2
<1> QED
  BY <1>1, <1>2 DEF Within

\* What is published of an entry is a variable, and in a walk with the type of its
\* sync manager it begins where the walk stands in the data of the slave.
LEMMA PdVarType ==
    ASSUME PdoAssumption, Laid, slave \in SlaveId, tSM \in {3, 4},
           NEW en \in Entry, NEW b \in Nat
    PROVE  /\ PdVar(en, b) \in PdVars
           /\ PdVar(en, b).obj = en.obj /\ PdVar(en, b).size = en.bits \div 8
           /\ \A d \in Dir : tSM = TypeOf(d) => PdVar(en, b).offset = Base(slave, d) + b \div 8
<1> DEFINE m == MapOffset(slave, tSM)
<1>1. m \in Nat
  <2>1. PICK d \in Dir : tSM = TypeOf(d)
    BY DEF Dir, TypeOf
  <2>2. slave \in 1 .. NumSlaves + 1
    BY DEF SlaveId, PdoAssumption
  <2> QED
    BY <2>1, <2>2, BasesAddUp DEF Base
<1>2. en.obj \in Nat /\ en.bits \div 8 \in Nat /\ b \div 8 \in Nat
  BY DEF Entry
<1>3. PdVar(en, b) = [obj |-> en.obj, offset |-> m + b \div 8, size |-> en.bits \div 8]
  BY DEF PdVar
<1>4. \A d \in Dir : tSM = TypeOf(d) => m = Base(slave, d)
  BY DEF Base
<1> HIDE DEF m
<1> QED
  BY <1>1, <1>2, <1>3, <1>4 DEF PdVars

\* The walk passes an entry: published, it lies behind the ones before; lost, it
\* leaves the walk behind the image.
LEMMA ReadEntryKeeps ==
    ASSUME PdoAssumption, Inv, ReadEntry
    PROVE  Inv'
<1> DEFINE d    == DirOf(iSM)
           en   == Assigned[pdo][sub]
           v    == PdVar(en, bitoffset)
           vs   == table[slave][d]
           low  == Base(slave, d)
           here == BitsBefore(slave, d, pdo, sub - 1)
           next == BitsBefore(slave, d, pdo, sub)
<1>1. pc = "entry" /\ UNCHANGED <<dict, laid, mistyped>>
  BY DEF ReadEntry
<1>2. PICK ok \in BOOLEAN, known \in BOOLEAN :
         /\ Read(ok /\ known)
         /\ shifted' = IF ok THEN shifted ELSE shifted \cup {slave}
         /\ overrun' = (overrun \/ Len(vs) >= MAX_PD_NUM)
         /\ table' = IF ok /\ en.obj # 0 /\ known
                     THEN [table EXCEPT ![slave][d] = Append(vs, v)]
                     ELSE table
         /\ NextEntry(IF ok THEN en.bits ELSE 0)
  BY DEF ReadEntry
<1> DEFINE bits == IF ok THEN en.bits ELSE 0
           publishes == ok /\ en.obj # 0 /\ known
<1>3. /\ slave \in SlaveId /\ d \in Dir /\ Walking /\ pdo \in Nat /\ sub \in Nat
      /\ bitoffset \in Nat /\ tSM \in {3, 4}
      /\ Assigned = dict[slave][d]
      /\ pdo \in 1 .. Len(Assigned) /\ sub \in 1 .. Len(Assigned[pdo])
  BY <1>1 DEF Inv, CursorInv, CursorTyped, InDictionary, DirOf, Dir, Walking, Assigned
<1>4. Assigned[pdo] \in Seq(Entry) /\ Len(Assigned[pdo]) \in Nat /\ en \in Entry
  <2>1. Assigned \in Seq(Seq(Entry))
    BY <1>3 DEF Inv, Typed, Dictionaries, Dir
  <2>2. Assigned[pdo] \in Seq(Entry)
    BY <1>3, <2>1
  <2> QED
    BY <1>3, <2>2
<1>5. bits \in Nat /\ bits <= en.bits /\ en.bits \in Nat
  BY <1>4 DEF Entry
<1>6. Laid /\ table \in [SlaveId -> [Dir -> Seq(PdVars)]] /\ vs \in Seq(PdVars)
  <2>1. Laid /\ table \in [SlaveId -> [Dir -> Seq(PdVars)]]
    BY DEF Inv, Typed
  <2> HIDE DEF d
  <2> QED
    BY <1>3, <2>1
<1>7. low \in Nat
  <2>1. slave \in 1 .. NumSlaves + 1
    BY <1>3 DEF SlaveId, PdoAssumption
  <2> QED
    BY <1>3, <1>6, <2>1, BasesAddUp
<1>8. /\ v \in PdVars /\ v.obj = en.obj /\ v.size = en.bits \div 8
      /\ tSM = TypeOf(d) => v.offset = low + bitoffset \div 8
  <2> HIDE DEF en, d
  <2> QED
    BY <1>3, <1>4, <1>6, PdVarType
<1>9. shifted \subseteq shifted' /\ shifted' \subseteq SlaveId
  BY <1>2, <1>3 DEF Inv, Typed
<1>10. /\ \A k \in SlaveId, c \in Dir :
             ~ (k = slave /\ c = d) => table'[k][c] = table[k][c]
       /\ table'[slave][d] = IF publishes THEN Append(vs, v) ELSE vs
       /\ table' \in [SlaveId -> [Dir -> Seq(PdVars)]]
  <2>1. Append(vs, v) \in Seq(PdVars)
    BY <1>6, <1>8
  <2> HIDE DEF d, v, en
  <2> DEFINE w == Append(vs, v)
  <2>2. table' = IF publishes THEN [table EXCEPT ![slave][d] = w] ELSE table
    BY <1>2
  <2> HIDE DEF w, publishes
  <2> QED
    BY <1>3, <1>6, <2>1, <2>2 DEF w
<1>11. Typed'
  <2>1. lost' \in 0 .. MaxLost
    BY <1>2, ReadCounts DEF Inv, Typed
  <2>2. overrun' \in BOOLEAN
    BY <1>2
  <2> QED
    BY <1>1, <1>9, <1>10, <2>1, <2>2 DEF Inv, Typed, Laid
<1>12. /\ CursorInv'
       /\ \/ /\ bitoffset' = bitoffset + bits /\ UNCHANGED <<slave, iSM>>
             /\ \/ pc' = "entry" /\ pdo' = pdo /\ sub' = sub + 1
                \/ pc' = "pdo" /\ pdo' = pdo + 1 /\ sub = Len(Assigned[pdo])
          \/ Between'
  <2>1. NextEntry(bits)
    BY <1>2
  <2> HIDE DEF bits
  <2> QED
    BY <1>1, <1>4, <1>5, <2>1, NextEntryGoesOn DEF Inv
<1>13. ASSUME SameLayout(slave, d)
       PROVE  /\ tSM = TypeOf(d)
              /\ here \in Nat /\ next = here + en.bits /\ next <= Bits(slave, d)
              /\ bitoffset <= here /\ (slave \notin shifted => bitoffset = here)
              /\ Within(vs, low, low + bitoffset \div 8)
              /\ sub = Len(Assigned[pdo]) => BitsBefore(slave, d, pdo + 1, 0) = next
              /\ \E n \in DOMAIN Entries(slave, d) :
                    /\ Entries(slave, d)[n] = en
                    /\ FirstBits(Entries(slave, d), n - 1) = here
  <2> DEFINE pdos == laid[slave][d]
  <2>1. pdo \in 1 .. Len(pdos) /\ Assigned[pdo] = pdos[pdo]
    BY <1>3, <1>13, PrefixWalked DEF Inv
  <2>2. tSM = TypeOf(d)
    BY <1>3, <1>13 DEF Inv, CursorInv, Numbered, SameLayout
  <2>3. /\ BitsBefore(slave, d, pdo + 1, 0) = BitsBefore(slave, d, pdo, Len(pdos[pdo]))
        /\ \A s \in 0 .. Len(pdos[pdo]) : /\ BitsBefore(slave, d, pdo, s) \in Nat
                                          /\ BitsBefore(slave, d, pdo, s) <= Bits(slave, d)
        /\ \A s \in 1 .. Len(pdos[pdo]) :
              /\ BitsBefore(slave, d, pdo, s)
                 = BitsBefore(slave, d, pdo, s - 1) + pdos[pdo][s].bits
              /\ \E n \in DOMAIN Entries(slave, d) :
                    /\ Entries(slave, d)[n] = pdos[pdo][s]
                    /\ FirstBits(Entries(slave, d), n - 1) = BitsBefore(slave, d, pdo, s - 1)
    <3> HIDE DEF d
    <3>1. Laid /\ slave \in SlaveId /\ d \in Dir /\ pdo \in 1 .. Len(laid[slave][d])
      BY <1>3, <1>6, <2>1
    <3> QED
      BY <3>1, BitsWalked, Zenon
  <2>4. /\ sub \in 1 .. Len(pdos[pdo]) /\ sub \in 0 .. Len(pdos[pdo])
        /\ sub - 1 \in 0 .. Len(pdos[pdo]) /\ en = pdos[pdo][sub]
    BY <1>3, <1>4, <2>1
  <2>5. Cursor = here
    BY <1>1 DEF Cursor
  <2>6. /\ bitoffset <= here /\ (slave \notin shifted => bitoffset = here)
        /\ Within(vs, low, low + bitoffset \div 8)
    BY <1>1, <1>13, <2>5 DEF Inv, Walked, Seen, Published
  <2> HIDE DEF d, en, vs, low, pdos
  <2> QED
    BY <2>1, <2>2, <2>3, <2>4, <2>6
<1> HIDE DEF d, en, v, vs, low, here, next
<1>14. SameLayout(slave, d) =>
          /\ InOrder(table'[slave][d])
          /\ Within(table'[slave][d], low, low + (bitoffset + bits) \div 8)
          /\ Within(table'[slave][d], low, low + Bits(slave, d) \div 8)
          /\ slave \notin shifted' =>
                Matches(table'[slave][d], Entries(slave, d), low)
  <2>1. SUFFICES ASSUME SameLayout(slave, d)
                 PROVE  /\ InOrder(table'[slave][d])
                        /\ Within(table'[slave][d], low, low + (bitoffset + bits) \div 8)
                        /\ Within(table'[slave][d], low, low + Bits(slave, d) \div 8)
                        /\ slave \notin shifted' =>
                              Matches(table'[slave][d], Entries(slave, d), low)
    OBVIOUS
  <2>2. /\ InOrder(vs) /\ Within(vs, low, low + Bits(slave, d) \div 8)
        /\ slave \notin shifted => Matches(vs, Entries(slave, d), low)
    BY <1>3, <2>1 DEF Inv, Placed, vs, low
  <2>3. Bits(slave, d) \in Nat
    BY <1>3, <1>6, BitsAndBytes
  <2>4. CASE publishes
    <3>1. table'[slave][d] = Append(vs, v) /\ bits = en.bits /\ v.size = bits \div 8
      BY <1>8, <1>10, <2>4
    <3>2. bitoffset + bits <= Bits(slave, d)
      BY <1>3, <1>5, <1>13, <2>1, <2>3, <3>1
    <3>3. v.offset = low + bitoffset \div 8
      BY <1>8, <1>13, <2>1
    <3> HIDE DEF bits
    <3>4. /\ InOrder(Append(vs, v))
          /\ Within(Append(vs, v), low, low + (bitoffset + bits) \div 8)
          /\ Within(Append(vs, v), low, low + Bits(slave, d) \div 8)
      <4>1. Within(vs, low, low + bitoffset \div 8)
        BY <1>13, <2>1
      <4> QED
        BY <1>3, <1>5, <1>6, <1>7, <1>8, <2>2, <2>3, <3>1, <3>2, <3>3, <4>1, Publish
    <3>5. ASSUME slave \notin shifted'
          PROVE  Matches(Append(vs, v), Entries(slave, d), low)
      <4>1. slave \notin shifted /\ bitoffset = here
        BY <1>9, <1>13, <2>1, <3>5
      <4>2. PICK n \in DOMAIN Entries(slave, d) :
               /\ Entries(slave, d)[n] = en
               /\ FirstBits(Entries(slave, d), n - 1) = here
        BY <1>13, <2>1
      <4> DEFINE e == Entries(slave, d)
      <4>3. /\ n \in DOMAIN e /\ e[n].obj = v.obj /\ v.size = e[n].bits \div 8
            /\ v.offset = low + FirstBits(e, n - 1) \div 8
            /\ Matches(vs, e, low)
        BY <1>8, <2>2, <3>3, <4>1, <4>2
      <4> HIDE DEF e
      <4>4. Matches(Append(vs, v), e, low)
        BY <1>6, <4>3, PublishMatch
      <4> QED
        BY <4>4 DEF e
    <3> QED
      BY <3>1, <3>4, <3>5
  <2>5. CASE ~ publishes
    <3>1. table'[slave][d] = vs
      BY <1>10, <2>5
    <3>2. Within(vs, low, low + (bitoffset + bits) \div 8)
      <4>1. Within(vs, low, low + bitoffset \div 8)
        BY <1>13, <2>1
      <4>2. bitoffset + bits \in Nat /\ bitoffset <= bitoffset + bits
        BY <1>3, <1>5
      <4> HIDE DEF bits
      <4> QED
        BY <1>3, <1>6, <1>7, <4>1, <4>2, RoomGrows
    <3>3. slave \notin shifted' => slave \notin shifted
      BY <1>9
    <3> QED
      BY <2>2, <3>1, <3>2, <3>3
  <2> QED
    BY <2>4, <2>5
<1>15. Placed'
  <2>1. ASSUME NEW k \in SlaveId, NEW c \in Dir, SameLayout(k, c)'
        PROVE  /\ InOrder(table'[k][c])
               /\ Within(table'[k][c], Base(k, c)', Base(k, c)' + Bits(k, c)' \div 8)
               /\ k \notin shifted' => Matches(table'[k][c], Entries(k, c)', Base(k, c)')
    <3>1. SameLayout(k, c)
      BY <1>1, <2>1 DEF SameLayout, Moved
    <3>2. /\ Entries(k, c)' = Entries(k, c) /\ Bits(k, c)' = Bits(k, c)
          /\ Base(k, c)' = Base(k, c)
      BY <1>1, LayoutStays
    <3>3. CASE k = slave /\ c = d
      BY <1>14, <3>1, <3>2, <3>3 DEF low
    <3>4. CASE ~ (k = slave /\ c = d)
      <4>1. table'[k][c] = table[k][c] /\ (k \notin shifted' => k \notin shifted)
        BY <1>9, <1>10, <3>4
      <4> QED
        BY <3>1, <3>2, <4>1 DEF Inv, Placed
    <3> QED
      BY <3>3, <3>4
  <2> QED
    BY <2>1 DEF Placed
<1>16. Fresh'
  BY <1>12 DEF Between, Fresh
<1>17. Walked'
  <2>1. CASE Between'
    BY <2>1 DEF Between, Walked
  <2>2. CASE ~ Between'
    <3>1. /\ bitoffset' = bitoffset + bits /\ slave' = slave /\ iSM' = iSM
          /\ \/ pc' = "entry" /\ pdo' = pdo /\ sub' = sub + 1
             \/ pc' = "pdo" /\ pdo' = pdo + 1 /\ sub = Len(Assigned[pdo])
      BY <1>12, <2>2
    <3>2. ASSUME SameLayout(slave, d)
          PROVE  /\ bitoffset + bits <= next
                 /\ slave \notin shifted' => bitoffset + bits = next
                 /\ Within(table'[slave][d], low, low + (bitoffset + bits) \div 8)
      <4>1. slave \notin shifted' => ok /\ slave \notin shifted
        BY <1>2, <1>9
      <4>2. slave \notin shifted' => bits = en.bits
        BY <4>1
      <4>3. /\ here \in Nat /\ next = here + en.bits /\ bitoffset <= here
            /\ slave \notin shifted => bitoffset = here
        BY <1>13, <3>2
      <4>4. Within(table'[slave][d], low, low + (bitoffset + bits) \div 8)
        BY <1>14, <3>2
      <4> HIDE DEF bits
      <4>5. bitoffset + bits <= next
        BY <1>3, <1>5, <4>3
      <4>6. slave \notin shifted' => bitoffset + bits = next
        BY <4>1, <4>2, <4>3
      <4> QED
        BY <4>4, <4>5, <4>6
    <3> HIDE DEF bits
    <3>3. PICK p, s : /\ pdo' = p /\ s = IF pc' = "entry" THEN sub' - 1 ELSE 0
                      /\ SameLayout(slave, d) => BitsBefore(slave, d, p, s) = next
      <4>1. CASE pc' = "entry" /\ pdo' = pdo /\ sub' = sub + 1
        <5>1. sub = IF pc' = "entry" THEN sub' - 1 ELSE 0
          BY <1>3, <4>1
        <5> QED
          BY <4>1, <5>1 DEF next
      <4>2. CASE pc' = "pdo" /\ pdo' = pdo + 1 /\ sub = Len(Assigned[pdo])
        <5>1. 0 = IF pc' = "entry" THEN sub' - 1 ELSE 0
          BY <4>2
        <5>2. SameLayout(slave, d) => BitsBefore(slave, d, pdo + 1, 0) = next
          BY <1>13, <4>2
        <5> QED
          BY <4>2, <5>1, <5>2
      <4> QED
        BY <3>1, <4>1, <4>2
    <3>4. \A b : b = bitoffset' /\ SameLayout(slave, d) =>
             /\ b <= BitsBefore(slave, d, p, s)
             /\ slave \notin shifted' => b = BitsBefore(slave, d, p, s)
             /\ Within(table'[slave][d], Base(slave, d), Base(slave, d) + b \div 8)
      BY <3>1, <3>2, <3>3 DEF low
    <3> QED
      BY <1>1, <3>1, <3>3, <3>4, WalkedNext DEF d
  <2> QED
    BY <2>1, <2>2
<1> QED
  BY <1>11, <1>12, <1>15, <1>16, <1>17 DEF Inv

----------------------------------------------------------------------------
(* Safety.                                                                 *)

\* Before the walk nothing is published.
LEMMA InitInv ==
    ASSUME PdoAssumption, Init
    PROVE  Inv
<1> USE DEF Init
<1>1. Typed
  <2>1. dict \in [SlaveId -> Dictionaries] /\ \A k \in SlaveId : Conforms(dict[k].types)
    BY DEF PdoAssumption
  <2>2. table \in [SlaveId -> [Dir -> Seq(PdVars)]]
    <3>1. <<>> \in Seq(PdVars)
      OBVIOUS
    <3> QED
      BY <3>1
  <2>3. /\ laid \in [SlaveId -> Mapping] /\ overrun = FALSE /\ shifted = {} /\ mistyped = {}
        /\ lost = 0 /\ 0 \in 0 .. MaxLost
    <3>1. [d \in Dir |-> <<>>] \in Mapping
      BY DEF Mapping
    <3> QED
      BY <3>1 DEF PdoAssumption
  <2> QED
    BY ONLY <2>1, <2>2, <2>3 DEF Typed, Laid
<1>2. CursorTyped
  BY DEF CursorTyped, PdoAssumption, SlaveId, EC_MAXSM
<1>3. InDictionary /\ Numbered
  BY DEF InDictionary, Numbered, Walking
<1>4. \A k \in SlaveId : \A d \in Dir : table[k][d] = <<>>
  OBVIOUS
<1>5. Placed
  BY <1>4 DEF Placed, InOrder, Within, Matches
<1>6. Fresh /\ Walked
  BY <1>4 DEF Fresh, Walked
<1> QED
  BY <1>1, <1>2, <1>3, <1>5, <1>6 DEF Inv, CursorInv

\* A state that only stutters keeps the invariant.
LEMMA StutterKeeps ==
    ASSUME Inv, UNCHANGED vars
    PROVE  Inv'
<1> USE DEF vars
<1>1. Typed'
  BY DEF Inv, Typed, Laid
<1>2. CursorInv'
  <2>1. /\ Assigned' = Assigned /\ Workaround' = Workaround
        /\ TypeOf(DirOf(iSM))' = TypeOf(DirOf(iSM))
    BY DEF Assigned, Workaround, TypeOf, DirOf
  <2> QED
    BY <2>1 DEF Inv, CursorInv, CursorTyped, InDictionary, Numbered, Walking
<1>3. Placed'
  BY PlacedStays DEF Inv
<1>4. Fresh'
  BY DEF Inv, Fresh, DirOf
<1>5. Walked'
  <2>1. CASE pc \in {"pdo", "entry"}
    <3> DEFINE d == DirOf(iSM)
               s == IF pc = "entry" THEN sub - 1 ELSE 0
    <3>1. Cursor = BitsBefore(slave, d, pdo, s)
      BY DEF Cursor
    <3>2. \A b : b = bitoffset' /\ SameLayout(slave, d) =>
             /\ b <= BitsBefore(slave, d, pdo, s)
             /\ slave \notin shifted' => b = BitsBefore(slave, d, pdo, s)
             /\ Within(table'[slave][d], Base(slave, d), Base(slave, d) + b \div 8)
      BY <2>1, <3>1 DEF Inv, Walked, Seen, Published
    <3>3. s = IF pc' = "entry" THEN sub' - 1 ELSE 0
      OBVIOUS
    <3> HIDE DEF s
    <3> QED
      BY <3>2, <3>3, WalkedNext
  <2>2. CASE pc \notin {"pdo", "entry"}
    BY <2>2 DEF Walked
  <2> QED
    BY <2>1, <2>2
<1> QED
  BY <1>1, <1>2, <1>3, <1>4, <1>5 DEF Inv

\* In every state the walk stands where the image has what it walks, or behind, and
\* what it published lies in order (si_map_sdo, si_PDOassign).
THEOREM Invariance == Spec => []Inv
<1>1. Init => Inv
  BY PdoAssumption, InitInv
<1>2. Inv /\ [Next]_vars => Inv'
  <2> SUFFICES ASSUME Inv, [Next]_vars PROVE Inv'
    OBVIOUS
  <2>0. CASE MapSlave
    BY <2>0, PdoAssumption, MapSlaveKeeps
  <2>1. CASE Reassign
    BY <2>1, PdoAssumption, ReassignKeeps
  <2>2. CASE CountSM
    BY <2>2, PdoAssumption, CountSMKeeps
  <2>3. CASE ReadType
    BY <2>3, PdoAssumption, ReadTypeKeeps
  <2>4. CASE CountPdo
    BY <2>4, PdoAssumption, CountPdoKeeps
  <2>5. CASE ReadPdo
    BY <2>5, PdoAssumption, ReadPdoKeeps
  <2>6. CASE ReadEntry
    BY <2>6, PdoAssumption, ReadEntryKeeps
  <2>7. CASE UNCHANGED vars
    BY <2>7, StutterKeeps
  <2> QED
    BY <2>0, <2>1, <2>2, <2>3, <2>4, <2>5, <2>6, <2>7 DEF Next
<1> QED
  BY <1>1, <1>2, PTL DEF Spec

\* The walk keeps its types (si_map_sdo, si_PDOassign).
THEOREM TypeCorrect == Spec => []TypeOK
<1>1. Inv => TypeOK
  <2> SUFFICES ASSUME Inv PROVE TypeOK
    OBVIOUS
  <2>1. \A k \in SlaveId : \A d \in Dir : table[k][d] \in Seq(PdVars)
    BY DEF Inv, Typed
  <2> QED
    BY <2>1 DEF Inv, Typed, CursorInv, CursorTyped, TypeOK
<1> QED
  BY <1>1, Invariance, PTL

\* A client that uses a published variable of at least a byte stays in the image, if
\* its slave is not mistyped and not Moved, for any losses of PDOs and entries by the
\* walk and any of other slaves (slaveinfo against ecx_config_map_group).
THEOREM Inside == Spec => []InsideImage
<1>1. Inv => InsideImage
  <2> SUFFICES ASSUME Inv, NEW k \in SlaveId, NEW d \in Dir, SameLayout(k, d),
                      NEW i \in DOMAIN table[k][d], table[k][d][i].size > 0
               PROVE  table[k][d][i].offset + table[k][d][i].size <= ImageBytes(d)
    BY DEF InsideImage
  <2> DEFINE v == table[k][d][i]
             low == Base(k, d)
             bits == Bits(k, d)
  <2>1. v.offset \in Nat /\ v.size \in Nat
    <3>1. table[k][d] \in Seq(PdVars)
      BY DEF Inv, Typed
    <3>2. v \in PdVars
      BY <3>1
    <3> QED
      BY <3>2 DEF PdVars
  <2>2. low <= v.offset /\ v.offset + v.size <= low + bits \div 8
    BY DEF Inv, Placed, Within
  <2>3. Laid /\ PdoAssumption
    BY PdoAssumption DEF Inv, Typed
  <2>4. /\ NumSlaves \in Nat /\ k \in 1 .. NumSlaves + 1 /\ NumSlaves \in 0 .. NumSlaves
        /\ NumSlaves + 1 \in k + 1 .. NumSlaves + 1 /\ k + 1 \in 1 .. NumSlaves + 1
        /\ NumSlaves + 1 \in 1 .. NumSlaves + 1
    BY <2>3 DEF PdoAssumption, SlaveId
  <2>5. /\ low \in Nat /\ bits \in Nat /\ Bytes(k, d) \in Nat
        /\ bits > 7 => bits \div 8 <= Bytes(k, d)
    BY <2>3, <2>4, BasesAddUp, BitsAndBytes
  <2>6. Base(k + 1, d) = low + Bytes(k, d) /\ Base(k + 1, d) <= Base(NumSlaves + 1, d)
    BY <2>3, <2>4, BasesAddUp
  <2>7. /\ 8 * Base(NumSlaves + 1, d) <= ImageEnd(NumSlaves, d)
        /\ Base(NumSlaves + 1, d) \in Nat /\ ImageEnd(NumSlaves, d) \in Nat
    BY <2>3, <2>4, BasesInImage, BasesAddUp, EndsAddUp
  <2>8. Base(NumSlaves + 1, d) <= ImageBytes(d)
    BY <2>7 DEF ImageBytes, ByteAligned
  <2>9. ImageBytes(d) \in Nat
    BY <2>7 DEF ImageBytes, ByteAligned
  <2>10. v.size > 0
    OBVIOUS
  <2> HIDE DEF v, low, bits
  <2>11. bits > 7
    BY <2>1, <2>2, <2>5, <2>10
  <2>12. v.offset + v.size <= ImageBytes(d)
    BY <2>1, <2>2, <2>5, <2>6, <2>7, <2>8, <2>9, <2>11
  <2> QED
    BY <2>12 DEF v
<1> QED
  BY <1>1, Invariance, PTL

\* The byte ranges published for variables of at least a byte are disjoint, of one
\* slave or of two, if their slaves are not mistyped and not Moved (si_PDOassign's
\* offsets, slaveOutOffset and slaveInOffset).
THEOREM Apart == Spec => []NoOverlap
<1>1. Inv => NoOverlap
  <2> SUFFICES ASSUME Inv, NEW d \in Dir, NEW k \in SlaveId, NEW l \in SlaveId,
                      SameLayout(k, d), SameLayout(l, d),
                      NEW i \in DOMAIN table[k][d], NEW j \in DOMAIN table[l][d],
                      <<k, i>> # <<l, j>>,
                      table[k][d][i].size > 0, table[l][d][j].size > 0
               PROVE  \/ table[k][d][i].offset + table[k][d][i].size <= table[l][d][j].offset
                      \/ table[l][d][j].offset + table[l][d][j].size <= table[k][d][i].offset
    BY DEF NoOverlap
  <2>1. Laid /\ PdoAssumption /\ table \in [SlaveId -> [Dir -> Seq(PdVars)]]
    BY PdoAssumption DEF Inv, Typed
  <2>2. /\ NumSlaves \in Nat /\ SlaveId = 1 .. NumSlaves
        /\ \A m \in SlaveId : m \in 1 .. NumSlaves + 1 /\ m + 1 \in 1 .. NumSlaves + 1
    BY <2>1 DEF PdoAssumption, SlaveId
  <2>3. ASSUME NEW m \in SlaveId, SameLayout(m, d), NEW x \in DOMAIN table[m][d],
               table[m][d][x].size > 0
        PROVE  /\ table[m][d][x].offset \in Nat /\ table[m][d][x].size \in Nat
               /\ Base(m, d) <= table[m][d][x].offset
               /\ table[m][d][x].offset + table[m][d][x].size <= Base(m + 1, d)
    <3> DEFINE v == table[m][d][x]
               bits == Bits(m, d)
               low == Base(m, d)
    <3>1. v.offset \in Nat /\ v.size \in Nat
      <4>1. table[m][d] \in Seq(PdVars)
        BY <2>1
      <4>2. v \in PdVars
        BY <4>1
      <4> QED
        BY <4>2 DEF PdVars
    <3>2. low <= v.offset /\ v.offset + v.size <= low + bits \div 8
      BY <2>3 DEF Inv, Placed, Within
    <3>3. /\ low \in Nat /\ bits \in Nat /\ Bytes(m, d) \in Nat
          /\ bits > 7 => bits \div 8 <= Bytes(m, d)
          /\ Base(m + 1, d) = low + Bytes(m, d)
      BY <2>1, <2>2, BasesAddUp, BitsAndBytes
    <3>4. v.size > 0
      BY <2>3
    <3> HIDE DEF v, low, bits
    <3>5. bits > 7
      BY <3>1, <3>2, <3>3, <3>4
    <3>6. v.offset + v.size <= Base(m + 1, d)
      BY <3>1, <3>2, <3>3, <3>5
    <3> QED
      BY <3>1, <3>2, <3>6 DEF v, low
  <2>4. ASSUME NEW m \in SlaveId, NEW n \in SlaveId, m < n
        PROVE  Base(m + 1, d) <= Base(n, d) /\ Base(m + 1, d) \in Nat /\ Base(n, d) \in Nat
    <3>1. /\ m + 1 \in 1 .. NumSlaves + 1 /\ n \in m + 1 .. NumSlaves + 1
          /\ n \in 1 .. NumSlaves + 1
      BY <2>2, <2>4
    <3> QED
      BY <2>1, <3>1, BasesAddUp
  <2> DEFINE v == table[k][d][i]
             w == table[l][d][j]
  <2>5. /\ v.offset \in Nat /\ v.size \in Nat /\ Base(k, d) <= v.offset
        /\ v.offset + v.size <= Base(k + 1, d)
        /\ w.offset \in Nat /\ w.size \in Nat /\ Base(l, d) <= w.offset
        /\ w.offset + w.size <= Base(l + 1, d)
    BY <2>3
  <2>6. CASE k < l
    <3>1. Base(k + 1, d) <= Base(l, d) /\ Base(k + 1, d) \in Nat /\ Base(l, d) \in Nat
      BY <2>4, <2>6
    <3> HIDE DEF v, w
    <3>2. v.offset + v.size <= w.offset
      BY <2>5, <3>1
    <3> QED
      BY <3>2 DEF v, w
  <2>7. CASE l < k
    <3>1. Base(l + 1, d) <= Base(k, d) /\ Base(l + 1, d) \in Nat /\ Base(k, d) \in Nat
      BY <2>4, <2>7
    <3> HIDE DEF v, w
    <3>2. w.offset + w.size <= v.offset
      BY <2>5, <3>1
    <3> QED
      BY <3>2 DEF v, w
  <2>8. CASE k = l
    <3>1. InOrder(table[k][d])
      BY DEF Inv, Placed
    <3>2. i # j /\ j \in DOMAIN table[k][d] /\ i \in Nat /\ j \in Nat
      <4>1. table[k][d] \in Seq(PdVars) /\ table[l][d] \in Seq(PdVars)
        BY <2>1
      <4> QED
        BY <2>8, <4>1
    <3>3. i < j \/ j < i
      BY <3>2
    <3> QED
      BY <2>8, <3>1, <3>2, <3>3 DEF InOrder
  <2> QED
    BY <2>2, <2>6, <2>7, <2>8
<1> QED
  BY <1>1, Invariance, PTL

\* A published variable lies where SOEM exchanges it, if no upload of its slave's PDOs
\* was lost, the slave is not mistyped and not Moved, and the slaves before it are
\* byte oriented (si_PDOassign against ecx_config_map_group).
THEOREM Agreement == Spec => []OffsetsAgree
<1>1. Inv => OffsetsAgree
  <2> SUFFICES ASSUME Inv, NEW k \in SlaveId, NEW d \in Dir,
                      k \notin shifted, SameLayout(k, d), WholeBytesBefore(k, d),
                      NEW i \in DOMAIN table[k][d]
               PROVE  \E n \in DOMAIN Entries(k, d) :
                         /\ Entries(k, d)[n].obj = table[k][d][i].obj
                         /\ table[k][d][i].offset = EntryStart(k, d, n) \div 8
                         /\ table[k][d][i].size = Entries(k, d)[n].bits \div 8
    BY DEF OffsetsAgree, Agrees
  <2> DEFINE e == Entries(k, d)
             v == table[k][d][i]
             low == Base(k, d)
             start == ImageEnd(k - 1, d)
  <2>1. PICK n \in DOMAIN e : /\ e[n].obj = v.obj /\ v.size = e[n].bits \div 8
                              /\ v.offset = low + FirstBits(e, n - 1) \div 8
    BY DEF Inv, Placed, Matches
  <2>2. Laid /\ PdoAssumption
    BY PdoAssumption DEF Inv, Typed
  <2>3. /\ k - 1 \in 0 .. NumSlaves /\ (k - 1) + 1 = k /\ k \in 1 .. NumSlaves + 1
    BY <2>2 DEF PdoAssumption, SlaveId
  <2>4. 8 * low = start
    <3>1. WholeBytesBefore((k - 1) + 1, d) => 8 * Base((k - 1) + 1, d) = ImageEnd(k - 1, d)
      BY <2>2, <2>3, BasesInImage
    <3> QED
      BY <2>3, <3>1
  <2>5. low \in Nat
    BY <2>2, <2>3, BasesAddUp
  <2>6. FirstBits(e, n - 1) \in Nat
    <3>1. e \in Seq(Entry)
      BY <2>2, EntriesType
    <3> HIDE DEF e
    <3>2. n - 1 \in 0 .. Len(e)
      BY <3>1
    <3> QED
      BY <3>1, <3>2, BitsAddUp
  <2> HIDE DEF low
  <2>7. ImageStart(k, d) = 8 * low
    <3>1. ByteAligned(8 * low) = 8 * low
      BY <2>5 DEF ByteAligned
    <3> QED
      BY <2>4, <3>1 DEF ImageStart, StartAfter
  <2> DEFINE f == FirstBits(e, n - 1)
  <2>8. EntryStart(k, d, n) = 8 * low + f
    BY <2>7 DEF EntryStart, FirstBits
  <2> HIDE DEF f
  <2>9. EntryStart(k, d, n) \div 8 = low + f \div 8
    BY <2>5, <2>6, <2>8 DEF f
  <2> QED
    BY <2>1, <2>9 DEF f
<1> QED
  BY <1>1, Invariance, PTL
=============================================================================
