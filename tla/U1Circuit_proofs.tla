-------------------------- MODULE U1Circuit_proofs --------------------------
(***************************************************************************)
(* Proofs about U1Circuit and the sector it runs in.                       *)
(*                                                                         *)
(* The sector: the choose table, ranks of occupied places, the numbering   *)
(* of the words by Unrank, RankWords and the iterator.  The pool: one      *)
(* parallel section.  The plan: legal operations, blocks, folded tables    *)
(* and pair maps.  The run: what a block makes of the sector is what its   *)
(* operations make of all 2^n amplitudes, so a run holds the restriction   *)
(* of the full vector, block by block and back.                            *)
(***************************************************************************)
EXTENDS U1Circuit, FoldLemmas

-----------------------------------------------------------------------------
(* The choose table                                                        *)

\* choose_u64 divides without a remainder: every partial product is a count.
LEMMA ChooseIs ==
  ASSUME NEW n \in Nat, NEW k \in Nat
  PROVE  ChooseCount(n, k) = Count(n, k)
<1>1. CASE k > n
  BY <1>1, CountEnds DEF ChooseCount
<1>2. CASE k <= n
  <2> DEFINE m == Smaller(k, n - k)
             f == [i \in 0 .. m |-> Count(n - m + i, i)]
             Body(g) == [i \in 0 .. m |-> IF i = 0 THEN 1 ELSE (g[i - 1] * (n - m + i)) \div i]
             product == CHOOSE g : g = Body(g)
  <2>1. m \in Nat /\ m <= n /\ n - m \in Nat /\ (m = k \/ m = n - k)
    BY <1>2 DEF Smaller
  <2>2. ASSUME NEW i \in 1 .. m, NEW c, c = Count(n - m + (i - 1), i - 1)
        PROVE  (c * (n - m + i)) \div i = Count(n - m + i, i)
    <3> DEFINE e == n - m + (i - 1)
               d == Count(e + 1, i)
    <3>1. e \in Nat /\ e + 1 = n - m + i /\ i \in Nat /\ i > 0 /\ i \in Int /\ i - 1 \in Int
      BY <2>1
    <3>2. i * d = (e + 1) * Count(e, i - 1)
      BY <3>1, CountAbsorbs
    <3>3. d \in Nat /\ Count(e, i - 1) \in Nat
      BY <3>1, CountNat
    <3>4. c = Count(e, i - 1)
      BY <2>2
    <3> HIDE DEF e, d
    <3>5. c * (n - m + i) = i * d
      BY <3>1, <3>2, <3>3, <3>4
    <3>6. (i * d) \div i = d
      BY <3>1, <3>3
    <3> QED
      BY <3>1, <3>5, <3>6 DEF d
  <2>3. f = Body(f)
    <3>1. \A i \in 0 .. m : f[i] = IF i = 0 THEN 1 ELSE (f[i - 1] * (n - m + i)) \div i
      <4> SUFFICES ASSUME NEW i \in 0 .. m
                   PROVE  f[i] = IF i = 0 THEN 1 ELSE (f[i - 1] * (n - m + i)) \div i
        OBVIOUS
      <4>1. CASE i = 0
        <5>1. n - m + 0 = n - m /\ Count(n - m, 0) = 1
          BY <2>1, CountEnds
        <5> QED
          BY <4>1, <5>1
      <4>2. CASE i # 0
        <5>1. i \in 1 .. m /\ i - 1 \in 0 .. m
          BY <2>1, <4>2
        <5>2. f[i - 1] = Count(n - m + (i - 1), i - 1)
          BY <5>1
        <5> HIDE DEF f, m
        <5>3. (f[i - 1] * (n - m + i)) \div i = Count(n - m + i, i)
          BY <2>2, <5>1, <5>2
        <5>4. f[i] = Count(n - m + i, i)
          BY DEF f
        <5> QED
          BY <4>2, <5>3, <5>4
      <4> QED
        BY <4>1, <4>2
    <3> QED
      BY <3>1
  <2>4. product = Body(product)
    <3> HIDE DEF Body, f
    <3> QED
      BY <2>3
  <2>5. \A i \in 0 .. m : product[i] = Count(n - m + i, i)
    <3> DEFINE T == {i \in 0 .. m : product[i] = Count(n - m + i, i)}
    <3> HIDE DEF product, m
    <3>1. 0 \in T
      <4>1. product[0] = 1 /\ 0 \in 0 .. m
        BY <2>1, <2>4
      <4>2. n - m + 0 = n - m /\ Count(n - m, 0) = 1
        BY <2>1, CountEnds
      <4> QED
        BY <4>1, <4>2
    <3>2. ASSUME NEW i \in 1 .. m, i - 1 \in T PROVE i \in T
      <4>1. i \in 0 .. m /\ i # 0
        BY <2>1
      <4>2. product[i] = (product[i - 1] * (n - m + i)) \div i
        BY <2>4, <4>1
      <4>3. product[i - 1] = Count(n - m + (i - 1), i - 1)
        BY <3>2
      <4> QED
        BY <2>2, <4>1, <4>2, <4>3
    <3>3. m \in Nat
      BY <2>1
    <3> HIDE DEF T
    <3>4. \A i \in 0 .. m : i \in T
      BY <3>1, <3>2, <3>3, UpTo
    <3> QED
      BY <3>4 DEF T
  <2>6. ChooseCount(n, k) = product[m]
    BY <1>2 DEF ChooseCount
  <2>7. product[m] = Count(n, m)
    <3> HIDE DEF product, m
    <3>1. n - m + m = n /\ m \in 0 .. m
      BY <2>1
    <3> QED
      BY <2>5, <3>1
  <2>8. Count(n, m) = Count(n, k)
    <3>1. Count(n, k) = Count(n, n - k)
      BY CountSymmetric
    <3> QED
      BY <2>1, <3>1
  <2> QED
    BY <2>6, <2>7, <2>8
<1> QED
  BY <1>1, <1>2

Filled(table, n, active) == \A r \in 0 .. n : \A c \in 0 .. active : table[r][c] = Count(r, c)

\* build_choose_table: Pascal's rule fills every column it keeps.
LEMMA TableIs ==
  ASSUME NEW n \in Nat, NEW active \in Nat
  PROVE  Filled(ChooseTable(n, active), n, active)
<1> DEFINE Body(g) == [row \in 0 .. n |-> [column \in 0 .. active |->
                IF column = 0 \/ column = row THEN 1
                ELSE IF column > row THEN 0
                ELSE g[row - 1][column - 1] + g[row - 1][column]]]
           table == CHOOSE g : g = Body(g)
           f == [row \in 0 .. n |-> [column \in 0 .. active |-> Count(row, column)]]
<1>1. ChooseTable(n, active) = table
  BY DEF ChooseTable
<1>2. ASSUME NEW r \in 0 .. n, NEW c \in 0 .. active, ~(c = 0 \/ c = r), ~(c > r)
      PROVE  r - 1 \in 0 .. n /\ c - 1 \in 0 .. active
             /\ Count(r, c) = Count(r - 1, c - 1) + Count(r - 1, c)
  <2>1. r - 1 \in Nat /\ (r - 1) + 1 = r /\ r - 1 \in 0 .. n /\ c - 1 \in 0 .. active
    BY <1>2
  <2>2. Count((r - 1) + 1, c) = Count(r - 1, c) + Count(r - 1, c - 1)
    BY <2>1, Pascal
  <2>3. Count(r - 1, c) \in Nat /\ Count(r - 1, c - 1) \in Nat
    <3>1. c \in Int /\ c - 1 \in Int
      OBVIOUS
    <3> QED
      BY <2>1, <3>1, CountNat
  <2> QED
    BY <2>1, <2>2, <2>3
<1>3. ASSUME NEW r \in 0 .. n, NEW c \in 0 .. active
      PROVE  /\ c = 0 \/ c = r => Count(r, c) = 1
             /\ c > r => Count(r, c) = 0
  <2>1. r \in Nat /\ c \in Int
    OBVIOUS
  <2>2. Count(r, 0) = 1 /\ (c > r => Count(r, c) = 0)
    BY <2>1, CountEnds
  <2>3. Count(r, r) = 1
    BY <2>1, CountSymmetric
  <2> QED
    BY <2>2, <2>3
<1>4. f = Body(f)
  <2>1. \A r \in 0 .. n, c \in 0 .. active :
          f[r][c] = IF c = 0 \/ c = r THEN 1
                    ELSE IF c > r THEN 0
                    ELSE f[r - 1][c - 1] + f[r - 1][c]
    <3> SUFFICES ASSUME NEW r \in 0 .. n, NEW c \in 0 .. active
                 PROVE  f[r][c] = IF c = 0 \/ c = r THEN 1
                                  ELSE IF c > r THEN 0
                                  ELSE f[r - 1][c - 1] + f[r - 1][c]
      OBVIOUS
    <3>1. CASE c = 0 \/ c = r \/ c > r
      BY <1>3, <3>1
    <3>2. CASE ~(c = 0 \/ c = r) /\ ~(c > r)
      BY <1>2, <3>2
    <3> QED
      BY <3>1, <3>2
  <2> QED
    BY <2>1
<1>5. table = Body(table)
  <2> HIDE DEF Body, f
  <2> QED
    BY <1>4
<1> HIDE DEF table
<1>6. \A r \in 0 .. n, c \in 0 .. active :
        table[r][c] = IF c = 0 \/ c = r THEN 1
                      ELSE IF c > r THEN 0
                      ELSE table[r - 1][c - 1] + table[r - 1][c]
  BY <1>5
<1> DEFINE T == {r \in 0 .. n : \A c \in 0 .. active : table[r][c] = Count(r, c)}
<1>7. 0 \in T
  <2>1. \A c \in 0 .. active : table[0][c] = Count(0, c)
    BY <1>3, <1>6
  <2> QED
    BY <2>1
<1>8. ASSUME NEW r \in 1 .. n, r - 1 \in T PROVE r \in T
  <2> SUFFICES ASSUME NEW c \in 0 .. active PROVE table[r][c] = Count(r, c)
    OBVIOUS
  <2>1. CASE c = 0 \/ c = r \/ c > r
    BY <1>3, <1>6, <2>1
  <2>2. CASE ~(c = 0 \/ c = r) /\ ~(c > r)
    <3>1. c - 1 \in 0 .. active /\ Count(r, c) = Count(r - 1, c - 1) + Count(r - 1, c)
      BY <1>2, <2>2
    <3>2. table[r - 1][c - 1] = Count(r - 1, c - 1) /\ table[r - 1][c] = Count(r - 1, c)
      BY <1>8, <3>1
    <3>3. table[r][c] = table[r - 1][c - 1] + table[r - 1][c]
      BY <1>6, <2>2
    <3> QED
      BY <3>1, <3>2, <3>3
  <2> QED
    BY <2>1, <2>2
<1>9. \A r \in 0 .. n : r \in T
  <2> HIDE DEF T
  <2> QED
    BY <1>7, <1>8, UpTo
<1> QED
  BY <1>1, <1>9 DEF Filled

\* A sector of a legal particle number, with its table.
IsSector(s) ==
  /\ s.nqubits \in Nat /\ s.particle_number \in 0 .. s.nqubits
  /\ s.dimension = Count(s.nqubits, s.particle_number)
  /\ s.active_number = Smaller(s.particle_number, s.nqubits - s.particle_number)
  /\ s.complement \in BOOLEAN
  /\ s.complement <=> s.particle_number > s.nqubits - s.particle_number
  /\ Filled(s.choose, s.nqubits, s.active_number)

\* NewSector makes a sector of a legal particle number.
LEMMA SectorIs ==
  ASSUME NEW n \in Nat, NEW p \in 0 .. n
  PROVE  IsSector(NewSector(n, p)) /\ NewSector(n, p).nqubits = n /\ NewSector(n, p).particle_number = p
<1>1. p \in Nat /\ ~(p > n) /\ Smaller(p, n - p) \in Nat
  BY DEF Smaller
<1>2. ChooseCount(n, p) = Count(n, p) /\ Filled(ChooseTable(n, Smaller(p, n - p)), n, Smaller(p, n - p))
  BY <1>1, ChooseIs, TableIs
<1> DEFINE s == NewSector(n, p)
<1>3. /\ s.nqubits = n /\ s.particle_number = p /\ s.dimension = ChooseCount(n, p)
      /\ s.active_number = Smaller(p, n - p) /\ s.choose = ChooseTable(n, Smaller(p, n - p))
  BY <1>1 DEF NewSector
<1>4. s.complement = (p > n - p)
  BY <1>1, Zenon DEF NewSector
<1>5. s.complement \in BOOLEAN /\ (s.complement <=> p > n - p)
  <2> DEFINE c == s.complement
             q == n - p
  <2>1. c = (p > q) /\ p \in Int /\ q \in Int
    BY <1>1, <1>4
  <2> HIDE DEF s, c, q
  <2>2. c \in BOOLEAN
    BY <2>1
  <2>3. c <=> p > q
    BY <2>1
  <2> QED
    BY <2>2, <2>3 DEF c, q
<1> HIDE DEF s
<1>6. IsSector(s)
  BY <1>2, <1>3, <1>5 DEF IsSector
<1> QED
  BY <1>3, <1>6 DEF s

\* What the fields of a sector are, whichever of particles and holes is
\* active.
LEMMA SectorFacts ==
  ASSUME NEW s, IsSector(s)
  PROVE  /\ s.nqubits \in Nat /\ s.particle_number \in 0 .. s.nqubits
         /\ s.active_number \in 0 .. s.nqubits
         /\ s.complement \in BOOLEAN
         /\ s.complement => s.active_number = s.nqubits - s.particle_number
         /\ ~s.complement => s.active_number = s.particle_number
         /\ s.dimension = Count(s.nqubits, s.active_number)
         /\ s.dimension = Count(s.nqubits, s.particle_number)
         /\ s.dimension \in Nat
<1> DEFINE n == s.nqubits
           p == s.particle_number
           a == s.active_number
           c == s.complement
<1>1. n \in Nat /\ p \in 0 .. n /\ a = Smaller(p, n - p) /\ c \in BOOLEAN /\ (c <=> p > n - p)
  BY DEF IsSector
<1>2. s.dimension = Count(n, p)
  BY DEF IsSector
<1> HIDE DEF n, p, a, c
<1>3. /\ a \in 0 .. n /\ c \in BOOLEAN
      /\ c => a = n - p
      /\ ~c => a = p
  <2>1. n \in Nat /\ p \in Nat /\ p <= n
    BY <1>1
  <2>2. CASE p > n - p
    BY <1>1, <2>1, <2>2 DEF Smaller
  <2>3. CASE ~(p > n - p)
    BY <1>1, <2>1, <2>3 DEF Smaller
  <2> QED
    BY <2>2, <2>3
<1>4. Count(n, p) = Count(n, n - p) /\ Count(n, p) \in Nat
  BY <1>1, CountSymmetric, CountNat
<1>5. s.dimension = Count(n, a)
  BY <1>2, <1>3, <1>4
<1> QED
  BY <1>1, <1>2, <1>3, <1>4, <1>5 DEF n, p, a, c

\* choose_value and combination look a count up, by the smaller side of it.
LEMMA ValueIs ==
  ASSUME NEW s, IsSector(s), NEW m \in 0 .. s.nqubits, NEW k \in 0 .. s.active_number
  PROVE  ChooseValue(s, m, k) = Count(m, k)
<1>1. m \in Nat /\ k \in Nat /\ s.nqubits \in Nat /\ s.active_number \in Nat
  BY SectorFacts
<1>2. CASE k > m
  BY <1>1, <1>2, CountEnds DEF ChooseValue
<1>3. CASE ~(k > m)
  <2> DEFINE j == Smaller(k, m - k)
  <2>1. j \in 0 .. s.active_number /\ (j = k \/ j = m - k)
    BY <1>1, <1>3 DEF Smaller
  <2>2. s.choose[m][j] = Count(m, j)
    BY <2>1 DEF IsSector, Filled
  <2>3. Count(m, k) = Count(m, m - k)
    BY <1>1, CountSymmetric
  <2> QED
    BY <1>3, <2>1, <2>2, <2>3 DEF ChooseValue
<1> QED
  BY <1>2, <1>3

\* The lookup with a fallback agrees with the table.
LEMMA CombinationIs ==
  ASSUME NEW s, IsSector(s), NEW m \in Nat, NEW k \in Nat
  PROVE  Combination(s, m, k) = Count(m, k)
<1>1. s.nqubits \in Nat /\ s.active_number \in Nat
  BY SectorFacts
<1>2. CASE k > m
  BY <1>2, CountEnds DEF Combination
<1>3. CASE ~(k > m)
  <2> DEFINE j == Smaller(k, m - k)
  <2>1. j \in Nat /\ (j = k \/ j = m - k)
    BY <1>3 DEF Smaller
  <2>2. ASSUME j <= s.active_number, m <= s.nqubits PROVE s.choose[m][j] = Count(m, j)
    <3>1. m \in 0 .. s.nqubits /\ j \in 0 .. s.active_number
      BY <1>1, <2>1, <2>2
    <3> QED
      BY <3>1 DEF IsSector, Filled
  <2>3. ChooseCount(m, j) = Count(m, j)
    BY <2>1, ChooseIs
  <2>4. Count(m, k) = Count(m, m - k)
    BY CountSymmetric
  <2>5. Combination(s, m, k) = Count(m, j)
    BY <1>3, <2>2, <2>3 DEF Combination
  <2> QED
    BY <2>1, <2>4, <2>5
<1> QED
  BY <1>2, <1>3

-----------------------------------------------------------------------------
(* The iterator, and the combinatorial number of its positions             *)

\* A choice of m positions out of n, in ascending order.
Places(n, m) ==
  {p \in [1 .. m -> 0 .. n - 1] : \A j, k \in 1 .. m : j < k => p[j] < p[k]}
RankTerms(p, m) == [k \in 1 .. m |-> Count(p[k], k)]
\* How many choices of m positions come before p: the combinatorial number of p.
ColexRank(p, m) == SumFunctionOnSet(RankTerms(p, m), 1 .. m)

\* A choice of positions is a sequence of them.
LEMMA PlacesAreSeq ==
  ASSUME NEW n \in Nat, NEW m \in Nat, NEW p \in Places(n, m)
  PROVE  Len(p) = m /\ DOMAIN p = 1 .. m
<1>1. p \in [1 .. m -> 0 .. n - 1]
  BY DEF Places
<1>2. p \in Seq(0 .. n - 1) /\ DOMAIN p = 1 .. m
  BY <1>1, SeqDef
<1> QED
  BY <1>2

\* Position k of a choice has room for those below it.
LEMMA PlaceFacts ==
  ASSUME NEW n \in Nat, NEW m \in Nat, NEW p \in Places(n, m)
  PROVE  /\ \A k \in 1 .. m : p[k] \in Nat /\ p[k] < n /\ k - 1 <= p[k]
         /\ \A j, k \in 1 .. m : j < k => p[j] < p[k]
<1>1. p \in [1 .. m -> 0 .. n - 1] /\ \A j, k \in 1 .. m : j < k => p[j] < p[k]
  BY DEF Places
<1> DEFINE T == {k \in 0 .. m : k > 0 => k - 1 <= p[k]}
<1>2. 0 \in T
  OBVIOUS
<1>3. ASSUME NEW k \in 1 .. m, k - 1 \in T PROVE k \in T
  <2>1. CASE k = 1
    BY <1>1, <2>1
  <2>2. CASE k # 1
    <3>1. k - 1 \in 1 .. m /\ k - 1 < k
      BY <2>2
    <3>2. p[k - 1] < p[k] /\ p[k] \in Nat /\ p[k - 1] \in Nat /\ (k - 1) - 1 <= p[k - 1]
      BY <1>1, <1>3, <3>1
    <3> QED
      BY <3>1, <3>2
  <2> QED
    BY <2>1, <2>2
<1>4. \A k \in 0 .. m : k \in T
  <2> HIDE DEF T
  <2> QED
    BY <1>2, <1>3, UpTo
<1>5. \A k \in 1 .. m : k - 1 <= p[k]
  BY <1>4
<1> QED
  BY <1>1, <1>5

\* The terms of a rank are counts.
LEMMA TermsAreInt ==
  ASSUME NEW n \in Nat, NEW m \in Nat, NEW p \in Places(n, m)
  PROVE  IntOn(RankTerms(p, m), 1 .. m)
<1> SUFFICES ASSUME NEW k \in 1 .. m PROVE RankTerms(p, m)[k] \in Int
  BY DEF IntOn
<1>1. p[k] \in Nat /\ k \in Int
  BY PlaceFacts
<1>2. Count(p[k], k) \in Nat
  BY <1>1, CountNat
<1>3. RankTerms(p, m)[k] = Count(p[k], k)
  BY DEF RankTerms
<1> QED
  BY <1>2, <1>3

\* A rank is a number.
LEMMA RankNat ==
  ASSUME NEW n \in Nat, NEW m \in Nat, NEW p \in Places(n, m)
  PROVE  ColexRank(p, m) \in Int
<1>1. IsFiniteSet(1 .. m)
  BY FS_Interval
<1> QED
  BY <1>1, TermsAreInt, SumInt DEF ColexRank

\* A run of k positions from a upwards makes way for the next one and starts
\* again at the bottom.
Rises(q, p, a, k, m) ==
  /\ \A j \in 1 .. k : q[j] = a + j - 1
  /\ \A j \in 1 .. k - 1 : p[j] = j - 1
  /\ p[k] = a + k
  /\ \A j \in k + 1 .. m : p[j] = q[j]

\* Carrying a run over adds one to the rank.
LEMMA RankRises ==
  ASSUME NEW n \in Nat, NEW m \in Nat, NEW q \in Places(n, m), NEW p \in Places(n, m),
         NEW k \in 1 .. m, NEW a \in Nat, Rises(q, p, a, k, m)
  PROVE  ColexRank(p, m) = ColexRank(q, m) + 1
<1> DEFINE f == RankTerms(p, m)
           g == RankTerms(q, m)
<1>1. IntOn(f, 1 .. m) /\ IntOn(g, 1 .. m)
  BY TermsAreInt
<1>2. /\ \A j \in 1 .. m : f[j] = Count(p[j], j)
      /\ \A j \in 1 .. m : g[j] = Count(q[j], j)
  BY DEF RankTerms
<1>3. ColexRank(p, m) = SumFunctionOnSet(f, 1 .. m) /\ ColexRank(q, m) = SumFunctionOnSet(g, 1 .. m)
  BY DEF ColexRank
<1> HIDE DEF f, g
<1>4. SumFunctionOnSet(f, 1 .. k - 1) = 0
  <2>1. IsFiniteSet(1 .. k - 1)
    BY FS_Interval
  <2>2. \A j \in 1 .. k - 1 : f[j] = 0
    <3> SUFFICES ASSUME NEW j \in 1 .. k - 1 PROVE f[j] = 0
      OBVIOUS
    <3>1. f[j] = Count(j - 1, j) /\ j - 1 \in Nat /\ j \in Int /\ j > j - 1
      BY <1>2 DEF Rises
    <3> QED
      BY <3>1, CountEnds
  <2> QED
    BY <2>1, <2>2, SumZero
<1>5. SumFunctionOnSet(g, 1 .. k - 1) = Count(a + (k - 1), k - 1) - 1
  <2>1. k - 1 \in Nat
    OBVIOUS
  <2>2. \A j \in 1 .. k - 1 : g[j] = Count(a + j - 1, j)
    BY <1>2 DEF Rises
  <2> QED
    BY <2>1, <2>2, Diagonal
<1>6. SumFunctionOnSet(f, k + 1 .. m) = SumFunctionOnSet(g, k + 1 .. m)
  <2>1. IsFiniteSet(k + 1 .. m)
    BY FS_Interval
  <2>2. IntOn(f, k + 1 .. m)
    BY <1>1 DEF IntOn
  <2>3. Agree(f, g, k + 1 .. m)
    <3> SUFFICES ASSUME NEW j \in k + 1 .. m PROVE f[j] = g[j]
      BY DEF Agree
    <3>1. j \in 1 .. m /\ p[j] = q[j]
      BY DEF Rises
    <3> QED
      BY <1>2, <3>1
  <2> QED
    BY <2>1, <2>2, <2>3, SumEqual
<1>7. f[k] = Count(a + k, k) /\ g[k] = Count(a + k - 1, k)
  BY <1>2 DEF Rises
<1>8. Count(a + k, k) = Count(a + k - 1, k) + Count(a + (k - 1), k - 1)
  <2>1. a + k - 1 \in Nat /\ (a + k - 1) + 1 = a + k /\ a + k - 1 = a + (k - 1)
    OBVIOUS
  <2>2. Count((a + k - 1) + 1, k) = Count(a + k - 1, k) + Count(a + k - 1, k - 1)
    BY <2>1, Pascal
  <2> QED
    BY <2>1, <2>2
<1>9. Count(a + (k - 1), k - 1) \in Int /\ Count(a + k - 1, k) \in Int
  <2>1. a + (k - 1) \in Nat /\ a + k - 1 \in Nat /\ k - 1 \in Int /\ k \in Int
    OBVIOUS
  <2>2. Count(a + (k - 1), k - 1) \in Nat
    BY <2>1, CountNat
  <2>3. Count(a + k - 1, k) \in Nat
    BY <2>1, CountNat
  <2> QED
    BY <2>2, <2>3
<1>10. /\ SumFunctionOnSet(f, 1 .. m)
              = SumFunctionOnSet(f, 1 .. k - 1) + f[k] + SumFunctionOnSet(f, k + 1 .. m)
       /\ SumFunctionOnSet(f, k + 1 .. m) \in Int
  BY <1>1, SumSplit
<1>11. SumFunctionOnSet(g, 1 .. m)
              = SumFunctionOnSet(g, 1 .. k - 1) + g[k] + SumFunctionOnSet(g, k + 1 .. m)
  BY <1>1, SumSplit
<1> QED
  BY <1>3, <1>4, <1>5, <1>6, <1>7, <1>8, <1>9, <1>10, <1>11

\* The lowest choice has rank 0, the highest that of the last one.
LEMMA RankOfRun ==
  ASSUME NEW n \in Nat, NEW m \in 0 .. n, NEW a \in {0, n - m}, NEW p,
         p = [k \in 1 .. m |-> a + k - 1]
  PROVE  /\ p \in Places(n, m)
         /\ a = 0 => ColexRank(p, m) = 0
         /\ a = n - m => ColexRank(p, m) = Count(n, m) - 1
<1>1. a \in Nat /\ m \in Nat /\ a + m <= n
  OBVIOUS
<1>2. p \in Places(n, m)
  BY <1>1 DEF Places
<1>3. \A j \in 1 .. m : RankTerms(p, m)[j] = Count(a + j - 1, j)
  BY DEF RankTerms
<1>4. ColexRank(p, m) = Count(a + m, m) - 1
  BY <1>1, <1>3, Diagonal DEF ColexRank
<1>5. Count(m, m) = 1
  BY <1>1, CountSymmetric
<1>6. a = 0 => a + m = m
  BY <1>1
<1>7. a = n - m => a + m = n
  BY <1>1
<1> QED
  BY <1>2, <1>4, <1>5, <1>6, <1>7

\* Positions with no gap above them, up to the k-th, are a run.
LEMMA RunBelow ==
  ASSUME NEW n \in Nat, NEW m \in Nat, NEW p \in Places(n, m), NEW k \in 1 .. m,
         \A j \in 1 .. k - 1 : ~(p[j] + 1 < p[j + 1])
  PROVE  \A j \in 1 .. k : p[j] = p[k] - k + j
<1>1. /\ \A j \in 1 .. m : p[j] \in Nat
      /\ \A i, j \in 1 .. m : i < j => p[i] < p[j]
  BY PlaceFacts
<1> DEFINE T == {i \in 0 .. k - 1 : p[k - i] = p[k] - i}
<1>2. 0 \in T
  BY <1>1
<1>3. ASSUME NEW i \in 1 .. k - 1, i - 1 \in T PROVE i \in T
  <2>1. k - i \in 1 .. k - 1 /\ (k - i) + 1 = k - (i - 1) /\ k - i \in 1 .. m /\ (k - i) + 1 \in 1 .. m
    OBVIOUS
  <2>2. p[k - i] < p[(k - i) + 1] /\ p[k - i] \in Nat /\ p[(k - i) + 1] \in Nat
    BY <1>1, <2>1
  <2>3. ~(p[k - i] + 1 < p[(k - i) + 1])
    BY <2>1
  <2>4. p[(k - i) + 1] = p[k] - (i - 1) /\ p[k] \in Nat
    BY <1>1, <1>3, <2>1
  <2> QED
    BY <2>2, <2>3, <2>4
<1>4. \A i \in 0 .. k - 1 : i \in T
  <2>1. k - 1 \in Nat
    OBVIOUS
  <2> HIDE DEF T
  <2> QED
    BY <1>2, <1>3, <2>1, UpTo
<1>5. ASSUME NEW j \in 1 .. k PROVE p[j] = p[k] - k + j
  <2>1. k - j \in 0 .. k - 1 /\ k - (k - j) = j
    OBVIOUS
  <2>2. p[k - (k - j)] = p[k] - (k - j)
    BY <1>4, <2>1
  <2> QED
    BY <1>1, <2>1, <2>2
<1> QED
  BY <1>5

\* The choice p follows q: at the highest place where they differ it is greater.
Follows(p, q, m) ==
  \E k \in 1 .. m : q[k] < p[k] /\ \A j \in k + 1 .. m : p[j] = q[j]

\* One step of the iterator upwards: the next choice in rank, or none when the
\* choice is the highest.
LEMMA NextStep ==
  ASSUME NEW n \in Nat, NEW m \in 0 .. n, NEW q \in Places(n, m),
         ColexRank(q, m) # Count(n, m) - 1
  PROVE  /\ NextColex(q, n) \in Places(n, m)
         /\ ColexRank(NextColex(q, n), m) = ColexRank(q, m) + 1
         /\ Follows(NextColex(q, n), q, m)
<1> DEFINE bound(k) == IF k = Len(q) THEN n ELSE q[k + 1]
           movable == {k \in DOMAIN q : q[k] + 1 < bound(k)}
<1>1. Len(q) = m /\ DOMAIN q = 1 .. m /\ m \in Nat
  BY PlacesAreSeq
<1>2. /\ \A k \in 1 .. m : q[k] \in Nat /\ q[k] < n /\ k - 1 <= q[k]
      /\ \A j, k \in 1 .. m : j < k => q[j] < q[k]
  BY <1>1, PlaceFacts
<1>3. movable # {}
  <2> SUFFICES ASSUME movable = {} PROVE FALSE
    OBVIOUS
  <2>1. \A k \in 1 .. m : ~(q[k] + 1 < bound(k))
    BY <1>1
  <2>2. \A k \in 1 .. m : q[k] = (n - m) + k - 1
    <3>1. CASE m = 0
      BY <3>1
    <3>2. CASE m # 0
      <4>4. m \in 1 .. m /\ bound(m) = n
        BY <1>1, <3>2
      <4>5. ~(q[m] + 1 < n)
        BY <2>1, <4>4
      <4>1. m \in 1 .. m /\ q[m] = n - 1
        BY <1>2, <4>4, <4>5
      <4>2. \A j \in 1 .. m - 1 : ~(q[j] + 1 < q[j + 1])
        <5> SUFFICES ASSUME NEW j \in 1 .. m - 1 PROVE ~(q[j] + 1 < q[j + 1])
          OBVIOUS
        <5>1. j \in 1 .. m /\ j # Len(q)
          BY <1>1
        <5> QED
          BY <2>1, <5>1
      <4>3. \A j \in 1 .. m : q[j] = q[m] - m + j
        BY <1>1, <4>1, <4>2, RunBelow
      <4> QED
        BY <1>1, <4>1, <4>3
    <3> QED
      BY <3>1, <3>2
  <2>3. q = [k \in 1 .. m |-> (n - m) + k - 1]
    BY <1>1, <2>2 DEF Places
  <2>4. n - m \in {0, n - m}
    OBVIOUS
  <2>5. ColexRank(q, m) = Count(n, m) - 1
    BY <2>3, <2>4, RankOfRun
  <2> QED
    BY <2>5
<1> DEFINE k == Min(movable)
           p == [j \in 1 .. m |-> IF j < k THEN j - 1 ELSE IF j = k THEN q[j] + 1 ELSE q[j]]
<1>4. k \in movable /\ \A j \in movable : k <= j
  <2>1. movable \subseteq Nat
    BY <1>1
  <2> HIDE DEF movable
  <2>2. \E l \in movable : \A j \in movable : l <= j
    BY <1>3, <2>1, Least
  <2> QED
    BY <2>2 DEF Min
<1>5. NextColex(q, n) = p
  BY <1>1, <1>3 DEF NextColex
<1>6. k \in 1 .. m /\ q[k] + 1 < bound(k)
  BY <1>1, <1>4
<1>7. \A j \in 1 .. k - 1 : ~(q[j] + 1 < q[j + 1])
  <2> SUFFICES ASSUME NEW j \in 1 .. k - 1, q[j] + 1 < q[j + 1] PROVE FALSE
    OBVIOUS
  <2>1. j \in 1 .. m /\ j # m
    BY <1>1, <1>6
  <2>2. j \in movable
    BY <1>1, <2>1
  <2> HIDE DEF k, movable
  <2> QED
    BY <1>4, <1>6, <2>2
<1> HIDE DEF k, movable
<1>8. \A j \in 1 .. k : q[j] = q[k] - k + j
  BY <1>1, <1>6, <1>7, RunBelow
<1>9. q[k] + 1 < n /\ \A j \in k + 1 .. m : q[k] + 1 < q[j]
  <2>1. q[k] \in Nat /\ q[k] < n
    BY <1>2, <1>6
  <2>2. CASE k = m
    BY <1>1, <1>6, <2>1, <2>2
  <2>3. CASE k # m
    <3>1. k + 1 \in 1 .. m /\ q[k] + 1 < q[k + 1] /\ q[k + 1] \in Nat /\ q[k + 1] < n
      BY <1>1, <1>2, <1>6, <2>3
    <3>2. \A j \in k + 1 .. m : j \in 1 .. m /\ (j = k + 1 \/ k + 1 < j)
      BY <1>6
    <3>3. \A j \in k + 1 .. m : q[j] \in Nat /\ q[k + 1] <= q[j]
      BY <1>2, <3>1, <3>2
    <3> QED
      BY <2>1, <3>1, <3>3
  <2> QED
    BY <2>2, <2>3
<1>10. p \in [1 .. m -> 0 .. n - 1]
  <2> SUFFICES ASSUME NEW j \in 1 .. m PROVE p[j] \in 0 .. n - 1
    OBVIOUS
  <2>1. q[j] \in Nat /\ q[j] < n /\ q[k] \in Nat /\ k - 1 <= q[k]
    BY <1>2, <1>6
  <2> QED
    BY <1>6, <1>9, <2>1
<1>11. \A i, j \in 1 .. m : i < j => p[i] < p[j]
  <2> SUFFICES ASSUME NEW i \in 1 .. m, NEW j \in 1 .. m, i < j PROVE p[i] < p[j]
    OBVIOUS
  <2>1. q[j] \in Nat /\ q[i] \in Nat /\ q[i] < q[j] /\ q[k] \in Nat /\ k - 1 <= q[k]
    BY <1>2, <1>6
  <2>2. CASE j < k
    <3>1. p[j] = j - 1 /\ p[i] = i - 1
      BY <1>6, <2>2
    <3> QED
      BY <3>1
  <2>3. CASE j = k
    <3>1. p[j] = q[k] + 1 /\ p[i] = i - 1
      BY <1>6, <2>3
    <3> QED
      BY <2>1, <2>3, <3>1
  <2>4. CASE j > k
    <3>1. q[k] + 1 < q[j]
      BY <1>6, <1>9, <2>4
    <3>2. p[j] = q[j]
      BY <1>6, <2>4
    <3>3. p[i] \in {i - 1, q[i] + 1, q[i]}
      OBVIOUS
    <3>4. CASE i < k
      BY <2>1, <3>1, <3>2, <3>4, <1>6
    <3>5. CASE i = k
      BY <3>1, <3>2, <3>5, <1>6
    <3>6. CASE i > k
      BY <2>1, <3>2, <3>6, <1>6
    <3> QED
      BY <3>4, <3>5, <3>6, <1>6
  <2> QED
    BY <2>2, <2>3, <2>4, <1>6
<1>12. p \in Places(n, m)
  <2> HIDE DEF p
  <2> QED
    BY <1>10, <1>11 DEF Places
<1> DEFINE a == q[k] - k + 1
<1>13. a \in Nat
  BY <1>2, <1>6
<1>14. Rises(q, p, a, k, m)
  <2>1. \A j \in 1 .. k : q[j] = a + j - 1
    BY <1>2, <1>6, <1>8
  <2>2. \A j \in 1 .. k - 1 : p[j] = j - 1
    BY <1>6
  <2>3. p[k] = a + k
    BY <1>2, <1>6
  <2>4. \A j \in k + 1 .. m : p[j] = q[j]
    BY <1>6
  <2> QED
    BY <2>1, <2>2, <2>3, <2>4 DEF Rises
<1>15. ColexRank(p, m) = ColexRank(q, m) + 1
  <2> HIDE DEF p, a
  <2> QED
    BY <1>1, <1>6, <1>12, <1>13, <1>14, RankRises
<1>16. Follows(p, q, m)
  <2>1. q[k] < p[k] /\ \A j \in k + 1 .. m : p[j] = q[j]
    BY <1>2, <1>6
  <2> QED
    BY <1>6, <2>1 DEF Follows
<1> QED
  BY <1>5, <1>12, <1>15, <1>16

\* One step downwards: the previous choice, or none when it is the lowest.
LEMMA PreviousStep ==
  ASSUME NEW n \in Nat, NEW m \in 0 .. n, NEW p \in Places(n, m), ColexRank(p, m) # 0
  PROVE  /\ PreviousColex(p) \in Places(n, m)
         /\ ColexRank(p, m) = ColexRank(PreviousColex(p), m) + 1
         /\ Follows(p, PreviousColex(p), m)
<1> DEFINE movable == {k \in DOMAIN p : p[k] > k - 1}
<1>1. Len(p) = m /\ DOMAIN p = 1 .. m /\ m \in Nat
  BY PlacesAreSeq
<1>2. /\ \A k \in 1 .. m : p[k] \in Nat /\ p[k] < n /\ k - 1 <= p[k]
      /\ \A j, k \in 1 .. m : j < k => p[j] < p[k]
  BY <1>1, PlaceFacts
<1>3. movable # {}
  <2> SUFFICES ASSUME movable = {} PROVE FALSE
    OBVIOUS
  <2>1. \A k \in 1 .. m : p[k] = 0 + k - 1
    BY <1>1, <1>2
  <2>2. p = [k \in 1 .. m |-> 0 + k - 1]
    BY <1>1, <2>1 DEF Places
  <2>3. ColexRank(p, m) = 0
    BY <2>2, RankOfRun
  <2> QED
    BY <2>3
<1> DEFINE k == Min(movable)
           q == [j \in 1 .. m |-> IF j < k THEN p[k] - 1 - (k - j)
                                  ELSE IF j = k THEN p[j] - 1 ELSE p[j]]
<1>4. k \in movable /\ \A j \in movable : k <= j
  <2>1. movable \subseteq Nat
    BY <1>1
  <2> HIDE DEF movable
  <2>2. \E l \in movable : \A j \in movable : l <= j
    BY <1>3, <2>1, Least
  <2> QED
    BY <2>2 DEF Min
<1>5. PreviousColex(p) = q
  BY <1>1, <1>3 DEF PreviousColex
<1>6. k \in 1 .. m /\ p[k] > k - 1
  BY <1>1, <1>4
<1>7. \A j \in 1 .. k - 1 : p[j] = j - 1
  <2> SUFFICES ASSUME NEW j \in 1 .. k - 1 PROVE p[j] = j - 1
    OBVIOUS
  <2>1. j \in 1 .. m /\ p[j] \in Nat /\ j - 1 <= p[j]
    BY <1>1, <1>2, <1>6
  <2>2. p[j] > j - 1 => j \in movable
    BY <1>1, <2>1
  <2> HIDE DEF k, movable
  <2> QED
    BY <1>4, <1>6, <2>1, <2>2
<1> HIDE DEF k, movable
<1>8. p[k] \in Nat /\ p[k] < n /\ k <= p[k]
  BY <1>2, <1>6
<1>9. \A j \in k + 1 .. m : p[j] \in Nat /\ p[k] < p[j] /\ p[j] < n
  BY <1>2, <1>6
<1>10. q \in [1 .. m -> 0 .. n - 1]
  <2> SUFFICES ASSUME NEW j \in 1 .. m PROVE q[j] \in 0 .. n - 1
    OBVIOUS
  <2>1. p[j] \in Nat /\ p[j] < n
    BY <1>2
  <2> QED
    BY <1>6, <1>8, <2>1
<1>11. \A i, j \in 1 .. m : i < j => q[i] < q[j]
  <2> SUFFICES ASSUME NEW i \in 1 .. m, NEW j \in 1 .. m, i < j PROVE q[i] < q[j]
    OBVIOUS
  <2>1. p[j] \in Nat /\ p[i] \in Nat /\ p[i] < p[j]
    BY <1>2
  <2>2. CASE j <= k
    BY <1>6, <1>8, <2>2
  <2>3. CASE j > k
    <3>1. p[k] < p[j] /\ q[j] = p[j]
      BY <1>6, <1>9, <2>3
    <3>2. CASE i < k
      BY <1>6, <1>8, <2>1, <3>1, <3>2
    <3>3. CASE i = k
      BY <1>6, <1>8, <2>1, <3>1, <3>3
    <3>4. CASE i > k
      BY <1>6, <2>1, <3>1, <3>4
    <3> QED
      BY <3>2, <3>3, <3>4, <1>6
  <2> QED
    BY <2>2, <2>3, <1>6
<1>12. q \in Places(n, m)
  <2> HIDE DEF q
  <2> QED
    BY <1>10, <1>11 DEF Places
<1> DEFINE a == p[k] - k
<1>13. a \in Nat
  BY <1>6, <1>8
<1>14. Rises(q, p, a, k, m)
  <2>1. \A j \in 1 .. k : q[j] = a + j - 1
    BY <1>6, <1>8
  <2>2. p[k] = a + k
    BY <1>6, <1>8
  <2>3. \A j \in k + 1 .. m : p[j] = q[j]
    BY <1>6
  <2> QED
    BY <1>7, <2>1, <2>2, <2>3 DEF Rises
<1>15. ColexRank(p, m) = ColexRank(q, m) + 1
  <2> HIDE DEF q, a
  <2> QED
    BY <1>1, <1>6, <1>12, <1>13, <1>14, RankRises
<1>16. Follows(p, q, m)
  <2>1. q[k] < p[k] /\ \A j \in k + 1 .. m : p[j] = q[j]
    BY <1>6, <1>8
  <2> QED
    BY <1>6, <2>1 DEF Follows
<1> QED
  BY <1>5, <1>12, <1>15, <1>16

-----------------------------------------------------------------------------
(* Positions, qubits and words                                             *)

\* The qubits a choice of positions stands for: position 0 is the last qubit.
Occupied(n, p) == {n - p[k] - 1 : k \in DOMAIN p}

\* A choice of m positions stands for m qubits; the qubits ahead of the k-th are
\* those of the places above it.
LEMMA OccupiedFacts ==
  ASSUME NEW n \in Nat, NEW m \in Nat, NEW p \in Places(n, m)
  PROVE  /\ Occupied(n, p) \in Chosen(Qubits(n), m)
         /\ IsFiniteSet(Occupied(n, p))
         /\ Numbers([k \in 1 .. m |-> n - p[k] - 1], 1 .. m, Occupied(n, p))
         /\ \A k \in 1 .. m :
              Cardinality({r \in Occupied(n, p) : r < n - p[k] - 1}) = m - k
<1> DEFINE h == [k \in 1 .. m |-> n - p[k] - 1]
           O == Occupied(n, p)
<1>1. DOMAIN p = 1 .. m
  BY PlacesAreSeq
<1>2. /\ \A k \in 1 .. m : p[k] \in Nat /\ p[k] < n
      /\ \A j, k \in 1 .. m : j < k => p[j] < p[k]
  BY PlaceFacts
<1>3. O = {h[k] : k \in 1 .. m}
  BY <1>1 DEF Occupied
<1>4. \A k \in 1 .. m : h[k] = n - p[k] - 1 /\ h[k] \in Nat /\ h[k] < n
  BY <1>2
<1>5. \A j, k \in 1 .. m : j < k => h[k] < h[j]
  BY <1>2, <1>4
<1>6. \A j, k \in 1 .. m : h[j] = h[k] => j = k
  <2> SUFFICES ASSUME NEW j \in 1 .. m, NEW k \in 1 .. m, h[j] = h[k] PROVE j = k
    OBVIOUS
  <2>1. ~(j < k) /\ ~(k < j)
    BY <1>4, <1>5
  <2> QED
    BY <2>1
<1> HIDE DEF h
<1>7. IsFiniteSet(1 .. m) /\ Cardinality(1 .. m) = m
  BY FS_Interval
<1>8. Numbers(h, 1 .. m, O)
  BY <1>3, <1>6 DEF Numbers
<1>9. OneToOne(h, 1 .. m, O) /\ Onto(h, 1 .. m, O)
  BY <1>8 DEF Numbers, OneToOne, Onto
<1>10. IsFiniteSet(O) /\ Cardinality(O) = m
  BY <1>7, <1>9, SameCount
<1>11. O \subseteq Qubits(n)
  BY <1>3, <1>4 DEF Qubits
<1>12. ASSUME NEW k \in 1 .. m
       PROVE  Cardinality({r \in O : r < h[k]}) = m - k
  <2> DEFINE A == {r \in O : r < h[k]}
             J == k + 1 .. m
  <2>1. IsFiniteSet(J) /\ Cardinality(J) = m - k
    BY FS_Interval
  <2>2. J \subseteq 1 .. m
    OBVIOUS
  <2>3. \A j \in J : h[j] \in A
    BY <1>3, <1>5, <2>2
  <2>4. ASSUME NEW r \in A PROVE \E j \in J : h[j] = r
    <3>1. PICK j \in 1 .. m : r = h[j]
      BY <1>3
    <3>2. h[j] < h[k]
      BY <3>1
    <3>3. j # k /\ ~(j < k)
      BY <1>4, <1>5, <3>2
    <3>4. j \in J
      BY <3>3
    <3> QED
      BY <3>1, <3>4
  <2>5. OneToOne(h, J, A) /\ Onto(h, J, A)
    BY <1>6, <2>2, <2>3, <2>4 DEF OneToOne, Onto
  <2> HIDE DEF A, J
  <2>6. Cardinality(A) = m - k
    BY <2>1, <2>5, SameCount
  <2> QED
    BY <2>6 DEF A
<1>13. O \in Chosen(Qubits(n), m)
  BY <1>10, <1>11 DEF Chosen
<1>14. \A k \in 1 .. m : Cardinality({r \in O : r < n - p[k] - 1}) = m - k
  BY <1>4, <1>12
<1> QED
  BY <1>8, <1>10, <1>13, <1>14 DEF h

\* Different choices stand for different sets of qubits.
LEMMA OccupiedTells ==
  ASSUME NEW n \in Nat, NEW m \in Nat, NEW p \in Places(n, m), NEW q \in Places(n, m),
         Occupied(n, p) = Occupied(n, q)
  PROVE  p = q
<1>1. /\ p \in [1 .. m -> 0 .. n - 1] /\ q \in [1 .. m -> 0 .. n - 1]
  BY DEF Places
<1>2. ASSUME NEW k \in 1 .. m PROVE p[k] = q[k]
  <2>1. n - p[k] - 1 \in Occupied(n, p)
    BY <1>1 DEF Occupied
  <2>2. PICK j \in 1 .. m : n - p[k] - 1 = n - q[j] - 1
    BY <1>1, <2>1 DEF Occupied
  <2>3. Cardinality({r \in Occupied(n, p) : r < n - p[k] - 1}) = m - k
    BY OccupiedFacts
  <2>4. Cardinality({r \in Occupied(n, q) : r < n - q[j] - 1}) = m - j
    BY OccupiedFacts
  <2>5. m - k = m - j
    BY <2>2, <2>3, <2>4
  <2>6. k = j /\ p[k] \in Int /\ q[j] \in Int
    BY <1>1, <2>5
  <2> QED
    BY <2>2, <2>6
<1> QED
  BY <1>1, <1>2

\* The qubits are n.
LEMMA QubitsCount ==
  ASSUME NEW n \in Nat
  PROVE  IsFiniteSet(Qubits(n)) /\ Cardinality(Qubits(n)) = n
<1>1. Qubits(n) = 0 .. n - 1 /\ n - 1 \in Int
  BY DEF Qubits
<1>2. IsFiniteSet(0 .. n - 1) /\ Cardinality(0 .. n - 1) = IF 0 > n - 1 THEN 0 ELSE (n - 1) - 0 + 1
  BY <1>1, FS_Interval
<1> QED
  BY <1>1, <1>2

\* There is a choice of every rank.
LEMMA PlaceOfRank ==
  ASSUME NEW n \in Nat, NEW m \in 0 .. n
  PROVE  /\ Count(n, m) \in Nat \ {0}
         /\ \A i \in 0 .. Count(n, m) - 1 : \E p \in Places(n, m) : ColexRank(p, m) = i
<1> DEFINE N == Count(n, m)
           T == {i \in Nat : i < N => \E p \in Places(n, m) : ColexRank(p, m) = i}
           low == [k \in 1 .. m |-> 0 + k - 1]
<1>1. m \in Nat /\ m \in Int
  OBVIOUS
<1>2. N \in Nat
  BY <1>1, CountNat
<1>3. low \in Places(n, m) /\ ColexRank(low, m) = 0
  BY RankOfRun
<1>4. 0 \in T
  BY <1>3
<1>5. ASSUME NEW i \in Nat, i \in T PROVE i + 1 \in T
  <2> SUFFICES ASSUME i + 1 < N PROVE \E p \in Places(n, m) : ColexRank(p, m) = i + 1
    OBVIOUS
  <2>1. i < N /\ i # N - 1
    BY <1>2
  <2>2. PICK q \in Places(n, m) : ColexRank(q, m) = i
    BY <1>5, <2>1
  <2>3. NextColex(q, n) \in Places(n, m) /\ ColexRank(NextColex(q, n), m) = ColexRank(q, m) + 1
    BY <2>1, <2>2, NextStep
  <2> QED
    BY <2>2, <2>3
<1>6. Nat \subseteq T
  <2> HIDE DEF T
  <2> QED
    BY <1>4, <1>5, NatInd
<1>7. N # 0
  <2>1. \E p \in Places(n, m) : ColexRank(p, m) = N - 1
    BY RankOfRun
  <2> SUFFICES ASSUME N = 0 PROVE FALSE
    OBVIOUS
  <2>2. IsFiniteSet(Qubits(n)) /\ Cardinality(Qubits(n)) = n
    BY QubitsCount
  <2>3. Cardinality(Chosen(Qubits(n), m)) = Count(n, m) /\ IsFiniteSet(Chosen(Qubits(n), m))
    BY <1>1, <2>2, CountOf, ChosenFinite
  <2>4. Chosen(Qubits(n), m) = {}
    BY <2>3, FS_EmptySet
  <2>5. Occupied(n, low) \in Chosen(Qubits(n), m)
    BY <1>1, <1>3, OccupiedFacts
  <2> QED
    BY <2>4, <2>5
<1> QED
  BY <1>2, <1>6, <1>7

\* The choice of a rank.
PlaceAt(n, m, i) == CHOOSE p \in Places(n, m) : ColexRank(p, m) = i

\* Ranks number the choices, and the choices the words with m qubits occupied.
LEMMA PlacesRanked ==
  ASSUME NEW n \in Nat, NEW m \in 0 .. n
  PROVE  /\ \A i \in 0 .. Count(n, m) - 1 :
              PlaceAt(n, m, i) \in Places(n, m) /\ ColexRank(PlaceAt(n, m, i), m) = i
         /\ \A p \in Places(n, m) :
              ColexRank(p, m) \in 0 .. Count(n, m) - 1 /\ PlaceAt(n, m, ColexRank(p, m)) = p
         /\ \A w \in Chosen(Qubits(n), m) : \E p \in Places(n, m) : Occupied(n, p) = w
<1> DEFINE N == Count(n, m)
           I == 0 .. N - 1
           P == Places(n, m)
           C == Chosen(Qubits(n), m)
           spots == [i \in I |-> PlaceAt(n, m, i)]
           occ == [p \in P |-> Occupied(n, p)]
<1>1. m \in Nat /\ m \in Int /\ N \in Nat \ {0}
  BY PlaceOfRank
<1>2. \A i \in I : spots[i] = PlaceAt(n, m, i) /\ spots[i] \in P /\ ColexRank(spots[i], m) = i
  <2> SUFFICES ASSUME NEW i \in I PROVE PlaceAt(n, m, i) \in P /\ ColexRank(PlaceAt(n, m, i), m) = i
    OBVIOUS
  <2>1. \E p \in P : ColexRank(p, m) = i
    BY PlaceOfRank
  <2> QED
    BY <2>1 DEF PlaceAt
<1>3. IsFiniteSet(Qubits(n)) /\ Cardinality(Qubits(n)) = n
  BY QubitsCount
<1>4. IsFiniteSet(C) /\ Cardinality(C) = N
  BY <1>1, <1>3, CountOf, ChosenFinite
<1>5. \A p \in P : occ[p] = Occupied(n, p) /\ occ[p] \in C
  BY <1>1, OccupiedFacts
<1>6. \A p, q \in P : occ[p] = occ[q] => p = q
  <2> SUFFICES ASSUME NEW p \in P, NEW q \in P, occ[p] = occ[q] PROVE p = q
    OBVIOUS
  <2>1. Occupied(n, p) = Occupied(n, q)
    BY <1>5
  <2>2. m \in Nat
    BY <1>1
  <2> HIDE DEF I, C, spots, occ, N
  <2>3. p \in Places(n, m) /\ q \in Places(n, m)
    OBVIOUS
  <2> QED
    BY <2>1, <2>2, <2>3, OccupiedTells
<1>7. IsFiniteSet(I) /\ Cardinality(I) = N
  <2>1. N \in Nat /\ N # 0
    BY <1>1
  <2> HIDE DEF N
  <2>2. N - 1 \in Int /\ 0 \in Int
    BY <2>1
  <2>3. IsFiniteSet(0 .. N - 1) /\ Cardinality(0 .. N - 1) = IF 0 > N - 1 THEN 0 ELSE (N - 1) - 0 + 1
    BY <2>2, FS_Interval
  <2> QED
    BY <2>1, <2>3
<1> HIDE DEF I, P, C, spots, occ
<1>8. OneToOne(occ, P, C)
  BY <1>5, <1>6 DEF OneToOne
<1>9. IsFiniteSet(P) /\ Cardinality(P) <= N /\ (Cardinality(P) = N => Onto(occ, P, C))
  BY <1>4, <1>8, FewerCount
<1>10. OneToOne(spots, I, P)
  BY <1>2 DEF OneToOne
<1>11. N <= Cardinality(P) /\ (N = Cardinality(P) => Onto(spots, I, P))
  BY <1>7, <1>9, <1>10, FewerCount
<1>12. Cardinality(P) = N
  BY <1>1, <1>9, <1>11, FS_CardinalityType
<1>13. Onto(occ, P, C) /\ Onto(spots, I, P)
  BY <1>9, <1>11, <1>12
<1>14. ASSUME NEW p \in P
       PROVE  ColexRank(p, m) \in I /\ PlaceAt(n, m, ColexRank(p, m)) = p
  <2>1. PICK i \in I : spots[i] = p
    BY <1>13 DEF Onto
  <2> QED
    BY <1>2, <2>1
<1>15. \A w \in C : \E p \in P : Occupied(n, p) = w
  BY <1>5, <1>13 DEF Onto
<1> QED
  BY <1>2, <1>14, <1>15 DEF I, P, C

\* Particles and holes stand for each other.
LEMMA ActiveTwice ==
  ASSUME NEW s, IsSector(s), NEW w \in SUBSET Qubits(s.nqubits)
  PROVE  /\ Active(s, w) \in SUBSET Qubits(s.nqubits)
         /\ Active(s, Active(s, w)) = w
         /\ Cardinality(w) = s.particle_number <=> Cardinality(Active(s, w)) = s.active_number
         /\ Cardinality(w) \in Nat
<1> DEFINE n == s.nqubits
           Q == Qubits(n)
<1>1. /\ n \in Nat /\ s.particle_number \in 0 .. n /\ s.complement \in BOOLEAN
      /\ s.complement => s.active_number = n - s.particle_number
      /\ ~s.complement => s.active_number = s.particle_number
  BY SectorFacts
<1>2. IsFiniteSet(Q) /\ Cardinality(Q) = n
  BY <1>1, QubitsCount
<1>3. /\ Cardinality(w) \in Nat /\ Cardinality(Q \ w) \in Nat
      /\ n = Cardinality(w) + Cardinality(Q \ w)
  BY <1>2, CountLeft
<1>4. CASE s.complement
  <2>1. Active(s, w) = Q \ w /\ Active(s, Q \ w) = Q \ (Q \ w)
    BY <1>4 DEF Active
  <2>2. Q \ (Q \ w) = w
    OBVIOUS
  <2>3. s.active_number = n - s.particle_number
    BY <1>1, <1>4
  <2>4. Cardinality(w) = s.particle_number <=> Cardinality(Q \ w) = s.active_number
    <3> DEFINE c == Cardinality(w)
               d == Cardinality(Q \ w)
               k == s.particle_number
               a == s.active_number
    <3>1. c \in Nat /\ d \in Nat /\ n = c + d /\ k \in Int /\ a = n - k
      BY <1>1, <1>3, <2>3
    <3> HIDE DEF c, d, k, a, n
    <3>2. c = k <=> d = a
      BY <3>1
    <3> QED
      BY <3>2 DEF c, d, k, a
  <2> QED
    BY <1>3, <2>1, <2>2, <2>4
<1>5. CASE ~s.complement
  <2>1. \A v : Active(s, v) = v
    BY <1>5 DEF Active
  <2> QED
    BY <1>1, <1>3, <1>5, <2>1
<1> QED
  BY <1>1, <1>4, <1>5

\* The rank of the words counts the choices: what rank_active_words adds up for
\* a word is the combinatorial number of its active positions.
LEMMA RankActiveIs ==
  ASSUME NEW s, IsSector(s), NEW p \in Places(s.nqubits, s.active_number), NEW w,
         Active(s, w) = Occupied(s.nqubits, p)
  PROVE  RankActive(s, w) = ColexRank(p, s.active_number)
<1> DEFINE n == s.nqubits
           m == s.active_number
           O == Occupied(n, p)
           before(q) == Cardinality({r \in O : r < q})
           f == [q \in O |-> ChooseValue(s, n - q - 1, m - before(q))]
           h == [k \in 1 .. m |-> n - p[k] - 1]
           g == RankTerms(p, m)
<1>1. n \in Nat /\ m \in Nat /\ m \in 0 .. n
  BY SectorFacts
<1>2. /\ IsFiniteSet(O) /\ Numbers(h, 1 .. m, O)
      /\ \A k \in 1 .. m : before(n - p[k] - 1) = m - k
  BY <1>1, OccupiedFacts
<1>3. \A k \in 1 .. m : h[k] = n - p[k] - 1 /\ h[k] \in O
  BY <1>2 DEF Numbers
<1>4. \A k \in 1 .. m : p[k] \in Nat /\ p[k] < n
  BY <1>1, PlaceFacts
<1>5. \A k \in 1 .. m : f[h[k]] = Count(p[k], k)
  <2> SUFFICES ASSUME NEW k \in 1 .. m PROVE f[h[k]] = Count(p[k], k)
    OBVIOUS
  <2>5. p[k] \in Nat /\ h[k] = n - p[k] - 1 /\ before(h[k]) = m - k
    BY <1>2, <1>3, <1>4
  <2>1. n - h[k] - 1 = p[k] /\ m - before(h[k]) = k
    <3> DEFINE b == before(h[k])
    <3>1. b = m - k
      BY <2>5
    <3> HIDE DEF b, m, h
    <3>2. m - b = k
      BY <1>1, <3>1
    <3>3. n - h[k] - 1 = p[k]
      BY <1>1, <2>5
    <3> QED
      BY <3>2, <3>3 DEF b
  <2>2. p[k] \in 0 .. n /\ k \in 0 .. m
    BY <1>1, <1>4
  <2>3. ChooseValue(s, p[k], k) = Count(p[k], k)
    BY <2>2, ValueIs
  <2>4. f[h[k]] = ChooseValue(s, n - h[k] - 1, m - before(h[k]))
    BY <1>3
  <2> QED
    BY <2>1, <2>3, <2>4
<1>6. \A k \in 1 .. m : g[k] = Count(p[k], k)
  BY DEF RankTerms
<1>7. IntOn(g, 1 .. m)
  BY <1>1, TermsAreInt
<1>8. Along(g, f, h, 1 .. m)
  BY <1>5, <1>6 DEF Along
<1>9. IntOn(f, O)
  <2> SUFFICES ASSUME NEW q \in O PROVE f[q] \in Int
    BY DEF IntOn
  <2>1. PICK k \in 1 .. m : h[k] = q
    BY <1>2 DEF Numbers
  <2>2. f[h[k]] = g[k] /\ g[k] \in Int
    BY <1>5, <1>6, <1>7 DEF IntOn
  <2> QED
    BY <2>1, <2>2
<1>10. IsFiniteSet(1 .. m)
  BY <1>1, FS_Interval
<1>11. SumFunctionOnSet(g, 1 .. m) = SumFunctionOnSet(f, O)
  <2> HIDE DEF f, g, h, O, m
  <2> QED
    BY <1>2, <1>8, <1>9, <1>10, SumReindex
<1>12. RankActive(s, w) = SumFunctionOnSet(f, O)
  BY DEF RankActive
<1> QED
  BY <1>11, <1>12 DEF ColexRank

\* Where the iterator stands at column i, and the word it packs there.
Standing(s, i) ==
  PlaceAt(s.nqubits, s.active_number, IF s.complement THEN s.dimension - 1 - i ELSE i)
SectorWord(s, i) == PackedWord(s, Standing(s, i))
SectorWords(s) == Chosen(Qubits(s.nqubits), s.particle_number)

\* Column i of the sector: a legal choice, of a word with the right number of
\* particles whose rank is i.
LEMMA SectorNumbered ==
  ASSUME NEW s, IsSector(s), NEW i \in 0 .. s.dimension - 1
  PROVE  /\ Standing(s, i) \in Places(s.nqubits, s.active_number)
         /\ ColexRank(Standing(s, i), s.active_number)
              = IF s.complement THEN s.dimension - 1 - i ELSE i
         /\ ActiveQubits(s, Standing(s, i)) = Active(s, SectorWord(s, i))
         /\ SectorWord(s, i) \in SectorWords(s)
         /\ RankWords(s, SectorWord(s, i)) = i
<1> DEFINE n == s.nqubits
           m == s.active_number
           D == s.dimension
           j == IF s.complement THEN D - 1 - i ELSE i
           p == Standing(s, i)
           w == SectorWord(s, i)
<1>1. n \in Nat /\ m \in 0 .. n /\ m \in Nat /\ D = Count(n, m) /\ D \in Nat /\ s.complement \in BOOLEAN
  BY SectorFacts
<1>2. j \in 0 .. D - 1
  <2>1. i \in 0 .. D - 1
    OBVIOUS
  <2> HIDE DEF D
  <2> QED
    BY <1>1, <2>1
<1>3. p = PlaceAt(n, m, j) /\ p \in Places(n, m) /\ ColexRank(p, m) = j
  <2>1. p = PlaceAt(n, m, j)
    BY DEF Standing
  <2> HIDE DEF j, n, m, p
  <2> QED
    BY <1>1, <1>2, <2>1, PlacesRanked
<1>4. ActiveQubits(s, p) = Occupied(n, p)
  BY DEF ActiveQubits, Occupied
<1>5. Occupied(n, p) \in Chosen(Qubits(n), m)
  BY <1>1, <1>3, OccupiedFacts
<1>6. w = Active(s, Occupied(n, p))
  BY <1>4 DEF SectorWord, PackedWord
<1>7. Occupied(n, p) \in SUBSET Qubits(n) /\ Cardinality(Occupied(n, p)) = m
  BY <1>5 DEF Chosen
<1>8. w \in SUBSET Qubits(n) /\ Active(s, w) = Occupied(n, p)
  BY <1>6, <1>7, ActiveTwice
<1>9. Cardinality(w) = s.particle_number
  BY <1>7, <1>8, ActiveTwice
<1>10. w \in SectorWords(s)
  BY <1>8, <1>9 DEF SectorWords, Chosen
<1>11. RankActive(s, w) = j
  BY <1>3, <1>8, RankActiveIs
<1>12. RankWords(s, w) = i
  <2>1. RankWords(s, w) = IF s.complement THEN D - 1 - RankActive(s, w) ELSE RankActive(s, w)
    BY <1>9 DEF RankWords
  <2>2. D \in Int
    BY <1>1
  <2> HIDE DEF D, w
  <2> QED
    BY <1>11, <2>1, <2>2
<1> QED
  BY <1>3, <1>4, <1>8, <1>10, <1>12

\* And every word with that number of particles is one of the columns.
LEMMA SectorComplete ==
  ASSUME NEW s, IsSector(s), NEW w \in SectorWords(s)
  PROVE  RankWords(s, w) \in 0 .. s.dimension - 1 /\ SectorWord(s, RankWords(s, w)) = w
<1> DEFINE n == s.nqubits
           m == s.active_number
           D == s.dimension
<1>1. n \in Nat /\ m \in 0 .. n /\ m \in Nat /\ D = Count(n, m) /\ D \in Nat /\ s.complement \in BOOLEAN
  BY SectorFacts
<1>2. w \in SUBSET Qubits(n) /\ Cardinality(w) = s.particle_number
  BY DEF SectorWords, Chosen
<1>3. Active(s, w) \in Chosen(Qubits(n), m) /\ Active(s, Active(s, w)) = w
  BY <1>2, ActiveTwice DEF Chosen
<1>4. PICK p \in Places(n, m) : Occupied(n, p) = Active(s, w)
  BY <1>1, <1>3, PlacesRanked
<1> DEFINE j == ColexRank(p, m)
           i == IF s.complement THEN D - 1 - j ELSE j
<1>5. j \in 0 .. D - 1 /\ PlaceAt(n, m, j) = p
  BY <1>1, PlacesRanked
<1>6. RankActive(s, w) = j
  BY <1>4, RankActiveIs
<1>7. RankWords(s, w) = i
  BY <1>2, <1>6 DEF RankWords
<1>8. i \in 0 .. D - 1 /\ j = IF s.complement THEN D - 1 - i ELSE i
  <2> HIDE DEF D, j
  <2> QED
    BY <1>1, <1>5
<1>9. Standing(s, i) = p
  <2>1. Standing(s, i) = PlaceAt(n, m, IF s.complement THEN D - 1 - i ELSE i)
    BY DEF Standing
  <2> HIDE DEF D, j, i, n, m
  <2> QED
    BY <1>5, <1>8, <2>1
<1>10. PackedWord(s, p) = Active(s, Occupied(n, p))
  BY DEF PackedWord, ActiveQubits, Occupied
<1>11. SectorWord(s, i) = w
  BY <1>3, <1>4, <1>9, <1>10 DEF SectorWord
<1> QED
  BY <1>7, <1>8, <1>11

\* The iterator starts at column 0 and goes from each column to the next.
LEMMA IteratorSteps ==
  ASSUME NEW s, IsSector(s)
  PROVE  /\ s.dimension \in Nat \ {0}
         /\ FirstPositions(s) = Standing(s, 0)
         /\ \A i \in 0 .. s.dimension - 1 : i + 1 < s.dimension =>
              /\ AdvancePositions(s, Standing(s, i)) = Standing(s, i + 1)
              /\ IF s.complement
                 THEN Follows(Standing(s, i), Standing(s, i + 1), s.active_number)
                 ELSE Follows(Standing(s, i + 1), Standing(s, i), s.active_number)
<1> DEFINE n == s.nqubits
           m == s.active_number
           D == s.dimension
<1>1. n \in Nat /\ m \in 0 .. n /\ m \in Nat /\ D = Count(n, m) /\ D \in Nat /\ s.complement \in BOOLEAN
  BY SectorFacts
<1>2. D \in Nat \ {0}
  BY <1>1, PlaceOfRank
<1>3. ASSUME NEW p \in Places(n, m)
      PROVE  ColexRank(p, m) \in 0 .. D - 1 /\ PlaceAt(n, m, ColexRank(p, m)) = p
  BY <1>1, PlacesRanked
<1>4. FirstPositions(s) = Standing(s, 0)
  <2>1. CASE s.complement
    <3> DEFINE p == [k \in 1 .. m |-> (n - m) + k - 1]
    <3>1. p \in Places(n, m) /\ ColexRank(p, m) = Count(n, m) - 1
      <4>1. n - m \in {0, n - m}
        OBVIOUS
      <4> HIDE DEF n, m
      <4> QED
        BY <1>1, <4>1, RankOfRun
    <3>2. FirstPositions(s) = p
      BY <2>1 DEF FirstPositions
    <3>3. Standing(s, 0) = PlaceAt(n, m, D - 1 - 0)
      BY <2>1 DEF Standing
    <3>4. D - 1 - 0 = D - 1
      BY <1>1
    <3> QED
      BY <1>1, <1>3, <3>1, <3>2, <3>3, <3>4
  <2>2. CASE ~s.complement
    <3> DEFINE p == [k \in 1 .. m |-> 0 + k - 1]
    <3>1. p \in Places(n, m) /\ ColexRank(p, m) = 0
      BY <1>1, RankOfRun
    <3>2. FirstPositions(s) = p
      BY <2>2 DEF FirstPositions
    <3>3. Standing(s, 0) = PlaceAt(n, m, 0)
      BY <2>2 DEF Standing
    <3> QED
      BY <1>3, <3>1, <3>2, <3>3
  <2> QED
    BY <1>1, <2>1, <2>2
<1>5. ASSUME NEW i \in 0 .. D - 1, i + 1 < D
      PROVE  /\ AdvancePositions(s, Standing(s, i)) = Standing(s, i + 1)
             /\ IF s.complement
                THEN Follows(Standing(s, i), Standing(s, i + 1), m)
                ELSE Follows(Standing(s, i + 1), Standing(s, i), m)
  <2> DEFINE p == Standing(s, i)
  <2>1. p \in Places(n, m) /\ ColexRank(p, m) = IF s.complement THEN D - 1 - i ELSE i
    BY SectorNumbered
  <2>2. CASE s.complement
    <3> DEFINE q == PreviousColex(p)
    <3>1. ColexRank(p, m) = D - 1 - i /\ ColexRank(p, m) # 0
      <4>1. ColexRank(p, m) = D - 1 - i
        BY <2>1, <2>2
      <4> HIDE DEF D, p
      <4> QED
        BY <1>1, <1>5, <4>1
    <3>2. q \in Places(n, m) /\ ColexRank(p, m) = ColexRank(q, m) + 1 /\ Follows(p, q, m)
      <4> HIDE DEF p, n, m
      <4> QED
        BY <1>1, <2>1, <3>1, PreviousStep
    <3>3. ColexRank(q, m) \in 0 .. D - 1 /\ PlaceAt(n, m, ColexRank(q, m)) = q
      BY <1>3, <3>2
    <3>4. ColexRank(q, m) = D - 1 - (i + 1)
      <4> HIDE DEF D, p, q
      <4> QED
        BY <1>1, <3>1, <3>2, <3>3
    <3>5. Standing(s, i + 1) = PlaceAt(n, m, D - 1 - (i + 1))
      BY <2>2 DEF Standing
    <3>6. AdvancePositions(s, p) = q
      BY <2>2 DEF AdvancePositions
    <3> QED
      BY <2>2, <3>2, <3>3, <3>4, <3>5, <3>6
  <2>3. CASE ~s.complement
    <3> DEFINE q == NextColex(p, n)
    <3>1. ColexRank(p, m) = i /\ ColexRank(p, m) # Count(n, m) - 1
      <4>1. ColexRank(p, m) = i
        BY <2>1, <2>3
      <4> HIDE DEF D, p
      <4> QED
        BY <1>1, <1>5, <4>1
    <3>2. q \in Places(n, m) /\ ColexRank(q, m) = ColexRank(p, m) + 1 /\ Follows(q, p, m)
      <4> HIDE DEF p, n, m
      <4> QED
        BY <1>1, <2>1, <3>1, NextStep
    <3>3. PlaceAt(n, m, ColexRank(q, m)) = q
      BY <1>3, <3>2
    <3>4. ColexRank(q, m) = i + 1
      BY <3>1, <3>2
    <3>5. Standing(s, i + 1) = PlaceAt(n, m, i + 1)
      BY <2>3 DEF Standing
    <3>6. AdvancePositions(s, p) = q
      BY <2>3 DEF AdvancePositions
    <3> QED
      BY <2>3, <3>2, <3>3, <3>4, <3>5, <3>6
  <2> QED
    BY <1>1, <2>2, <2>3
<1> QED
  BY <1>2, <1>4, <1>5

-----------------------------------------------------------------------------
(* X masks that keep the number of particles                               *)

\* How the sizes of a word and a mask, of what they share and of what the mask
\* makes of the word are related.
Sizes(w, x) ==
  /\ Cardinality(w) \in Nat /\ Cardinality(x) \in Nat
  /\ Cardinality(w \cap x) \in Nat /\ Cardinality(w \ x) \in Nat
  /\ Cardinality(w) = Cardinality(w \cap x) + Cardinality(w \ x)
  /\ Cardinality(w \cap x) <= Cardinality(x)
  /\ Cardinality(Xor(w, x)) = Cardinality(w) + Cardinality(x) - 2 * Cardinality(w \cap x)

\* What a mask does to the number of particles.
LEMMA XorCount ==
  ASSUME NEW Q, IsFiniteSet(Q), NEW w \in SUBSET Q, NEW x \in SUBSET Q
  PROVE  Xor(w, x) \in SUBSET Q /\ Sizes(w, x)
<1> DEFINE a == Cardinality(w \cap x)
           b == Cardinality(w \ x)
           c == Cardinality(x \ w)
<1>1. IsFiniteSet(w) /\ IsFiniteSet(x)
  BY FS_Subset
<1>2. w \ (w \cap x) = w \ x /\ x \ (w \cap x) = x \ w
  OBVIOUS
<1>3. a \in Nat /\ b \in Nat /\ Cardinality(w) = a + b
  <2>1. w \cap x \in SUBSET w
    OBVIOUS
  <2>2. /\ Cardinality(w \cap x) \in Nat /\ Cardinality(w \ (w \cap x)) \in Nat
        /\ Cardinality(w) = Cardinality(w \cap x) + Cardinality(w \ (w \cap x))
    BY <1>1, <2>1, CountLeft
  <2> QED
    BY <1>2, <2>2
<1>4. c \in Nat /\ Cardinality(x) = a + c
  <2>1. w \cap x \in SUBSET x
    OBVIOUS
  <2>2. /\ Cardinality(w \cap x) \in Nat /\ Cardinality(x \ (w \cap x)) \in Nat
        /\ Cardinality(x) = Cardinality(w \cap x) + Cardinality(x \ (w \cap x))
    BY <1>1, <2>1, CountLeft
  <2> QED
    BY <1>2, <2>2
<1>5. Cardinality(Xor(w, x)) = b + c
  <2> DEFINE X == Xor(w, x)
  <2>1. X = (w \ x) \cup (x \ w)
    BY DEF Xor
  <2>2. IsFiniteSet(X) /\ w \ x \in SUBSET X /\ X \ (w \ x) = x \ w
    <3>1. X \in SUBSET Q
      BY <2>1
    <3>2. IsFiniteSet(X)
      BY <3>1, FS_Subset
    <3> QED
      BY <2>1, <3>2
  <2> HIDE DEF X
  <2>3. Cardinality(X) = Cardinality(w \ x) + Cardinality(X \ (w \ x))
    BY <2>2, CountLeft
  <2> QED
    BY <2>2, <2>3 DEF X
<1>6. Xor(w, x) \in SUBSET Q
  BY DEF Xor
<1>7. Cardinality(Xor(w, x)) = Cardinality(w) + Cardinality(x) - 2 * a /\ a <= Cardinality(x)
  <2> HIDE DEF a, b, c
  <2> QED
    BY <1>3, <1>4, <1>5
<1> QED
  BY <1>3, <1>4, <1>6, <1>7 DEF Sizes

\* The words of a sector that a mask keeps in it have half of the mask occupied.
LEMMA MaskKeeps ==
  ASSUME NEW n \in Nat, NEW p \in 0 .. n, NEW x \in SUBSET Qubits(n)
  PROVE  LET v == Cardinality(x)
             kept == {w \in Chosen(Qubits(n), p) : Cardinality(Xor(w, x)) = p}
         IN  /\ v \in 0 .. n /\ IsFiniteSet(kept)
             /\ v % 2 # 0 => Cardinality(kept) = 0
             /\ v % 2 = 0 => Cardinality(kept) = Count(v, v \div 2) * Count(n - v, p - v \div 2)
<1> DEFINE Q == Qubits(n)
           v == Cardinality(x)
           kept == {w \in Chosen(Q, p) : Cardinality(Xor(w, x)) = p}
<1>1. IsFiniteSet(Q) /\ Cardinality(Q) = n
  BY QubitsCount
<1>2. IsFiniteSet(x) /\ IsFiniteSet(Q \ x) /\ v \in Nat /\ Cardinality(Q \ x) \in Nat /\ n = v + Cardinality(Q \ x)
  BY <1>1, CountLeft
<1>3. v \in 0 .. n /\ Cardinality(Q \ x) = n - v
  <2> DEFINE c == Cardinality(Q \ x)
  <2> HIDE DEF v, c
  <2>1. v \in 0 .. n /\ c = n - v
    BY <1>2 DEF c
  <2> QED
    BY <2>1 DEF c
<1>4. IsFiniteSet(kept)
  <2>1. IsFiniteSet(Chosen(Q, p))
    BY <1>1, ChosenFinite
  <2> QED
    BY <2>1, FS_Subset
<1>5. ASSUME NEW w \in SUBSET Q
      PROVE  w \in kept <=> /\ 2 * Cardinality(w \cap x) = v
                            /\ Cardinality(w \cap x) + Cardinality(w \ x) = p
  <2> DEFINE a == Cardinality(w \cap x)
             b == Cardinality(w \ x)
             d == Cardinality(Xor(w, x))
  <2>1. Cardinality(w) = a + b /\ a \in Nat /\ b \in Nat /\ v \in Nat /\ d = Cardinality(w) + v - 2 * a
    <3>2. w \in SUBSET Q /\ x \in SUBSET Q /\ IsFiniteSet(Q)
      BY <1>1
    <3> HIDE DEF Q, v, a, b, d
    <3>1. Sizes(w, x)
      BY <3>2, XorCount
    <3> QED
      BY <1>2, <3>1 DEF v, a, b, d, Sizes
  <2>2. w \in kept <=> Cardinality(w) = p /\ d = p
    BY DEF Chosen
  <2> HIDE DEF a, b, d, v, kept
  <2>3. w \in kept <=> a + b = p /\ 2 * a = v
    BY <2>1, <2>2
  <2> QED
    BY <2>3 DEF a, b
<1>6. ASSUME v % 2 # 0 PROVE Cardinality(kept) = 0
  <2>1. \A w \in SUBSET Q : Cardinality(w \cap x) \in Nat
    BY <1>1, XorCount DEF Sizes
  <2>2. \A a \in Nat : 2 * a # v
    <3> HIDE DEF v
    <3> QED
      BY <1>2, <1>6
  <2>3. kept = {}
    <3> SUFFICES ASSUME NEW w \in kept PROVE FALSE
      OBVIOUS
    <3>1. w \in SUBSET Q
      BY DEF Chosen
    <3> QED
      BY <1>5, <2>1, <2>2, <3>1
  <2> QED
    BY <2>3, FS_EmptySet
<1>7. ASSUME v % 2 = 0
      PROVE  Cardinality(kept) = Count(v, v \div 2) * Count(n - v, p - v \div 2)
  <2> DEFINE half == v \div 2
             A == Chosen(x, half)
             B == Chosen(Q \ x, p - half)
             h == [e \in A \X B |-> e[1] \cup e[2]]
  <2>1. half \in Nat /\ 2 * half = v
    <3> HIDE DEF v
    <3> QED
      BY <1>2, <1>7
  <2>2. p - half \in Int /\ half \in Int
    <3> HIDE DEF half
    <3> QED
      BY <2>1
  <2>3. IsFiniteSet(A) /\ Cardinality(A) = Count(v, half)
    BY <1>2, <2>2, CountOf, ChosenFinite
  <2>4. IsFiniteSet(B) /\ Cardinality(B) = Count(n - v, p - half)
    <3> DEFINE k == p - half
    <3> HIDE DEF k, v
    <3>1. Cardinality(Chosen(Q \ x, k)) = Count(Cardinality(Q \ x), k) /\ IsFiniteSet(Chosen(Q \ x, k))
      BY <1>2, <2>2, CountOf, ChosenFinite DEF k
    <3> QED
      BY <1>3, <3>1 DEF k
  <2>5. IsFiniteSet(A \X B) /\ Cardinality(A \X B) = Count(v, half) * Count(n - v, p - half)
    <3> HIDE DEF A, B, half, v
    <3> QED
      BY <2>3, <2>4, FS_Product
  <2>6. ASSUME NEW e \in A \X B
        PROVE  h[e] \in kept /\ h[e] \cap x = e[1] /\ h[e] \ x = e[2]
    <3>1. e[1] \in SUBSET x /\ Cardinality(e[1]) = half /\ e[2] \in SUBSET (Q \ x) /\ Cardinality(e[2]) = p - half
      BY DEF Chosen
    <3>2. h[e] \in SUBSET Q /\ h[e] \cap x = e[1] /\ h[e] \ x = e[2]
      BY <3>1
    <3>3. 2 * Cardinality(h[e] \cap x) = v /\ Cardinality(h[e] \cap x) + Cardinality(h[e] \ x) = p
      <4> DEFINE k == p - half
                 c == Cardinality(h[e] \cap x)
                 d == Cardinality(h[e] \ x)
      <4>1. c = half /\ d = k
        BY <3>1, <3>2
      <4>2. half + k = p
        <5> HIDE DEF half
        <5> QED
          BY <2>1
      <4> HIDE DEF c, d, k, half, v
      <4>3. 2 * c = v /\ c + d = p
        BY <2>1, <4>1, <4>2
      <4> QED
        BY <4>3 DEF c, d
    <3> QED
      BY <1>5, <3>2, <3>3
  <2>7. ASSUME NEW w \in kept
        PROVE  \E e \in A \X B : h[e] = w
    <3>1. w \in SUBSET Q
      BY DEF Chosen
    <3>2. 2 * Cardinality(w \cap x) = v /\ Cardinality(w \cap x) + Cardinality(w \ x) = p
      BY <1>5, <3>1
    <3>3. Cardinality(w \cap x) \in Nat /\ Cardinality(w \ x) \in Nat
      BY <1>1, <3>1, XorCount DEF Sizes
    <3>4. Cardinality(w \cap x) = half /\ Cardinality(w \ x) = p - half
      <4> DEFINE a == Cardinality(w \cap x)
                 b == Cardinality(w \ x)
      <4> HIDE DEF half, v, a, b
      <4>1. a = half /\ b = p - half
        BY <2>1, <3>2, <3>3 DEF a, b
      <4> QED
        BY <4>1 DEF a, b
    <3>5. <<w \cap x, w \ x>> \in A \X B
      BY <3>1, <3>4 DEF Chosen
    <3>6. h[<<w \cap x, w \ x>>] = w
      BY <3>5
    <3> QED
      BY <3>5, <3>6
  <2>8. OneToOne(h, A \X B, kept) /\ Onto(h, A \X B, kept)
    <3> HIDE DEF A, B, h, kept
    <3>1. \A e, f \in A \X B : h[e] = h[f] => e = f
      <4> SUFFICES ASSUME NEW e \in A \X B, NEW f \in A \X B, h[e] = h[f] PROVE e = f
        OBVIOUS
      <4>1. e[1] = f[1] /\ e[2] = f[2]
        BY <2>6
      <4> QED
        BY <4>1
    <3> QED
      BY <2>6, <2>7, <3>1 DEF OneToOne, Onto
  <2>9. Cardinality(kept) = Cardinality(A \X B)
    <3> HIDE DEF A, B, h, kept
    <3> QED
      BY <2>5, <2>8, SameCount
  <2> QED
    BY <2>5, <2>9
<1> QED
  BY <1>3, <1>4, <1>6, <1>7

\* A mask leads from one word to one other.
LEMMA XorOnce ==
  ASSUME NEW w, NEW x, NEW y, Xor(w, x) = Xor(w, y)
  PROVE  x = y
  BY DEF Xor

-----------------------------------------------------------------------------
(* Gaussian integers and their totals                                      *)

ComplexOn(f, S) == \A x \in S : f[x] \in Complex
Re(f, S) == [x \in S |-> f[x].re]
Im(f, S) == [x \in S |-> f[x].im]

\* The arithmetic of Gaussian integers that totals need.
LEMMA ComplexFacts ==
  ASSUME NEW a \in Complex, NEW b \in Complex
  PROVE  /\ a.re \in Int /\ a.im \in Int /\ a = Gauss(a.re, a.im)
         /\ Plus(a, b) \in Complex /\ Times(a, b) \in Complex /\ Neg(a) \in Complex
         /\ Plus(a, b) = Plus(b, a) /\ Times(a, b) = Times(b, a)
         /\ Zero \in Complex /\ Plus(a, Zero) = a /\ Plus(Zero, a) = a
         /\ Times(a, Zero) = Zero /\ Times(Zero, a) = Zero
         /\ Neg(Times(a, b)) = Times(a, Neg(b))
         /\ Neg(a) = Zero => a = Zero
<1>1. a.re \in Int /\ a.im \in Int /\ b.re \in Int /\ b.im \in Int /\ a = [re |-> a.re, im |-> a.im]
  BY DEF Complex
<1>2. /\ Plus(a, b) \in Complex /\ Neg(a) \in Complex /\ Zero \in Complex
  BY <1>1 DEF Plus, Neg, Gauss, Zero, Complex
<1>3. Times(a, b) \in Complex
  BY <1>1 DEF Times, Gauss, Complex
<1>4. Plus(a, b) = Plus(b, a) /\ Times(a, b) = Times(b, a)
  <2>1. a.re + b.re = b.re + a.re /\ a.im + b.im = b.im + a.im
    BY <1>1
  <2>2. /\ a.re * b.re - a.im * b.im = b.re * a.re - b.im * a.im
        /\ a.re * b.im + a.im * b.re = b.re * a.im + b.im * a.re
    BY <1>1
  <2> QED
    BY <2>1, <2>2 DEF Plus, Times
<1>5. Plus(a, Zero) = a /\ Plus(Zero, a) = a
  <2>1. a.re + 0 = a.re /\ a.im + 0 = a.im /\ 0 + a.re = a.re /\ 0 + a.im = a.im
    BY <1>1
  <2> QED
    BY <1>1, <2>1 DEF Plus, Zero, Gauss
<1>6. Times(a, Zero) = Zero /\ Times(Zero, a) = Zero
  <2>1. /\ a.re * 0 - a.im * 0 = 0 /\ a.re * 0 + a.im * 0 = 0
        /\ 0 * a.re - 0 * a.im = 0 /\ 0 * a.im + 0 * a.re = 0
    BY <1>1
  <2> QED
    BY <2>1 DEF Times, Zero, Gauss
<1>7. Neg(Times(a, b)) = Times(a, Neg(b))
  <2>1. /\ -(a.re * b.re - a.im * b.im) = a.re * (-b.re) - a.im * (-b.im)
        /\ -(a.re * b.im + a.im * b.re) = a.re * (-b.im) + a.im * (-b.re)
    BY <1>1
  <2> QED
    BY <2>1 DEF Times, Neg, Gauss
<1>8. Neg(a) = Zero => a = Zero
  <2>1. (-a.re = 0 => a.re = 0) /\ (-a.im = 0 => a.im = 0)
    BY <1>1
  <2> QED
    BY <1>1, <2>1 DEF Neg, Zero, Gauss
<1> QED
  BY <1>1, <1>2, <1>3, <1>4, <1>5, <1>6, <1>7, <1>8 DEF Gauss

\* A total is the sum of the real and the sum of the imaginary parts.
LEMMA ComplexParts ==
  ASSUME NEW S, IsFiniteSet(S), NEW f, ComplexOn(f, S)
  PROVE  /\ IntOn(Re(f, S), S) /\ IntOn(Im(f, S), S)
         /\ Total(S, f) = Gauss(SumFunctionOnSet(Re(f, S), S), SumFunctionOnSet(Im(f, S), S))
         /\ Total(S, f) \in Complex
<1> DEFINE pick == [s \in SUBSET S |-> Pick(s)]
           step == [x \in S |-> [v \in Complex |-> Plus(f[x], v)]]
           Body(g) == [s \in SUBSET S |-> IF s = {} THEN Zero ELSE Plus(f[Pick(s)], g[s \ {Pick(s)}])]
           iter == CHOOSE g : g = Body(g)
           A(s) == SumFunctionOnSet(Re(f, S), s)
           B(s) == SumFunctionOnSet(Im(f, S), s)
<1>0. IntOn(Re(f, S), S) /\ IntOn(Im(f, S), S)
  BY DEF IntOn, Re, Im, ComplexOn, Complex
<1>1. Total(S, f) = iter[S]
  BY DEF Total, MapThenFoldSet, Pick
<1>2. \A s \in SUBSET S : s # {} => Pick(s) \in s
  BY DEF Pick
<1>3. step \in [S -> [Complex -> Complex]] /\ \A s \in SUBSET S : s # {} => pick[s] \in s
  BY <1>2, ComplexFacts DEF ComplexOn
<1>4. PICK g : g = Body(g)
  <2>1. PICK g \in [SUBSET S -> Complex] :
               /\ g[{}] = Zero
               /\ \A s \in SUBSET S : s # {} => g[s] = step[pick[s]][g[s \ {pick[s]}]]
    <3> DEFINE V == Complex
               zero == Zero
    <3>1. step \in [S -> [V -> V]]
      BY <1>3
    <3>0. zero \in V
      BY DEF Zero, Gauss, Complex
    <3>3. Picks(pick, S)
      BY <1>3 DEF Picks
    <3> HIDE DEF step, pick, V, zero
    <3>2. \E g : TakesApart(g, S, V, zero, step, pick)
      BY <3>0, <3>1, <3>3, SetRecursion
    <3> QED
      BY <3>2 DEF V, zero, TakesApart
  <2>2. \A s \in SUBSET S : s # {} => g[s] = Plus(f[Pick(s)], g[s \ {Pick(s)}])
    BY <1>2, <2>1
  <2>3. /\ g = [s \in SUBSET S |-> g[s]]
        /\ \A s \in SUBSET S : g[s] = IF s = {} THEN Zero ELSE Plus(f[Pick(s)], g[s \ {Pick(s)}])
    BY <2>1, <2>2
  <2>4. g = Body(g)
    BY <2>3, Zenon
  <2> HIDE DEF Body
  <2> QED
    BY <2>4
<1>5. iter = Body(iter)
  <2> HIDE DEF Body
  <2> QED
    BY <1>4
<1> HIDE DEF iter
<1>6. iter[{}] = Zero /\ \A s \in SUBSET S : s # {} => iter[s] = Plus(f[Pick(s)], iter[s \ {Pick(s)}])
  BY <1>5
<1> DEFINE P == {s \in SUBSET S : iter[s] = Gauss(A(s), B(s))}
<1>7. Grows(P, S)
  <2> SUFFICES ASSUME NEW s \in SUBSET S, \A x \in s : s \ {x} \in P PROVE s \in P
    BY DEF Grows
  <2>1. CASE s = {}
    <3>1. A({}) = 0 /\ B({}) = 0
      BY SumEmpty
    <3> QED
      BY <1>6, <2>1, <3>1 DEF Zero
  <2>2. CASE s # {}
    <3> DEFINE x == Pick(s)
               t == s \ {x}
    <3>1. x \in s /\ x \in S
      BY <1>2, <2>2
    <3>2. iter[s] = Plus(f[x], iter[t]) /\ iter[t] = Gauss(A(t), B(t))
      BY <1>6, <2>2, <3>1
    <3>3. A(s) = Re(f, S)[x] + A(t) /\ B(s) = Im(f, S)[x] + B(t)
      <4> HIDE DEF x
      <4> QED
        BY <1>0, <3>1, SumParts
    <3>4. Re(f, S)[x] = f[x].re /\ Im(f, S)[x] = f[x].im
      BY <3>1 DEF Re, Im
    <3> HIDE DEF x, t, A, B
    <3>5. iter[s] = Gauss(A(s), B(s))
      BY <3>2, <3>3, <3>4 DEF Plus, Gauss
    <3> QED
      BY <3>5
  <2> QED
    BY <2>1, <2>2
<1>8. S \in P
  <2> HIDE DEF P
  <2> QED
    BY <1>7, SubsetInd
<1>9. A(S) \in Int /\ B(S) \in Int
  BY <1>0, SumInt
<1> HIDE DEF A, B
<1>10. Total(S, f) = Gauss(A(S), B(S)) /\ Gauss(A(S), B(S)) \in Complex
  BY <1>1, <1>8, <1>9 DEF Gauss, Complex
<1> QED
  BY <1>0, <1>10 DEF A, B

\* A total depends on the terms only.
LEMMA ComplexEqual ==
  ASSUME NEW S, IsFiniteSet(S), NEW f, NEW g, ComplexOn(f, S), Agree(f, g, S)
  PROVE  Total(S, f) = Total(S, g)
<1>1. ComplexOn(g, S)
  BY DEF ComplexOn, Agree
<1>2. Re(f, S) = Re(g, S) /\ Im(f, S) = Im(g, S)
  BY DEF Agree, Re, Im
<1> QED
  BY <1>1, <1>2, ComplexParts

\* A total over nothing is zero.
LEMMA ComplexNone ==
  ASSUME NEW f
  PROVE  Total({}, f) = Zero
<1>1. ComplexOn(f, {}) /\ IsFiniteSet({})
  BY FS_EmptySet DEF ComplexOn
<1>2. Total({}, f) = Gauss(SumFunctionOnSet(Re(f, {}), {}), SumFunctionOnSet(Im(f, {}), {}))
  BY <1>1, ComplexParts
<1> QED
  BY <1>2, SumEmpty DEF Zero

\* Terms that are zero may be left out.
LEMMA ComplexRestrict ==
  ASSUME NEW S, IsFiniteSet(S), NEW f, ComplexOn(f, S), NEW A \in SUBSET S,
         \A x \in S \ A : f[x] = Zero
  PROVE  Total(S, f) = Total(A, f)
<1>1. IsFiniteSet(A) /\ ComplexOn(f, A)
  BY FS_Subset DEF ComplexOn
<1>2. /\ IntOn(Re(f, S), S) /\ IntOn(Im(f, S), S)
      /\ \A x \in S \ A : Re(f, S)[x] = 0 /\ Im(f, S)[x] = 0
  BY ComplexParts DEF Re, Im, Zero, Gauss
<1>3. /\ SumFunctionOnSet(Re(f, S), S) = SumFunctionOnSet(Re(f, S), A)
      /\ SumFunctionOnSet(Im(f, S), S) = SumFunctionOnSet(Im(f, S), A)
  BY <1>2, SumRestrict
<1>4. /\ SumFunctionOnSet(Re(f, S), A) = SumFunctionOnSet(Re(f, A), A)
      /\ SumFunctionOnSet(Im(f, S), A) = SumFunctionOnSet(Im(f, A), A)
  <2>1. IntOn(Re(f, S), A) /\ IntOn(Im(f, S), A)
    BY <1>2 DEF IntOn
  <2>2. Agree(Re(f, S), Re(f, A), A) /\ Agree(Im(f, S), Im(f, A), A)
    BY DEF Agree, Re, Im
  <2> QED
    BY <1>1, <2>1, <2>2, SumEqual
<1> QED
  BY <1>1, <1>3, <1>4, ComplexParts

\* One term taken out.
LEMMA ComplexRemove ==
  ASSUME NEW S, IsFiniteSet(S), NEW f, ComplexOn(f, S), NEW x \in S
  PROVE  Total(S, f) = Plus(f[x], Total(S \ {x}, f)) /\ Total(S \ {x}, f) \in Complex
<1> DEFINE T == S \ {x}
<1>1. IsFiniteSet(T) /\ ComplexOn(f, T) /\ T \in SUBSET S
  BY FS_Subset DEF ComplexOn
<1>2. IntOn(Re(f, S), S) /\ IntOn(Im(f, S), S)
  BY ComplexParts
<1>3. /\ SumFunctionOnSet(Re(f, S), S) = f[x].re + SumFunctionOnSet(Re(f, S), T)
      /\ SumFunctionOnSet(Im(f, S), S) = f[x].im + SumFunctionOnSet(Im(f, S), T)
  <2>1. Re(f, S)[x] = f[x].re /\ Im(f, S)[x] = f[x].im
    BY DEF Re, Im
  <2> QED
    BY <1>2, <2>1, SumRemove
<1>4. /\ SumFunctionOnSet(Re(f, S), T) = SumFunctionOnSet(Re(f, T), T)
      /\ SumFunctionOnSet(Im(f, S), T) = SumFunctionOnSet(Im(f, T), T)
  <2>1. IntOn(Re(f, S), T) /\ IntOn(Im(f, S), T)
    BY <1>2 DEF IntOn
  <2>2. Agree(Re(f, S), Re(f, T), T) /\ Agree(Im(f, S), Im(f, T), T)
    BY DEF Agree, Re, Im
  <2> HIDE DEF T
  <2> QED
    BY <1>1, <2>1, <2>2, SumEqual
<1> DEFINE a == SumFunctionOnSet(Re(f, T), T)
           b == SumFunctionOnSet(Im(f, T), T)
<1>5. Total(T, f) = Gauss(a, b) /\ Total(T, f) \in Complex
  <2> HIDE DEF T
  <2> QED
    BY <1>1, ComplexParts
<1>6. Total(S, f) = Gauss(f[x].re + a, f[x].im + b)
  BY <1>3, <1>4, ComplexParts
<1> HIDE DEF a, b
<1> QED
  BY <1>5, <1>6 DEF Plus, Gauss

\* A total over one place is what stands there.
LEMMA ComplexOne ==
  ASSUME NEW x, NEW f, f[x] \in Complex
  PROVE  Total({x}, f) = f[x]
<1>1. IsFiniteSet({x}) /\ ComplexOn(f, {x}) /\ x \in {x} /\ {x} \ {x} = {}
  BY FS_Singleton DEF ComplexOn
<1>2. Total({x}, f) = Plus(f[x], Total({}, f))
  BY <1>1, ComplexRemove
<1> QED
  BY <1>2, ComplexNone, ComplexFacts

\* The order of a total does not matter.
LEMMA ComplexReindex ==
  ASSUME NEW S, IsFiniteSet(S), NEW f, ComplexOn(f, S), NEW T, IsFiniteSet(T),
         NEW h, Numbers(h, T, S), NEW g, Along(g, f, h, T)
  PROVE  Total(T, g) = Total(S, f)
<1>1. ComplexOn(g, T)
  BY DEF ComplexOn, Along, Numbers
<1>2. Along(Re(g, T), Re(f, S), h, T) /\ Along(Im(g, T), Im(f, S), h, T)
  BY DEF Along, Re, Im, Numbers
<1>3. IntOn(Re(f, S), S) /\ IntOn(Im(f, S), S)
  BY ComplexParts
<1>4. /\ SumFunctionOnSet(Re(g, T), T) = SumFunctionOnSet(Re(f, S), S)
      /\ SumFunctionOnSet(Im(g, T), T) = SumFunctionOnSet(Im(f, S), S)
  BY <1>2, <1>3, SumReindex
<1> QED
  BY <1>1, <1>4, ComplexParts

-----------------------------------------------------------------------------
(***************************************************************************)
(* A parallel section of apply_pair_matrix, for any number of workers, any *)
(* slice, any matrix and any sound list of pairs.                          *)
(***************************************************************************)
PairList(Index) == {ps \in Seq([zero_one : Index, one_zero : Index]) : PairsOf(ps, Index)}
Matrix == [1..2 -> [1..2 -> Complex]]

PairInit(Index) ==
    /\ vector \in [Index -> Complex]
    /\ lent = vector
    /\ pairs \in PairList(Index)
    /\ matrix \in Matrix
    /\ pending = DOMAIN pairs
    /\ held = [w \in Worker |-> Free]

PairSpec(Index) == PairInit(Index) /\ [][WorkerStep]_pairVars

-----------------------------------------------------------------------------
(***************************************************************************)
(* The inductive invariant.  A pair is untaken, held by exactly one worker *)
(* that has read the lent amplitudes, or written; the amplitudes of a pair *)
(* not yet written are the lent ones.                                      *)
(***************************************************************************)
Busy(w) == held[w] # Free
Holds(w, k) == Busy(w) /\ held[w].pair = k
Written(k) == k \notin pending /\ \A w \in Worker : ~Holds(w, k)

Holding == {Free} \cup [pair : DOMAIN pairs, left : Complex, right : Complex]

SectionType(Index) ==
    /\ vector \in [Index -> Complex]
    /\ lent \in [Index -> Complex]
    /\ pairs \in PairList(Index)
    /\ matrix \in Matrix
    /\ pending \subseteq DOMAIN pairs
    /\ held \in [Worker -> Holding]

HeldApart ==
    /\ \A w \in Worker : Busy(w) => held[w].pair \notin pending
    /\ \A v, w \in Worker : v # w /\ Busy(v) /\ Busy(w) => held[v].pair # held[w].pair

HeldFresh ==
    \A w \in Worker : Busy(w) =>
        /\ held[w].left = lent[pairs[held[w].pair].zero_one]
        /\ held[w].right = lent[pairs[held[w].pair].one_zero]

NewLeft(k) == Row2(matrix, 1, lent[pairs[k].zero_one], lent[pairs[k].one_zero])
NewRight(k) == Row2(matrix, 2, lent[pairs[k].zero_one], lent[pairs[k].one_zero])

UnwrittenLent ==
    \A k \in DOMAIN pairs : ~Written(k) =>
        /\ vector[pairs[k].zero_one] = lent[pairs[k].zero_one]
        /\ vector[pairs[k].one_zero] = lent[pairs[k].one_zero]

WrittenMapped ==
    \A k \in DOMAIN pairs : Written(k) =>
        /\ vector[pairs[k].zero_one] = NewLeft(k)
        /\ vector[pairs[k].one_zero] = NewRight(k)

OthersKept(Index) ==
    \A i \in Index : (\A k \in DOMAIN pairs : i \notin Indices(pairs[k])) => vector[i] = lent[i]

SectionInv(Index) ==
    SectionType(Index) /\ HeldApart /\ HeldFresh /\ UnwrittenLent /\ WrittenMapped /\ OthersKept(Index)

-----------------------------------------------------------------------------
\* Complex arithmetic stays among the Gaussian integers.
LEMMA ComplexClosed ==
    ASSUME NEW a \in Complex, NEW b \in Complex
    PROVE  Plus(a, b) \in Complex /\ Times(a, b) \in Complex
  BY DEF Complex, Plus, Times, Gauss

\* A row of the pair matrix applied to a pair is an amplitude.
LEMMA RowType ==
    ASSUME NEW m \in Matrix, NEW r \in 1..2, NEW x \in Complex, NEW y \in Complex
    PROVE  Row2(m, r, x, y) \in Complex
  <1>1. m[r][1] \in Complex /\ m[r][2] \in Complex
    BY DEF Matrix
  <1>2. Times(m[r][1], x) \in Complex /\ Times(m[r][2], y) \in Complex
    BY <1>1, ComplexClosed
  <1>3. QED
    BY <1>2, ComplexClosed DEF Row2

\* What membership in a sound list says of its pairs, by position.
LEMMA ListFacts ==
    ASSUME NEW Index, NEW ps \in PairList(Index)
    PROVE  /\ \A k \in DOMAIN ps : /\ k # 0
                                   /\ ps[k].zero_one \in Index
                                   /\ ps[k].one_zero \in Index
                                   /\ ps[k].zero_one # ps[k].one_zero
           /\ \A j, k \in DOMAIN ps : j # k =>
                 Indices(ps[j]) \cap Indices(ps[k]) = {}
  BY DEF PairList, PairsOf

\* The fields of what a busy worker holds.
LEMMA HoldingFacts ==
    ASSUME NEW Index, SectionType(Index), NEW w \in Worker, Busy(w)
    PROVE  /\ held[w].pair \in DOMAIN pairs
           /\ held[w].left \in Complex /\ held[w].right \in Complex
  BY DEF SectionType, Holding, Busy

\* At first nobody has loaded a pair.
LEMMA SectionInit ==
    ASSUME NEW Index
    PROVE  PairInit(Index) => SectionInv(Index)
  <1> SUFFICES ASSUME PairInit(Index) PROVE SectionInv(Index)
    OBVIOUS
  <1>1. SectionType(Index)
    BY DEF PairInit, SectionType, Holding
  <1>2. \A w \in Worker : ~Busy(w)
    BY DEF PairInit, Busy
  <1>3. \A k \in DOMAIN pairs : ~Written(k)
    BY DEF PairInit, Written
  <1>4. vector = lent
    BY DEF PairInit
  <1>5. QED
    BY <1>1, <1>2, <1>3, <1>4
       DEF SectionInv, HeldApart, HeldFresh, UnwrittenLent, WrittenMapped, OthersKept

-----------------------------------------------------------------------------
\* A worker loads the pair it owns as it was.
LEMMA LoadKeeps ==
    ASSUME NEW Index, SectionInv(Index), NEW w \in Worker, Load(w)
    PROVE  SectionInv(Index)'
  <1> USE DEF SectionInv
  <1>1. PICK k \in pending :
            /\ pending' = pending \ {k}
            /\ held' = [held EXCEPT ![w] = [pair |-> k,
                                            left |-> vector[pairs[k].zero_one],
                                            right |-> vector[pairs[k].one_zero]]]
    BY DEF Load
  <1>2. /\ held[w] = Free
        /\ vector' = vector /\ lent' = lent /\ pairs' = pairs /\ matrix' = matrix
    BY DEF Load
  <1>3. k \in DOMAIN pairs /\ k # 0
    BY ListFacts DEF SectionType
  <1>4. /\ pairs[k].zero_one \in Index /\ pairs[k].one_zero \in Index
    BY <1>3, ListFacts DEF SectionType
  <1>5. held'[w] = [pair |-> k, left |-> vector[pairs[k].zero_one],
                    right |-> vector[pairs[k].one_zero]]
    BY <1>1 DEF SectionType
  <1>6. \A v \in Worker : v # w => held'[v] = held[v]
    BY <1>1 DEF SectionType
  <1>7. ~Busy(w)
    BY <1>2 DEF Busy
  <1>8. held'[w] # Free
    <2>1. held'[w].pair = k
      BY <1>5
    <2>2. Free.pair = 0
      BY DEF Free
    <2> QED
      BY <2>1, <2>2, <1>3
  <1>9. ~Written(k)
    BY DEF Written
  <1>10. SectionType(Index)'
    <2>1. held'[w] \in Holding'
      BY <1>2, <1>3, <1>4, <1>5 DEF Holding, SectionType
    <2>2. \A v \in Worker : v # w => held'[v] \in Holding'
      BY <1>2, <1>6 DEF Holding, SectionType
    <2>3. held' \in [Worker -> Holding']
      BY <2>1, <2>2, <1>1 DEF SectionType
    <2> QED
      BY <2>3, <1>1, <1>2 DEF SectionType
  <1>11. HeldApart'
    <2>1. \A v \in Worker : v # w /\ Busy(v) => held[v].pair # k
      BY DEF HeldApart
    <2> QED
      BY <2>1, <1>1, <1>5, <1>6, <1>8 DEF HeldApart, Busy
  <1>12. HeldFresh'
    <2>1. /\ vector[pairs[k].zero_one] = lent[pairs[k].zero_one]
          /\ vector[pairs[k].one_zero] = lent[pairs[k].one_zero]
      BY <1>3, <1>9 DEF UnwrittenLent
    <2> QED
      BY <2>1, <1>2, <1>5, <1>6 DEF HeldFresh, Busy
  <1>13. \A j \in DOMAIN pairs : Written(j)' <=> Written(j)
    <2> SUFFICES ASSUME NEW j \in DOMAIN pairs PROVE Written(j)' <=> Written(j)
      OBVIOUS
    <2>1. Holds(w, j)' <=> j = k
      BY <1>5, <1>8 DEF Holds, Busy
    <2>2. \A v \in Worker : v # w => (Holds(v, j)' <=> Holds(v, j))
      BY <1>6 DEF Holds, Busy
    <2>3. ~Holds(w, j)
      BY <1>7 DEF Holds
    <2>4. j \in pending' <=> j \in pending /\ j # k
      BY <1>1
    <2> QED
      BY <2>1, <2>2, <2>3, <2>4, <1>9 DEF Written
  <1>14. UnwrittenLent' /\ WrittenMapped' /\ OthersKept(Index)'
    BY <1>2, <1>13 DEF UnwrittenLent, WrittenMapped, OthersKept, NewLeft, NewRight
  <1>15. QED
    BY <1>10, <1>11, <1>12, <1>14

\* And stores the two new amplitudes, which nobody else touches.
LEMMA StoreKeeps ==
    ASSUME NEW Index, SectionInv(Index), NEW w \in Worker, Store(w)
    PROVE  SectionInv(Index)'
  <1> USE DEF SectionInv
  <1>0a. PICK k : k = held[w].pair
    OBVIOUS
  <1>0b. PICK p : p = pairs[k]
    OBVIOUS
  <1>1. Busy(w)
    BY DEF Store, Busy
  <1>2. /\ vector' = [vector EXCEPT
              ![p.zero_one] = Row2(matrix, 1, held[w].left, held[w].right),
              ![p.one_zero] = Row2(matrix, 2, held[w].left, held[w].right)]
        /\ held' = [held EXCEPT ![w] = Free]
        /\ lent' = lent /\ pairs' = pairs /\ matrix' = matrix /\ pending' = pending
    BY <1>0a, <1>0b DEF Store
  <1>3. k \in DOMAIN pairs /\ held[w].left \in Complex /\ held[w].right \in Complex
    BY <1>0a, <1>1, HoldingFacts
  <1>4. p.zero_one \in Index /\ p.one_zero \in Index /\ p.zero_one # p.one_zero
    BY <1>0b, <1>3, ListFacts DEF SectionType
  <1>5. held[w].left = lent[p.zero_one] /\ held[w].right = lent[p.one_zero]
    BY <1>0a, <1>0b, <1>1 DEF HeldFresh
  <1>6. vector'[p.zero_one] = NewLeft(k) /\ vector'[p.one_zero] = NewRight(k)
    BY <1>0b, <1>2, <1>4, <1>5 DEF SectionType, NewLeft, NewRight
  <1>7. \A i \in Index : i \notin Indices(p) => vector'[i] = vector[i]
    BY <1>2 DEF SectionType, Indices
  <1>8. held'[w] = Free /\ \A v \in Worker : v # w => held'[v] = held[v]
    BY <1>2 DEF SectionType
  <1>9. SectionType(Index)'
    <2>1. /\ Row2(matrix, 1, held[w].left, held[w].right) \in Complex
          /\ Row2(matrix, 2, held[w].left, held[w].right) \in Complex
      BY <1>3, RowType DEF SectionType
    <2>2. vector' \in [Index -> Complex]
      BY <2>1, <1>2 DEF SectionType
    <2>3. held' \in [Worker -> Holding']
      BY <1>2, <1>8 DEF SectionType, Holding
    <2> QED
      BY <2>2, <2>3, <1>2 DEF SectionType
  <1>10. HeldApart'
    BY <1>2, <1>8 DEF HeldApart, Busy
  <1>11. HeldFresh'
    BY <1>2, <1>8 DEF HeldFresh, Busy
  <1>12. Written(k)'
    <2>1. k \notin pending
      BY <1>0a, <1>1 DEF HeldApart
    <2>2. \A v \in Worker : ~Holds(v, k)'
      BY <1>0a, <1>1, <1>8 DEF HeldApart, Holds, Busy
    <2> QED
      BY <2>1, <2>2, <1>2 DEF Written
  <1>13. \A j \in DOMAIN pairs : j # k => (Written(j)' <=> Written(j))
    <2>1. \A v \in Worker, j \in DOMAIN pairs : j # k => (Holds(v, j)' <=> Holds(v, j))
      BY <1>0a, <1>8 DEF Holds, Busy
    <2> QED
      BY <2>1, <1>2 DEF Written
  <1>14. \A j \in DOMAIN pairs : j # k =>
            /\ vector'[pairs[j].zero_one] = vector[pairs[j].zero_one]
            /\ vector'[pairs[j].one_zero] = vector[pairs[j].one_zero]
    <2> SUFFICES ASSUME NEW j \in DOMAIN pairs, j # k
                 PROVE  /\ vector'[pairs[j].zero_one] = vector[pairs[j].zero_one]
                        /\ vector'[pairs[j].one_zero] = vector[pairs[j].one_zero]
      OBVIOUS
    <2>1. Indices(pairs[j]) \cap Indices(p) = {}
      BY <1>0b, <1>3, ListFacts DEF SectionType
    <2>2. pairs[j].zero_one \notin Indices(p) /\ pairs[j].one_zero \notin Indices(p)
      BY <2>1 DEF Indices
    <2>3. pairs[j].zero_one \in Index /\ pairs[j].one_zero \in Index
      BY ListFacts DEF SectionType
    <2> QED
      BY <2>2, <2>3, <1>7
  <1>15. \A j \in DOMAIN pairs : NewLeft(j)' = NewLeft(j) /\ NewRight(j)' = NewRight(j)
    BY <1>2 DEF NewLeft, NewRight
  <1>16. UnwrittenLent'
    BY <1>2, <1>12, <1>13, <1>14 DEF UnwrittenLent
  <1>17. WrittenMapped'
    BY <1>0b, <1>2, <1>6, <1>12, <1>13, <1>14, <1>15 DEF WrittenMapped
  <1>18. OthersKept(Index)'
    BY <1>0b, <1>2, <1>3, <1>7 DEF OthersKept
  <1>19. QED
    BY <1>9, <1>10, <1>11, <1>16, <1>17, <1>18

\* The invariant of the section is inductive.
LEMMA SectionInductive ==
    ASSUME NEW Index
    PROVE  SectionInv(Index) /\ [WorkerStep]_pairVars => SectionInv(Index)'
  <1> SUFFICES ASSUME SectionInv(Index), [WorkerStep]_pairVars PROVE SectionInv(Index)'
    OBVIOUS
  <1>1. CASE UNCHANGED pairVars
    BY <1>1 DEF pairVars, SectionInv, SectionType, HeldApart, HeldFresh, UnwrittenLent,
                WrittenMapped, OthersKept, Holding, Busy, Holds, Written, NewLeft, NewRight
  <1>2. CASE WorkerStep
    BY <1>2, LoadKeeps, StoreKeeps DEF WorkerStep
  <1>3. QED
    BY <1>1, <1>2

\* It holds in every reachable state.
LEMMA SectionInvariant ==
    ASSUME NEW Index
    PROVE  PairSpec(Index) => []SectionInv(Index)
  BY SectionInit, SectionInductive, PTL DEF PairSpec

-----------------------------------------------------------------------------
\* The raw pointers of apply_pair_matrix never alias, whatever the workers do.
THEOREM PairsNeverAlias ==
    ASSUME NEW Index
    PROVE  PairSpec(Index) => []NoSharedAmplitude
  <1>1. SectionInv(Index) => NoSharedAmplitude
    <2> SUFFICES ASSUME SectionInv(Index), NEW v \in Worker, NEW w \in Worker,
                        v # w, Busy(v), Busy(w)
                 PROVE  Indices(pairs[held[v].pair]) \cap Indices(pairs[held[w].pair]) = {}
      BY DEF NoSharedAmplitude, Busy
    <2>1. held[v].pair \in DOMAIN pairs /\ held[w].pair \in DOMAIN pairs
      BY HoldingFacts DEF SectionInv
    <2>2. held[v].pair # held[w].pair
      BY DEF SectionInv, HeldApart
    <2> QED
      BY <2>1, <2>2, ListFacts DEF SectionInv, SectionType
  <1>2. QED
    BY <1>1, SectionInvariant, PTL

\* When the pool has joined, the slice is the matrix applied to every pair
\* of the lent slice, each once, and untouched elsewhere.
THEOREM SectionIsSequential ==
    ASSUME NEW Index
    PROVE  PairSpec(Index) => []JoinedIsSequential
  <1>1. SectionInv(Index) => JoinedIsSequential
    <2> SUFFICES ASSUME SectionInv(Index), Joined, NEW i \in DOMAIN lent
                 PROVE  \/ \E k \in DOMAIN pairs :
                              /\ i \in Indices(pairs[k])
                              /\ vector[i] = PairImage(matrix, lent, pairs[k])[i]
                        \/ /\ \A k \in DOMAIN pairs : i \notin Indices(pairs[k])
                           /\ vector[i] = lent[i]
      BY DEF JoinedIsSequential
    <2>1. i \in Index
      BY DEF SectionInv, SectionType
    <2>2. CASE \A k \in DOMAIN pairs : i \notin Indices(pairs[k])
      BY <2>1, <2>2 DEF SectionInv, OthersKept
    <2>3. ASSUME NEW k \in DOMAIN pairs, i \in Indices(pairs[k])
          PROVE  vector[i] = PairImage(matrix, lent, pairs[k])[i]
      <3>1. Written(k)
        BY DEF Joined, Written, Holds, Busy
      <3>2. vector[pairs[k].zero_one] = NewLeft(k) /\ vector[pairs[k].one_zero] = NewRight(k)
        BY <3>1 DEF SectionInv, WrittenMapped
      <3>3. /\ pairs[k].zero_one \in Index /\ pairs[k].one_zero \in Index
            /\ pairs[k].zero_one # pairs[k].one_zero
        BY ListFacts DEF SectionInv, SectionType
      <3>4. lent \in [Index -> Complex]
        BY DEF SectionInv, SectionType
      <3>5. /\ PairImage(matrix, lent, pairs[k])[pairs[k].zero_one] = NewLeft(k)
            /\ PairImage(matrix, lent, pairs[k])[pairs[k].one_zero] = NewRight(k)
        BY <3>3, <3>4 DEF PairImage, NewLeft, NewRight
      <3> QED
        BY <2>3, <3>2, <3>5 DEF Indices
    <2> QED
      BY <2>2, <2>3
  <1>2. QED
    BY <1>1, SectionInvariant, PTL

-----------------------------------------------------------------------------
(* Unranking                                                               *)

\* The first k positions of a choice, and the qubits of the others.
Low(p, k) == [j \in 1 .. k |-> p[j]]
Passed(n, m, p, k) == {n - p[j] - 1 : j \in k + 1 .. m}
\* The positions below n - q are the first k.
Split(n, m, p, q, k) == k \in 0 .. m /\ \A j \in 1 .. m : p[j] < n - q <=> j <= k

\* A choice can be cut short.
LEMMA LowFacts ==
  ASSUME NEW n \in Nat, NEW m \in Nat, NEW p \in Places(n, m), NEW N \in Nat, NEW k \in 0 .. m,
         \A j \in 1 .. k : p[j] < N
  PROVE  Low(p, k) \in Places(N, k)
<1>1. \A j \in 1 .. m : p[j] \in Nat
  BY PlaceFacts
<1>2. \A i, j \in 1 .. m : i < j => p[i] < p[j]
  BY PlaceFacts
<1>3. \A j \in 1 .. k : j \in 1 .. m /\ Low(p, k)[j] = p[j]
  BY DEF Low
<1>4. Low(p, k) \in [1 .. k -> 0 .. N - 1]
  <2>1. \A j \in 1 .. k : p[j] \in 0 .. N - 1
    BY <1>1, <1>3
  <2> QED
    BY <2>1 DEF Low
<1> QED
  BY <1>2, <1>3, <1>4 DEF Places

\* The rank of a cut choice grows by the term of its last position.
LEMMA LowRank ==
  ASSUME NEW n \in Nat, NEW m \in Nat, NEW p \in Places(n, m), NEW k \in 1 .. m
  PROVE  /\ ColexRank(Low(p, k), k) = ColexRank(Low(p, k - 1), k - 1) + Count(p[k], k)
         /\ ColexRank(Low(p, k - 1), k - 1) \in Nat /\ Count(p[k], k) \in Nat
<1> DEFINE h == k - 1
           f == RankTerms(Low(p, k), k)
           g == RankTerms(Low(p, h), h)
<1>1. \A j \in 1 .. m : p[j] \in Nat /\ p[j] < n
  BY PlaceFacts
<1>2. h \in Nat /\ h + 1 = k /\ h \in 0 .. m /\ k \in 0 .. m /\ k \in Nat /\ k \in Int
  OBVIOUS
<1>3. Low(p, k) \in Places(n, k) /\ Low(p, h) \in Places(n, h)
  <2> HIDE DEF h
  <2>1. /\ \A j \in 1 .. k : p[j] < n
        /\ \A j \in 1 .. h : p[j] < n
    BY <1>1, <1>2
  <2> QED
    BY <1>2, <2>1, LowFacts
<1>4. IntOn(f, 1 .. h + 1) /\ IntOn(g, 1 .. h)
  <2> HIDE DEF h
  <2> QED
    BY <1>2, <1>3, TermsAreInt
<1>5. f[h + 1] = Count(p[k], k) /\ Agree(f, g, 1 .. h) /\ IntOn(f, 1 .. h)
  <2>1. \A j \in 1 .. k : f[j] = Count(p[j], j)
    BY DEF RankTerms, Low
  <2>2. \A j \in 1 .. h : g[j] = Count(p[j], j)
    BY DEF RankTerms, Low
  <2> HIDE DEF f, g, h
  <2>3. \A j \in 1 .. h : j \in 1 .. k
    BY <1>2
  <2>4. h + 1 \in 1 .. k
    BY <1>2
  <2> QED
    BY <1>2, <1>4, <2>1, <2>2, <2>3, <2>4 DEF Agree, IntOn
<1>6. SumFunctionOnSet(f, 1 .. h + 1) = SumFunctionOnSet(f, 1 .. h) + f[h + 1]
  <2> HIDE DEF f, h
  <2> QED
    BY <1>2, <1>4, SumUpTo
<1>7. SumFunctionOnSet(f, 1 .. h) = SumFunctionOnSet(g, 1 .. h)
  <2>1. IsFiniteSet(1 .. h)
    BY FS_Interval
  <2> HIDE DEF f, g, h
  <2> QED
    BY <1>5, <2>1, SumEqual
<1>8. ColexRank(Low(p, h), h) \in Nat
  <2>1. CASE h <= n
    <3>1. h \in 0 .. n
      BY <1>2, <2>1
    <3>2. ColexRank(Low(p, h), h) \in 0 .. Count(n, h) - 1
      <4> HIDE DEF h
      <4> QED
        BY <1>3, <3>1, PlacesRanked
    <3> QED
      BY <3>2
  <2>2. CASE ~(h <= n)
    <3>1. h \in 1 .. m /\ p[h] < n /\ h - 1 <= p[h] /\ p[h] \in Nat
      BY <1>2, <2>2, PlaceFacts
    <3> QED
      BY <1>2, <2>2, <3>1
  <2> QED
    BY <2>1, <2>2
<1>9. Count(p[k], k) \in Nat
  BY <1>1, <1>2, CountNat
<1> QED
  BY <1>2, <1>5, <1>6, <1>7, <1>8, <1>9 DEF ColexRank

\* One qubit of the walk: it is taken if it is the last of the positions left.
LEMMA SplitStep ==
  ASSUME NEW n \in Nat, NEW m \in Nat, NEW p \in Places(n, m), NEW q \in 0 .. n - 1, NEW k,
         Split(n, m, p, q, k)
  PROVE  IF k > 0 /\ p[k] = n - q - 1
         THEN Split(n, m, p, q + 1, k - 1) /\ Passed(n, m, p, k - 1) = Passed(n, m, p, k) \cup {q}
         ELSE Split(n, m, p, q + 1, k)
<1>1. /\ \A j \in 1 .. m : p[j] \in Nat
      /\ \A i, j \in 1 .. m : i < j => p[i] < p[j]
  BY PlaceFacts
<1>2. k \in 0 .. m /\ \A j \in 1 .. m : p[j] < n - q <=> j <= k
  BY DEF Split
<1>3. CASE k > 0 /\ p[k] = n - q - 1
  <2>1. k \in 1 .. m /\ k - 1 \in 0 .. m
    BY <1>2, <1>3
  <2>2. ASSUME NEW j \in 1 .. m PROVE p[j] < n - (q + 1) <=> j <= k - 1
    <3>1. CASE j < k
      <4>1. p[j] < p[k]
        BY <1>1, <2>1, <3>1
      <4> QED
        BY <1>1, <1>2, <1>3, <2>1, <3>1, <4>1
    <3>2. CASE ~(j < k)
      <4>1. p[k] <= p[j]
        BY <1>1, <1>2, <2>1, <3>2
      <4> QED
        BY <1>1, <1>2, <1>3, <2>1, <3>2, <4>1
    <3> QED
      BY <3>1, <3>2
  <2>3. (k - 1) + 1 .. m = (k + 1 .. m) \cup {k}
    BY <2>1
  <2>4. n - p[k] - 1 = q
    BY <1>3
  <2>5. Passed(n, m, p, k - 1) = Passed(n, m, p, k) \cup {q}
    BY <2>3, <2>4 DEF Passed
  <2> QED
    BY <1>3, <2>1, <2>2, <2>5 DEF Split
<1>4. CASE ~(k > 0 /\ p[k] = n - q - 1)
  <2>1. ASSUME NEW j \in 1 .. m PROVE p[j] < n - (q + 1) <=> j <= k
    <3>1. ASSUME p[j] = n - q - 1 PROVE FALSE
      <4>1. j <= k /\ k \in 1 .. m
        BY <1>2, <3>1
      <4>2. p[k] < n - q /\ p[k] \in Nat
        BY <1>1, <1>2, <4>1
      <4>3. j # k
        BY <1>4, <3>1, <4>1
      <4>4. p[j] < p[k]
        BY <1>1, <4>1, <4>3
      <4> QED
        BY <3>1, <4>2, <4>4
    <3> QED
      BY <1>1, <1>2, <3>1
  <2> QED
    BY <1>2, <1>4, <2>1 DEF Split
<1> QED
  BY <1>3, <1>4


\* What the walk has after k positions are left.
WalkedTo(n, m, p, k) ==
  [index |-> ColexRank(Low(p, k), k), remaining |-> k, active |-> Passed(n, m, p, k)]
\* One step of the walk.
UnrankStep(s, acc, q) ==
  LET zero_count == ChooseValue(s, s.nqubits - q - 1, acc.remaining) IN
  IF acc.index >= zero_count
  THEN [index |-> acc.index - zero_count,
        remaining |-> acc.remaining - 1, active |-> acc.active \cup {q}]
  ELSE acc

\* The walk takes the qubits of the choice, and only those.
LEMMA UnrankSteps ==
  ASSUME NEW s, IsSector(s), NEW p \in Places(s.nqubits, s.active_number),
         NEW q \in 0 .. s.nqubits - 1, NEW k, Split(s.nqubits, s.active_number, p, q, k)
  PROVE  LET n == s.nqubits
             m == s.active_number
             j == IF k > 0 /\ p[k] = n - q - 1 THEN k - 1 ELSE k
         IN  /\ Split(n, m, p, q + 1, j)
             /\ UnrankStep(s, WalkedTo(n, m, p, k), q) = WalkedTo(n, m, p, j)
<1> DEFINE n == s.nqubits
           m == s.active_number
           here == WalkedTo(n, m, p, k)
           zero == ChooseValue(s, n - q - 1, k)
<1>1. n \in Nat /\ m \in Nat /\ k \in 0 .. m /\ k \in Nat /\ n - q - 1 \in 0 .. n /\ n - q - 1 \in Nat
  BY SectorFacts DEF Split
<1>2. zero = Count(n - q - 1, k)
  BY <1>1, ValueIs
<1>3. here.index = ColexRank(Low(p, k), k) /\ here.remaining = k /\ here.active = Passed(n, m, p, k)
  BY DEF WalkedTo
<1>4. UnrankStep(s, here, q)
        = IF here.index >= zero
          THEN [index |-> here.index - zero, remaining |-> k - 1, active |-> here.active \cup {q}]
          ELSE here
  BY <1>3 DEF UnrankStep
<1>5. CASE k > 0 /\ p[k] = n - q - 1
  <2> DEFINE low == ColexRank(Low(p, k - 1), k - 1)
             d == Count(n - q - 1, k)
  <2>1. k \in 1 .. m
    BY <1>1, <1>5
  <2>2. here.index = low + d /\ low \in Nat /\ d \in Nat
    BY <1>1, <1>3, <1>5, <2>1, LowRank
  <2>3. Split(n, m, p, q + 1, k - 1) /\ Passed(n, m, p, k - 1) = Passed(n, m, p, k) \cup {q}
    BY <1>1, <1>5, SplitStep
  <2> HIDE DEF low, d, here, zero
  <2>4. here.index >= d /\ here.index - d = low
    BY <2>2
  <2>5. zero = d
    BY <1>2 DEF d
  <2>6. UnrankStep(s, here, q) = [index |-> low, remaining |-> k - 1, active |-> Passed(n, m, p, k - 1)]
    BY <1>3, <1>4, <2>3, <2>4, <2>5
  <2> QED
    BY <1>5, <2>3, <2>6 DEF WalkedTo, low, here
<1>6. CASE ~(k > 0 /\ p[k] = n - q - 1)
  <2>1. Split(n, m, p, q + 1, k)
    BY <1>1, <1>6, SplitStep
  <2>2. \A j \in 1 .. k : p[j] < n - q - 1
    <3> SUFFICES ASSUME NEW j \in 1 .. k PROVE p[j] < n - q - 1
      OBVIOUS
    <3>1. j \in 1 .. m /\ j <= k /\ p[j] \in Nat
      BY <1>1, PlaceFacts
    <3>2. p[j] < n - (q + 1)
      BY <2>1, <3>1 DEF Split
    <3> QED
      BY <1>1, <3>1, <3>2
  <2>3. k \in 0 .. n - q - 1
    <3>1. CASE k = 0
      BY <1>1, <3>1
    <3>2. CASE k # 0
      <4>1. k \in 1 .. m /\ k \in 1 .. k
        BY <1>1, <3>2
      <4>2. p[k] < n - q - 1 /\ k - 1 <= p[k] /\ p[k] \in Nat
        BY <1>1, <2>2, <4>1, PlaceFacts
      <4> QED
        BY <1>1, <4>1, <4>2
    <3> QED
      BY <3>1, <3>2
  <2>4. Low(p, k) \in Places(n - q - 1, k)
    BY <1>1, <2>2, LowFacts
  <2>5. here.index \in 0 .. Count(n - q - 1, k) - 1
    <3> DEFINE N == n - q - 1
               cut == Low(p, k)
    <3>1. N \in Nat /\ k \in 0 .. N /\ cut \in Places(N, k)
      BY <1>1, <2>3, <2>4
    <3> HIDE DEF N, cut
    <3>2. ColexRank(cut, k) \in 0 .. Count(N, k) - 1
      BY <3>1, PlacesRanked
    <3>3. ColexRank(Low(p, k), k) \in 0 .. Count(n - q - 1, k) - 1
      BY <3>2 DEF N, cut
    <3> HIDE DEF here, n
    <3> QED
      BY <1>3, <3>3
  <2>6. Count(n - q - 1, k) \in Nat
    <3> DEFINE N == n - q - 1
    <3>1. N \in Nat /\ k \in Int
      BY <1>1
    <3> HIDE DEF N
    <3>2. Count(N, k) \in Nat
      BY <3>1, CountNat
    <3> QED
      BY <3>2 DEF N
  <2>7. ~(here.index >= zero)
    <3> DEFINE d == Count(n - q - 1, k)
               i == here.index
    <3>1. i \in 0 .. d - 1 /\ d \in Nat /\ zero = d
      BY <1>2, <2>5, <2>6
    <3> HIDE DEF d, i, zero
    <3>2. ~(i >= zero)
      BY <3>1
    <3> QED
      BY <3>2 DEF i
  <2>8. UnrankStep(s, here, q) = here
    BY <1>4, <2>7
  <2> QED
    BY <1>6, <2>1, <2>8
<1> QED
  BY <1>5, <1>6

\* unrank_into: the word of a column.
LEMMA UnrankIs ==
  ASSUME NEW s, IsSector(s), NEW i \in 0 .. s.dimension - 1
  PROVE  Unrank(s, i) = SectorWord(s, i)
<1> DEFINE n == s.nqubits
           m == s.active_number
           p == Standing(s, i)
           start == [index |-> IF s.complement THEN s.dimension - 1 - i ELSE i,
                     remaining |-> m, active |-> {}]
           Body(g) == [q \in 0 .. n |-> IF q = 0 THEN start ELSE UnrankStep(s, g[q - 1], q - 1)]
           walk == CHOOSE g : g = Body(g)
           K(q) == CHOOSE k : Split(n, m, p, q, k)
           ideal == [q \in 0 .. n |-> WalkedTo(n, m, p, K(q))]
           end == walk[n]
<1>1. n \in Nat /\ m \in Nat /\ p \in Places(n, m) /\ s.dimension \in Nat
  BY SectorFacts, SectorNumbered
<1>2. \A j \in 1 .. m : p[j] \in Nat /\ p[j] < n
  BY <1>1, PlaceFacts
<1>3. \A q, k, j : Split(n, m, p, q, k) /\ Split(n, m, p, q, j) => j = k
  <2> SUFFICES ASSUME NEW q, NEW k, NEW j, Split(n, m, p, q, k), Split(n, m, p, q, j), j # k PROVE FALSE
    OBVIOUS
  <2>1. /\ k \in 0 .. m /\ j \in 0 .. m
        /\ \A l \in 1 .. m : l <= j <=> l <= k
    BY DEF Split
  <2>2. CASE j < k
    <3>1. k \in 1 .. m /\ ~(k <= j)
      BY <1>1, <2>1, <2>2
    <3> QED
      BY <2>1, <3>1
  <2>3. CASE k < j
    <3>1. j \in 1 .. m /\ ~(j <= k)
      BY <1>1, <2>1, <2>3
    <3> QED
      BY <2>1, <3>1
  <2> QED
    BY <1>1, <2>1, <2>2, <2>3
<1>4. Split(n, m, p, 0, m)
  BY <1>1, <1>2 DEF Split
<1>5. \A q, k : Split(n, m, p, q, k) => K(q) = k
  <2> SUFFICES ASSUME NEW q, NEW k, Split(n, m, p, q, k) PROVE K(q) = k
    OBVIOUS
  <2>1. Split(n, m, p, q, K(q))
    OBVIOUS
  <2> HIDE DEF n, m, p, K
  <2> QED
    BY <1>3, <2>1
<1>6. WalkedTo(n, m, p, m) = start
  <2>1. Low(p, m) = p
    <3>1. p \in [1 .. m -> 0 .. n - 1]
      BY <1>1 DEF Places
    <3> HIDE DEF p, m, n
    <3> QED
      BY <3>1 DEF Low
  <2>2. Passed(n, m, p, m) = {}
    BY <1>1 DEF Passed
  <2>3. ColexRank(p, m) = IF s.complement THEN s.dimension - 1 - i ELSE i
    BY SectorNumbered
  <2> QED
    BY <2>1, <2>2, <2>3 DEF WalkedTo
<1>7. ASSUME NEW q \in 0 .. n - 1, NEW k, Split(n, m, p, q, k)
      PROVE  Split(n, m, p, q + 1, K(q + 1)) /\ ideal[q + 1] = UnrankStep(s, ideal[q], q)
  <2> DEFINE j == IF k > 0 /\ p[k] = n - q - 1 THEN k - 1 ELSE k
  <2>1. Split(n, m, p, q + 1, j) /\ UnrankStep(s, WalkedTo(n, m, p, k), q) = WalkedTo(n, m, p, j)
    BY <1>1, <1>7, UnrankSteps
  <2>2. K(q) = k /\ K(q + 1) = j
    BY <1>5, <1>7, <2>1
  <2>3. q \in 0 .. n /\ q + 1 \in 0 .. n
    BY <1>1
  <2> HIDE DEF j, n, m, p, K
  <2> QED
    BY <2>1, <2>2, <2>3
<1>8. \A q \in 0 .. n : Split(n, m, p, q, K(q))
  <2> DEFINE T == {q \in 0 .. n : Split(n, m, p, q, K(q))}
  <2>1. 0 \in T
    BY <1>1, <1>4, <1>5
  <2>2. ASSUME NEW q \in 1 .. n, q - 1 \in T PROVE q \in T
    <3>1. q - 1 \in 0 .. n - 1 /\ (q - 1) + 1 = q /\ q \in 0 .. n /\ Split(n, m, p, q - 1, K(q - 1))
      BY <1>1, <2>2
    <3> HIDE DEF n, m, p, K, ideal
    <3>2. Split(n, m, p, (q - 1) + 1, K((q - 1) + 1))
      BY <1>7, <3>1
    <3> QED
      BY <3>1, <3>2
  <2> HIDE DEF T
  <2>3. \A q \in 0 .. n : q \in T
    BY <1>1, <2>1, <2>2, UpTo
  <2> QED
    BY <2>3 DEF T
<1>9. ideal[0] = start
  <2>1. K(0) = m /\ 0 \in 0 .. n
    BY <1>1, <1>4, <1>5
  <2> HIDE DEF K, n, m, p, start
  <2> QED
    BY <1>6, <2>1
<1>10. \A q \in 1 .. n : ideal[q] = UnrankStep(s, ideal[q - 1], q - 1)
  <2> SUFFICES ASSUME NEW q \in 1 .. n PROVE ideal[q] = UnrankStep(s, ideal[q - 1], q - 1)
    OBVIOUS
  <2>1. q - 1 \in 0 .. n - 1 /\ (q - 1) + 1 = q /\ q - 1 \in 0 .. n
    BY <1>1
  <2>2. Split(n, m, p, q - 1, K(q - 1))
    BY <1>8, <2>1
  <2> HIDE DEF ideal, n, m, p, K
  <2>3. ideal[(q - 1) + 1] = UnrankStep(s, ideal[q - 1], q - 1)
    BY <1>7, <2>1, <2>2
  <2> QED
    BY <2>1, <2>3
<1>11. walk = Body(walk)
  <2>1. \A q \in 0 .. n : ideal[q] = IF q = 0 THEN start ELSE UnrankStep(s, ideal[q - 1], q - 1)
    <3> SUFFICES ASSUME NEW q \in 0 .. n
                 PROVE  ideal[q] = IF q = 0 THEN start ELSE UnrankStep(s, ideal[q - 1], q - 1)
      OBVIOUS
    <3>1. q # 0 => q \in 1 .. n
      BY <1>1
    <3> HIDE DEF ideal, n, start
    <3> QED
      BY <1>9, <1>10, <3>1
  <2>2. DOMAIN ideal = 0 .. n /\ ideal = [q \in 0 .. n |-> ideal[q]]
    OBVIOUS
  <2> HIDE DEF n, start, ideal
  <2>3. ideal = Body(ideal)
    BY <2>1, <2>2
  <2> HIDE DEF Body
  <2> QED
    BY <2>3
<1>12. \A q \in 0 .. n : walk[q] = ideal[q]
  <2> DEFINE T == {q \in 0 .. n : walk[q] = ideal[q]}
  <2>1. \A q \in 0 .. n : walk[q] = IF q = 0 THEN start ELSE UnrankStep(s, walk[q - 1], q - 1)
    <3> HIDE DEF walk, n, start
    <3>1. walk = [q \in 0 .. n |-> IF q = 0 THEN start ELSE UnrankStep(s, walk[q - 1], q - 1)]
      BY <1>11
    <3> QED
      BY <3>1
  <2> HIDE DEF walk, ideal, n, start
  <2>2. 0 \in T
    BY <1>1, <1>9, <2>1
  <2>3. ASSUME NEW q \in 1 .. n, q - 1 \in T PROVE q \in T
    <3>1. q \in 0 .. n /\ q # 0 /\ walk[q - 1] = ideal[q - 1]
      BY <1>1, <2>3
    <3> QED
      BY <1>10, <2>1, <3>1
  <2> HIDE DEF T
  <2>4. \A q \in 0 .. n : q \in T
    BY <1>1, <2>2, <2>3, UpTo
  <2> QED
    BY <2>4 DEF T
<1>13. K(n) = 0
  <2>1. Split(n, m, p, n, K(n))
    BY <1>1, <1>8
  <2> DEFINE k == K(n)
  <2>2. k \in 0 .. m /\ \A j \in 1 .. m : p[j] < n - n <=> j <= k
    BY <2>1 DEF Split
  <2> HIDE DEF k, p, n, m
  <2>3. k = 0
    <3> SUFFICES ASSUME k # 0 PROVE FALSE
      OBVIOUS
    <3>1. k \in 1 .. m
      BY <1>1, <2>2
    <3>2. p[k] < 0
      BY <1>1, <2>2, <3>1
    <3> QED
      BY <1>2, <3>1, <3>2
  <2> QED
    BY <2>3 DEF k
<1>14. end = [index |-> 0, remaining |-> 0, active |-> Occupied(n, p)]
  <2>1. end = WalkedTo(n, m, p, 0)
    <3>1. end = ideal[n] /\ n \in 0 .. n
      <4>1. n \in 0 .. n
        BY <1>1
      <4> HIDE DEF walk, ideal, n
      <4> QED
        BY <1>12, <4>1
    <3> HIDE DEF K, end, n, m, p
    <3> QED
      BY <1>13, <3>1
  <2>2. ColexRank(Low(p, 0), 0) = 0
    <3>1. 1 .. 0 = {}
      OBVIOUS
    <3> QED
      BY <3>1, SumEmpty DEF ColexRank
  <2>3. Passed(n, m, p, 0) = Occupied(n, p)
    <3>1. DOMAIN p = 1 .. m
      BY <1>1, PlacesAreSeq
    <3> QED
      BY <3>1 DEF Passed, Occupied
  <2> QED
    BY <2>1, <2>2, <2>3 DEF WalkedTo
<1>15. ~(i >= s.dimension)
  BY <1>1
<1>16. Unrank(s, i) = Active(s, end.active)
  <2>1. Unrank(s, i) = IF i >= s.dimension \/ end.remaining # 0 \/ end.index # 0
                       THEN Failed("InvalidIndex") ELSE Active(s, end.active)
    BY DEF Unrank, UnrankStep
  <2>2. end.remaining = 0 /\ end.index = 0
    BY <1>14
  <2> HIDE DEF end
  <2> QED
    BY <1>15, <2>1, <2>2
<1>17. ActiveQubits(s, p) = Occupied(n, p)
  BY DEF ActiveQubits, Occupied
<1>18. end.active = Occupied(n, p)
  BY <1>14
<1> HIDE DEF end
<1> QED
  BY <1>16, <1>17, <1>18 DEF SectorWord, PackedWord


-----------------------------------------------------------------------------
(* Pair maps                                                               *)

\* The elements of a finite set in the order of their keys.
Lower(A, key, x) == {y \in A : key[y] < key[x]}

\* Every place in the order is taken by exactly one of them.
LEMMA PlacesInOrder ==
  ASSUME NEW A, IsFiniteSet(A), NEW key, IntOn(key, A), \A x, y \in A : key[x] = key[y] => x = y
  PROVE  /\ \A k \in 0 .. Cardinality(A) - 1 : \E x \in A : Cardinality(Lower(A, key, x)) = k
         /\ \A x, y \in A : Cardinality(Lower(A, key, x)) = Cardinality(Lower(A, key, y)) => x = y
         /\ \A x, y \in A : key[x] < key[y] => Cardinality(Lower(A, key, x)) < Cardinality(Lower(A, key, y))
<1> DEFINE N == Cardinality(A)
           f == [x \in A |-> Cardinality(Lower(A, key, x))]
<1>1. N \in Nat
  BY FS_CardinalityType
<1>2. \A x \in A : /\ IsFiniteSet(Lower(A, key, x)) /\ f[x] \in Nat
                   /\ f[x] = Cardinality(Lower(A, key, x)) /\ key[x] \in Int
  <2> SUFFICES ASSUME NEW x \in A
               PROVE  /\ IsFiniteSet(Lower(A, key, x)) /\ Cardinality(Lower(A, key, x)) \in Nat
                      /\ key[x] \in Int
    OBVIOUS
  <2>1. Lower(A, key, x) \in SUBSET A
    BY DEF Lower
  <2>2. IsFiniteSet(Lower(A, key, x))
    BY <2>1, FS_Subset
  <2> QED
    BY <2>2, FS_CardinalityType DEF IntOn
<1>3. ASSUME NEW x \in A, NEW y \in A, key[x] < key[y] PROVE f[x] < f[y]
  <2> DEFINE X == Lower(A, key, x)
             Y == Lower(A, key, y)
  <2>1. X \in SUBSET Y /\ x \in Y /\ x \notin X
    <3>1. \A z \in A : key[z] \in Int
      BY DEF IntOn
    <3>2. \A z \in A : key[z] < key[x] => key[z] < key[y]
      BY <1>3, <3>1
    <3>3. ~(key[x] < key[x])
      BY <3>1
    <3> QED
      BY <1>3, <3>2, <3>3 DEF Lower
  <2>2. IsFiniteSet(X) /\ IsFiniteSet(Y)
    BY <1>2
  <2> HIDE DEF X, Y
  <2>3. Cardinality(X) < Cardinality(Y)
    <3>1. Cardinality(X) <= Cardinality(Y) /\ (Cardinality(X) = Cardinality(Y) => X = Y)
      BY <2>1, <2>2, FS_Subset
    <3>2. X # Y
      BY <2>1
    <3>3. Cardinality(X) \in Nat /\ Cardinality(Y) \in Nat
      BY <2>2, FS_CardinalityType
    <3> QED
      BY <3>1, <3>2, <3>3
  <2> QED
    BY <1>2, <2>3 DEF X, Y
<1>4. \A x \in A : f[x] \in 0 .. N - 1
  <2> SUFFICES ASSUME NEW x \in A PROVE f[x] \in 0 .. N - 1
    OBVIOUS
  <2> DEFINE X == Lower(A, key, x)
  <2>1. X \in SUBSET A /\ x \notin X
    <3>1. key[x] \in Int
      BY DEF IntOn
    <3>2. ~(key[x] < key[x])
      BY <3>1
    <3> QED
      BY <3>2 DEF Lower
  <2>2. Cardinality(X) <= N /\ (Cardinality(X) = N => X = A)
    BY <2>1, FS_Subset
  <2>3. f[x] = Cardinality(X) /\ f[x] \in Nat /\ X # A
    BY <1>2, <2>1
  <2> HIDE DEF f, X, N
  <2> QED
    BY <1>1, <2>2, <2>3
<1>5. \A x, y \in A : f[x] = f[y] => x = y
  <2> SUFFICES ASSUME NEW x \in A, NEW y \in A, f[x] = f[y], x # y PROVE FALSE
    OBVIOUS
  <2>1. key[x] \in Int /\ key[y] \in Int /\ key[x] # key[y] /\ f[x] \in Nat /\ f[y] \in Nat
    BY <1>2
  <2> HIDE DEF f
  <2>2. key[x] < key[y] \/ key[y] < key[x]
    BY <2>1
  <2>3. f[x] < f[y] \/ f[y] < f[x]
    BY <1>3, <2>2
  <2> QED
    BY <2>1, <2>3
<1>6. Onto(f, A, 0 .. N - 1)
  <2> DEFINE I == 0 .. N - 1
  <2>1. OneToOne(f, A, I)
    <3> HIDE DEF f
    <3> QED
      BY <1>4, <1>5 DEF OneToOne
  <2>2. IsFiniteSet(I) /\ Cardinality(I) = N
    <3>1. IsFiniteSet(0 .. N - 1) /\ Cardinality(0 .. N - 1) = IF 0 > N - 1 THEN 0 ELSE (N - 1) - 0 + 1
      <4>1. N - 1 \in Int /\ 0 \in Int
        BY <1>1
      <4> QED
        BY <4>1, FS_Interval
    <3> HIDE DEF N
    <3> QED
      BY <1>1, <3>1
  <2> HIDE DEF I, f
  <2>3. Onto(f, A, I)
    BY <2>1, <2>2, FewerCount
  <2> QED
    BY <2>3 DEF I
<1> HIDE DEF f
<1>7. /\ \A k \in 0 .. N - 1 : \E x \in A : Cardinality(Lower(A, key, x)) = k
      /\ \A x, y \in A : Cardinality(Lower(A, key, x)) = Cardinality(Lower(A, key, y)) => x = y
  BY <1>2, <1>5, <1>6 DEF Onto
<1>8. \A x, y \in A : key[x] < key[y] => Cardinality(Lower(A, key, x)) < Cardinality(Lower(A, key, y))
  BY <1>2, <1>3
<1> QED
  BY <1>7, <1>8

\* A list of a set in the order of the keys.
Listed(f, A, key) ==
  /\ f \in [1 .. Cardinality(A) -> A]
  /\ \A k \in DOMAIN f : \A j \in 1 .. k - 1 : f[j] # f[k] /\ key[f[j]] <= key[f[k]]

\* Keys that differ can be listed in order.
LEMMA ListsExist ==
  ASSUME NEW A, IsFiniteSet(A), NEW key, IntOn(key, A), \A x, y \in A : key[x] = key[y] => x = y
  PROVE  \E f : Listed(f, A, key)
<1> DEFINE N == Cardinality(A)
           rank(x) == Cardinality(Lower(A, key, x))
           f == [k \in 1 .. N |-> CHOOSE x \in A : rank(x) = k - 1]
<1>1. N \in Nat /\ \A x \in A : key[x] \in Int
  BY FS_CardinalityType DEF IntOn
<1>2. /\ \A k \in 0 .. N - 1 : \E x \in A : rank(x) = k
      /\ \A x, y \in A : key[x] < key[y] => rank(x) < rank(y)
  BY PlacesInOrder
<1> HIDE DEF rank, N
<1>3. \A k \in 1 .. N : f[k] \in A /\ rank(f[k]) = k - 1
  <2> SUFFICES ASSUME NEW k \in 1 .. N PROVE f[k] \in A /\ rank(f[k]) = k - 1
    OBVIOUS
  <2>1. k - 1 \in 0 .. N - 1
    BY <1>1
  <2>2. f[k] = CHOOSE x \in A : rank(x) = k - 1
    OBVIOUS
  <2> QED
    BY <1>2, <2>1, <2>2
<1>4. f \in [1 .. N -> A] /\ DOMAIN f = 1 .. N
  BY <1>3
<1> HIDE DEF f
<1>5. ASSUME NEW k \in 1 .. N, NEW j \in 1 .. k - 1 PROVE f[j] # f[k] /\ key[f[j]] <= key[f[k]]
  <2>1. j \in 1 .. N /\ j - 1 < k - 1 /\ j \in Int /\ k \in Int
    BY <1>1
  <2>2. f[j] \in A /\ f[k] \in A /\ rank(f[j]) = j - 1 /\ rank(f[k]) = k - 1
    BY <1>3, <2>1
  <2>3. ~(rank(f[k]) < rank(f[j])) /\ rank(f[j]) # rank(f[k])
    BY <2>1, <2>2
  <2>4. ~(key[f[k]] < key[f[j]])
    BY <1>2, <2>2, <2>3
  <2>5. f[j] # f[k]
    BY <2>3
  <2> QED
    BY <1>1, <2>2, <2>4, <2>5
<1>6. Listed(f, A, key)
  BY <1>4, <1>5 DEF Listed, N
<1> QED
  BY <1>6

\* A list of all of them has every one, each once.
LEMMA ListIsWhole ==
  ASSUME NEW A, IsFiniteSet(A), NEW key, NEW f, Listed(f, A, key)
  PROVE  /\ Cardinality(A) \in Nat /\ DOMAIN f = 1 .. Cardinality(A)
         /\ \A k \in DOMAIN f : f[k] \in A
         /\ \A j, k \in DOMAIN f : j # k => f[j] # f[k]
         /\ \A x \in A : \E k \in DOMAIN f : f[k] = x
<1> DEFINE N == Cardinality(A)
           D == 1 .. N
<1>1. N \in Nat
  BY FS_CardinalityType
<1>2. DOMAIN f = D /\ \A k \in D : f[k] \in A
  BY DEF Listed
<1>3. ASSUME NEW j \in D, NEW k \in D, j # k PROVE f[j] # f[k]
  <2>1. j \in 1 .. k - 1 \/ k \in 1 .. j - 1
    BY <1>1, <1>3
  <2> QED
    BY <1>2, <2>1 DEF Listed
<1>4. IsFiniteSet(D) /\ Cardinality(D) = N
  <2>1. IsFiniteSet(1 .. N) /\ Cardinality(1 .. N) = IF 1 > N THEN 0 ELSE N - 1 + 1
    <3>1. N \in Int /\ 1 \in Int
      BY <1>1
    <3> QED
      BY <3>1, FS_Interval
  <2> HIDE DEF N
  <2> QED
    BY <1>1, <2>1
<1>5. Onto(f, D, A)
  <2>1. OneToOne(f, D, A)
    <3> HIDE DEF D
    <3> QED
      BY <1>2, <1>3 DEF OneToOne
  <2>2. Cardinality(D) = Cardinality(A)
    BY <1>4
  <2> HIDE DEF D
  <2> QED
    BY <2>1, <2>2, FewerCount
<1> HIDE DEF D
<1>6. \A x \in A : \E k \in DOMAIN f : f[k] = x
  BY <1>2, <1>5 DEF Onto
<1>7. \A j, k \in DOMAIN f : j # k => f[j] # f[k]
  BY <1>2, <1>3
<1> QED
  BY <1>1, <1>2, <1>6, <1>7 DEF D

\* What the other wires may hold when one of the two is occupied, and the
\* pair of columns that belongs to it.
OtherWords(s, wire0, wire1) ==
  Chosen(RemainingWires(s.nqubits, wire0, wire1), s.particle_number - 1)
PairOf(s, wire0, wire1, c) ==
  [zero_one |-> RankWords(s, c \cup {wire1}), one_zero |-> RankWords(s, c \cup {wire0})]
TwoWires(n, wire0, wire1) == wire0 \in Qubits(n) /\ wire1 \in Qubits(n) /\ wire0 # wire1

\* The two words of a pair are words of the sector.
LEMMA PairWords ==
  ASSUME NEW s, IsSector(s), NEW wire0, NEW wire1, TwoWires(s.nqubits, wire0, wire1),
         NEW c \in OtherWords(s, wire0, wire1)
  PROVE  /\ wire0 \notin c /\ wire1 \notin c
         /\ c \cup {wire0} \in SectorWords(s) /\ c \cup {wire1} \in SectorWords(s)
<1> DEFINE n == s.nqubits
           p == s.particle_number
<1>1. n \in Nat /\ p \in 0 .. n /\ p \in Int
  BY SectorFacts
<1>2. IsFiniteSet(Qubits(n)) /\ Cardinality(Qubits(n)) = n
  BY <1>1, QubitsCount
<1>3. c \in SUBSET Qubits(n) /\ wire0 \notin c /\ wire1 \notin c /\ Cardinality(c) = p - 1
  BY DEF OtherWords, Chosen, RemainingWires
<1>4. IsFiniteSet(c)
  BY <1>2, <1>3, FS_Subset
<1>5. ASSUME NEW w \in {wire0, wire1} PROVE c \cup {w} \in SectorWords(s)
  <2>1. w \notin c /\ w \in Qubits(n)
    BY <1>3 DEF TwoWires
  <2>2. Cardinality(c \cup {w}) = Cardinality(c) + 1
    BY <1>4, <2>1, FS_AddElement
  <2>3. Cardinality(c \cup {w}) = p
    <3> HIDE DEF p
    <3> QED
      BY <1>1, <1>3, <2>2
  <2> QED
    BY <1>3, <2>1, <2>3 DEF SectorWords, Chosen
<1> QED
  BY <1>3, <1>5

\* Pairs of two different assignments share no column.
LEMMA PairsDiffer ==
  ASSUME NEW s, IsSector(s), NEW wire0, NEW wire1, TwoWires(s.nqubits, wire0, wire1),
         NEW c \in OtherWords(s, wire0, wire1), NEW d \in OtherWords(s, wire0, wire1)
  PROVE  LET p == PairOf(s, wire0, wire1, c)
             q == PairOf(s, wire0, wire1, d)
         IN  /\ p.zero_one \in 0 .. s.dimension - 1 /\ p.one_zero \in 0 .. s.dimension - 1
             /\ p.zero_one # q.one_zero
             /\ (p.zero_one = q.zero_one \/ p.one_zero = q.one_zero) => c = d
<1> DEFINE R(w) == RankWords(s, w)
           cl == c \cup {wire1}
           cr == c \cup {wire0}
           dl == d \cup {wire1}
           dr == d \cup {wire0}
           W == SectorWords(s)
<1>1. wire0 \notin c /\ wire1 \notin c /\ wire0 \notin d /\ wire1 \notin d /\ wire0 # wire1
  BY PairWords DEF TwoWires
<1>2. cl \in W /\ cr \in W /\ dl \in W /\ dr \in W
  BY PairWords
<1>3. \A w \in W : R(w) \in 0 .. s.dimension - 1 /\ SectorWord(s, R(w)) = w
  BY SectorComplete
<1>4. \A v, w \in W : R(v) = R(w) => v = w
  <2> HIDE DEF R, W
  <2> QED
    BY <1>3
<1>5. cl # dr /\ (cl = dl => c = d) /\ (cr = dr => c = d)
  BY <1>1
<1> HIDE DEF R, W, cl, cr, dl, dr
<1>6. R(cl) # R(dr) /\ (R(cl) = R(dl) => c = d) /\ (R(cr) = R(dr) => c = d)
  BY <1>2, <1>4, <1>5
<1>7. R(cl) \in 0 .. s.dimension - 1 /\ R(cr) \in 0 .. s.dimension - 1
  BY <1>2, <1>3
<1> QED
  BY <1>6, <1>7 DEF PairOf, R, cl, cr, dl, dr

\* Counted by their particles or by their holes, they are the same.
LEMMA OthersAre ==
  ASSUME NEW Q, IsFiniteSet(Q), NEW k \in Nat, Cardinality(Q) - k >= 0
  PROVE  {Q \ c : c \in Chosen(Q, Cardinality(Q) - k)} = Chosen(Q, k)
<1>1. Cardinality(Q) \in Nat
  BY FS_CardinalityType
<1>2. \A c \in SUBSET Q : /\ Cardinality(c) \in Nat /\ Cardinality(Q \ c) \in Nat
                          /\ Cardinality(Q) = Cardinality(c) + Cardinality(Q \ c)
                          /\ Q \ (Q \ c) = c
  BY CountLeft
<1>3. ASSUME NEW c \in Chosen(Q, Cardinality(Q) - k) PROVE Q \ c \in Chosen(Q, k)
  <2>1. c \in SUBSET Q /\ Cardinality(c) = Cardinality(Q) - k
    BY DEF Chosen
  <2>2. Cardinality(Q \ c) = k
    BY <1>1, <1>2, <2>1
  <2> QED
    BY <2>2 DEF Chosen
<1>4. ASSUME NEW d \in Chosen(Q, k)
      PROVE  Q \ d \in Chosen(Q, Cardinality(Q) - k) /\ d = Q \ (Q \ d)
  <2>1. d \in SUBSET Q /\ Cardinality(d) = k
    BY DEF Chosen
  <2>2. Cardinality(Q \ d) = Cardinality(Q) - k
    BY <1>1, <1>2, <2>1
  <2> QED
    BY <2>1, <2>2 DEF Chosen
<1> DEFINE A == Chosen(Q, Cardinality(Q) - k)
           B == Chosen(Q, k)
<1>5. \A c \in A : Q \ c \in B
  BY <1>3
<1>6. \A d \in B : Q \ d \in A /\ d = Q \ (Q \ d)
  BY <1>4
<1> HIDE DEF A, B
<1>7. \A d \in B : \E c \in A : d = Q \ c
  BY <1>6
<1>8. {Q \ c : c \in A} = B
  <2>1. \A d \in {Q \ c : c \in A} : d \in B
    BY <1>5
  <2>2. \A d \in B : d \in {Q \ c : c \in A}
    BY <1>7
  <2> QED
    BY <2>1, <2>2
<1> QED
  BY <1>8 DEF A, B


\* What a pair map says: every assignment of the other wires has one pair,
\* and no column is in two pairs.
MapsPairs(s, wire0, wire1, ps) ==
  /\ ps \in PairList(0 .. s.dimension - 1)
  /\ Len(ps) \in Nat /\ DOMAIN ps = 1 .. Len(ps)
  /\ \A k \in DOMAIN ps : \E c \in OtherWords(s, wire0, wire1) : ps[k] = PairOf(s, wire0, wire1, c)
  /\ \A c \in OtherWords(s, wire0, wire1) : \E k \in DOMAIN ps : ps[k] = PairOf(s, wire0, wire1, c)

\* pair_map, for any two wires of any sector.
LEMMA PairMapIs ==
  ASSUME NEW s, IsSector(s), NEW wire0, NEW wire1, TwoWires(s.nqubits, wire0, wire1)
  PROVE  MapsPairs(s, wire0, wire1, PairMap(s, wire0, wire1))
<1> DEFINE n == s.nqubits
           particles == s.particle_number
           Q == RemainingWires(n, wire0, wire1)
           C == OtherWords(s, wire0, wire1)
           P(c) == PairOf(s, wire0, wire1, c)
           ps == PairMap(s, wire0, wire1)
           I == 0 .. s.dimension - 1
           occupied == IF particles = 0 THEN 0 ELSE particles - 1
           holes == Cardinality(Q) - occupied
<1>1. n \in Nat /\ particles \in 0 .. n /\ particles \in Nat
  BY SectorFacts
<1>2. IsFiniteSet(Q) /\ Cardinality(Q) \in Nat
  <2>1. IsFiniteSet(Qubits(n))
    BY <1>1, QubitsCount
  <2>2. Q \in SUBSET Qubits(n)
    BY DEF RemainingWires
  <2> QED
    BY <2>1, <2>2, FS_Subset, FS_CardinalityType
<1>3. CASE particles = 0 \/ holes < 0
  <2>1. ps = <<>>
    BY <1>3 DEF PairMap
  <2>2. C = {}
    <3> SUFFICES ASSUME NEW c \in C PROVE FALSE
      OBVIOUS
    <3>1. c \in SUBSET Q /\ Cardinality(c) = particles - 1
      BY DEF OtherWords, Chosen
    <3>2. Cardinality(c) \in Nat /\ Cardinality(c) <= Cardinality(Q)
      BY <1>2, <3>1, FS_Subset, FS_CardinalityType
    <3> HIDE DEF particles, Q, C
    <3> QED
      BY <1>1, <1>2, <1>3, <3>1, <3>2
  <2>3. Len(<<>>) = 0 /\ DOMAIN <<>> = {} /\ 1 .. 0 = {}
    OBVIOUS
  <2>4. <<>> \in PairList(I)
    BY <2>3 DEF PairList, PairsOf
  <2> HIDE DEF ps, I, C
  <2>5. MapsPairs(s, wire0, wire1, ps)
    BY <2>1, <2>2, <2>3, <2>4 DEF MapsPairs, I, C
  <2> QED
    BY <2>5 DEF ps
<1>4. CASE ~(particles = 0 \/ holes < 0)
  <2> DEFINE key == [c \in C |-> P(c).zero_one]
             N == Cardinality(C)
             Lists(f, A) ==
               \A k \in DOMAIN f : \A j \in 1 .. k - 1 : f[j] # f[k] /\ P(f[j]).zero_one <= P(f[k]).zero_one
             chosen(A) == CHOOSE f \in [1 .. Cardinality(A) -> A] : Lists(f, A)
             mapped(A) == [k \in 1 .. Cardinality(A) |-> P(chosen(A)[k])]
             order == chosen(C)
  <2>1. occupied = particles - 1 /\ occupied \in Nat /\ Cardinality(Q) - occupied >= 0
    BY <1>1, <1>2, <1>4
  <2>2. ps = mapped(C)
    <3> DEFINE others == IF holes < occupied THEN {Q \ c : c \in kSubset(holes, Q)}
                         ELSE kSubset(occupied, Q)
    <3>1. others = Chosen(Q, occupied)
      <4>1. \A k : kSubset(k, Q) = Chosen(Q, k)
        BY DEF kSubset, Chosen
      <4>2. {Q \ c : c \in Chosen(Q, Cardinality(Q) - occupied)} = Chosen(Q, occupied)
        <5> HIDE DEF Q, occupied
        <5> QED
          BY <1>2, <2>1, OthersAre
      <4>3. {Q \ c : c \in kSubset(holes, Q)} = Chosen(Q, occupied)
        BY <4>1, <4>2
      <4>4. kSubset(occupied, Q) = Chosen(Q, occupied)
        BY <4>1
      <4> HIDE DEF holes, occupied, Q
      <4> QED
        BY <4>3, <4>4
    <3>2. Chosen(Q, occupied) = C
      BY <2>1 DEF OtherWords
    <3>3. ps = mapped(others)
      BY <1>4 DEF PairMap, PairOf
    <3> HIDE DEF others, C, ps, Q, occupied, P, mapped
    <3> QED
      BY <3>1, <3>2, <3>3
  <2>3. \A c, d \in C : /\ P(c).zero_one \in I /\ P(c).one_zero \in I
                        /\ P(c).zero_one # P(d).one_zero
                        /\ (P(c).zero_one = P(d).zero_one \/ P(c).one_zero = P(d).one_zero) => c = d
    BY PairsDiffer
  <2>4. \A c \in C : P(c) \in [zero_one : I, one_zero : I]
    BY <2>3 DEF PairOf
  <2>5. IsFiniteSet(C)
    BY <1>2, ChosenFinite DEF OtherWords
  <2> HIDE DEF C, P
  <2>6. IntOn(key, C) /\ \A c, d \in C : key[c] = key[d] => c = d
    <3>1. \A i \in I : i \in Int
      OBVIOUS
    <3>2. \A c \in C : key[c] = P(c).zero_one /\ P(c).zero_one \in I
      BY <2>3
    <3> HIDE DEF I, key
    <3> QED
      BY <2>3, <3>1, <3>2 DEF IntOn
  <2>7. \A f \in [1 .. Cardinality(C) -> C] : Lists(f, C) <=> Listed(f, C, key)
    <3> SUFFICES ASSUME NEW f \in [1 .. Cardinality(C) -> C] PROVE Lists(f, C) <=> Listed(f, C, key)
      OBVIOUS
    <3>1. Cardinality(C) \in Nat
      BY <2>5, FS_CardinalityType
    <3>2. \A k \in DOMAIN f : \A j \in 1 .. k - 1 : key[f[j]] = P(f[j]).zero_one /\ key[f[k]] = P(f[k]).zero_one
      BY <3>1
    <3> HIDE DEF key
    <3> QED
      BY <3>2 DEF Listed
  <2>8. order \in [1 .. Cardinality(C) -> C] /\ Lists(order, C)
    <3>1. PICK f : Listed(f, C, key)
      <4> HIDE DEF key
      <4> QED
        BY <2>5, <2>6, ListsExist
    <3>2. f \in [1 .. Cardinality(C) -> C]
      BY <3>1 DEF Listed
    <3>3. Lists(f, C)
      BY <2>7, <3>1, <3>2
    <3> HIDE DEF Lists
    <3> QED
      BY <3>2, <3>3
  <2>9. Listed(order, C, key)
    <3> HIDE DEF order, Lists
    <3> QED
      BY <2>7, <2>8
  <2> HIDE DEF key, order, Lists
  <2>10. /\ N \in Nat /\ DOMAIN order = 1 .. N
         /\ \A k \in 1 .. N : order[k] \in C
         /\ \A j, k \in 1 .. N : j # k => order[j] # order[k]
         /\ \A c \in C : \E k \in 1 .. N : order[k] = c
    <3>1. /\ Cardinality(C) \in Nat /\ DOMAIN order = 1 .. Cardinality(C)
          /\ \A k \in DOMAIN order : order[k] \in C
          /\ \A j, k \in DOMAIN order : j # k => order[j] # order[k]
          /\ \A c \in C : \E k \in DOMAIN order : order[k] = c
      BY <2>5, <2>9, ListIsWhole
    <3> QED
      BY <3>1
  <2>11. ps = [k \in 1 .. N |-> P(order[k])]
    BY <2>2 DEF order
  <2> HIDE DEF N, ps, I, mapped
  <2>12. ps \in Seq([zero_one : I, one_zero : I]) /\ Len(ps) = N /\ DOMAIN ps = 1 .. N
    <3> DEFINE S == [zero_one : I, one_zero : I]
    <3>1. \A k \in 1 .. N : P(order[k]) \in S
      BY <2>4, <2>10
    <3> HIDE DEF S
    <3>2. ps \in [1 .. N -> S] /\ DOMAIN ps = 1 .. N
      BY <2>11, <3>1
    <3>3. ps \in Seq(S)
      BY <2>10, <3>2
    <3>4. Len(ps) \in Nat /\ DOMAIN ps = 1 .. Len(ps)
      BY <3>3, LenProperties
    <3>5. Len(ps) = N
      <4> DEFINE L == Len(ps)
      <4>1. L \in Nat /\ 1 .. L = 1 .. N
        BY <3>2, <3>4
      <4> HIDE DEF L
      <4>2. (L > 0 => L \in 1 .. N) /\ (N > 0 => N \in 1 .. L)
        BY <2>10, <4>1
      <4>3. L = N
        BY <2>10, <4>1, <4>2
      <4> QED
        BY <4>3 DEF L
    <3> QED
      BY <3>2, <3>3, <3>5 DEF S
  <2>13. \A k \in 1 .. N : ps[k] = P(order[k])
    BY <2>11
  <2>14. PairsOf(ps, I)
    <3>1. \A k \in DOMAIN ps : ps[k].zero_one \in I /\ ps[k].one_zero \in I /\ ps[k].zero_one # ps[k].one_zero
      BY <2>3, <2>10, <2>12, <2>13
    <3>2. ASSUME NEW j \in DOMAIN ps, NEW k \in DOMAIN ps, j # k PROVE Indices(ps[j]) \cap Indices(ps[k]) = {}
      <4>1. order[j] \in C /\ order[k] \in C /\ order[j] # order[k]
        BY <2>10, <2>12, <3>2
      <4>2. /\ P(order[j]).zero_one # P(order[k]).zero_one /\ P(order[j]).one_zero # P(order[k]).one_zero
            /\ P(order[j]).zero_one # P(order[k]).one_zero /\ P(order[k]).zero_one # P(order[j]).one_zero
        BY <2>3, <4>1
      <4>3. ps[j] = P(order[j]) /\ ps[k] = P(order[k])
        BY <2>12, <2>13
      <4> QED
        BY <4>2, <4>3 DEF Indices
    <3> QED
      BY <3>1, <3>2 DEF PairsOf
  <2>15. /\ \A k \in DOMAIN ps : \E c \in C : ps[k] = P(c)
         /\ \A c \in C : \E k \in DOMAIN ps : ps[k] = P(c)
    BY <2>10, <2>12, <2>13
  <2>16. ps \in PairList(I) /\ Len(ps) \in Nat /\ DOMAIN ps = 1 .. Len(ps)
    BY <2>10, <2>12, <2>14 DEF PairList
  <2>17. MapsPairs(s, wire0, wire1, ps)
    BY <2>15, <2>16 DEF MapsPairs, I, C, P
  <2> QED
    BY <2>17 DEF ps
<1> QED
  BY <1>3, <1>4


-----------------------------------------------------------------------------
(* Programs and their blocks                                               *)

\* An operation that has passed the checks of a program.
LegalOp(op, program) ==
  /\ IsOperation(op)
  /\ \A k \in DOMAIN op.wires : op.wires[k] \in Qubits(program.nqubits)
  /\ HasAngle(op) => op.angle \in DOMAIN program.angles
  /\ op.kind \in {"rzz", "cz", "cphase", "swap", "iswap"} =>
       TwoWires(program.nqubits, op.wires[1], op.wires[2])
  /\ op.kind = "diagonal" =>
       /\ Len(op.payload) = LocalDimension(Len(op.wires))
       /\ \A j \in DOMAIN op.payload : NormSqr(op.payload[j]) = 1
LegalProgram(program) == IsProgram(program) /\ ~ProgramError(program)

\* Every operation of a legal program has.
LEMMA LegalOps ==
  ASSUME NEW program, LegalProgram(program)
  PROVE  /\ Len(program.operations) \in Nat
         /\ DOMAIN program.operations = 1 .. Len(program.operations)
         /\ \A k \in DOMAIN program.operations : LegalOp(program.operations[k], program)
<1> DEFINE ops == program.operations
<1>1. ops \in Seq(Range(ops)) /\ program.nqubits \in Nat /\ \A k \in DOMAIN ops : IsOperation(ops[k])
  BY DEF LegalProgram, IsProgram
<1>2. Len(ops) \in Nat /\ DOMAIN ops = 1 .. Len(ops)
  <2> DEFINE S == Range(ops)
  <2>1. ops \in Seq(S)
    BY <1>1
  <2> HIDE DEF S, ops
  <2> QED
    BY <2>1, LenProperties
<1>3. ASSUME NEW k \in DOMAIN ops PROVE LegalOp(ops[k], program)
  <2> DEFINE op == ops[k]
  <2>1. IsOperation(op) /\ ~GateError(op, program)
    BY <1>1, <1>3 DEF LegalProgram, ProgramError
  <2> HIDE DEF op
  <2>2. /\ \A j \in DOMAIN op.wires : ~(op.wires[j] >= program.nqubits)
        /\ \A i, j \in DOMAIN op.wires : i # j => op.wires[i] # op.wires[j]
        /\ HasAngle(op) => op.angle \in DOMAIN program.angles
    BY <2>1 DEF GateError
  <2>3. op.kind = "diagonal" => /\ Len(op.payload) = LocalDimension(Len(op.wires))
                                /\ \A j \in DOMAIN op.payload : NormSqr(op.payload[j]) = 1
    BY <2>1 DEF GateError
  <2>4. op.wires \in Seq(Nat)
    BY <2>1 DEF IsOperation
  <2>5. \A j \in DOMAIN op.wires : op.wires[j] \in Nat
    BY <2>4
  <2>6. \A j \in DOMAIN op.wires : op.wires[j] \in Qubits(program.nqubits)
    BY <1>1, <2>2, <2>5 DEF Qubits
  <2>7. ASSUME op.kind \in {"rzz", "cz", "cphase", "swap", "iswap"}
        PROVE  TwoWires(program.nqubits, op.wires[1], op.wires[2])
    <3>1. Len(op.wires) = 2
      BY <2>1, <2>7 DEF IsOperation
    <3>2. 1 \in DOMAIN op.wires /\ 2 \in DOMAIN op.wires /\ 1 # 2
      BY <2>4, <3>1
    <3> QED
      BY <2>2, <2>6, <3>2 DEF TwoWires
  <2>8. LegalOp(op, program)
    BY <2>1, <2>2, <2>3, <2>6, <2>7 DEF LegalOp
  <2> QED
    BY <2>8 DEF op
<1> QED
  BY <1>2, <1>3

\* runs are consecutive parts of the first n operations, each of one block.
CutAt(runs, ops, n, b) ==
  /\ b \in [0 .. Len(runs) -> 0 .. n] /\ b[0] = 0 /\ b[Len(runs)] = n
  /\ \A j \in 1 .. Len(runs) :
       /\ b[j - 1] < b[j] /\ Len(runs[j]) = b[j] - b[j - 1]
       /\ \A i \in 1 .. Len(runs[j]) : runs[j][i] = ops[b[j - 1] + i] /\ SameBlock(runs[j][1], runs[j][i])
IsCut(runs, ops, n) == \E b : CutAt(runs, ops, n, b)

RunsStep(runs, op) ==
  IF runs # <<>> /\ SameBlock(Last(Last(runs)), op)
  THEN [runs EXCEPT ![Len(runs)] = Append(@, op)]
  ELSE Append(runs, <<op>>)

\* Belonging to one block is an equivalence.
LEMMA BlocksAreClasses ==
  ASSUME NEW a, NEW b, NEW c
  PROVE  SameBlock(a, a) /\ (SameBlock(a, b) /\ SameBlock(b, c) => SameBlock(a, c))
  BY DEF SameBlock

\* One more operation.
LEMMA CutGrows ==
  ASSUME NEW S, NEW ops \in Seq(S), NEW n \in 1 .. Len(ops), NEW runs \in Seq(Seq(S)),
         IsCut(runs, ops, n - 1)
  PROVE  RunsStep(runs, ops[n]) \in Seq(Seq(S)) /\ IsCut(RunsStep(runs, ops[n]), ops, n)
<1> DEFINE L == Len(runs)
           op == ops[n]
           last == runs[L]
           next == RunsStep(runs, op)
<1>1. L \in Nat /\ DOMAIN runs = 1 .. L /\ op \in S /\ n \in Nat /\ n - 1 \in Nat /\ n - 1 < n
  BY LenProperties
<1>2. PICK b : CutAt(runs, ops, n - 1, b)
  BY DEF IsCut
<1>3. /\ b \in [0 .. L -> 0 .. n - 1] /\ b[0] = 0 /\ b[L] = n - 1
      /\ \A j \in 1 .. L :
           /\ b[j - 1] < b[j] /\ Len(runs[j]) = b[j] - b[j - 1]
           /\ \A i \in 1 .. Len(runs[j]) :
                runs[j][i] = ops[b[j - 1] + i] /\ SameBlock(runs[j][1], runs[j][i])
  BY <1>2 DEF CutAt
<1>4. \A j \in 1 .. L : runs[j] \in Seq(S) /\ Len(runs[j]) \in Nat /\ DOMAIN runs[j] = 1 .. Len(runs[j])
  BY <1>1
<1> HIDE DEF L
<1>5. \A j \in 0 .. L : b[j] \in 0 .. n - 1 /\ b[j] \in Int
  <2>1. \A j \in 0 .. L : b[j] \in 0 .. n - 1
    BY <1>3
  <2>2. \A i \in 0 .. n - 1 : i \in Int
    BY <1>1
  <2> QED
    BY <2>1, <2>2
<1>6. CASE runs # <<>> /\ SameBlock(Last(last), op)
  <2> DEFINE M == Len(last)
             longer == Append(last, op)
             c == [b EXCEPT ![L] = n]
  <2>1. L \in 1 .. L /\ L - 1 \in 0 .. L /\ L # 0 /\ L # L - 1
    <3>1. L # 0
      BY <1>6 DEF L
    <3> QED
      BY <1>1, <3>1
  <2>2. last \in Seq(S) /\ M \in Nat /\ M = (n - 1) - b[L - 1] /\ b[L - 1] < n - 1
    BY <1>3, <1>4, <2>1
  <2>3. Len(longer) = M + 1 /\ longer \in Seq(S) /\ longer[M + 1] = op
        /\ \A i \in 1 .. M : longer[i] = last[i]
    BY <1>1, <2>2
  <2>4. M \in 1 .. M /\ 1 \in 1 .. M
    BY <1>1, <1>5, <2>1, <2>2
  <2>5. next = [runs EXCEPT ![L] = longer]
    <3>1. Last(runs) = last
      BY DEF Last, L
    <3> QED
      BY <1>6, <3>1 DEF RunsStep, L
  <2>6. next \in Seq(Seq(S)) /\ Len(next) = L /\ next[L] = longer /\ \A j \in 1 .. L : j # L => next[j] = runs[j]
    <3> HIDE DEF longer, next
    <3>1. /\ DOMAIN next = 1 .. L /\ next[L] = longer
          /\ \A j \in 1 .. L : j # L => next[j] = runs[j]
      BY <1>1, <2>1, <2>5
    <3>2. next \in Seq(Seq(S)) /\ Len(next) = Len(runs)
      BY <1>1, <2>1, <2>3, <2>5
    <3> QED
      BY <3>1, <3>2 DEF L
  <2>7. c \in [0 .. L -> 0 .. n] /\ c[L] = n /\ (\A j \in 0 .. L : j # L => c[j] = b[j]) /\ c[0] = 0
    <3>1. \A j \in 0 .. L : b[j] \in 0 .. n
      BY <1>1, <1>5
    <3>2. 0 \in 0 .. L /\ 0 # L /\ L \in 0 .. L
      BY <1>1, <2>1
    <3> QED
      BY <1>1, <1>3, <3>1, <3>2
  <2> HIDE DEF c, next, longer, M, last
  <2>8. ASSUME NEW j \in 1 .. L
        PROVE  /\ c[j - 1] < c[j] /\ Len(next[j]) = c[j] - c[j - 1]
               /\ \A i \in 1 .. Len(next[j]) : next[j][i] = ops[c[j - 1] + i] /\ SameBlock(next[j][1], next[j][i])
    <3>1. j - 1 \in 0 .. L /\ j - 1 # L /\ j \in 0 .. L
      BY <1>1
    <3>2. CASE j # L
      <4>1. c[j - 1] = b[j - 1] /\ c[j] = b[j] /\ next[j] = runs[j]
        BY <2>6, <2>7, <3>1, <3>2
      <4> QED
        BY <1>3, <4>1
    <3>3. CASE j = L
      <4>1. c[j - 1] = b[L - 1] /\ c[j] = n /\ next[j] = longer /\ Len(longer) = M + 1
        BY <2>3, <2>6, <2>7, <3>1, <3>3
      <4>2. b[L - 1] \in Int /\ b[L - 1] < n - 1 /\ M = (n - 1) - b[L - 1]
        BY <1>5, <2>1, <2>2
      <4>3. c[j - 1] < c[j] /\ Len(next[j]) = c[j] - c[j - 1]
        BY <1>1, <2>2, <4>1, <4>2
      <4>4. \A i \in 1 .. M : last[i] = ops[b[L - 1] + i] /\ SameBlock(last[1], last[i])
        BY <1>3, <2>1 DEF last, M
      <4>5. SameBlock(last[M], op)
        BY <1>6 DEF Last, M
      <4>6. ASSUME NEW i \in 1 .. M + 1 PROVE longer[i] = ops[b[L - 1] + i] /\ SameBlock(longer[1], longer[i])
        <5>1. longer[1] = last[1]
          BY <2>3, <2>4
        <5>2. CASE i = M + 1
          <6>1. b[L - 1] + i = n
            BY <1>1, <2>2, <4>2, <5>2
          <6>2. SameBlock(last[1], op)
            BY <2>4, <4>4, <4>5, BlocksAreClasses
          <6> QED
            BY <2>3, <5>1, <5>2, <6>1, <6>2 DEF op
        <5>3. CASE i # M + 1
          <6>1. i \in 1 .. M
            BY <2>2, <5>3
          <6> QED
            BY <2>3, <4>4, <5>1, <6>1
        <5> QED
          BY <5>2, <5>3
      <4> QED
        BY <4>1, <4>3, <4>6
    <3> QED
      BY <3>2, <3>3
  <2>9. CutAt(next, ops, n, c)
    BY <2>6, <2>7, <2>8 DEF CutAt
  <2> QED
    BY <2>6, <2>9 DEF IsCut, next, op
<1>7. CASE ~(runs # <<>> /\ SameBlock(Last(last), op))
  <2> DEFINE c == [j \in 0 .. L + 1 |-> IF j = L + 1 THEN n ELSE b[j]]
  <2>1. next = Append(runs, <<op>>)
    <3>1. Last(runs) = last
      BY DEF Last, L
    <3> QED
      BY <1>7, <3>1 DEF RunsStep
  <2>2. next \in Seq(Seq(S)) /\ Len(next) = L + 1 /\ next[L + 1] = <<op>> /\ \A j \in 1 .. L : next[j] = runs[j]
    <3>1. <<op>> \in Seq(S)
      BY <1>1
    <3> QED
      BY <1>1, <2>1, <3>1 DEF L
  <2>3. /\ c \in [0 .. L + 1 -> 0 .. n] /\ c[L + 1] = n /\ c[0] = 0
        /\ \A j \in 0 .. L : c[j] = b[j]
    <3>1. \A j \in 0 .. L + 1 : j # L + 1 => j \in 0 .. L
      BY <1>1
    <3>2. \A j \in 0 .. L : b[j] \in 0 .. n /\ j # L + 1 /\ j \in 0 .. L + 1
      BY <1>1, <1>5
    <3>3. 0 \in 0 .. L /\ L + 1 \in 0 .. L + 1 /\ n \in 0 .. n
      BY <1>1
    <3> QED
      BY <1>3, <3>1, <3>2, <3>3
  <2> HIDE DEF c, next
  <2>4. ASSUME NEW j \in 1 .. L + 1
        PROVE  /\ c[j - 1] < c[j] /\ Len(next[j]) = c[j] - c[j - 1]
               /\ \A i \in 1 .. Len(next[j]) : next[j][i] = ops[c[j - 1] + i] /\ SameBlock(next[j][1], next[j][i])
    <3>1. CASE j = L + 1
      <4>1. c[j] = n /\ j - 1 = L /\ c[j - 1] = n - 1 /\ next[j] = <<op>>
        BY <1>1, <1>3, <2>2, <2>3, <3>1
      <4>2. Len(<<op>>) = 1 /\ <<op>>[1] = op /\ 1 .. 1 = {1} /\ (n - 1) + 1 = n
        BY <1>1
      <4>3. SameBlock(op, op)
        BY BlocksAreClasses
      <4>4. n - 1 < n /\ 1 = n - (n - 1)
        BY <1>1
      <4> HIDE DEF op
      <4>5. \A i \in 1 .. 1 : <<op>>[i] = ops[(n - 1) + i] /\ SameBlock(<<op>>[1], <<op>>[i])
        BY <4>2, <4>3 DEF op
      <4> QED
        BY <4>1, <4>2, <4>4, <4>5
    <3>2. CASE j # L + 1
      <4>1. j \in 1 .. L /\ j \in 0 .. L /\ j - 1 \in 0 .. L
        BY <1>1, <3>2
      <4>2. c[j] = b[j] /\ c[j - 1] = b[j - 1] /\ next[j] = runs[j]
        BY <2>2, <2>3, <4>1
      <4> QED
        BY <1>3, <4>1, <4>2
    <3> QED
      BY <3>1, <3>2
  <2>5. CutAt(next, ops, n, c)
    BY <2>2, <2>3, <2>4 DEF CutAt
  <2> QED
    BY <2>2, <2>5 DEF IsCut, next, op
<1> QED
  BY <1>6, <1>7

\* Runs cuts the operations of a program into its blocks.
LEMMA RunsAre ==
  ASSUME NEW S, NEW ops \in Seq(S)
  PROVE  Runs(ops) \in Seq(Seq(S)) /\ IsCut(Runs(ops), ops, Len(ops))
<1> DEFINE n == Len(ops)
           V == Seq(Seq(S))
           Body(g) == [k \in 0 .. n |-> IF k = 0 THEN <<>> ELSE RunsStep(g[k - 1], ops[k])]
           runs == CHOOSE g : g = Body(g)
           Good == {k \in 0 .. n : \E r : r \in V /\ IsCut(r, ops, k)}
           cut(k) == CHOOSE r : r \in V /\ IsCut(r, ops, k)
           W(k) == {r \in V : IsCut(r, ops, k)}
           step == [k \in 1 .. n |-> [r \in V |-> IF r \in W(k - 1) THEN RunsStep(r, ops[k]) ELSE r]]
<1>1. n \in Nat /\ DOMAIN ops = 1 .. n
  BY LenProperties
<1>2. <<>> \in W(0)
  <2> DEFINE b == [j \in 0 .. 0 |-> 0]
  <2>1. Len(<<>>) = 0 /\ 1 .. 0 = {} /\ b \in [0 .. 0 -> 0 .. 0] /\ b[0] = 0 /\ <<>> \in V
    OBVIOUS
  <2> HIDE DEF b
  <2>2. CutAt(<<>>, ops, 0, b)
    BY <2>1 DEF CutAt
  <2> QED
    BY <2>1, <2>2 DEF IsCut
<1>3. \A k \in 1 .. n : \A r \in W(k - 1) : RunsStep(r, ops[k]) \in W(k)
  BY CutGrows
<1>4. step \in [1 .. n -> [V -> V]]
  <2>1. \A k \in 1 .. n : \A r \in W(k - 1) : RunsStep(r, ops[k]) \in V
    BY <1>3
  <2> HIDE DEF V, W
  <2> QED
    BY <2>1
<1>5. PICK g : IsChain(g, n, V, <<>>, step)
  <2>1. <<>> \in V
    OBVIOUS
  <2> HIDE DEF V, step, n
  <2> QED
    BY <1>1, <1>4, <2>1, Chain
<1>6. \A k \in 1 .. n : \A r \in W(k - 1) : step[k][r] = RunsStep(r, ops[k])
  OBVIOUS
<1> HIDE DEF step, W, V
<1>7. \A k \in 0 .. n : g[k] \in W(k)
  <2> DEFINE T == {k \in 0 .. n : g[k] \in W(k)}
  <2>1. 0 \in T
    BY <1>1, <1>2, <1>5 DEF IsChain
  <2>2. ASSUME NEW k \in 1 .. n, k - 1 \in T PROVE k \in T
    <3>1. k \in 0 .. n /\ g[k] = step[k][g[k - 1]] /\ g[k - 1] \in W(k - 1)
      BY <1>1, <1>5, <2>2 DEF IsChain
    <3> QED
      BY <1>3, <1>6, <3>1
  <2> HIDE DEF T, n
  <2>3. \A k \in 0 .. n : k \in T
    BY <1>1, <2>1, <2>2, UpTo
  <2> QED
    BY <2>3 DEF T
<1>8. g = Body(g)
  <2>1. g = [k \in 0 .. n |-> g[k]] /\ g[0] = <<>>
    BY <1>5 DEF IsChain
  <2>2. \A k \in 0 .. n : g[k] = IF k = 0 THEN <<>> ELSE RunsStep(g[k - 1], ops[k])
    <3> SUFFICES ASSUME NEW k \in 0 .. n, k # 0 PROVE g[k] = RunsStep(g[k - 1], ops[k])
      BY <2>1
    <3>1. k \in 1 .. n /\ k - 1 \in 0 .. n
      BY <1>1
    <3>2. g[k] = step[k][g[k - 1]]
      BY <1>5, <3>1 DEF IsChain
    <3> QED
      BY <1>6, <1>7, <3>1, <3>2
  <2> HIDE DEF n
  <2> QED
    BY <2>1, <2>2
<1>9. runs = Body(runs)
  <2> HIDE DEF Body
  <2> QED
    BY <1>8
<1>10. \A k \in 0 .. n : runs[k] \in W(k)
  <2>1. \A k \in 0 .. n : runs[k] = IF k = 0 THEN <<>> ELSE RunsStep(runs[k - 1], ops[k])
    <3> HIDE DEF runs, n
    <3>1. runs = [k \in 0 .. n |-> IF k = 0 THEN <<>> ELSE RunsStep(runs[k - 1], ops[k])]
      BY <1>9
    <3> QED
      BY <3>1
  <2> DEFINE T == {k \in 0 .. n : runs[k] \in W(k)}
  <2> HIDE DEF runs, n
  <2>2. 0 \in T
    BY <1>1, <1>2, <2>1
  <2>3. ASSUME NEW k \in 1 .. n, k - 1 \in T PROVE k \in T
    <3>1. k \in 0 .. n /\ k # 0 /\ runs[k - 1] \in W(k - 1)
      BY <1>1, <2>3
    <3> QED
      BY <1>3, <2>1, <3>1
  <2> HIDE DEF T
  <2>4. \A k \in 0 .. n : k \in T
    BY <1>1, <2>2, <2>3, UpTo
  <2> QED
    BY <2>4 DEF T
<1>11. Runs(ops) = runs[n]
  BY DEF Runs, RunsStep
<1>12. n \in 0 .. n
  BY <1>1
<1> HIDE DEF runs
<1> QED
  BY <1>10, <1>11, <1>12 DEF W, V


-----------------------------------------------------------------------------
(* Pair maps of a program                                                  *)

\* ps is the pair map of a key, for the wires of one of its operations.
MapsKey(s, key, ps) ==
  \E wire0, wire1 : {wire0, wire1} = key /\ TwoWires(s.nqubits, wire0, wire1) /\ MapsPairs(s, wire0, wire1, ps)

\* The map found for an operation is the one of its wires.
LEMMA PairsForIs ==
  ASSUME NEW s, IsSector(s), NEW program, LegalProgram(program), program.nqubits = s.nqubits,
         NEW i \in DOMAIN program.operations, ~IsDiagonal(program.operations[i])
  PROVE  MapsKey(s, PairKey(program.operations[i]),
                 PairsFor(s, program.operations, PairKey(program.operations[i])))
<1> DEFINE ops == program.operations
           key == PairKey(ops[i])
           K == {j \in DOMAIN ops : ~IsDiagonal(ops[j]) /\ PairKey(ops[j]) = key}
           m == Min(K)
<1>1. DOMAIN ops = 1 .. Len(ops) /\ Len(ops) \in Nat /\ \A k \in DOMAIN ops : LegalOp(ops[k], program)
  BY LegalOps
<1>2. K \subseteq Nat /\ i \in K
  BY <1>1
<1>3. m \in K
  <2>1. \E x \in K : \A y \in K : x <= y
    <3> HIDE DEF K
    <3> QED
      BY <1>2, Least
  <2> HIDE DEF K
  <2> QED
    BY <2>1 DEF Min
<1>4. PairsFor(s, ops, key) = PairMap(s, ops[m].wires[1], ops[m].wires[2])
  BY DEF PairsFor
<1> HIDE DEF m
<1>5. LegalOp(ops[m], program) /\ ~IsDiagonal(ops[m]) /\ PairKey(ops[m]) = key
  BY <1>1, <1>3
<1>6. TwoWires(s.nqubits, ops[m].wires[1], ops[m].wires[2])
  BY <1>5 DEF LegalOp, IsDiagonal
<1>7. {ops[m].wires[1], ops[m].wires[2]} = key
  BY <1>5 DEF PairKey
<1>8. MapsPairs(s, ops[m].wires[1], ops[m].wires[2], PairMap(s, ops[m].wires[1], ops[m].wires[2]))
  BY <1>6, PairMapIs
<1> QED
  BY <1>4, <1>6, <1>7, <1>8 DEF MapsKey


-----------------------------------------------------------------------------
(* Amplitudes and units                                                    *)

\* Complex numbers form a commutative ring with conjugation.
LEMMA ComplexRing ==
  ASSUME NEW a \in Complex, NEW b \in Complex, NEW c \in Complex
  PROVE  /\ Times(a, Times(b, c)) = Times(Times(a, b), c)
         /\ Times(a, Plus(b, c)) = Plus(Times(a, b), Times(a, c))
         /\ Plus(a, Plus(b, c)) = Plus(Plus(a, b), c)
<1> DEFINE p == a.re
           q == a.im
           r == b.re
           s == b.im
           t == c.re
           u == c.im
<1>1. p \in Int /\ q \in Int /\ r \in Int /\ s \in Int /\ t \in Int /\ u \in Int
  BY DEF Complex
<1> HIDE DEF p, q, r, s, t, u
<1>2. /\ p * (r * t - s * u) - q * (r * u + s * t) = (p * r - q * s) * t - (p * s + q * r) * u
      /\ p * (r * u + s * t) + q * (r * t - s * u) = (p * r - q * s) * u + (p * s + q * r) * t
  BY <1>1
<1>3. /\ p * (r + t) - q * (s + u) = (p * r - q * s) + (p * t - q * u)
      /\ p * (s + u) + q * (r + t) = (p * s + q * r) + (p * u + q * t)
  BY <1>1
<1>4. p + (r + t) = (p + r) + t /\ q + (s + u) = (q + s) + u
  BY <1>1
<1>5. Times(a, Times(b, c)) = Times(Times(a, b), c)
  BY <1>2 DEF Times, Gauss, p, q, r, s, t, u
<1>6. Times(a, Plus(b, c)) = Plus(Times(a, b), Times(a, c))
  BY <1>3 DEF Times, Plus, Gauss, p, q, r, s, t, u
<1>7. Plus(a, Plus(b, c)) = Plus(Plus(a, b), c)
  BY <1>4 DEF Plus, Gauss, p, q, r, s, t, u
<1> QED
  BY <1>5, <1>6, <1>7

\* One is neutral.
LEMMA ComplexOneTimes ==
  ASSUME NEW a \in Complex
  PROVE  One \in Complex /\ Times(a, One) = a /\ Times(One, a) = a
<1>1. a.re \in Int /\ a.im \in Int /\ a = Gauss(a.re, a.im)
  BY ComplexFacts
<1> DEFINE p == a.re
           q == a.im
<1> HIDE DEF p, q
<1>2. p \in Int /\ q \in Int
  BY <1>1 DEF p, q
<1>3. p * 1 - q * 0 = p /\ p * 0 + q * 1 = q /\ 1 * p - 0 * q = p /\ 1 * q + 0 * p = q
  BY <1>2
<1>4. One \in Complex
  BY DEF One, Gauss, Complex
<1>5. Times(a, One) = Gauss(p, q)
  BY <1>3 DEF Times, One, Gauss, p, q
<1>6. Times(One, a) = Gauss(p, q)
  BY <1>3 DEF Times, One, Gauss, p, q
<1> QED
  BY <1>1, <1>4, <1>5, <1>6 DEF p, q

\* The units are the powers of i.
QuarterTurn == Gauss(0, 1)
HalfTurn == Gauss(-1, 0)
BackTurn == Gauss(0, -1)
Units == {One, QuarterTurn, HalfTurn, BackTurn}

\* The units are closed under product and conjugation, and the conjugate inverts.
LEMMA UnitFacts ==
  /\ Units \subseteq Complex
  /\ \A a, b \in Units : Times(a, b) \in Units
  /\ \A a \in Units : Conj(a) \in Units /\ Times(Conj(a), a) = One /\ Times(a, Conj(a)) = One
                      /\ Conj(Conj(a)) = a
  /\ \A a \in Units : a = Gauss(a.re, 0) \/ a = Gauss(0, a.im)
<1>1. Units \subseteq Complex
  BY DEF Units, One, QuarterTurn, HalfTurn, BackTurn, Gauss, Complex
<1>2. \A a \in Units : Times(a, One) = a /\ Times(One, a) = a
  BY <1>1, ComplexOneTimes
<1>3. /\ Times(QuarterTurn, QuarterTurn) = HalfTurn /\ Times(QuarterTurn, HalfTurn) = BackTurn /\ Times(QuarterTurn, BackTurn) = One
      /\ Times(HalfTurn, QuarterTurn) = BackTurn /\ Times(HalfTurn, HalfTurn) = One /\ Times(HalfTurn, BackTurn) = QuarterTurn
      /\ Times(BackTurn, QuarterTurn) = One /\ Times(BackTurn, HalfTurn) = QuarterTurn /\ Times(BackTurn, BackTurn) = HalfTurn
  BY DEF Times, Gauss, One, QuarterTurn, HalfTurn, BackTurn
<1>4. Conj(One) = One /\ Conj(QuarterTurn) = BackTurn /\ Conj(HalfTurn) = HalfTurn /\ Conj(BackTurn) = QuarterTurn
  BY DEF Conj, Gauss, One, QuarterTurn, HalfTurn, BackTurn
<1>5. \A a, b \in Units : Times(a, b) \in Units
  BY <1>2, <1>3 DEF Units
<1>6. \A a \in Units : Conj(a) \in Units /\ Times(Conj(a), a) = One /\ Times(a, Conj(a)) = One
                       /\ Conj(Conj(a)) = a
  BY <1>2, <1>3, <1>4 DEF Units
<1>7. \A a \in Units : a = Gauss(a.re, 0) \/ a = Gauss(0, a.im)
  BY DEF Units, One, QuarterTurn, HalfTurn, BackTurn, Gauss
<1> QED
  BY <1>1, <1>5, <1>6, <1>7

\* Conjugation is multiplicative, and a unit is undone by its conjugate.
LEMMA UnitUndone ==
  ASSUME NEW a \in Units, NEW b \in Units, NEW x \in Complex
  PROVE  /\ Conj(Times(a, b)) = Times(Conj(a), Conj(b))
         /\ Times(Conj(a), Times(a, x)) = x /\ Times(a, x) \in Complex
         /\ Times(a, Times(b, x)) = Times(Times(b, a), x)
<1>1. a \in Complex /\ b \in Complex /\ Conj(a) \in Complex /\ Times(Conj(a), a) = One
      /\ Conj(a) \in Units /\ Conj(b) \in Units
  BY UnitFacts
<1>2. Conj(Times(a, b)) = Times(Conj(a), Conj(b))
  <2> DEFINE p == a.re
             q == a.im
             r == b.re
             s == b.im
  <2>1. p \in Int /\ q \in Int /\ r \in Int /\ s \in Int
    BY <1>1 DEF Complex
  <2> HIDE DEF p, q, r, s
  <2>2. p * r - q * s = p * r - (-q) * (-s) /\ -(p * s + q * r) = p * (-s) + (-q) * r
    BY <2>1
  <2> QED
    BY <2>2 DEF Conj, Times, Gauss, p, q, r, s
<1>3. Times(Conj(a), Times(a, x)) = Times(Times(Conj(a), a), x)
  BY <1>1, ComplexRing
<1>4. Times(One, x) = x
  BY ComplexOneTimes
<1>5. Times(a, Times(b, x)) = Times(Times(a, b), x) /\ Times(a, b) = Times(b, a)
  <2>1. Times(a, Times(b, x)) = Times(Times(a, b), x)
    BY <1>1, ComplexRing
  <2>2. Times(a, b) = Times(b, a)
    BY <1>1, ComplexFacts
  <2> QED
    BY <2>1, <2>2
<1>6. Times(a, x) \in Complex
  BY <1>1, ComplexFacts
<1> QED
  BY <1>1, <1>2, <1>3, <1>4, <1>5, <1>6

\* A number of norm one is one of them.
LEMMA NormOne ==
  ASSUME NEW a \in Complex, NormSqr(a) = 1
  PROVE  a \in Units
<1> DEFINE p == a.re
           q == a.im
<1>1. p \in Int /\ q \in Int /\ a = Gauss(p, q) /\ p * p + q * q = 1
  BY ComplexFacts DEF NormSqr
<1> HIDE DEF p, q
<1>2. ASSUME NEW x \in Int, NEW y \in Int, x * x + y * y = 1
      PROVE  -1 <= x /\ x <= 1
  <2>1. y * y >= 0
    BY <1>2
  <2>2. x * x <= 1
    <3> DEFINE X == x * x
               Y == y * y
    <3>1. X \in Int /\ Y \in Int /\ X + Y = 1 /\ Y >= 0
      BY <1>2, <2>1
    <3> HIDE DEF X, Y
    <3>2. X <= 1
      BY <3>1
    <3> QED
      BY <3>2 DEF X
  <2>3. x >= 2 => x * x >= 2
    BY <1>2
  <2>4. x <= -2 => x * x >= 2
    BY <1>2
  <2> QED
    BY <1>2, <2>2, <2>3, <2>4
<1>3. -1 <= p /\ p <= 1 /\ -1 <= q /\ q <= 1
  <2>1. q * q + p * p = 1
    BY <1>1
  <2> QED
    BY <1>1, <1>2, <2>1
<1>4. p \in {-1, 0, 1} /\ q \in {-1, 0, 1}
  BY <1>1, <1>3
<1>5. (p = 1 /\ q = 0) \/ (p = 0 /\ q = 1) \/ (p = -1 /\ q = 0) \/ (p = 0 /\ q = -1)
  BY <1>1, <1>4
<1> QED
  BY <1>1, <1>5 DEF Units, One, QuarterTurn, HalfTurn, BackTurn

\* Turning by an angle and back.
LEMMA TurnFacts ==
  ASSUME NEW v \in Int
  PROVE  IPow(v) \in Units /\ -v \in Int /\ IPow(-v) = Conj(IPow(v))
<1>1. (v % 4) \in {0, 1, 2, 3} /\ -v \in Int /\ (-v) % 4 \in {0, 1, 2, 3}
  BY SMTT(30)
<1>2. /\ v % 4 = 0 => (-v) % 4 = 0
      /\ v % 4 = 1 => (-v) % 4 = 3
      /\ v % 4 = 2 => (-v) % 4 = 2
      /\ v % 4 = 3 => (-v) % 4 = 1
  BY SMTT(30)
<1>3. Conj(One) = One /\ Conj(QuarterTurn) = BackTurn /\ Conj(HalfTurn) = HalfTurn /\ Conj(BackTurn) = QuarterTurn
  BY DEF Conj, Gauss, One, QuarterTurn, HalfTurn, BackTurn
<1> DEFINE I(k) == <<One, QuarterTurn, HalfTurn, BackTurn>>[k + 1]
<1>4. I(0) = One /\ I(1) = QuarterTurn /\ I(2) = HalfTurn /\ I(3) = BackTurn
  OBVIOUS
<1>5. IPow(v) = I(v % 4) /\ IPow(-v) = I((-v) % 4)
  BY DEF IPow, QuarterTurn, HalfTurn, BackTurn
<1> HIDE DEF I
<1> QED
  BY <1>1, <1>2, <1>3, <1>4, <1>5 DEF Units


-----------------------------------------------------------------------------
(* Phases of diagonal operations                                           *)

\* The sizes of the tables over the first wires.
Doubles(f, n) ==
  f \in [0 .. n -> Nat] /\ f[0] = 1 /\ \A k \in 1 .. n : f[k] = 2 * f[k - 1]

\* Two tables of doubled sizes agree wherever both are defined.
LEMMA DoublesOnce ==
  ASSUME NEW n \in Nat, NEW f, Doubles(f, n), NEW m \in 0 .. n, NEW g, Doubles(g, m)
  PROVE  f[m] = g[m] /\ f[m] >= 1
<1> DEFINE T == {k \in 0 .. m : f[k] = g[k] /\ f[k] >= 1}
<1>1. m \in Nat /\ \A k \in 1 .. m : k \in 1 .. n /\ k \in 0 .. m /\ k - 1 \in 0 .. m /\ k - 1 \in 0 .. n
  OBVIOUS
<1>2. 0 \in T
  BY DEF Doubles
<1>3. ASSUME NEW k \in 1 .. m, k - 1 \in T PROVE k \in T
  <2>1. f[k] = 2 * f[k - 1] /\ g[k] = 2 * g[k - 1] /\ f[k - 1] \in Nat
    BY <1>1 DEF Doubles
  <2>2. f[k - 1] = g[k - 1] /\ f[k - 1] >= 1
    BY <1>3
  <2>3. f[k] = g[k] /\ f[k] >= 1
    BY <2>1, <2>2
  <2> QED
    BY <1>1, <2>3
<1> HIDE DEF T
<1>4. \A k \in 0 .. m : k \in T
  BY <1>1, <1>2, <1>3, UpTo
<1> QED
  BY <1>1, <1>4 DEF T

\* LocalDimension of n wires is the end of a chain of doublings from 1.
LEMMA DimensionChain ==
  ASSUME NEW n \in Nat
  PROVE  \E f : Doubles(f, n) /\ LocalDimension(n) = f[n]
<1> DEFINE Body(g) == [k \in 0 .. n |-> IF k = 0 THEN 1 ELSE 2 * g[k - 1]]
           size == CHOOSE g : g = Body(g)
           step == [k \in 1 .. n |-> [x \in Nat |-> 2 * x]]
<1>1. step \in [1 .. n -> [Nat -> Nat]] /\ 1 \in Nat
  OBVIOUS
<1>2. PICK g : IsChain(g, n, Nat, 1, step)
  <2> HIDE DEF step
  <2> QED
    BY <1>1, Chain
<1>3. Doubles(g, n)
  <2>1. g \in [0 .. n -> Nat] /\ g[0] = 1 /\ \A k \in 1 .. n : g[k] = step[k][g[k - 1]]
    BY <1>2 DEF IsChain
  <2>2. \A k \in 1 .. n : g[k - 1] \in Nat
    BY <2>1
  <2>3. \A k \in 1 .. n : \A x \in Nat : step[k][x] = 2 * x
    OBVIOUS
  <2> HIDE DEF step
  <2> QED
    BY <2>1, <2>2, <2>3 DEF Doubles
<1>4. g = Body(g)
  <2>1. g = [k \in 0 .. n |-> g[k]] /\ g[0] = 1
    BY <1>3 DEF Doubles
  <2>2. \A k \in 0 .. n : g[k] = IF k = 0 THEN 1 ELSE 2 * g[k - 1]
    BY <1>3 DEF Doubles
  <2> QED
    BY <2>1, <2>2
<1>5. size = Body(size)
  <2> HIDE DEF Body
  <2> QED
    BY <1>4
<1>6. Doubles(size, n)
  <2> HIDE DEF size
  <2>1. \A k \in 0 .. n : size[k] = IF k = 0 THEN 1 ELSE 2 * size[k - 1]
    <3>1. size = [k \in 0 .. n |-> IF k = 0 THEN 1 ELSE 2 * size[k - 1]]
      BY <1>5
    <3> QED
      BY <3>1
  <2> DEFINE T == {k \in 0 .. n : size[k] \in Nat}
  <2>2. 0 \in T
    BY <2>1
  <2>3. ASSUME NEW k \in 1 .. n, k - 1 \in T PROVE k \in T
    <3>1. size[k] = 2 * size[k - 1] /\ size[k - 1] \in Nat
      BY <2>1, <2>3
    <3> QED
      BY <3>1
  <2> HIDE DEF T
  <2>4. \A k \in 0 .. n : k \in T
    BY <2>2, <2>3, UpTo
  <2>5. \A k \in 0 .. n : size[k] \in Nat
    BY <2>4 DEF T
  <2>6. size = [k \in 0 .. n |-> size[k]]
    BY <1>5
  <2>7. size \in [0 .. n -> Nat]
    BY <2>5, <2>6
  <2>8. size[0] = 1 /\ \A k \in 1 .. n : size[k] = 2 * size[k - 1]
    BY <2>1
  <2> QED
    BY <2>7, <2>8 DEF Doubles
<1>7. LocalDimension(n) = size[n]
  BY DEF LocalDimension
<1> HIDE DEF size
<1> QED
  BY <1>6, <1>7

\* One wire more doubles a table.
LEMMA DimensionIs ==
  ASSUME NEW n \in Nat
  PROVE  /\ LocalDimension(n) \in Nat /\ LocalDimension(n) >= 1
         /\ LocalDimension(0) = 1
         /\ n > 0 => LocalDimension(n) = 2 * LocalDimension(n - 1)
<1>1. PICK f : Doubles(f, n) /\ LocalDimension(n) = f[n]
  BY DimensionChain
<1>2. ASSUME NEW m \in 0 .. n PROVE LocalDimension(m) = f[m] /\ f[m] >= 1 /\ f[m] \in Nat
  <2>1. m \in Nat
    OBVIOUS
  <2>2. PICK g : Doubles(g, m) /\ LocalDimension(m) = g[m]
    BY <2>1, DimensionChain
  <2>3. f[m] = g[m] /\ f[m] >= 1
    BY <1>1, <2>2, DoublesOnce
  <2>4. f[m] \in Nat
    BY <1>1 DEF Doubles
  <2> QED
    BY <2>2, <2>3, <2>4
<1>3. n \in 0 .. n /\ 0 \in 0 .. n /\ (n > 0 => n - 1 \in 0 .. n /\ n \in 1 .. n)
  OBVIOUS
<1>4. f[0] = 1 /\ (n > 0 => f[n] = 2 * f[n - 1])
  BY <1>1, <1>3 DEF Doubles
<1> QED
  BY <1>2, <1>3, <1>4

\* The index of a word in a table, wire by wire.
Bit(wires, word, k) == IF wires[k] \in word THEN 1 ELSE 0
Reads(f, wires, word, n) ==
  f \in [0 .. n -> Nat] /\ f[0] = 0 /\ \A k \in 1 .. n : f[k] = 2 * f[k - 1] + Bit(wires, word, k)

\* LocalIndex folds the wires into a binary number, first wire highest.
LEMMA IndexChain ==
  ASSUME NEW wires, Len(wires) \in Nat, NEW word
  PROVE  \E f : Reads(f, wires, word, Len(wires)) /\ LocalIndex(wires, word) = 1 + f[Len(wires)]
<1> DEFINE n == Len(wires)
           Body(g) == [k \in 0 .. n |-> IF k = 0 THEN 0 ELSE 2 * g[k - 1] + (IF wires[k] \in word THEN 1 ELSE 0)]
           index == CHOOSE g : g = Body(g)
           step == [k \in 1 .. n |-> [x \in Nat |-> 2 * x + (IF wires[k] \in word THEN 1 ELSE 0)]]
<1>1. step \in [1 .. n -> [Nat -> Nat]] /\ 0 \in Nat /\ n \in Nat
  OBVIOUS
<1>2. PICK g : IsChain(g, n, Nat, 0, step)
  <2> HIDE DEF step, n
  <2> QED
    BY <1>1, Chain
<1>3. Reads(g, wires, word, n)
  <2>1. g \in [0 .. n -> Nat] /\ g[0] = 0 /\ \A k \in 1 .. n : g[k] = step[k][g[k - 1]]
    BY <1>2 DEF IsChain
  <2>2. \A k \in 1 .. n : g[k - 1] \in Nat
    BY <1>1, <2>1
  <2>3. \A k \in 1 .. n : \A x \in Nat : step[k][x] = 2 * x + Bit(wires, word, k)
    BY DEF Bit
  <2> HIDE DEF step, n
  <2> QED
    BY <2>1, <2>2, <2>3 DEF Reads
<1>4. g = Body(g)
  <2>1. g = [k \in 0 .. n |-> g[k]] /\ g[0] = 0
    BY <1>3 DEF Reads
  <2>2. \A k \in 0 .. n : g[k] = IF k = 0 THEN 0 ELSE 2 * g[k - 1] + (IF wires[k] \in word THEN 1 ELSE 0)
    <3> HIDE DEF n
    <3> QED
      BY <1>1, <1>3 DEF Reads, Bit
  <2> HIDE DEF n
  <2> QED
    BY <2>1, <2>2
<1>5. index = Body(index)
  <2> HIDE DEF Body
  <2> QED
    BY <1>4
<1>6. Reads(index, wires, word, n)
  <2> HIDE DEF index, n
  <2>1. \A k \in 0 .. n : index[k] = IF k = 0 THEN 0 ELSE 2 * index[k - 1] + Bit(wires, word, k)
    <3>1. index = [k \in 0 .. n |-> IF k = 0 THEN 0 ELSE 2 * index[k - 1] + (IF wires[k] \in word THEN 1 ELSE 0)]
      BY <1>5
    <3> QED
      BY <3>1 DEF Bit
  <2> DEFINE T == {k \in 0 .. n : index[k] \in Nat}
  <2>2. 0 \in T
    BY <1>1, <2>1
  <2>3. ASSUME NEW k \in 1 .. n, k - 1 \in T PROVE k \in T
    <3>1. index[k] = 2 * index[k - 1] + Bit(wires, word, k) /\ index[k - 1] \in Nat
      BY <1>1, <2>1, <2>3
    <3>2. Bit(wires, word, k) \in Nat
      BY DEF Bit
    <3>3. index[k] \in Nat
      BY <3>1, <3>2
    <3> QED
      BY <1>1, <3>3
  <2> HIDE DEF T
  <2>4. \A k \in 0 .. n : k \in T
    BY <1>1, <2>2, <2>3, UpTo
  <2>5. \A k \in 0 .. n : index[k] \in Nat
    BY <2>4 DEF T
  <2>6. index = [k \in 0 .. n |-> index[k]]
    BY <1>5
  <2>7. index \in [0 .. n -> Nat]
    BY <2>5, <2>6
  <2>8. index[0] = 0 /\ \A k \in 1 .. n : index[k] = 2 * index[k - 1] + Bit(wires, word, k)
    BY <1>1, <2>1
  <2> QED
    BY <2>7, <2>8 DEF Reads
<1>7. LocalIndex(wires, word) = 1 + index[n]
  BY DEF LocalIndex
<1> HIDE DEF index
<1> QED
  BY <1>6, <1>7

\* It is an index of the table; over one and two wires it is as expected.
LEMMA IndexIs ==
  ASSUME NEW wires, Len(wires) \in Nat, NEW word
  PROVE  /\ LocalIndex(wires, word) \in 1 .. LocalDimension(Len(wires))
         /\ Len(wires) = 1 => LocalIndex(wires, word) = 1 + Bit(wires, word, 1)
         /\ Len(wires) = 2 => LocalIndex(wires, word) = 1 + 2 * Bit(wires, word, 1) + Bit(wires, word, 2)
<1> DEFINE n == Len(wires)
<1>1. PICK f : Reads(f, wires, word, n) /\ LocalIndex(wires, word) = 1 + f[n]
  BY IndexChain
<1>2. n \in Nat /\ \A k : Bit(wires, word, k) \in {0, 1}
  BY DEF Bit
<1> HIDE DEF n
<1>3. f \in [0 .. n -> Nat] /\ f[0] = 0 /\ \A k \in 1 .. n : f[k] = 2 * f[k - 1] + Bit(wires, word, k)
  BY <1>1 DEF Reads
<1>4. f[n] < LocalDimension(n)
  <2> DEFINE T == {k \in 0 .. n : f[k] < LocalDimension(k)}
  <2>1. 0 \in T
    BY <1>2, <1>3, DimensionIs
  <2>2. ASSUME NEW k \in 1 .. n, k - 1 \in T PROVE k \in T
    <3>1. k \in Nat /\ k > 0 /\ k - 1 \in Nat /\ k \in 0 .. n /\ k - 1 \in 0 .. n
      BY <1>2
    <3>2. LocalDimension(k) = 2 * LocalDimension(k - 1)
      BY <3>1, DimensionIs
    <3>3. LocalDimension(k - 1) \in Nat
      BY <3>1, DimensionIs
    <3>4. f[k] = 2 * f[k - 1] + Bit(wires, word, k) /\ f[k - 1] \in Nat /\ f[k - 1] < LocalDimension(k - 1)
      BY <1>3, <2>2, <3>1
    <3>5. f[k] < LocalDimension(k)
      <4> DEFINE b == Bit(wires, word, k)
                 d == LocalDimension(k - 1)
                 e == f[k - 1]
      <4>1. b \in {0, 1} /\ d \in Nat /\ e \in Nat /\ e < d
        BY <1>2, <3>3, <3>4
      <4> HIDE DEF b, d, e
      <4>2. 2 * e + b < 2 * d
        BY <4>1
      <4> QED
        BY <3>2, <3>4, <4>2 DEF b, d, e
    <3> QED
      BY <3>1, <3>5
  <2> HIDE DEF T
  <2>3. \A k \in 0 .. n : k \in T
    BY <1>2, <2>1, <2>2, UpTo
  <2> QED
    BY <1>2, <2>3 DEF T
<1>5. LocalIndex(wires, word) \in 1 .. LocalDimension(n)
  <2> DEFINE d == LocalDimension(n)
             e == f[n]
  <2>1. d \in Nat /\ e \in Nat /\ e < d
    BY <1>2, <1>3, <1>4, DimensionIs
  <2> HIDE DEF d, e
  <2>2. 1 + e \in 1 .. d
    BY <2>1
  <2> QED
    BY <1>1, <2>2 DEF d, e
<1>6. n = 1 => f[1] = Bit(wires, word, 1)
  BY <1>2, <1>3
<1>7. n = 2 => f[2] = 2 * Bit(wires, word, 1) + Bit(wires, word, 2)
  <2> SUFFICES ASSUME n = 2 PROVE f[2] = 2 * Bit(wires, word, 1) + Bit(wires, word, 2)
    OBVIOUS
  <2>1. f[1] = 2 * f[0] + Bit(wires, word, 1) /\ f[2] = 2 * f[1] + Bit(wires, word, 2)
    BY <1>3
  <2> QED
    BY <1>2, <1>3, <2>1
<1>8. n = 2 => LocalIndex(wires, word) = 1 + 2 * Bit(wires, word, 1) + Bit(wires, word, 2)
  <2> SUFFICES ASSUME n = 2 PROVE LocalIndex(wires, word) = 1 + 2 * Bit(wires, word, 1) + Bit(wires, word, 2)
    OBVIOUS
  <2>1. LocalIndex(wires, word) = 1 + (2 * Bit(wires, word, 1) + Bit(wires, word, 2))
    BY <1>1, <1>7
  <2>2. Bit(wires, word, 1) \in Int /\ Bit(wires, word, 2) \in Int
    BY <1>2
  <2> HIDE DEF Bit
  <2> QED
    BY <2>1, <2>2
<1>9. n = 1 => LocalIndex(wires, word) = 1 + Bit(wires, word, 1)
  BY <1>1, <1>6
<1> QED
  BY <1>5, <1>8, <1>9 DEF n


\* Resolved angles: the fixed ones are those of the program.
LegalAngles(angle_values, program) ==
  /\ DOMAIN angle_values = DOMAIN program.angles
  /\ \A a \in DOMAIN program.angles :
       /\ angle_values[a] \in Int
       /\ IsStatic(program.angles[a]) => angle_values[a] = program.angles[a].static

\* The phase of a legal diagonal operation is a unit.
LEMMA PhaseIsUnit ==
  ASSUME NEW program, NEW op, LegalOp(op, program), IsDiagonal(op),
         NEW angle_values, LegalAngles(angle_values, program), NEW word
  PROVE  DiagonalPhase(op, angle_values, word) \in Units
<1> DEFINE v == angle_values[op.angle]
<1>1. HasAngle(op) => IPow(v) \in Units /\ IPow(-v) \in Units
  <2> SUFFICES ASSUME HasAngle(op) PROVE IPow(v) \in Units /\ IPow(-v) \in Units
    OBVIOUS
  <2>1. op.angle \in DOMAIN program.angles
    BY DEF LegalOp
  <2>2. v \in Int
    BY <2>1 DEF LegalAngles
  <2> HIDE DEF v
  <2> QED
    BY <2>2, TurnFacts, UnitFacts
<1>2. One \in Units /\ Gauss(-1, 0) \in Units
  BY DEF Units, HalfTurn
<1>3. op.kind = "diagonal" => op.payload[LocalIndex(op.wires, word)] \in Units
  <2> SUFFICES ASSUME op.kind = "diagonal" PROVE op.payload[LocalIndex(op.wires, word)] \in Units
    OBVIOUS
  <2> DEFINE i == LocalIndex(op.wires, word)
             payload == op.payload
  <2>1. /\ payload \in Seq(Complex) /\ Len(payload) = LocalDimension(Len(op.wires))
        /\ \A j \in DOMAIN payload : NormSqr(payload[j]) = 1
        /\ op.wires \in Seq(Nat)
    BY DEF LegalOp, IsOperation
  <2>2. i \in 1 .. Len(payload)
    BY <2>1, IndexIs
  <2> HIDE DEF i, payload
  <2>3. payload[i] \in Complex /\ NormSqr(payload[i]) = 1
    BY <2>1, <2>2
  <2> QED
    BY <2>3, NormOne DEF i, payload
<1>4. CASE op.kind = "rz"
  BY <1>1, <1>4 DEF DiagonalPhase, HasAngle
<1>5. CASE op.kind = "rzz"
  BY <1>1, <1>5 DEF DiagonalPhase, HasAngle
<1>6. CASE op.kind = "cz"
  BY <1>2, <1>6 DEF DiagonalPhase
<1>7. CASE op.kind = "cphase"
  BY <1>1, <1>2, <1>7 DEF DiagonalPhase, HasAngle
<1>8. CASE op.kind = "diagonal"
  BY <1>3, <1>8 DEF DiagonalPhase
<1> QED
  BY <1>4, <1>5, <1>6, <1>7, <1>8 DEF LegalOp, IsOperation, IsDiagonal

-----------------------------------------------------------------------------
(* Products of phases                                                      *)

Multiplies(f, s, n) ==
  f \in [0 .. n -> Units] /\ f[0] = One /\ \A k \in 1 .. n : f[k] = Times(f[k - 1], s[k])

\* Running products of lists that agree on a prefix agree on it.
LEMMA ProductOnce ==
  ASSUME NEW n \in Nat, NEW m \in 0 .. n, NEW s, NEW t, Agree(s, t, 1 .. m),
         NEW f, Multiplies(f, s, n), NEW g, Multiplies(g, t, m)
  PROVE  f[m] = g[m]
<1> DEFINE T == {k \in 0 .. m : f[k] = g[k]}
<1>1. m \in Nat /\ \A k \in 1 .. m : k \in 1 .. n /\ k \in 0 .. m
  OBVIOUS
<1>2. 0 \in T
  BY DEF Multiplies
<1>3. ASSUME NEW k \in 1 .. m, k - 1 \in T PROVE k \in T
  BY <1>1, <1>3 DEF Multiplies, Agree
<1> HIDE DEF T
<1>4. \A k \in 0 .. m : k \in T
  BY <1>1, <1>2, <1>3, UpTo
<1> QED
  BY <1>1, <1>4 DEF T

\* PhaseProduct is the end of a chain of products from One.
LEMMA ProductChain ==
  ASSUME NEW n \in Nat, NEW s, Len(s) = n, \A k \in 1 .. n : s[k] \in Units
  PROVE  \E f : Multiplies(f, s, n) /\ PhaseProduct(s) = f[n]
<1> DEFINE Body(g) == [k \in 0 .. n |-> IF k = 0 THEN One ELSE Times(g[k - 1], s[k])]
           product == CHOOSE g : g = Body(g)
           step == [k \in 1 .. n |-> [x \in Units |-> Times(x, s[k])]]
<1>1. step \in [1 .. n -> [Units -> Units]] /\ One \in Units
  <2>1. \A k \in 1 .. n : \A x \in Units : Times(x, s[k]) \in Units
    BY UnitFacts
  <2>2. One \in Units
    BY DEF Units
  <2> QED
    BY <2>1, <2>2
<1>2. PICK g : IsChain(g, n, Units, One, step)
  <2> HIDE DEF step
  <2> QED
    BY <1>1, Chain
<1>3. Multiplies(g, s, n)
  <2>1. g \in [0 .. n -> Units] /\ g[0] = One /\ \A k \in 1 .. n : g[k] = step[k][g[k - 1]]
    BY <1>2 DEF IsChain
  <2>2. \A k \in 1 .. n : g[k - 1] \in Units
    BY <2>1
  <2>3. \A k \in 1 .. n : \A x \in Units : step[k][x] = Times(x, s[k])
    OBVIOUS
  <2> HIDE DEF step
  <2> QED
    BY <2>1, <2>2, <2>3 DEF Multiplies
<1>4. g = Body(g)
  <2>1. g = [k \in 0 .. n |-> g[k]] /\ g[0] = One
    BY <1>3 DEF Multiplies
  <2>2. \A k \in 0 .. n : g[k] = IF k = 0 THEN One ELSE Times(g[k - 1], s[k])
    BY <1>3 DEF Multiplies
  <2> QED
    BY <2>1, <2>2
<1>5. product = Body(product)
  <2> HIDE DEF Body
  <2> QED
    BY <1>4
<1>6. Multiplies(product, s, n)
  <2> HIDE DEF product
  <2>1. \A k \in 0 .. n : product[k] = IF k = 0 THEN One ELSE Times(product[k - 1], s[k])
    <3>1. product = [k \in 0 .. n |-> IF k = 0 THEN One ELSE Times(product[k - 1], s[k])]
      BY <1>5
    <3> QED
      BY <3>1
  <2> DEFINE T == {k \in 0 .. n : product[k] \in Units}
  <2>2. 0 \in T
    BY <1>1, <2>1
  <2>3. ASSUME NEW k \in 1 .. n, k - 1 \in T PROVE k \in T
    <3>1. product[k] = Times(product[k - 1], s[k]) /\ product[k - 1] \in Units
      BY <2>1, <2>3
    <3>2. product[k] \in Units
      BY <3>1, UnitFacts
    <3> QED
      BY <3>2
  <2> HIDE DEF T
  <2>4. \A k \in 0 .. n : k \in T
    BY <2>2, <2>3, UpTo
  <2>5. \A k \in 0 .. n : product[k] \in Units
    BY <2>4 DEF T
  <2>6. product = [k \in 0 .. n |-> product[k]]
    BY <1>5
  <2>7. product \in [0 .. n -> Units]
    BY <2>5, <2>6
  <2>8. product[0] = One /\ \A k \in 1 .. n : product[k] = Times(product[k - 1], s[k])
    BY <2>1
  <2> QED
    BY <2>7, <2>8 DEF Multiplies
<1>7. PhaseProduct(s) = product[n]
  BY DEF PhaseProduct
<1> HIDE DEF product
<1> QED
  BY <1>6, <1>7

\* What the first operations multiply the amplitude of a word by.
Effect(operations, angle_values, word, n) ==
  PhaseProduct([j \in 1 .. n |-> DiagonalPhase(operations[j], angle_values, word)])

\* One operation more is one factor more.
LEMMA EffectSteps ==
  ASSUME NEW n \in Nat, NEW operations, NEW angle_values, NEW word,
         \A j \in 1 .. n : DiagonalPhase(operations[j], angle_values, word) \in Units
  PROVE  /\ Effect(operations, angle_values, word, n) \in Units
         /\ Effect(operations, angle_values, word, 0) = One
         /\ n > 0 => Effect(operations, angle_values, word, n)
                       = Times(Effect(operations, angle_values, word, n - 1),
                               DiagonalPhase(operations[n], angle_values, word))
<1> DEFINE P(m) == [j \in 1 .. m |-> DiagonalPhase(operations[j], angle_values, word)]
<1>1. ASSUME NEW m \in 0 .. n
      PROVE  /\ Len(P(m)) = m /\ m \in Nat
             /\ \A j \in 1 .. m : P(m)[j] = DiagonalPhase(operations[j], angle_values, word) /\ P(m)[j] \in Units
  <2>1. Len(P(m)) = m
    <3> DEFINE f == P(m)
    <3>1. f = [j \in 1 .. m |-> f[j]] /\ m \in Nat
      OBVIOUS
    <3> HIDE DEF f
    <3>2. Len(f) = m
      BY <3>1, SeqOfFunction
    <3> QED
      BY <3>2 DEF f
  <2>2. \A j \in 1 .. m : j \in 1 .. n /\ P(m)[j] = DiagonalPhase(operations[j], angle_values, word)
    OBVIOUS
  <2> HIDE DEF P
  <2> QED
    BY <2>1, <2>2
<1>2. \A m \in 0 .. n : Effect(operations, angle_values, word, m) = PhaseProduct(P(m))
  BY DEF Effect
<1> HIDE DEF P
<1>3. n \in 0 .. n /\ 0 \in 0 .. n /\ (n > 0 => n - 1 \in 0 .. n /\ n \in 1 .. n)
  OBVIOUS
<1>4. PICK f : Multiplies(f, P(n), n) /\ PhaseProduct(P(n)) = f[n]
  BY <1>1, <1>3, ProductChain
<1>5. ASSUME NEW m \in 0 .. n PROVE PhaseProduct(P(m)) = f[m]
  <2>1. PICK g : Multiplies(g, P(m), m) /\ PhaseProduct(P(m)) = g[m]
    BY <1>1, ProductChain
  <2>2. \A j \in 1 .. m : P(n)[j] = P(m)[j]
    <3>1. \A j \in 1 .. m : j \in 1 .. n
      OBVIOUS
    <3> QED
      BY <1>1, <1>3, <3>1
  <2>3. f[m] = g[m]
    <3> DEFINE s == P(n)
               t == P(m)
    <3>1. Agree(s, t, 1 .. m)
      BY <2>2 DEF Agree
    <3>2. Multiplies(f, s, n) /\ Multiplies(g, t, m)
      BY <1>4, <2>1
    <3> HIDE DEF s, t
    <3> QED
      BY <3>1, <3>2, ProductOnce
  <2> QED
    BY <2>1, <2>3
<1>6. f[n] \in Units /\ f[0] = One /\ (n > 0 => f[n] = Times(f[n - 1], P(n)[n]))
  BY <1>3, <1>4 DEF Multiplies
<1> QED
  BY <1>1, <1>2, <1>3, <1>5, <1>6


-----------------------------------------------------------------------------
(* Folding of static tables                                                *)

Tables == [kind : {"diagonal"}, wires : Seq(Nat), payload : Seq(Complex)]
Foldable(op, program) == ~IsSparse(op) /\ StaticAngle(op, program)
Merged(a, b) ==
  [a EXCEPT !.payload = [j \in DOMAIN a.payload |-> Times(a.payload[j], b.payload[j])]]
FoldStep(acc, op, program) ==
  IF ~Foldable(op, program) THEN Append(acc, op)
  ELSE IF acc # <<>> /\ Last(acc).kind = "diagonal" /\ SameWires(Last(acc), AsPayload(op, program))
  THEN [acc EXCEPT ![Len(acc)] = Merged(@, AsPayload(op, program))]
  ELSE Append(acc, AsPayload(op, program))

\* A unit table over legal wires is a legal operation.
LEMMA TableIsLegal ==
  ASSUME NEW program, NEW wires \in Seq(Nat), NEW payload, payload \in Seq(Complex),
         \A k \in DOMAIN wires : wires[k] \in Qubits(program.nqubits),
         Len(payload) = LocalDimension(Len(wires)), \A j \in DOMAIN payload : payload[j] \in Units
  PROVE  LET t == [kind |-> "diagonal", wires |-> wires, payload |-> payload]
         IN  /\ t \in Tables /\ LegalOp(t, program) /\ IsDiagonal(t)
             /\ \A angle_values, word :
                  DiagonalPhase(t, angle_values, word) = payload[LocalIndex(wires, word)]
<1> DEFINE t == [kind |-> "diagonal", wires |-> wires, payload |-> payload]
<1>1. t.kind = "diagonal" /\ t.wires = wires /\ t.payload = payload /\ t \in Tables
  BY DEF Tables
<1> HIDE DEF t
<1>2. ~HasAngle(t) /\ IsDiagonal(t) /\ IsOperation(t)
  BY <1>1 DEF HasAngle, IsDiagonal, IsOperation
<1>3. \A j \in DOMAIN payload : NormSqr(payload[j]) = 1
  <2>1. \A u \in Units : NormSqr(u) = 1
    BY DEF Units, One, QuarterTurn, HalfTurn, BackTurn, Gauss, NormSqr
  <2> QED
    BY <2>1
<1>4. LegalOp(t, program)
  BY <1>1, <1>2, <1>3 DEF LegalOp
<1>5. \A angle_values, word : DiagonalPhase(t, angle_values, word) = payload[LocalIndex(wires, word)]
  BY <1>1 DEF DiagonalPhase
<1> QED
  BY <1>1, <1>2, <1>4, <1>5 DEF t

\* A static operation as a table has the same phases.
LEMMA AsPayloadIs ==
  ASSUME NEW program, NEW op, LegalOp(op, program), IsDiagonal(op), Foldable(op, program),
         \A a \in DOMAIN program.angles : IsStatic(program.angles[a]) => program.angles[a].static \in Int
  PROVE  /\ AsPayload(op, program) \in Tables /\ AsPayload(op, program).wires = op.wires
         /\ LegalOp(AsPayload(op, program), program) /\ IsDiagonal(AsPayload(op, program))
         /\ \A angle_values, word : LegalAngles(angle_values, program) =>
              DiagonalPhase(AsPayload(op, program), angle_values, word) = DiagonalPhase(op, angle_values, word)
<1> DEFINE v == ResolveAngleValues(program, [k \in 1 .. program.nparameters |-> 0])
           angle == v[op.angle]
           turn == IPow(angle)
           back == IPow(-angle)
           payload == CASE op.kind = "rz" -> <<back, turn>>
                        [] op.kind = "rzz" -> <<back, turn, turn, back>>
                        [] op.kind = "diagonal" -> op.payload
           t == [kind |-> "diagonal", wires |-> op.wires, payload |-> payload]
<1>1. AsPayload(op, program) = t
  BY DEF AsPayload
<1>2. /\ op.wires \in Seq(Nat) /\ Len(op.wires) \in Nat
      /\ \A k \in DOMAIN op.wires : op.wires[k] \in Qubits(program.nqubits)
      /\ op.kind \in {"rz", "rzz", "diagonal"}
      /\ op.kind = "rz" => Len(op.wires) = 1
      /\ op.kind = "rzz" => Len(op.wires) = 2
  BY DEF LegalOp, IsOperation, IsDiagonal, Foldable, IsSparse
<1>3. ASSUME HasAngle(op)
      PROVE  /\ op.angle \in DOMAIN program.angles /\ IsStatic(program.angles[op.angle])
             /\ angle = program.angles[op.angle].static /\ angle \in Int
  <2>1. op.angle \in DOMAIN program.angles /\ IsStatic(program.angles[op.angle])
    BY <1>3 DEF LegalOp, Foldable, StaticAngle
  <2>2. angle = program.angles[op.angle].static
    BY <2>1 DEF ResolveAngleValues
  <2> QED
    BY <2>1, <2>2
<1>4. HasAngle(op) => turn \in Units /\ back \in Units
  <2> HIDE DEF angle
  <2> QED
    BY <1>3, TurnFacts, UnitFacts
<1>5. LocalDimension(1) = 2 /\ LocalDimension(2) = 4
  <2>1. LocalDimension(0) = 1 /\ LocalDimension(1) = 2 * LocalDimension(1 - 1) /\ LocalDimension(2) = 2 * LocalDimension(2 - 1)
    BY DimensionIs
  <2>2. 1 - 1 = 0 /\ 2 - 1 = 1
    OBVIOUS
  <2>3. LocalDimension(1) = 2
    BY <2>1, <2>2
  <2> QED
    BY <2>1, <2>2, <2>3
<1>6. /\ payload \in Seq(Complex) /\ Len(payload) = LocalDimension(Len(op.wires))
      /\ \A j \in DOMAIN payload : payload[j] \in Units
      /\ op.kind = "rz" => payload = <<back, turn>>
      /\ op.kind = "rzz" => payload = <<back, turn, turn, back>>
      /\ op.kind = "diagonal" => payload = op.payload
  <2>0. Units \subseteq Complex
    BY UnitFacts
  <2>1. CASE op.kind = "rz"
    <3>1. payload = <<back, turn>> /\ HasAngle(op)
      BY <2>1 DEF HasAngle
    <3>2. turn \in Units /\ back \in Units
      BY <1>4, <3>1
    <3> HIDE DEF turn, back, payload
    <3>3. <<back, turn>> \in Seq(Complex) /\ Len(<<back, turn>>) = 2 /\ DOMAIN <<back, turn>> = 1 .. 2
          /\ <<back, turn>>[1] = back /\ <<back, turn>>[2] = turn /\ \A j \in 1 .. 2 : j = 1 \/ j = 2
      BY <2>0, <3>2
    <3> QED
      BY <1>2, <1>5, <2>1, <3>1, <3>2, <3>3
  <2>2. CASE op.kind = "rzz"
    <3>1. payload = <<back, turn, turn, back>> /\ HasAngle(op)
      BY <2>2 DEF HasAngle
    <3>2. turn \in Units /\ back \in Units
      BY <1>4, <3>1
    <3> HIDE DEF turn, back, payload
    <3> DEFINE q == <<back, turn, turn, back>>
    <3>3. q \in Seq(Complex) /\ Len(q) = 4 /\ DOMAIN q = 1 .. 4
          /\ q[1] = back /\ q[2] = turn /\ q[3] = turn /\ q[4] = back
      BY <2>0, <3>2
    <3>4. \A j \in 1 .. 4 : j = 1 \/ j = 2 \/ j = 3 \/ j = 4
      OBVIOUS
    <3>5. \A j \in DOMAIN q : q[j] \in Units
      <4> HIDE DEF q
      <4> QED
        BY <3>2, <3>3, <3>4
    <3>6. payload = q
      BY <3>1
    <3> HIDE DEF q
    <3> QED
      BY <1>2, <1>5, <2>2, <3>1, <3>3, <3>5, <3>6
  <2>3. CASE op.kind = "diagonal"
    <3>1. payload = op.payload
      BY <2>3
    <3>2. /\ op.payload \in Seq(Complex) /\ Len(op.payload) = LocalDimension(Len(op.wires))
          /\ \A j \in DOMAIN op.payload : NormSqr(op.payload[j]) = 1
      BY <2>3 DEF LegalOp, IsOperation
    <3>3. \A j \in DOMAIN op.payload : op.payload[j] \in Complex
      BY <3>2
    <3>4. \A j \in DOMAIN op.payload : op.payload[j] \in Units
      BY <3>2, <3>3, NormOne
    <3> HIDE DEF payload
    <3> QED
      BY <2>3, <3>1, <3>2, <3>4
  <2> QED
    BY <1>2, <2>1, <2>2, <2>3
<1> HIDE DEF payload, turn, back
<1>7. /\ t \in Tables /\ LegalOp(t, program) /\ IsDiagonal(t) /\ t.wires = op.wires
      /\ \A angle_values, word :
           DiagonalPhase(t, angle_values, word) = payload[LocalIndex(op.wires, word)]
  BY <1>2, <1>6, TableIsLegal
<1> HIDE DEF t
<1>8. ASSUME NEW angle_values, NEW word, LegalAngles(angle_values, program)
      PROVE  payload[LocalIndex(op.wires, word)] = DiagonalPhase(op, angle_values, word)
  <2> DEFINE on(k) == op.wires[k] \in word
             i == LocalIndex(op.wires, word)
  <2>1. \A k : Bit(op.wires, word, k) = IF on(k) THEN 1 ELSE 0
    BY DEF Bit
  <2>2. HasAngle(op) => turn = IPow(angle_values[op.angle]) /\ back = IPow(-angle_values[op.angle])
    <3> SUFFICES ASSUME HasAngle(op) PROVE angle_values[op.angle] = angle
      BY DEF turn, back
    <3> HIDE DEF angle
    <3> QED
      BY <1>3, <1>8 DEF LegalAngles
  <2> HIDE DEF angle
  <2>3. CASE op.kind = "rz"
    <3>1. i = 1 + Bit(op.wires, word, 1)
      BY <1>2, <2>3, IndexIs
    <3>2. payload[1] = back /\ payload[2] = turn
      BY <1>6, <2>3
    <3>3. payload[i] = IF on(1) THEN turn ELSE back
      BY <2>1, <3>1, <3>2
    <3>4. DiagonalPhase(op, angle_values, word) = IPow(IF on(1) THEN angle_values[op.angle] ELSE -angle_values[op.angle])
      BY <2>3 DEF DiagonalPhase
    <3>5. HasAngle(op)
      BY <2>3 DEF HasAngle
    <3> QED
      BY <2>2, <3>3, <3>4, <3>5
  <2>4. CASE op.kind = "rzz"
    <3>1. i = 1 + 2 * Bit(op.wires, word, 1) + Bit(op.wires, word, 2)
      BY <1>2, <2>4, IndexIs
    <3>2. payload[1] = back /\ payload[2] = turn /\ payload[3] = turn /\ payload[4] = back
      BY <1>6, <2>4
    <3>3. payload[i] = IF on(1) # on(2) THEN turn ELSE back
      <4>1. CASE on(1) /\ on(2)
        <5>1. i = 4
          BY <2>1, <3>1, <4>1
        <5> QED
          BY <3>2, <4>1, <5>1
      <4>2. CASE on(1) /\ ~on(2)
        <5>1. i = 3
          BY <2>1, <3>1, <4>2
        <5> QED
          BY <3>2, <4>2, <5>1
      <4>3. CASE ~on(1) /\ on(2)
        <5>1. i = 2
          BY <2>1, <3>1, <4>3
        <5> QED
          BY <3>2, <4>3, <5>1
      <4>4. CASE ~on(1) /\ ~on(2)
        <5>1. i = 1
          BY <2>1, <3>1, <4>4
        <5> QED
          BY <3>2, <4>4, <5>1
      <4> QED
        BY <4>1, <4>2, <4>3, <4>4
    <3>4. DiagonalPhase(op, angle_values, word)
            = IPow(IF on(1) # on(2) THEN angle_values[op.angle] ELSE -angle_values[op.angle])
      BY <2>4 DEF DiagonalPhase
    <3>5. HasAngle(op)
      BY <2>4 DEF HasAngle
    <3> QED
      BY <2>2, <3>3, <3>4, <3>5
  <2>5. CASE op.kind = "diagonal"
    BY <1>6, <2>5 DEF DiagonalPhase
  <2> QED
    BY <1>2, <2>3, <2>4, <2>5
<1> QED
  BY <1>1, <1>7, <1>8

\* Two tables over the same wires multiply into one.
LEMMA MergedIs ==
  ASSUME NEW program, NEW a \in Tables, NEW b \in Tables, LegalOp(a, program), LegalOp(b, program),
         a.wires = b.wires
  PROVE  /\ Merged(a, b) \in Tables /\ LegalOp(Merged(a, b), program) /\ IsDiagonal(Merged(a, b))
         /\ \A angle_values, word :
              DiagonalPhase(Merged(a, b), angle_values, word)
                = Times(DiagonalPhase(a, angle_values, word), DiagonalPhase(b, angle_values, word))
<1> DEFINE p == a.payload
           q == b.payload
           r == [j \in DOMAIN p |-> Times(p[j], q[j])]
           d == LocalDimension(Len(a.wires))
           t == [kind |-> "diagonal", wires |-> a.wires, payload |-> r]
<1>1. Merged(a, b) = t
  <2>1. a = [kind |-> "diagonal", wires |-> a.wires, payload |-> a.payload]
    BY DEF Tables
  <2>2. Merged(a, b) = [a EXCEPT !.payload = r]
    BY DEF Merged
  <2> HIDE DEF r
  <2>3. \A c : c = [kind |-> "diagonal", wires |-> a.wires, payload |-> a.payload] =>
                [c EXCEPT !.payload = r] = [kind |-> "diagonal", wires |-> a.wires, payload |-> r]
    OBVIOUS
  <2> QED
    BY <2>1, <2>2, <2>3
<1>2. /\ p \in Seq(Complex) /\ Len(p) = d /\ q \in Seq(Complex) /\ Len(q) = d
      /\ \A j \in DOMAIN p : NormSqr(p[j]) = 1
      /\ \A j \in DOMAIN q : NormSqr(q[j]) = 1
      /\ a.wires \in Seq(Nat) /\ \A k \in DOMAIN a.wires : a.wires[k] \in Qubits(program.nqubits)
  BY DEF LegalOp, Tables
<1>3. DOMAIN p = 1 .. d /\ DOMAIN q = 1 .. d /\ d \in Nat /\ Len(a.wires) \in Nat
  BY <1>2
<1>4. \A j \in 1 .. d : p[j] \in Units /\ q[j] \in Units
  <2> SUFFICES ASSUME NEW j \in 1 .. d PROVE p[j] \in Units /\ q[j] \in Units
    OBVIOUS
  <2>1. p[j] \in Complex /\ q[j] \in Complex /\ NormSqr(p[j]) = 1 /\ NormSqr(q[j]) = 1
    BY <1>2, <1>3
  <2> HIDE DEF p, q
  <2> QED
    BY <2>1, NormOne
<1>5. DOMAIN r = 1 .. d /\ \A j \in 1 .. d : r[j] = Times(p[j], q[j]) /\ r[j] \in Units
  <2>1. \A j \in 1 .. d : Times(p[j], q[j]) \in Units
    BY <1>4, UnitFacts
  <2> HIDE DEF p, q
  <2> QED
    BY <1>3, <2>1
<1>6. r \in Seq(Complex) /\ Len(r) = d
  <2>1. r = [j \in 1 .. d |-> r[j]]
    BY <1>3
  <2>2. \A j \in 1 .. d : r[j] \in Complex
    BY <1>5, UnitFacts
  <2> HIDE DEF r, d
  <2>3. r \in Seq(Complex)
    BY <1>3, <2>1, <2>2
  <2>4. Len(r) = d
    BY <1>3, <2>1, SeqOfFunction
  <2> QED
    BY <2>3, <2>4
<1>7. /\ \A angle_values, word : DiagonalPhase(a, angle_values, word) = p[LocalIndex(a.wires, word)]
      /\ \A angle_values, word : DiagonalPhase(b, angle_values, word) = q[LocalIndex(a.wires, word)]
  BY DEF DiagonalPhase, Tables
<1> HIDE DEF p, q, r, d
<1>8. /\ t \in Tables /\ LegalOp(t, program) /\ IsDiagonal(t)
      /\ \A angle_values, word : DiagonalPhase(t, angle_values, word) = r[LocalIndex(a.wires, word)]
  <2>1. Len(r) = LocalDimension(Len(a.wires)) /\ \A j \in DOMAIN r : r[j] \in Units
    BY <1>5, <1>6 DEF d
  <2> QED
    BY <1>2, <1>6, <2>1, TableIsLegal
<1>9. \A word : LocalIndex(a.wires, word) \in 1 .. d
  BY <1>3, IndexIs DEF d
<1> HIDE DEF t
<1>10. ASSUME NEW angle_values, NEW word
       PROVE  DiagonalPhase(t, angle_values, word)
                = Times(DiagonalPhase(a, angle_values, word), DiagonalPhase(b, angle_values, word))
  BY <1>5, <1>7, <1>8, <1>9
<1> QED
  BY <1>1, <1>8, <1>10


\* What a folded block is made of.
Micro(operations, program) ==
  {op \in Range(operations) \cup Tables :
     LegalOp(op, program) /\ IsDiagonal(op) /\ (op.kind = "diagonal" => op \in Tables)}
\* A block of legal diagonal operations of a program.
DiagonalRun(run, program) ==
  /\ Len(run) \in Nat /\ DOMAIN run = 1 .. Len(run)
  /\ \A k \in 1 .. Len(run) : LegalOp(run[k], program) /\ IsDiagonal(run[k])
  /\ \A a \in DOMAIN program.angles : IsStatic(program.angles[a]) => program.angles[a].static \in Int
UnitPhases(S, angle_values, word) == \A x \in S : DiagonalPhase(x, angle_values, word) \in Units

\* The effect of a list depends on its operations only.
LEMMA EffectAgree ==
  ASSUME NEW n \in Nat, NEW a, NEW b, Agree(a, b, 1 .. n), NEW angle_values, NEW word
  PROVE  Effect(a, angle_values, word, n) = Effect(b, angle_values, word, n)
<1>1. [j \in 1 .. n |-> DiagonalPhase(a[j], angle_values, word)]
        = [j \in 1 .. n |-> DiagonalPhase(b[j], angle_values, word)]
  BY DEF Agree
<1> QED
  BY <1>1 DEF Effect

\* A list with one operation more.
LEMMA EffectAppend ==
  ASSUME NEW S, NEW acc \in Seq(S), NEW op \in S, NEW angle_values, NEW word,
         UnitPhases(S, angle_values, word)
  PROVE  /\ Append(acc, op) \in Seq(S)
         /\ Effect(Append(acc, op), angle_values, word, Len(Append(acc, op)))
              = Times(Effect(acc, angle_values, word, Len(acc)), DiagonalPhase(op, angle_values, word))
<1> DEFINE L == Len(acc)
           next == Append(acc, op)
<1>1. L \in Nat /\ next \in Seq(S) /\ Len(next) = L + 1 /\ next[L + 1] = op
      /\ \A j \in 1 .. L : next[j] = acc[j] /\ acc[j] \in S
  OBVIOUS
<1> HIDE DEF L, next
<1>2. \A j \in 1 .. L + 1 : DiagonalPhase(next[j], angle_values, word) \in Units
  <2>1. \A j \in 1 .. L + 1 : j = L + 1 \/ j \in 1 .. L
    BY <1>1
  <2> QED
    BY <1>1, <2>1 DEF UnitPhases
<1>3. Effect(next, angle_values, word, L + 1)
        = Times(Effect(next, angle_values, word, (L + 1) - 1), DiagonalPhase(next[L + 1], angle_values, word))
  <2>1. L + 1 \in Nat /\ L + 1 > 0
    BY <1>1
  <2> QED
    BY <1>2, <2>1, EffectSteps
<1>4. (L + 1) - 1 = L
  BY <1>1
<1>5. Effect(next, angle_values, word, L) = Effect(acc, angle_values, word, L)
  <2>1. Agree(next, acc, 1 .. L)
    BY <1>1 DEF Agree
  <2> QED
    BY <1>1, <2>1, EffectAgree
<1> QED
  BY <1>1, <1>3, <1>4, <1>5 DEF L, next

\* A list with its last element replaced.
Replaced(next, acc, x) == acc # <<>> /\ next = [acc EXCEPT ![Len(acc)] = x]

\* What is known of a list whose last element was replaced.
LEMMA ReplaceLast ==
  ASSUME NEW S, NEW acc \in Seq(S), NEW x \in S, NEW next, Replaced(next, acc, x)
  PROVE  /\ next \in Seq(S) /\ Len(next) = Len(acc) /\ next[Len(acc)] = x
         /\ \A j \in 1 .. Len(acc) : acc[j] \in S /\ next[j] \in S
         /\ Len(acc) \in Nat /\ Len(acc) > 0 /\ \A j \in 1 .. Len(acc) - 1 : next[j] = acc[j]
<1> DEFINE L == Len(acc)
<1>1. L \in Nat /\ L > 0 /\ DOMAIN acc = 1 .. L /\ L \in 1 .. L /\ \A j \in 1 .. L : acc[j] \in S
  BY DEF Replaced
<1>2. next = [acc EXCEPT ![L] = x]
  BY DEF Replaced
<1> HIDE DEF L
<1>3. DOMAIN next = 1 .. L /\ next[L] = x /\ \A j \in 1 .. L : j # L => next[j] = acc[j]
  BY <1>1, <1>2
<1>4. next = [j \in 1 .. L |-> next[j]]
  BY <1>1, <1>2
<1>8. \A j \in 1 .. L : next[j] \in S
  BY <1>1, <1>3
<1>5. next \in Seq(S)
  BY <1>1, <1>4, <1>8
<1>6. Len(next) = L
  BY <1>1, <1>4, SeqOfFunction
<1>7. \A j \in 1 .. L - 1 : j \in 1 .. L /\ j # L
  BY <1>1
<1> QED
  BY <1>1, <1>3, <1>5, <1>6, <1>7, <1>8 DEF L

\* A list with its last operation replaced by one that does more.
LEMMA EffectReplace ==
  ASSUME NEW S, NEW acc \in Seq(S), NEW op \in S, NEW angle_values, NEW word, NEW u \in Units,
         NEW next, Replaced(next, acc, op),
         UnitPhases(S, angle_values, word),
         DiagonalPhase(op, angle_values, word) = Times(DiagonalPhase(acc[Len(acc)], angle_values, word), u)
  PROVE  Effect(next, angle_values, word, Len(next)) = Times(Effect(acc, angle_values, word, Len(acc)), u)
<1> DEFINE L == Len(acc)
           E(s, m) == Effect(s, angle_values, word, m)
           P(x) == DiagonalPhase(x, angle_values, word)
<1>1. L \in Nat /\ L > 0 /\ \A j \in 1 .. L : acc[j] \in S
  BY ReplaceLast
<1>2. next \in Seq(S) /\ Len(next) = L
  BY ReplaceLast
<1>3. next[L] = op /\ \A j \in 1 .. L - 1 : next[j] = acc[j]
  BY ReplaceLast
<1>4. \A j \in 1 .. L : next[j] \in S
  BY ReplaceLast
<1>0. L - 1 \in Nat
  BY <1>1
<1> HIDE DEF L, E, P
<1>5. E(next, L) = Times(E(next, L - 1), P(next[L])) /\ E(acc, L) = Times(E(acc, L - 1), P(acc[L]))
  <2>1. /\ \A j \in 1 .. L : DiagonalPhase(next[j], angle_values, word) \in Units
        /\ \A j \in 1 .. L : DiagonalPhase(acc[j], angle_values, word) \in Units
    BY <1>1, <1>4 DEF UnitPhases
  <2> QED
    BY <1>1, <2>1, EffectSteps DEF E, P
<1>6. E(next, L - 1) = E(acc, L - 1)
  <2>1. Agree(next, acc, 1 .. L - 1)
    BY <1>3 DEF Agree
  <2> QED
    BY <1>0, <2>1, EffectAgree DEF E
<1>7. E(acc, L - 1) \in Units
  <2>1. \A j \in 1 .. L - 1 : DiagonalPhase(acc[j], angle_values, word) \in Units
    <3>1. \A j \in 1 .. L - 1 : j \in 1 .. L
      BY <1>1
    <3> QED
      BY <1>1, <3>1 DEF UnitPhases
  <2> QED
    BY <1>0, <2>1, EffectSteps DEF E
<1>8. P(acc[L]) \in Units /\ L \in 1 .. L
  BY <1>1 DEF P, UnitPhases
<1>9. P(next[L]) = Times(P(acc[L]), u)
  BY <1>3 DEF P, L
<1>10. Times(E(acc, L - 1), Times(P(acc[L]), u)) = Times(Times(E(acc, L - 1), P(acc[L])), u)
  <2> DEFINE x == E(acc, L - 1)
             y == P(acc[L])
  <2>1. x \in Complex /\ y \in Complex /\ u \in Complex
    BY <1>7, <1>8, UnitFacts
  <2> HIDE DEF x, y
  <2>2. Times(x, Times(y, u)) = Times(Times(x, y), u)
    BY <2>1, ComplexRing
  <2> QED
    BY <2>2 DEF x, y
<1>11. E(next, L) = Times(E(acc, L), u)
  BY <1>5, <1>6, <1>9, <1>10
<1> QED
  BY <1>2, <1>11 DEF L, E

\* Folding keeps to legal operations, and the effect of a list grows by the
\* phase of the operation folded in.
LEMMA FoldStepIs ==
  ASSUME NEW program, NEW run, DiagonalRun(run, program), NEW k \in 1 .. Len(run),
         NEW acc \in Seq(Micro(run, program))
  PROVE  /\ FoldStep(acc, run[k], program) \in Seq(Micro(run, program))
         /\ \A angle_values, word : LegalAngles(angle_values, program) =>
              Effect(FoldStep(acc, run[k], program), angle_values, word, Len(FoldStep(acc, run[k], program)))
                = Times(Effect(acc, angle_values, word, Len(acc)), DiagonalPhase(run[k], angle_values, word))
<1> DEFINE S == Micro(run, program)
           op == run[k]
           t == AsPayload(op, program)
           next == FoldStep(acc, op, program)
<1>1. LegalOp(op, program) /\ IsDiagonal(op) /\ op \in Range(run)
  BY DEF DiagonalRun, Range
<1>2. \A x \in S : LegalOp(x, program) /\ IsDiagonal(x) /\ (x.kind = "diagonal" => x \in Tables)
  BY DEF Micro
<1>3. \A x \in S : \A angle_values, word :
        LegalAngles(angle_values, program) => DiagonalPhase(x, angle_values, word) \in Units
  BY <1>2, PhaseIsUnit
<1>4. CASE ~Foldable(op, program)
  <2>1. op.kind # "diagonal"
    BY <1>4 DEF Foldable, IsSparse, StaticAngle, HasAngle
  <2>2. op \in S
    BY <1>1, <2>1 DEF Micro
  <2>3. next = Append(acc, op)
    BY <1>4 DEF FoldStep
  <2> HIDE DEF S, op, next
  <2>4. next \in Seq(S)
    <3>1. acc \in Seq(S)
      BY DEF S
    <3> QED
      BY <2>2, <2>3, <3>1
  <2>5. ASSUME NEW angle_values, NEW word, LegalAngles(angle_values, program)
        PROVE  Effect(next, angle_values, word, Len(next))
                 = Times(Effect(acc, angle_values, word, Len(acc)), DiagonalPhase(op, angle_values, word))
    <3>1. UnitPhases(S, angle_values, word)
      BY <1>3, <2>5 DEF UnitPhases
    <3>2. acc \in Seq(S)
      BY DEF S
    <3> QED
      BY <2>2, <2>3, <3>1, <3>2, EffectAppend
  <2> QED
    BY <2>4, <2>5 DEF S, op, next
<1>5. CASE Foldable(op, program)
  <2>1. /\ t \in Tables /\ LegalOp(t, program) /\ IsDiagonal(t)
        /\ \A angle_values, word : LegalAngles(angle_values, program) =>
             DiagonalPhase(t, angle_values, word) = DiagonalPhase(op, angle_values, word)
    <3>1. \A a \in DOMAIN program.angles : IsStatic(program.angles[a]) => program.angles[a].static \in Int
      BY DEF DiagonalRun
    <3> HIDE DEF op
    <3> QED
      BY <1>1, <1>5, <3>1, AsPayloadIs
  <2> HIDE DEF t
  <2>2. t \in S
    BY <2>1 DEF Micro
  <2>3. CASE acc # <<>> /\ Last(acc).kind = "diagonal" /\ SameWires(Last(acc), t)
    <3> DEFINE last == acc[Len(acc)]
               m == Merged(last, t)
    <3>1. Replaced(next, acc, m)
      <4>1. next = [acc EXCEPT ![Len(acc)] = m]
        BY <1>5, <2>3 DEF FoldStep, t
      <4> QED
        BY <2>3, <4>1 DEF Replaced
    <3>2. last \in S /\ last = Last(acc)
      BY <2>3 DEF Last
    <3>3. last \in Tables /\ LegalOp(last, program) /\ last.wires = t.wires
      BY <1>2, <2>3, <3>2 DEF SameWires
    <3> HIDE DEF last
    <3>4. /\ m \in Tables /\ LegalOp(m, program) /\ IsDiagonal(m)
          /\ \A angle_values, word :
               DiagonalPhase(m, angle_values, word)
                 = Times(DiagonalPhase(last, angle_values, word), DiagonalPhase(t, angle_values, word))
      BY <2>1, <3>3, MergedIs
    <3> HIDE DEF m, next
    <3>5. m \in S
      BY <3>4 DEF Micro
    <3> HIDE DEF S
    <3>6. acc \in Seq(S)
      BY DEF S
    <3>7. next \in Seq(S)
      BY <3>1, <3>5, <3>6, ReplaceLast
    <3>8. ASSUME NEW angle_values, NEW word, LegalAngles(angle_values, program)
          PROVE  Effect(next, angle_values, word, Len(next))
                   = Times(Effect(acc, angle_values, word, Len(acc)), DiagonalPhase(op, angle_values, word))
      <4>1. UnitPhases(S, angle_values, word)
        BY <1>3, <3>8 DEF UnitPhases
      <4> DEFINE u == DiagonalPhase(t, angle_values, word)
      <4>2. u \in Units /\ u = DiagonalPhase(op, angle_values, word)
        BY <2>1, <2>2, <3>8, <4>1 DEF UnitPhases
      <4>3. DiagonalPhase(m, angle_values, word) = Times(DiagonalPhase(acc[Len(acc)], angle_values, word), u)
        BY <3>4 DEF last
      <4> HIDE DEF u
      <4>4. Effect(next, angle_values, word, Len(next)) = Times(Effect(acc, angle_values, word, Len(acc)), u)
        BY <3>1, <3>5, <3>6, <4>1, <4>2, <4>3, EffectReplace
      <4> QED
        BY <4>2, <4>4
    <3> QED
      BY <3>7, <3>8 DEF S, next
  <2>4. CASE ~(acc # <<>> /\ Last(acc).kind = "diagonal" /\ SameWires(Last(acc), t))
    <3>1. next = Append(acc, t)
      BY <1>5, <2>4 DEF FoldStep, t
    <3> HIDE DEF S, op, next
    <3>2. acc \in Seq(S)
      BY DEF S
    <3>3. next \in Seq(S)
      BY <2>2, <3>1, <3>2
    <3>4. ASSUME NEW angle_values, NEW word, LegalAngles(angle_values, program)
          PROVE  Effect(next, angle_values, word, Len(next))
                   = Times(Effect(acc, angle_values, word, Len(acc)), DiagonalPhase(op, angle_values, word))
      <4>1. UnitPhases(S, angle_values, word)
        BY <1>3, <3>4 DEF UnitPhases
      <4>2. Effect(next, angle_values, word, Len(next))
              = Times(Effect(acc, angle_values, word, Len(acc)), DiagonalPhase(t, angle_values, word))
        BY <2>2, <3>1, <3>2, <4>1, EffectAppend
      <4> QED
        BY <2>1, <3>4, <4>2
    <3> QED
      BY <3>3, <3>4 DEF S, op, next
  <2> QED
    BY <2>3, <2>4
<1> QED
  BY <1>4, <1>5


Folds(f, run, program) ==
  /\ f \in [0 .. Len(run) -> Seq(Micro(run, program))] /\ f[0] = <<>>
  /\ \A k \in 1 .. Len(run) : f[k] = FoldStep(f[k - 1], run[k], program)

\* fold_static_diagonal_operations, operation by operation.
LEMMA FoldChain ==
  ASSUME NEW program, NEW run, DiagonalRun(run, program)
  PROVE  \E f : Folds(f, run, program) /\ FoldStatic(run, program) = f[Len(run)]
<1> DEFINE n == Len(run)
           V == Seq(Micro(run, program))
           Body(g) == [k \in 0 .. n |-> IF k = 0 THEN <<>> ELSE FoldStep(g[k - 1], run[k], program)]
           folded == CHOOSE g : g = Body(g)
           step == [k \in 1 .. n |-> [acc \in V |-> FoldStep(acc, run[k], program)]]
<1>1. n \in Nat
  BY DEF DiagonalRun
<1>2. <<>> \in V
  OBVIOUS
<1>3. \A k \in 1 .. n : \A acc \in V : FoldStep(acc, run[k], program) \in V
  BY FoldStepIs
<1> HIDE DEF n, V
<1>4. step \in [1 .. n -> [V -> V]]
  BY <1>3
<1>5. PICK g : IsChain(g, n, V, <<>>, step)
  <2> HIDE DEF step
  <2> QED
    BY <1>1, <1>2, <1>4, Chain
<1>6. g \in [0 .. n -> V] /\ g[0] = <<>> /\ \A k \in 1 .. n : g[k] = FoldStep(g[k - 1], run[k], program)
  <2>1. g \in [0 .. n -> V] /\ g[0] = <<>> /\ \A k \in 1 .. n : g[k] = step[k][g[k - 1]]
    BY <1>5 DEF IsChain
  <2>2. \A k \in 1 .. n : g[k - 1] \in V
    BY <1>1, <2>1
  <2>3. \A k \in 1 .. n : \A x \in V : step[k][x] = FoldStep(x, run[k], program)
    OBVIOUS
  <2> HIDE DEF step
  <2> QED
    BY <2>1, <2>2, <2>3
<1>7. g = Body(g)
  <2>1. g = [k \in 0 .. n |-> g[k]] /\ g[0] = <<>>
    BY <1>6
  <2>2. \A k \in 0 .. n : g[k] = IF k = 0 THEN <<>> ELSE FoldStep(g[k - 1], run[k], program)
    BY <1>1, <1>6
  <2> QED
    BY <2>1, <2>2
<1>8. folded = Body(folded)
  <2> HIDE DEF Body
  <2> QED
    BY <1>7
<1>9. folded \in [0 .. n -> V] /\ folded[0] = <<>>
      /\ \A k \in 1 .. n : folded[k] = FoldStep(folded[k - 1], run[k], program)
  <2> HIDE DEF folded
  <2>1. \A k \in 0 .. n : folded[k] = IF k = 0 THEN <<>> ELSE FoldStep(folded[k - 1], run[k], program)
    <3>1. folded = [k \in 0 .. n |-> IF k = 0 THEN <<>> ELSE FoldStep(folded[k - 1], run[k], program)]
      BY <1>8
    <3> QED
      BY <3>1
  <2> DEFINE T == {k \in 0 .. n : folded[k] \in V}
  <2>2. 0 \in T
    BY <1>1, <1>2, <2>1
  <2>3. ASSUME NEW k \in 1 .. n, k - 1 \in T PROVE k \in T
    <3>1. folded[k] = FoldStep(folded[k - 1], run[k], program) /\ folded[k - 1] \in V
      BY <1>1, <2>1, <2>3
    <3>2. folded[k] \in V
      BY <1>3, <3>1
    <3> QED
      BY <1>1, <3>2
  <2> HIDE DEF T
  <2>4. \A k \in 0 .. n : k \in T
    BY <1>1, <2>2, <2>3, UpTo
  <2>5. \A k \in 0 .. n : folded[k] \in V
    BY <2>4 DEF T
  <2>6. folded = [k \in 0 .. n |-> folded[k]]
    BY <1>8
  <2>7. folded \in [0 .. n -> V]
    BY <2>5, <2>6
  <2>8. folded[0] = <<>> /\ \A k \in 1 .. n : folded[k] = FoldStep(folded[k - 1], run[k], program)
    BY <1>1, <2>1
  <2> QED
    BY <2>7, <2>8
<1>10. FoldStatic(run, program) = folded[n]
  BY DEF FoldStatic, FoldStep, Foldable, Merged, n
<1> HIDE DEF folded
<1> QED
  BY <1>9, <1>10 DEF Folds, n, V

\* The folded block is made of legal operations and multiplies every
\* amplitude by what the block does.
LEMMA FoldedIs ==
  ASSUME NEW program, NEW run, DiagonalRun(run, program)
  PROVE  /\ FoldStatic(run, program) \in Seq(Micro(run, program))
         /\ \A angle_values, word : LegalAngles(angle_values, program) =>
              Effect(FoldStatic(run, program), angle_values, word, Len(FoldStatic(run, program)))
                = Effect(run, angle_values, word, Len(run))
<1> DEFINE n == Len(run)
           V == Seq(Micro(run, program))
<1>1. PICK f : Folds(f, run, program) /\ FoldStatic(run, program) = f[n]
  BY FoldChain
<1>2. n \in Nat /\ \A k \in 1 .. n : LegalOp(run[k], program) /\ IsDiagonal(run[k])
  BY DEF DiagonalRun
<1>3. f \in [0 .. n -> V] /\ f[0] = <<>> /\ \A k \in 1 .. n : f[k] = FoldStep(f[k - 1], run[k], program)
  BY <1>1 DEF Folds
<1> HIDE DEF n
<1>4. f[n] \in V
  <2> HIDE DEF V
  <2> QED
    BY <1>2, <1>3
<1>5. ASSUME NEW angle_values, NEW word, LegalAngles(angle_values, program)
      PROVE  Effect(f[n], angle_values, word, Len(f[n])) = Effect(run, angle_values, word, n)
  <2> DEFINE E(s, m) == Effect(s, angle_values, word, m)
             P(x) == DiagonalPhase(x, angle_values, word)
             T == {k \in 0 .. n : E(f[k], Len(f[k])) = E(run, k)}
  <2>1. \A k \in 1 .. n : P(run[k]) \in Units
    BY <1>2, <1>5, PhaseIsUnit
  <2>2. \A k \in 1 .. n : E(run, k) = Times(E(run, k - 1), P(run[k]))
    <3> SUFFICES ASSUME NEW k \in 1 .. n PROVE E(run, k) = Times(E(run, k - 1), P(run[k]))
      OBVIOUS
    <3>1. k \in Nat /\ k > 0 /\ \A j \in 1 .. k : j \in 1 .. n
      BY <1>2
    <3>2. \A j \in 1 .. k : DiagonalPhase(run[j], angle_values, word) \in Units
      BY <2>1, <3>1
    <3> QED
      BY <3>1, <3>2, EffectSteps
  <2>3. \A k \in 1 .. n : E(f[k], Len(f[k])) = Times(E(f[k - 1], Len(f[k - 1])), P(run[k]))
    <3> SUFFICES ASSUME NEW k \in 1 .. n PROVE E(f[k], Len(f[k])) = Times(E(f[k - 1], Len(f[k - 1])), P(run[k]))
      OBVIOUS
    <3>1. k - 1 \in 0 .. n
      BY <1>2
    <3>2. f[k - 1] \in V /\ f[k] = FoldStep(f[k - 1], run[k], program)
      <4> HIDE DEF V
      <4> QED
        BY <1>3, <3>1
    <3> QED
      BY <1>5, <3>2, FoldStepIs DEF n
  <2>4. 0 \in T
    <3>1. E(f[0], Len(f[0])) = E(<<>>, 0) /\ 0 \in 0 .. n
      BY <1>2, <1>3
    <3>2. E(<<>>, 0) = E(run, 0)
      <4>1. Agree(<<>>, run, 1 .. 0) /\ 0 \in Nat
        BY DEF Agree
      <4> QED
        BY <4>1, EffectAgree
    <3> QED
      BY <3>1, <3>2
  <2>5. ASSUME NEW k \in 1 .. n, k - 1 \in T PROVE k \in T
    <3>1. k \in 0 .. n /\ E(f[k - 1], Len(f[k - 1])) = E(run, k - 1)
      BY <1>2, <2>5
    <3> HIDE DEF E, P
    <3>2. E(f[k], Len(f[k])) = E(run, k)
      BY <2>2, <2>3, <3>1
    <3> QED
      BY <3>1, <3>2
  <2> HIDE DEF T
  <2>6. \A k \in 0 .. n : k \in T
    BY <1>2, <2>4, <2>5, UpTo
  <2> QED
    BY <1>2, <2>6 DEF T
<1> QED
  BY <1>1, <1>4, <1>5 DEF n


-----------------------------------------------------------------------------
(* Compiled plans                                                          *)

\* A block of a program: legal operations that belong together.
RunOf(run, program) ==
  /\ Len(run) \in Nat /\ Len(run) > 0 /\ DOMAIN run = 1 .. Len(run)
  /\ \E i \in DOMAIN program.operations : run[1] = program.operations[i]
  /\ \A j \in 1 .. Len(run) : LegalOp(run[j], program) /\ SameBlock(run[1], run[j])

\* The blocks of a legal program are a cut of its operations, in their order.
LEMMA BlockRuns ==
  ASSUME NEW program, LegalProgram(program), NEW runs, runs = Runs(program.operations)
  PROVE  /\ Len(runs) \in Nat /\ DOMAIN runs = 1 .. Len(runs)
         /\ \A k \in DOMAIN runs : RunOf(runs[k], program)
         /\ IsCut(runs, program.operations, Len(program.operations))
<1> DEFINE ops == program.operations
           n == Len(ops)
           L == Len(runs)
<1>1. n \in Nat /\ DOMAIN ops = 1 .. n /\ \A i \in 1 .. n : LegalOp(ops[i], program)
  BY LegalOps
<1>2. ops \in Seq(Range(ops))
  BY DEF LegalProgram, IsProgram
<1>3. runs \in Seq(Seq(Range(ops))) /\ IsCut(runs, ops, n)
  BY <1>2, RunsAre
<1>4. L \in Nat /\ DOMAIN runs = 1 .. L /\ \A k \in 1 .. L : runs[k] \in Seq(Range(ops))
  BY <1>3
<1>5. PICK b : CutAt(runs, ops, n, b)
  BY <1>3 DEF IsCut
<1>6. ASSUME NEW k \in 1 .. L PROVE RunOf(runs[k], program)
  <2> DEFINE run == runs[k]
             M == Len(run)
  <2>1. M \in Nat /\ DOMAIN run = 1 .. M
    <3>1. run \in Seq(Range(ops))
      BY <1>4
    <3> HIDE DEF run, ops
    <3> QED
      BY <3>1
  <2>2. /\ b \in [0 .. L -> 0 .. n]
        /\ b[k - 1] < b[k] /\ M = b[k] - b[k - 1]
        /\ \A i \in 1 .. M : run[i] = ops[b[k - 1] + i] /\ SameBlock(run[1], run[i])
    BY <1>5 DEF CutAt
  <2> HIDE DEF L, M, run, n
  <2>3. b[k - 1] \in 0 .. n /\ b[k] \in 0 .. n
    <3>1. k - 1 \in 0 .. L /\ k \in 0 .. L
      BY <1>4
    <3> QED
      BY <2>2, <3>1
  <2>4. M > 0 /\ 1 \in 1 .. M
    BY <1>1, <2>1, <2>2, <2>3
  <2>5. \A i \in 1 .. M : b[k - 1] + i \in 1 .. n
    BY <1>1, <2>1, <2>2, <2>3
  <2>6. \A i \in 1 .. M : LegalOp(run[i], program)
    BY <1>1, <2>2, <2>5
  <2>7. \E i \in DOMAIN program.operations : run[1] = program.operations[i]
    BY <1>1, <2>2, <2>4, <2>5
  <2> QED
    BY <2>1, <2>2, <2>4, <2>6, <2>7 DEF RunOf, run, M
<1> QED
  BY <1>3, <1>4, <1>6

\* The kinds of blocks.
LEMMA RunKinds ==
  ASSUME NEW program, LegalProgram(program), NEW run, RunOf(run, program)
  PROVE  /\ IsDiagonal(run[1]) => DiagonalRun(run, program)
         /\ ~IsDiagonal(run[1]) =>
              /\ TwoWires(program.nqubits, run[1].wires[1], run[1].wires[2])
              /\ \A j \in 1 .. Len(run) : LegalOp(run[j], program) /\ ~IsDiagonal(run[j]) /\ PairKey(run[j]) = PairKey(run[1])
<1>1. /\ Len(run) \in Nat /\ Len(run) > 0 /\ DOMAIN run = 1 .. Len(run)
      /\ \A j \in 1 .. Len(run) : LegalOp(run[j], program) /\ SameBlock(run[1], run[j])
  BY DEF RunOf
<1>2. \A a \in DOMAIN program.angles : IsStatic(program.angles[a]) => program.angles[a].static \in Int
  BY DEF LegalProgram, IsProgram
<1>3. IsDiagonal(run[1]) => DiagonalRun(run, program)
  BY <1>1, <1>2 DEF DiagonalRun, SameBlock
<1>4. ~IsDiagonal(run[1]) =>
        \A j \in 1 .. Len(run) : LegalOp(run[j], program) /\ ~IsDiagonal(run[j]) /\ PairKey(run[j]) = PairKey(run[1])
  BY <1>1 DEF SameBlock
<1>5. 1 \in 1 .. Len(run)
  BY <1>1
<1>6. ~IsDiagonal(run[1]) => TwoWires(program.nqubits, run[1].wires[1], run[1].wires[2])
  BY <1>1, <1>5 DEF LegalOp, IsDiagonal
<1> QED
  BY <1>3, <1>4, <1>6

\* The bytes of a list of tables.
LEMMA PayloadBytes ==
  ASSUME NEW program, NEW run, NEW ops \in Seq(Micro(run, program)), NEW f,
         f = [i \in DOMAIN ops |-> IF ops[i].kind = "diagonal" THEN 16 * Len(ops[i].payload) ELSE 0]
  PROVE  SumFunction(f) \in Nat
<1> DEFINE L == Len(ops)
<1>1. L \in Nat /\ DOMAIN ops = 1 .. L /\ \A i \in 1 .. L : ops[i] \in Micro(run, program)
  OBVIOUS
<1> HIDE DEF L
<1>2. \A i \in 1 .. L : f[i] \in Nat
  <2> SUFFICES ASSUME NEW i \in 1 .. L, ops[i].kind = "diagonal" PROVE 16 * Len(ops[i].payload) \in Nat
    BY <1>1
  <2>1. ops[i] \in Tables
    BY <1>1 DEF Micro
  <2>2. Len(ops[i].payload) \in Nat
    BY <2>1 DEF Tables
  <2> QED
    BY <2>2
<1>3. DOMAIN f = 1 .. L /\ IsFiniteSet(1 .. L)
  BY <1>1, FS_Interval
<1> QED
  BY <1>2, <1>3, SumNat DEF SumFunction

\* The estimate of a plan is a number.
LEMMA MetadataIs ==
  ASSUME NEW program, LegalProgram(program), NEW s, IsSector(s), s.nqubits = program.nqubits,
         NEW basis, DOMAIN basis = 0 .. s.dimension - 1, NEW runs, runs = Runs(program.operations),
         NEW gates, gates = [k \in DOMAIN runs |-> Block(runs[k], s, program)]
  PROVE  MetadataBytes(s, basis, program.operations, gates) \in Nat
<1> DEFINE ops == program.operations
           keys(positions) == {PairKey(ops[k]) : k \in positions}
           pairKeys == keys({k \in DOMAIN ops : ~IsDiagonal(ops[k])})
           sparseKeys == keys({k \in DOMAIN ops : IsSparse(ops[k])})
           payload(op) == IF op.kind = "diagonal" THEN 16 * Len(op.payload) ELSE 0
           payloads(g) == IF g.kind = "diagonal" THEN SumOver(g.operations, payload) ELSE 0
           lists == [key \in pairKeys |-> 16 * Len(PairsFor(s, ops, key))]
           indices == [key \in sparseKeys |-> 8 * Cardinality(DiagonalIndices(basis, key))]
           D == s.dimension
           n == s.nqubits
<1>1. n \in Nat /\ D \in Nat
  BY SectorFacts
<1>2. DOMAIN ops = 1 .. Len(ops) /\ \A i \in DOMAIN ops : LegalOp(ops[i], program)
  BY LegalOps
<1>3. IsFiniteSet(pairKeys) /\ IsFiniteSet(sparseKeys)
  <2>1. IsFiniteSet(SUBSET Qubits(n))
    BY <1>1, QubitsCount, FS_SUBSET
  <2>2. ASSUME NEW i \in DOMAIN ops, ~IsDiagonal(ops[i]) \/ IsSparse(ops[i]) PROVE PairKey(ops[i]) \in SUBSET Qubits(n)
    <3>1. TwoWires(program.nqubits, ops[i].wires[1], ops[i].wires[2])
      BY <1>2, <2>2 DEF LegalOp, IsDiagonal, IsSparse
    <3> QED
      BY <3>1 DEF TwoWires, PairKey
  <2>3. pairKeys \in SUBSET (SUBSET Qubits(n)) /\ sparseKeys \in SUBSET (SUBSET Qubits(n))
    BY <2>2
  <2> QED
    BY <2>1, <2>3, FS_Subset
<1>4. \A key \in pairKeys : lists[key] \in Nat
  <2> SUFFICES ASSUME NEW key \in pairKeys PROVE 16 * Len(PairsFor(s, ops, key)) \in Nat
    OBVIOUS
  <2>1. PICK i \in DOMAIN ops : ~IsDiagonal(ops[i]) /\ key = PairKey(ops[i])
    OBVIOUS
  <2>2. MapsKey(s, key, PairsFor(s, ops, key))
    BY <2>1, PairsForIs
  <2>3. Len(PairsFor(s, ops, key)) \in Nat
    BY <2>2 DEF MapsKey, MapsPairs
  <2> QED
    BY <2>3
<1>5. \A key \in sparseKeys : indices[key] \in Nat
  <2> SUFFICES ASSUME NEW key \in sparseKeys PROVE 8 * Cardinality(DiagonalIndices(basis, key)) \in Nat
    OBVIOUS
  <2>1. DiagonalIndices(basis, key) \in SUBSET (0 .. D - 1)
    BY DEF DiagonalIndices
  <2>2. IsFiniteSet(0 .. D - 1)
    BY <1>1, FS_Interval
  <2>3. Cardinality(DiagonalIndices(basis, key)) \in Nat
    BY <2>1, <2>2, FS_Subset, FS_CardinalityType
  <2> QED
    BY <2>3
<1>6. SumFunctionOnSet(lists, pairKeys) \in Nat /\ SumFunctionOnSet(indices, sparseKeys) \in Nat
  <2> HIDE DEF lists, indices, pairKeys, sparseKeys
  <2> QED
    BY <1>3, <1>4, <1>5, SumNat
<1>7. SumOver(gates, payloads) \in Nat
  <2> DEFINE f == [k \in DOMAIN gates |-> payloads(gates[k])]
  <2>1. DOMAIN gates = 1 .. Len(runs) /\ Len(runs) \in Nat /\ \A k \in DOMAIN gates : RunOf(runs[k], program)
    BY BlockRuns
  <2>2. \A k \in DOMAIN gates : payloads(gates[k]) \in Nat
    <3> SUFFICES ASSUME NEW k \in DOMAIN gates, gates[k].kind = "diagonal"
                 PROVE  SumOver(gates[k].operations, payload) \in Nat
      OBVIOUS
    <3>1. gates[k] = Block(runs[k], s, program)
      OBVIOUS
    <3>2. IsDiagonal(runs[k][1])
      BY <3>1 DEF Block
    <3>3. gates[k].operations = FoldStatic(runs[k], program)
      BY <3>1, <3>2 DEF Block
    <3>4. DiagonalRun(runs[k], program)
      BY <2>1, <3>2, RunKinds
    <3>5. gates[k].operations \in Seq(Micro(runs[k], program))
      BY <3>3, <3>4, FoldedIs
    <3> DEFINE list == gates[k].operations
               g == [i \in DOMAIN list |-> IF list[i].kind = "diagonal" THEN 16 * Len(list[i].payload) ELSE 0]
    <3>6. SumOver(list, payload) = SumFunction(g)
      BY DEF SumOver
    <3>7. PICK l \in Seq(Micro(runs[k], program)) : l = list
      BY <3>5
    <3>8. PICK h : h = [i \in DOMAIN l |-> IF l[i].kind = "diagonal" THEN 16 * Len(l[i].payload) ELSE 0]
      OBVIOUS
    <3>9. SumFunction(h) \in Nat
      BY <3>8, PayloadBytes
    <3> QED
      BY <3>6, <3>7, <3>8, <3>9
  <2>3. SumOver(gates, payloads) = SumFunctionOnSet(f, DOMAIN f)
    BY DEF SumOver, SumFunction
  <2>4. DOMAIN f = 1 .. Len(runs) /\ \A k \in DOMAIN f : f[k] \in Nat
    BY <2>1, <2>2
  <2>5. IsFiniteSet(1 .. Len(runs))
    BY <2>1, FS_Interval
  <2> HIDE DEF f
  <2>6. SumFunctionOnSet(f, DOMAIN f) \in Nat
    BY <2>4, <2>5, SumNat
  <2> QED
    BY <2>3, <2>6
<1>8. 8 * PackedWordCount(n) * D \in Nat
  <2>1. n \div 64 \in Nat
    BY <1>1
  <2>2. PackedWordCount(n) \in Nat
    BY <2>1 DEF PackedWordCount
  <2> QED
    BY <1>1, <2>2
<1>9. MetadataBytes(s, basis, ops, gates)
        = 8 * PackedWordCount(n) * D + SumFunctionOnSet(lists, pairKeys)
          + SumFunctionOnSet(indices, sparseKeys) + SumOver(gates, payloads)
  BY DEF MetadataBytes
<1> DEFINE w == 8 * PackedWordCount(n) * D
           x == SumFunctionOnSet(lists, pairKeys)
           y == SumFunctionOnSet(indices, sparseKeys)
           z == SumOver(gates, payloads)
<1>10. w \in Nat /\ x \in Nat /\ y \in Nat /\ z \in Nat
  BY <1>6, <1>7, <1>8
<1>11. MetadataBytes(s, basis, ops, gates) = w + x + y + z
  BY <1>9
<1> HIDE DEF w, x, y, z
<1>12. w + x + y + z \in Nat
  BY <1>10
<1> QED
  BY <1>11, <1>12


-----------------------------------------------------------------------------
(* A plan that was compiled                                                *)

PlanOf(p, program, limit) ==
  /\ LegalProgram(program) /\ p.program = program /\ p.limit = limit
  /\ IsSector(p.sector) /\ p.sector.nqubits = program.nqubits
  /\ p.basis = [i \in 0 .. p.sector.dimension - 1 |-> SectorWord(p.sector, i)]
  /\ p.gates = [k \in DOMAIN Runs(program.operations) |->
                   Block(Runs(program.operations)[k], p.sector, program)]
  /\ StateBytes(p.sector.dimension) <= limit

\* Compile refuses, or hands out a plan of the program that fits the limit.
LEMMA CompiledIs ==
  ASSUME NEW program, IsProgram(program), NEW particles \in Nat, NEW limit \in Nat,
         NEW p, p = Compile(program, particles, limit), ~IsFailed(p)
  PROVE  PlanOf(p, program, limit) /\ p.sector = NewSector(program.nqubits, particles)
<1> DEFINE s == NewSector(program.nqubits, particles)
           ops == program.operations
           basis == [i \in 0 .. s.dimension - 1 |-> Unrank(s, i)]
           runs == Runs(ops)
           gates == [k \in DOMAIN runs |-> Block(runs[k], s, program)]
<1>1. /\ ~ProgramError(program) /\ ~IsFailed(s)
      /\ ~(CompiledBytes(s, basis, ops, gates) > limit)
      /\ p = [program |-> program, sector |-> s, basis |-> basis, gates |-> gates, limit |-> limit]
  <2>1. IsFailed(Failed("InvalidCircuit")) /\ IsFailed(Failed("MemoryLimit"))
    BY DEF IsFailed, Failed
  <2>2. p = IF ProgramError(program) THEN Failed("InvalidCircuit")
            ELSE IF IsFailed(s) THEN s
            ELSE IF CompiledBytes(s, basis, ops, gates) > limit
            THEN Failed("MemoryLimit")
            ELSE [program |-> program, sector |-> s, basis |-> basis, gates |-> gates, limit |-> limit]
    BY DEF Compile
  <2> HIDE DEF s, basis, gates
  <2> QED
    BY <2>1, <2>2
<1>2. LegalProgram(program) /\ program.nqubits \in Nat
  BY <1>1 DEF LegalProgram, IsProgram
<1>3. IsSector(s) /\ s.nqubits = program.nqubits
  <2>1. particles \in 0 .. program.nqubits
    <3>1. ~(particles > program.nqubits)
      BY <1>1 DEF NewSector, IsFailed, Failed
    <3> QED
      BY <1>2, <3>1
  <2> QED
    BY <1>2, <2>1, SectorIs
<1>4. s.dimension \in Nat
  BY <1>3, SectorFacts
<1>5. MetadataBytes(s, basis, ops, gates) \in Nat
  <2>1. DOMAIN basis = 0 .. s.dimension - 1
    OBVIOUS
  <2>2. PICK t : t = s
    OBVIOUS
  <2>3. PICK b : b = basis
    OBVIOUS
  <2>4. PICK g : g = gates
    OBVIOUS
  <2>5. g = [k \in DOMAIN Runs(ops) |-> Block(Runs(ops)[k], t, program)]
    BY <2>2, <2>4
  <2>6. IsSector(t) /\ t.nqubits = program.nqubits /\ DOMAIN b = 0 .. t.dimension - 1
    BY <1>3, <2>1, <2>2, <2>3
  <2> HIDE DEF s, basis, gates
  <2>7. MetadataBytes(t, b, program.operations, g) \in Nat
    BY <1>2, <2>5, <2>6, MetadataIs
  <2> QED
    BY <2>2, <2>3, <2>4, <2>7
<1>6. StateBytes(s.dimension) <= limit
  <2> DEFINE m == MetadataBytes(s, basis, ops, gates)
             d == s.dimension
  <2>1. ~(m + 16 * d > limit) /\ m \in Nat /\ d \in Nat
    BY <1>1, <1>4, <1>5 DEF CompiledBytes, StateBytes
  <2> HIDE DEF m, d
  <2>2. 16 * d <= limit
    BY <2>1
  <2> QED
    BY <2>2 DEF StateBytes, d
<1>7. basis = [i \in 0 .. s.dimension - 1 |-> SectorWord(s, i)]
  <2>1. \A i \in 0 .. s.dimension - 1 : Unrank(s, i) = SectorWord(s, i)
    BY <1>3, UnrankIs
  <2> QED
    BY <2>1
<1>8. /\ p.program = program /\ p.sector = s /\ p.basis = basis /\ p.gates = gates /\ p.limit = limit
  BY <1>1
<1> HIDE DEF s, basis
<1> QED
  BY <1>2, <1>3, <1>6, <1>7, <1>8 DEF PlanOf, s

IsPairBlock(p, k, run) ==
  /\ p.gates[k].kind = "pairs" /\ p.gates[k].operations = run
  /\ MapsKey(p.sector, PairKey(run[1]), p.gates[k].pairs)
IsDiagonalBlock(p, k, run, program) ==
  /\ DiagonalRun(run, program)
  /\ p.gates[k] = [kind |-> "diagonal", operations |-> FoldStatic(run, program)]

\* The blocks of a plan are those of its runs.
LEMMA GateIs ==
  ASSUME NEW program, NEW limit, NEW p, PlanOf(p, program, limit), NEW runs, runs = Runs(program.operations)
  PROVE  /\ Len(runs) \in Nat /\ Len(p.gates) = Len(runs) /\ DOMAIN p.gates = 1 .. Len(runs)
         /\ \A k \in 1 .. Len(runs) :
              /\ RunOf(runs[k], program)
              /\ IsDiagonal(runs[k][1]) => IsDiagonalBlock(p, k, runs[k], program)
              /\ ~IsDiagonal(runs[k][1]) => IsPairBlock(p, k, runs[k])
<1> DEFINE ops == program.operations
           L == Len(runs)
           gates == p.gates
           s == p.sector
<1>1. /\ LegalProgram(program) /\ IsSector(s) /\ s.nqubits = program.nqubits
      /\ gates = [k \in DOMAIN runs |-> Block(runs[k], s, program)]
  BY DEF PlanOf
<1>2. L \in Nat /\ DOMAIN runs = 1 .. L /\ \A k \in 1 .. L : RunOf(runs[k], program)
  BY <1>1, BlockRuns
<1> HIDE DEF L
<1>3. DOMAIN gates = 1 .. L /\ \A k \in 1 .. L : gates[k] = Block(runs[k], s, program)
  BY <1>1, <1>2
<1>4. Len(gates) = L
  <2>1. PICK f : f = gates
    OBVIOUS
  <2>2. f = [k \in 1 .. L |-> f[k]]
    BY <1>1, <1>2, <2>1
  <2>3. Len(f) = L
    BY <1>2, <2>2, SeqOfFunction
  <2> QED
    BY <2>1, <2>3
<1>5. ASSUME NEW k \in 1 .. L, ~IsDiagonal(runs[k][1])
      PROVE  MapsKey(s, PairKey(runs[k][1]), PairsFor(s, program.operations, PairKey(runs[k][1])))
  <2>1. PICK i \in DOMAIN program.operations : runs[k][1] = program.operations[i]
    BY <1>2 DEF RunOf
  <2> HIDE DEF s
  <2> QED
    BY <1>1, <1>5, <2>1, PairsForIs
<1>6. ASSUME NEW k \in 1 .. L, IsDiagonal(runs[k][1])
      PROVE  IsDiagonalBlock(p, k, runs[k], program)
  <2>1. gates[k] = [kind |-> "diagonal", operations |-> FoldStatic(runs[k], program)]
    BY <1>3, <1>6 DEF Block
  <2>2. RunOf(runs[k], program)
    BY <1>2
  <2>3. DiagonalRun(runs[k], program)
    BY <1>1, <1>6, <2>2, RunKinds
  <2> QED
    BY <2>1, <2>3 DEF IsDiagonalBlock
<1>7. ASSUME NEW k \in 1 .. L, ~IsDiagonal(runs[k][1])
      PROVE  IsPairBlock(p, k, runs[k])
  <2>1. gates[k] = [kind |-> "pairs", operations |-> runs[k],
                    pairs |-> PairsFor(s, program.operations, PairKey(runs[k][1]))]
    BY <1>3, <1>7 DEF Block
  <2> QED
    BY <1>5, <1>7, <2>1 DEF IsPairBlock
<1> QED
  BY <1>2, <1>3, <1>4, <1>6, <1>7 DEF L

\* Pairs are lent for blocks of pairs only.
LEMMA GateKinds ==
  ASSUME NEW program, NEW limit, NEW p, PlanOf(p, program, limit), NEW k \in DOMAIN p.gates
  PROVE  /\ p.gates[k].kind \in {"diagonal", "pairs"}
         /\ p.gates[k].kind = "pairs" => Len(p.gates[k].pairs) \in Nat
<1> DEFINE runs == Runs(program.operations)
<1>1. PICK r : r = runs
  OBVIOUS
<1>2. k \in 1 .. Len(r)
  BY <1>1, GateIs
<1>3. CASE IsDiagonal(r[k][1])
  <2>1. IsDiagonalBlock(p, k, r[k], program)
    BY <1>1, <1>2, <1>3, GateIs
  <2> QED
    BY <2>1 DEF IsDiagonalBlock
<1>4. CASE ~IsDiagonal(r[k][1])
  <2>1. IsPairBlock(p, k, r[k])
    BY <1>1, <1>2, <1>4, GateIs
  <2> QED
    BY <2>1 DEF IsPairBlock, MapsKey, MapsPairs
<1> QED
  BY <1>3, <1>4

-----------------------------------------------------------------------------
(* The plan a call runs on, and what it may have answered so far           *)

CircuitPhases == {"new", "refused", "ready", "forward", "final", "undo_state", "derive", "undo_lambda"}

PlanInv ==
  /\ instance \in Instances /\ phase \in CircuitPhases
  /\ phase \in {"new", "refused"} => result = Nothing
  /\ phase \notin {"new", "refused"} =>
       PlanOf(plan, instance.program, instance.limit)
       /\ plan.sector = NewSector(instance.program.nqubits, instance.particles)
  /\ phase = "ready" => result \in {Nothing, Failed("InvalidParameterLength")}
  /\ lent # Nothing => HasBlock /\ Gate.kind = "pairs" /\ Len(Gate.pairs) >= Threshold

\* No call to a circuit and no job of the pool makes a plan that is not the one compiled
\* from its program.
LEMMA PlanStep ==
  PlanInv /\ [CircuitNext]_circuitVars => PlanInv'
<1> SUFFICES ASSUME PlanInv, [CircuitNext]_circuitVars PROVE PlanInv'
  OBVIOUS
<1>1. /\ instance \in Instances /\ phase \in CircuitPhases
      /\ phase \in {"new", "refused"} => result = Nothing
      /\ phase \notin {"new", "refused"} =>
           PlanOf(plan, instance.program, instance.limit)
           /\ plan.sector = NewSector(instance.program.nqubits, instance.particles)
      /\ phase = "ready" => result \in {Nothing, Failed("InvalidParameterLength")}
      /\ lent # Nothing => HasBlock /\ Gate.kind = "pairs" /\ Len(Gate.pairs) >= Threshold
  BY DEF PlanInv
<1>a. lent # Nothing => phase \in {"forward", "undo_state", "undo_lambda"}
  BY <1>1 DEF HasBlock, Working
<1>b. HasBlock => Gate.kind \in {"diagonal", "pairs"} /\ (Gate.kind = "pairs" => Len(Gate.pairs) \in Nat)
  <2> SUFFICES ASSUME HasBlock PROVE Gate.kind \in {"diagonal", "pairs"} /\ (Gate.kind = "pairs" => Len(Gate.pairs) \in Nat)
    OBVIOUS
  <2>1. PlanOf(plan, instance.program, instance.limit) /\ at \in DOMAIN plan.gates
    BY <1>1 DEF HasBlock, Working
  <2> QED
    BY <2>1, GateKinds DEF Gate
<1>2. CASE CompilePlan
  <2>1. /\ instance' = instance /\ result' = result /\ result = Nothing /\ lent' = lent /\ lent = Nothing
        /\ plan' = Compile(instance.program, instance.particles, instance.limit)
        /\ phase' = IF IsFailed(plan') THEN "refused" ELSE "ready"
    BY <1>1, <1>2, <1>a DEF CompilePlan, pairVars
  <2>2. IsProgram(instance.program) /\ instance.particles \in Nat /\ instance.limit \in Nat
    BY <1>1, InstancesAssumption
  <2>3. ~IsFailed(plan') => PlanOf(plan', instance.program, instance.limit)
                            /\ plan'.sector = NewSector(instance.program.nqubits, instance.particles)
    BY <2>1, <2>2, CompiledIs
  <2> QED
    BY <1>1, <2>1, <2>3 DEF PlanInv, CircuitPhases
<1>3. ASSUME NEW parameters \in Parameters, RunCached(parameters) PROVE PlanInv'
  <2>1. phase = "ready" /\ instance' = instance /\ plan' = plan /\ lent' = lent /\ lent = Nothing
    BY <1>3, <1>a DEF RunCached, pairVars
  <2>2. PlanOf(plan, instance.program, instance.limit)
    BY <1>1, <2>1
  <2>3. StateError(plan, plan.sector.dimension) = {}
    <3>1. instance.limit \in Nat
      BY <1>1, InstancesAssumption
    <3>2. StateBytes(plan.sector.dimension) <= plan.limit /\ plan.limit \in Nat
      BY <2>2, <3>1 DEF PlanOf
    <3>3. plan.sector.dimension \in Nat
      BY <2>2, SectorFacts DEF PlanOf
    <3> QED
      BY <3>2, <3>3 DEF StateError, StateBytes
  <2> DEFINE errors == StateError(plan, plan.sector.dimension) \cup ParameterError(plan, parameters)
  <2>4. errors \subseteq {"InvalidParameterLength"}
    BY <2>3 DEF ParameterError
  <2>5. CASE errors # {}
    <3>1. /\ result' = Failed(CHOOSE e \in errors : e = "MemoryLimit" \/ errors = {e})
          /\ phase' = phase
      BY <1>3, <2>5 DEF RunCached
    <3>2. errors = {"InvalidParameterLength"}
      BY <2>4, <2>5
    <3> HIDE DEF errors
    <3>3. (CHOOSE e \in errors : e = "MemoryLimit" \/ errors = {e}) = "InvalidParameterLength"
      BY <3>2
    <3>4. result' = Failed("InvalidParameterLength")
      BY <3>1, <3>3
    <3> QED
      BY <1>1, <2>1, <3>1, <3>4 DEF PlanInv
  <2>6. CASE errors = {}
    <3>1. phase' = "forward" /\ result' = result
      BY <1>3, <2>6 DEF RunCached
    <3> QED
      BY <1>1, <2>1, <3>1 DEF PlanInv, CircuitPhases
  <2> QED
    BY <2>5, <2>6
<1>4. CASE KeepFinal
  <2>1. phase = "forward" /\ at > Len(plan.gates) /\ UNCHANGED <<instance, plan, result, lent>> /\ phase' = "final"
    BY <1>4 DEF KeepFinal, pairVars
  <2>2. PlanOf(plan, instance.program, instance.limit)
    BY <1>1, <2>1
  <2>3. at \notin DOMAIN plan.gates
    <3>1. PICK r : r = Runs(instance.program.operations)
      OBVIOUS
    <3>2. DOMAIN plan.gates = 1 .. Len(plan.gates) /\ Len(plan.gates) \in Nat
      BY <2>2, <3>1, GateIs
    <3> QED
      BY <2>1, <3>2
  <2>4. lent = Nothing
    BY <1>1, <2>3 DEF HasBlock
  <2> QED
    BY <1>1, <2>1, <2>4 DEF PlanInv, CircuitPhases
<1>5. ASSUME NEW o \in Observables, ValueAndGrad(o) PROVE PlanInv'
  <2>1. /\ phase = "final" /\ instance' = instance /\ plan' = plan /\ phase' \in {"final", "undo_state"}
        /\ lent' = lent /\ lent = Nothing
    BY <1>5, <1>a DEF ValueAndGrad, pairVars
  <2> QED
    BY <1>1, <2>1 DEF PlanInv, CircuitPhases
<1>6. ASSUME NEW v, Applied(v), Working, lent' = Nothing PROVE PlanInv'
  <2>1. /\ phase \in {"forward", "undo_state", "undo_lambda"} /\ instance' = instance /\ plan' = plan
        /\ phase' \in {"forward", "derive", "undo_state"}
    BY <1>6 DEF Applied, Working
  <2> QED
    BY <1>1, <1>6, <2>1 DEF PlanInv, CircuitPhases
<1>7. CASE DiagonalStep
  <2>1. lent = Nothing /\ lent' = lent
    BY <1>1, <1>7 DEF DiagonalStep, pairVars
  <2> QED
    BY <1>6, <1>7, <2>1 DEF DiagonalStep, HasBlock
<1>8. CASE PairStep
  <2>1. HasBlock /\ Gate.kind = "pairs" /\ Len(Gate.pairs) < Threshold /\ lent' = lent
    BY <1>8 DEF PairStep, pairVars
  <2>2. lent = Nothing
    BY <1>1, <1>b, <2>1, NumbersAssumption
  <2> QED
    BY <1>6, <1>8, <2>1, <2>2 DEF PairStep, HasBlock
<1>9. CASE LendPairs
  <2>1. /\ UNCHANGED <<instance, plan, phase, at, result>> /\ HasBlock /\ Gate.kind = "pairs"
        /\ Len(Gate.pairs) >= Threshold
    BY <1>9 DEF LendPairs, u1Vars
  <2> QED
    BY <1>1, <2>1 DEF PlanInv, HasBlock, Gate, Working
<1>10. CASE WorkPairs \/ UNCHANGED circuitVars
  <2>1. UNCHANGED <<instance, plan, phase, at, result, lent>>
    BY <1>10 DEF WorkPairs, WorkerStep, Load, Store, circuitVars, u1Vars, pairVars
  <2> QED
    BY <1>1, <2>1 DEF PlanInv, HasBlock, Gate, Working
<1>11. CASE JoinPairs
  <2>1. lent' = Nothing /\ Working
    BY <1>1, <1>11 DEF JoinPairs, Idle, HasBlock
  <2> QED
    BY <1>6, <1>11, <2>1 DEF JoinPairs
<1>12. CASE DeriveStep
  <2>1. lent' = lent /\ lent = Nothing
    BY <1>12, <1>a DEF DeriveStep, pairVars
  <2> QED
    BY <1>1, <1>12, <2>1 DEF DeriveStep, PlanInv, CircuitPhases
<1>13. CASE ReturnGradient
  <2>1. lent' = lent /\ lent = Nothing
    <3>1. PICK r : r = Runs(instance.program.operations)
      OBVIOUS
    <3>2. 0 \notin DOMAIN plan.gates /\ at = 0
      BY <1>1, <1>13, <3>1, GateIs DEF ReturnGradient
    <3> QED
      BY <1>1, <1>13, <3>2 DEF ReturnGradient, HasBlock, pairVars
  <2> QED
    BY <1>1, <1>13, <2>1 DEF ReturnGradient, PlanInv, CircuitPhases
<1> QED
  BY <1>2, <1>3, <1>4, <1>5, <1>7, <1>8, <1>9, <1>10, <1>11, <1>12, <1>13 DEF CircuitNext

\* A plan that was compiled under a memory limit is never refused for its
\* memory when it is run, for all programs, sectors and limits.
THEOREM CompiledPlansRun == CircuitSpec => []PlanCanRun
<1>1. CircuitInit => PlanInv
  BY DEF CircuitInit, PlanInv, CircuitPhases
<1>2. PlanInv => PlanCanRun
  BY DEF PlanInv, PlanCanRun
<1> QED
  BY <1>1, <1>2, PlanStep, PTL DEF CircuitSpec


-----------------------------------------------------------------------------
(* Two by two matrices                                                     *)

\* Sums of four, and a sum times a number.
LEMMA ComplexSums ==
  ASSUME NEW p \in Complex, NEW q \in Complex, NEW r \in Complex, NEW t \in Complex
  PROVE  /\ Plus(Plus(p, q), Plus(r, t)) = Plus(Plus(p, r), Plus(q, t))
         /\ Times(Plus(p, q), r) = Plus(Times(p, r), Times(q, r))
<1>1. p.re \in Int /\ p.im \in Int /\ q.re \in Int /\ q.im \in Int
      /\ r.re \in Int /\ r.im \in Int /\ t.re \in Int /\ t.im \in Int
  BY DEF Complex
<1>2. Plus(Plus(p, q), Plus(r, t)) = Plus(Plus(p, r), Plus(q, t))
  <2>1. /\ (p.re + q.re) + (r.re + t.re) = (p.re + r.re) + (q.re + t.re)
        /\ (p.im + q.im) + (r.im + t.im) = (p.im + r.im) + (q.im + t.im)
    BY <1>1
  <2> QED
    BY <2>1 DEF Plus, Gauss
<1>3. Times(Plus(p, q), r) = Times(r, Plus(p, q)) /\ Times(p, r) = Times(r, p) /\ Times(q, r) = Times(r, q)
  <2>1. Plus(p, q) \in Complex
    BY ComplexClosed
  <2> QED
    BY <2>1, ComplexFacts
<1>4. Times(r, Plus(p, q)) = Plus(Times(r, p), Times(r, q))
  BY ComplexRing
<1> QED
  BY <1>2, <1>3, <1>4

RowsCompose(a, b, p, q, r, t, x, y) ==
  Plus(Times(Plus(Times(a, p), Times(b, r)), x), Times(Plus(Times(a, q), Times(b, t)), y))
    = Plus(Times(a, Plus(Times(p, x), Times(q, y))), Times(b, Plus(Times(r, x), Times(t, y))))

\* A matrix applied to a column it does not know: products of rows associate.
LEMMA RowRing ==
  ASSUME NEW a \in Complex, NEW b \in Complex, NEW p \in Complex, NEW q \in Complex,
         NEW r \in Complex, NEW t \in Complex, NEW x \in Complex, NEW y \in Complex
  PROVE  RowsCompose(a, b, p, q, r, t, x, y)
<1>1. /\ Times(a, p) \in Complex /\ Times(b, r) \in Complex /\ Times(a, q) \in Complex /\ Times(b, t) \in Complex
      /\ Times(p, x) \in Complex /\ Times(q, y) \in Complex /\ Times(r, x) \in Complex /\ Times(t, y) \in Complex
  BY ComplexClosed
<1> DEFINE A == Times(a, Times(p, x))
           B == Times(b, Times(r, x))
           C == Times(a, Times(q, y))
           D == Times(b, Times(t, y))
<1>2. A \in Complex /\ B \in Complex /\ C \in Complex /\ D \in Complex
  BY <1>1, ComplexClosed
<1>3. Times(Plus(Times(a, p), Times(b, r)), x) = Plus(A, B)
  <2>1. Times(Plus(Times(a, p), Times(b, r)), x) = Plus(Times(Times(a, p), x), Times(Times(b, r), x))
    BY <1>1, ComplexSums
  <2>2. Times(Times(a, p), x) = A /\ Times(Times(b, r), x) = B
    BY ComplexRing
  <2> QED
    BY <2>1, <2>2
<1>4. Times(Plus(Times(a, q), Times(b, t)), y) = Plus(C, D)
  <2>1. Times(Plus(Times(a, q), Times(b, t)), y) = Plus(Times(Times(a, q), y), Times(Times(b, t), y))
    BY <1>1, ComplexSums
  <2>2. Times(Times(a, q), y) = C /\ Times(Times(b, t), y) = D
    BY ComplexRing
  <2> QED
    BY <2>1, <2>2
<1>5. Times(a, Plus(Times(p, x), Times(q, y))) = Plus(A, C)
  BY <1>1, ComplexRing
<1>6. Times(b, Plus(Times(r, x), Times(t, y))) = Plus(B, D)
  BY <1>1, ComplexRing
<1> HIDE DEF A, B, C, D
<1>7. Plus(Plus(A, B), Plus(C, D)) = Plus(Plus(A, C), Plus(B, D))
  BY <1>2, ComplexSums
<1> QED
  BY <1>3, <1>4, <1>5, <1>6, <1>7 DEF RowsCompose

\* The entries of a matrix.
LEMMA MatrixFacts ==
  ASSUME NEW m \in Matrix
  PROVE  /\ m[1][1] \in Complex /\ m[1][2] \in Complex /\ m[2][1] \in Complex /\ m[2][2] \in Complex
         /\ \A r \in 1 .. 2 : \A c \in 1 .. 2 : m[r][c] \in Complex
<1>1. \A r \in 1 .. 2 : \A c \in 1 .. 2 : m[r][c] \in Complex
  BY DEF Matrix
<1>2. 1 \in 1 .. 2 /\ 2 \in 1 .. 2
  OBVIOUS
<1> QED
  BY <1>1, <1>2

\* A product of matrices is one after the other, a row applied to a pair.
LEMMA RowProduct ==
  ASSUME NEW a \in Matrix, NEW b \in Matrix
  PROVE  /\ Multiply2(a, b) \in Matrix
         /\ \A x, y \in Complex, r \in 1 .. 2 :
              Row2(Multiply2(a, b), r, x, y) = Row2(a, r, Row2(b, 1, x, y), Row2(b, 2, x, y))
<1> DEFINE m == Multiply2(a, b)
<1>1. \A r, c \in 1 .. 2 : m[r][c] = Plus(Times(a[r][1], b[1][c]), Times(a[r][2], b[2][c]))
  BY DEF Multiply2
<1>2. m = [r \in 1 .. 2 |-> [c \in 1 .. 2 |-> m[r][c]]]
  BY DEF Multiply2
<1>3. \A r, c \in 1 .. 2 : m[r][c] \in Complex
  <2> SUFFICES ASSUME NEW r \in 1 .. 2, NEW c \in 1 .. 2
               PROVE  Plus(Times(a[r][1], b[1][c]), Times(a[r][2], b[2][c])) \in Complex
    BY <1>1
  <2>1. a[r][1] \in Complex /\ a[r][2] \in Complex /\ b[1][c] \in Complex /\ b[2][c] \in Complex
    BY MatrixFacts
  <2>2. Times(a[r][1], b[1][c]) \in Complex /\ Times(a[r][2], b[2][c]) \in Complex
    BY <2>1, ComplexClosed
  <2> QED
    BY <2>2, ComplexClosed
<1>4. m \in Matrix
  BY <1>2, <1>3 DEF Matrix
<1>5. ASSUME NEW x \in Complex, NEW y \in Complex, NEW r \in 1 .. 2
      PROVE  Row2(m, r, x, y) = Row2(a, r, Row2(b, 1, x, y), Row2(b, 2, x, y))
  <2>1. a[r][1] \in Complex /\ a[r][2] \in Complex
        /\ b[1][1] \in Complex /\ b[1][2] \in Complex /\ b[2][1] \in Complex /\ b[2][2] \in Complex
    BY MatrixFacts
  <2>2. m[r][1] = Plus(Times(a[r][1], b[1][1]), Times(a[r][2], b[2][1]))
        /\ m[r][2] = Plus(Times(a[r][1], b[1][2]), Times(a[r][2], b[2][2]))
    BY <1>1
  <2> HIDE DEF m
  <2>3. Row2(m, r, x, y) = Plus(Times(Plus(Times(a[r][1], b[1][1]), Times(a[r][2], b[2][1])), x),
                                Times(Plus(Times(a[r][1], b[1][2]), Times(a[r][2], b[2][2])), y))
    BY <2>2 DEF Row2
  <2>4. Row2(a, r, Row2(b, 1, x, y), Row2(b, 2, x, y))
          = Plus(Times(a[r][1], Plus(Times(b[1][1], x), Times(b[1][2], y))),
                 Times(a[r][2], Plus(Times(b[2][1], x), Times(b[2][2], y))))
    BY DEF Row2
  <2> DEFINE g == a[r][1]
             h == a[r][2]
             p == b[1][1]
             q == b[1][2]
             u == b[2][1]
             v == b[2][2]
  <2>5. g \in Complex /\ h \in Complex /\ p \in Complex /\ q \in Complex /\ u \in Complex /\ v \in Complex
    BY <2>1
  <2> HIDE DEF g, h, p, q, u, v
  <2>6. RowsCompose(g, h, p, q, u, v, x, y)
    BY <2>5, RowRing
  <2> QED
    BY <2>3, <2>4, <2>6 DEF RowsCompose, g, h, p, q, u, v
<1> QED
  BY <1>4, <1>5

\* Conjugation is additive and multiplicative.
LEMMA ConjFacts ==
  ASSUME NEW a \in Complex, NEW b \in Complex
  PROVE  /\ Conj(a) \in Complex /\ Conj(Conj(a)) = a
         /\ Conj(Plus(a, b)) = Plus(Conj(a), Conj(b))
         /\ Conj(Times(a, b)) = Times(Conj(a), Conj(b))
<1> DEFINE p == a.re
           q == a.im
           r == b.re
           s == b.im
<1>1. p \in Int /\ q \in Int /\ r \in Int /\ s \in Int /\ a = Gauss(p, q)
  BY ComplexFacts
<1> HIDE DEF p, q, r, s
<1>2. /\ p * r - q * s = p * r - (-q) * (-s) /\ -(p * s + q * r) = p * (-s) + (-q) * r
      /\ -(q + s) = (-q) + (-s) /\ -(-q) = q /\ -q \in Int
  BY <1>1
<1>3. Conj(a) \in Complex /\ Conj(Conj(a)) = a
  <2>1. Conj(a) = Gauss(p, -q)
    BY DEF Conj, p, q
  <2>2. Conj(Gauss(p, -q)) = Gauss(p, q)
    BY <1>2 DEF Conj, Gauss
  <2> QED
    BY <1>1, <1>2, <2>1, <2>2 DEF Gauss, Complex
<1>4. Conj(Plus(a, b)) = Plus(Conj(a), Conj(b))
  BY <1>2 DEF Conj, Plus, Gauss, p, q, r, s
<1>5. Conj(Times(a, b)) = Times(Conj(a), Conj(b))
  BY <1>2 DEF Conj, Times, Gauss, p, q, r, s
<1> QED
  BY <1>3, <1>4, <1>5

\* The adjoint of a product is the product of the adjoints, the other way
\* round.
LEMMA AdjointProduct ==
  ASSUME NEW a \in Matrix, NEW b \in Matrix
  PROVE  Adjoint2(a) \in Matrix /\ Adjoint2(Multiply2(a, b)) = Multiply2(Adjoint2(b), Adjoint2(a))
<1>1. ASSUME NEW m \in Matrix PROVE Adjoint2(m) \in Matrix
  <2>1. \A r, c \in 1 .. 2 : Conj(m[c][r]) \in Complex
    BY MatrixFacts, ConjFacts
  <2> QED
    BY <2>1 DEF Adjoint2, Matrix
<1>2. \A m : \A r, c \in 1 .. 2 : Adjoint2(m)[r][c] = Conj(m[c][r])
  BY DEF Adjoint2
<1>3. ASSUME NEW r \in 1 .. 2, NEW c \in 1 .. 2
      PROVE  Conj(Multiply2(a, b)[c][r])
               = Plus(Times(Adjoint2(b)[r][1], Adjoint2(a)[1][c]), Times(Adjoint2(b)[r][2], Adjoint2(a)[2][c]))
  <2>1. Multiply2(a, b)[c][r] = Plus(Times(a[c][1], b[1][r]), Times(a[c][2], b[2][r]))
    BY DEF Multiply2
  <2>2. /\ Adjoint2(b)[r][1] = Conj(b[1][r]) /\ Adjoint2(b)[r][2] = Conj(b[2][r])
        /\ Adjoint2(a)[1][c] = Conj(a[c][1]) /\ Adjoint2(a)[2][c] = Conj(a[c][2])
    BY <1>2
  <2>3. a[c][1] \in Complex /\ a[c][2] \in Complex /\ b[1][r] \in Complex /\ b[2][r] \in Complex
    BY MatrixFacts
  <2> DEFINE p == a[c][1]
             q == a[c][2]
             x == b[1][r]
             y == b[2][r]
  <2>4. p \in Complex /\ q \in Complex /\ x \in Complex /\ y \in Complex
    BY <2>3
  <2> HIDE DEF p, q, x, y
  <2>5. Times(p, x) \in Complex /\ Times(q, y) \in Complex /\ Conj(p) \in Complex /\ Conj(q) \in Complex
        /\ Conj(x) \in Complex /\ Conj(y) \in Complex
    BY <2>4, ComplexClosed, ConjFacts
  <2>6. Conj(Plus(Times(p, x), Times(q, y))) = Plus(Conj(Times(p, x)), Conj(Times(q, y)))
    BY <2>5, ConjFacts
  <2>7. Conj(Times(p, x)) = Times(Conj(p), Conj(x)) /\ Conj(Times(q, y)) = Times(Conj(q), Conj(y))
    BY <2>4, ConjFacts
  <2>8. Times(Conj(p), Conj(x)) = Times(Conj(x), Conj(p)) /\ Times(Conj(q), Conj(y)) = Times(Conj(y), Conj(q))
    BY <2>5, ComplexFacts
  <2>9. Conj(Plus(Times(p, x), Times(q, y))) = Plus(Times(Conj(x), Conj(p)), Times(Conj(y), Conj(q)))
    BY <2>6, <2>7, <2>8
  <2> QED
    BY <2>1, <2>2, <2>9 DEF p, q, x, y
<1>4. Adjoint2(Multiply2(a, b)) = [r \in 1 .. 2 |-> [c \in 1 .. 2 |-> Conj(Multiply2(a, b)[c][r])]]
  BY DEF Adjoint2
<1>5. Multiply2(Adjoint2(b), Adjoint2(a))
        = [r \in 1 .. 2 |-> [c \in 1 .. 2 |->
              Plus(Times(Adjoint2(b)[r][1], Adjoint2(a)[1][c]), Times(Adjoint2(b)[r][2], Adjoint2(a)[2][c]))]]
  BY DEF Multiply2
<1>6. Adjoint2(Multiply2(a, b)) = Multiply2(Adjoint2(b), Adjoint2(a))
  BY <1>3, <1>4, <1>5
<1> QED
  BY <1>1, <1>6


-----------------------------------------------------------------------------
(* The matrices of pair blocks                                             *)

Entries(m, a, b, c, d) == m[1][1] = a /\ m[1][2] = b /\ m[2][1] = c /\ m[2][2] = d

\* The entries of a matrix written out.
LEMMA TwoByTwo ==
  ASSUME NEW a \in Complex, NEW b \in Complex, NEW c \in Complex, NEW d \in Complex,
         NEW m, m = <<<<a, b>>, <<c, d>>>>
  PROVE  m \in Matrix /\ Entries(m, a, b, c, d)
<1>1. m[1] = <<a, b>> /\ m[2] = <<c, d>>
  OBVIOUS
<1>2. Entries(m, a, b, c, d)
  BY <1>1 DEF Entries
<1>3. 1 .. 2 = {1, 2}
  OBVIOUS
<1>4. <<a, b>> \in [1 .. 2 -> Complex] /\ <<c, d>> \in [1 .. 2 -> Complex]
  BY <1>3
<1>5. m \in [1 .. 2 -> [1 .. 2 -> Complex]]
  BY <1>1, <1>3, <1>4
<1> QED
  BY <1>2, <1>5 DEF Matrix

\* One matrix takes back what another did to a pair.
Inverts(b, a) ==
  \A x, y \in Complex : /\ Row2(b, 1, Row2(a, 1, x, y), Row2(a, 2, x, y)) = x
                        /\ Row2(b, 2, Row2(a, 1, x, y), Row2(a, 2, x, y)) = y

\* A matrix that treats both entries of a pair alike and is a unit times the
\* identity or the exchange.
Symmetric(m, p, q) == Entries(m, p, q, q, p)
UnitMatrix(p, q) == (p \in Units /\ q = Zero) \/ (p = Zero /\ q \in Units)

\* The adjoint of a symmetric unit matrix undoes it.
LEMMA UnitMatrixInverts ==
  ASSUME NEW m \in Matrix, NEW p, NEW q, Symmetric(m, p, q), UnitMatrix(p, q)
  PROVE  Inverts(Adjoint2(m), m)
<1> SUFFICES ASSUME NEW x \in Complex, NEW y \in Complex
             PROVE  /\ Row2(Adjoint2(m), 1, Row2(m, 1, x, y), Row2(m, 2, x, y)) = x
                    /\ Row2(Adjoint2(m), 2, Row2(m, 1, x, y), Row2(m, 2, x, y)) = y
  BY DEF Inverts
<1> DEFINE d == Adjoint2(m)
<1>1. d[1][1] = Conj(p) /\ d[1][2] = Conj(q) /\ d[2][1] = Conj(q) /\ d[2][2] = Conj(p)
  BY DEF Adjoint2, Symmetric, Entries
<1>2. Row2(m, 1, x, y) = Plus(Times(p, x), Times(q, y)) /\ Row2(m, 2, x, y) = Plus(Times(q, x), Times(p, y))
  BY DEF Row2, Symmetric, Entries
<1> DEFINE a == Row2(m, 1, x, y)
           b == Row2(m, 2, x, y)
<1>3. Row2(d, 1, a, b) = Plus(Times(Conj(p), a), Times(Conj(q), b))
      /\ Row2(d, 2, a, b) = Plus(Times(Conj(q), a), Times(Conj(p), b))
  BY <1>1 DEF Row2
<1>4. Conj(Zero) = Zero /\ Zero \in Complex
  BY DEF Conj, Zero, Gauss, Complex
<1> HIDE DEF a, b, d
<1>5. CASE p \in Units /\ q = Zero
  <2>1. p \in Complex /\ Conj(p) \in Complex /\ Times(Conj(p), Times(p, x)) = x /\ Times(Conj(p), Times(p, y)) = y
        /\ Times(p, x) \in Complex /\ Times(p, y) \in Complex
    BY <1>5, UnitFacts, UnitUndone
  <2>2. a = Times(p, x) /\ b = Times(p, y)
    <3>1. Times(Zero, x) = Zero /\ Times(Zero, y) = Zero
      BY ComplexFacts
    <3>2. Plus(Times(p, x), Zero) = Times(p, x) /\ Plus(Zero, Times(p, y)) = Times(p, y)
      BY <2>1, ComplexFacts
    <3> QED
      BY <1>2, <1>5, <3>1, <3>2 DEF a, b
  <2>3. Times(Zero, a) = Zero /\ Times(Zero, b) = Zero
    BY <2>1, <2>2, ComplexFacts
  <2>4. Plus(x, Zero) = x /\ Plus(Zero, y) = y
    BY ComplexFacts
  <2> QED
    BY <1>3, <1>4, <1>5, <2>1, <2>2, <2>3, <2>4 DEF a, b, d
<1>6. CASE p = Zero /\ q \in Units
  <2>1. q \in Complex /\ Conj(q) \in Complex /\ Times(Conj(q), Times(q, x)) = x /\ Times(Conj(q), Times(q, y)) = y
        /\ Times(q, x) \in Complex /\ Times(q, y) \in Complex
    BY <1>6, UnitFacts, UnitUndone
  <2>2. a = Times(q, y) /\ b = Times(q, x)
    <3>1. Times(Zero, x) = Zero /\ Times(Zero, y) = Zero
      BY ComplexFacts
    <3>2. Plus(Times(q, x), Zero) = Times(q, x) /\ Plus(Zero, Times(q, y)) = Times(q, y)
      BY <2>1, ComplexFacts
    <3> QED
      BY <1>2, <1>6, <3>1, <3>2 DEF a, b
  <2>3. Times(Zero, a) = Zero /\ Times(Zero, b) = Zero
    BY <2>1, <2>2, ComplexFacts
  <2>4. Plus(Zero, x) = x /\ Plus(y, Zero) = y
    BY ComplexFacts
  <2> QED
    BY <1>3, <1>4, <1>6, <2>1, <2>2, <2>3, <2>4 DEF a, b, d
<1> QED
  BY <1>5, <1>6 DEF UnitMatrix

\* The two entries of the matrix of one operation.
Stays(op, angle_values) ==
  IF op.kind = "swap" THEN Zero ELSE Gauss(IPow(angle_values[op.angle]).re, 0)
Crosses(op, angle_values) ==
  IF op.kind = "swap" THEN One ELSE Gauss(0, IPow(angle_values[op.angle]).im)

\* swap, and iswap at any quarter turn, have a symmetric unit matrix.
LEMMA MicroIs ==
  ASSUME NEW program, NEW op, LegalOp(op, program), ~IsDiagonal(op),
         NEW angle_values, LegalAngles(angle_values, program)
  PROVE  /\ MicroMatrix(op, angle_values) \in Matrix
         /\ Symmetric(MicroMatrix(op, angle_values), Stays(op, angle_values), Crosses(op, angle_values))
         /\ UnitMatrix(Stays(op, angle_values), Crosses(op, angle_values))
<1> DEFINE m == MicroMatrix(op, angle_values)
           p == Stays(op, angle_values)
           q == Crosses(op, angle_values)
<1>1. op.kind \in {"swap", "iswap"}
  BY DEF IsDiagonal
<1>2. Zero \in Complex /\ One \in Complex /\ One \in Units
  BY DEF Zero, One, Gauss, Complex, Units
<1>3. p \in Complex /\ q \in Complex /\ UnitMatrix(p, q)
  <2>1. CASE op.kind = "swap"
    BY <1>2, <2>1 DEF Stays, Crosses, UnitMatrix
  <2>2. CASE op.kind = "iswap"
    <3>1. angle_values[op.angle] \in Int
      BY <2>2 DEF LegalOp, HasAngle, LegalAngles
    <3>2. PICK u \in Units : u = IPow(angle_values[op.angle])
      BY <3>1, TurnFacts
    <3>3. p = Gauss(u.re, 0) /\ q = Gauss(0, u.im)
      BY <2>2, <3>2 DEF Stays, Crosses
    <3>4. (Gauss(u.re, 0) \in Units /\ Gauss(0, u.im) = Zero) \/ (Gauss(u.re, 0) = Zero /\ Gauss(0, u.im) \in Units)
      BY DEF Units, One, QuarterTurn, HalfTurn, BackTurn, Zero, Gauss
    <3> QED
      BY <1>2, <3>3, <3>4, UnitFacts DEF UnitMatrix
  <2> QED
    BY <1>1, <2>1, <2>2
<1>4. m = <<<<p, q>>, <<q, p>>>>
  BY DEF MicroMatrix, Stays, Crosses
<1> HIDE DEF m, p, q
<1>5. m \in Matrix /\ Entries(m, p, q, q, p)
  BY <1>3, <1>4, TwoByTwo
<1> QED
  BY <1>3, <1>5 DEF Symmetric, m, p, q

\* A block of operations on one pair of wires.
PairRun(run, program) ==
  /\ Len(run) \in Nat /\ DOMAIN run = 1 .. Len(run)
  /\ \A k \in 1 .. Len(run) : LegalOp(run[k], program) /\ ~IsDiagonal(run[k]) /\ PairKey(run[k]) = PairKey(run[1])

Composes(f, run, angle_values) ==
  /\ f \in [0 .. Len(run) -> Matrix] /\ f[0] = Identity2
  /\ \A k \in 1 .. Len(run) : f[k] = Multiply2(MicroMatrix(run[k], angle_values), f[k - 1])

\* The matrix of a block, operation by operation.
LEMMA ComposedChain ==
  ASSUME NEW program, NEW run, PairRun(run, program), NEW angle_values, LegalAngles(angle_values, program)
  PROVE  \E f : Composes(f, run, angle_values) /\ Composed(run, angle_values) = f[Len(run)]
<1> DEFINE N == Len(run)
           V == Matrix
           Body(g) == [k \in 0 .. N |-> IF k = 0 THEN Identity2 ELSE Multiply2(MicroMatrix(run[k], angle_values), g[k - 1])]
           rec == CHOOSE g : g = Body(g)
           step == [k \in 1 .. N |-> [x \in V |-> Multiply2(MicroMatrix(run[k], angle_values), x)]]
<1>1. N \in Nat
  BY DEF PairRun
<1>2. Identity2 \in V
  <2>1. Zero \in Complex /\ One \in Complex
    BY DEF Zero, One, Gauss, Complex
  <2> QED
    BY <2>1, TwoByTwo DEF Identity2
<1>3. \A k \in 1 .. N : \A x \in V : Multiply2(MicroMatrix(run[k], angle_values), x) \in V
  <2> SUFFICES ASSUME NEW k \in 1 .. N, NEW x \in Matrix PROVE Multiply2(MicroMatrix(run[k], angle_values), x) \in Matrix
    OBVIOUS
  <2>1. MicroMatrix(run[k], angle_values) \in Matrix
    BY MicroIs DEF PairRun
  <2> QED
    BY <2>1, RowProduct
<1> HIDE DEF N, V
<1>4. step \in [1 .. N -> [V -> V]]
  BY <1>3
<1>5. PICK g : IsChain(g, N, V, Identity2, step)
  <2> HIDE DEF step
  <2> QED
    BY <1>1, <1>2, <1>4, Chain
<1>6. g \in [0 .. N -> V] /\ g[0] = Identity2 /\ \A k \in 1 .. N : g[k] = Multiply2(MicroMatrix(run[k], angle_values), g[k - 1])
  <2>1. g \in [0 .. N -> V] /\ g[0] = Identity2 /\ \A k \in 1 .. N : g[k] = step[k][g[k - 1]]
    BY <1>5 DEF IsChain
  <2>2. \A k \in 1 .. N : g[k - 1] \in V
    BY <1>1, <2>1
  <2>3. \A k \in 1 .. N : \A x \in V : step[k][x] = Multiply2(MicroMatrix(run[k], angle_values), x)
    OBVIOUS
  <2> HIDE DEF step
  <2> QED
    BY <2>1, <2>2, <2>3
<1>7. g = Body(g)
  <2>1. g = [k \in 0 .. N |-> g[k]] /\ g[0] = Identity2
    BY <1>6
  <2>2. \A k \in 0 .. N : g[k] = IF k = 0 THEN Identity2 ELSE Multiply2(MicroMatrix(run[k], angle_values), g[k - 1])
    BY <1>1, <1>6
  <2> QED
    BY <2>1, <2>2
<1>8. rec = Body(rec)
  <2> HIDE DEF Body
  <2> QED
    BY <1>7
<1>9. rec \in [0 .. N -> V] /\ rec[0] = Identity2
      /\ \A k \in 1 .. N : rec[k] = Multiply2(MicroMatrix(run[k], angle_values), rec[k - 1])
  <2> HIDE DEF rec
  <2>1. \A k \in 0 .. N : rec[k] = IF k = 0 THEN Identity2 ELSE Multiply2(MicroMatrix(run[k], angle_values), rec[k - 1])
    <3>1. rec = [k \in 0 .. N |-> IF k = 0 THEN Identity2 ELSE Multiply2(MicroMatrix(run[k], angle_values), rec[k - 1])]
      BY <1>8
    <3> QED
      BY <3>1
  <2> DEFINE T == {k \in 0 .. N : rec[k] \in V}
  <2>2. 0 \in T
    BY <1>1, <1>2, <2>1
  <2>3. ASSUME NEW k \in 1 .. N, k - 1 \in T PROVE k \in T
    <3>1. rec[k] = Multiply2(MicroMatrix(run[k], angle_values), rec[k - 1]) /\ rec[k - 1] \in V
      BY <1>1, <2>1, <2>3
    <3>2. rec[k] \in V
      BY <1>3, <3>1
    <3> QED
      BY <1>1, <3>2
  <2> HIDE DEF T
  <2>4. \A k \in 0 .. N : k \in T
    BY <1>1, <2>2, <2>3, UpTo
  <2>5. \A k \in 0 .. N : rec[k] \in V
    BY <2>4 DEF T
  <2>6. rec = [k \in 0 .. N |-> rec[k]]
    BY <1>8
  <2>7. rec \in [0 .. N -> V]
    BY <2>5, <2>6
  <2>8. rec[0] = Identity2 /\ \A k \in 1 .. N : rec[k] = Multiply2(MicroMatrix(run[k], angle_values), rec[k - 1])
    BY <1>1, <2>1
  <2> QED
    BY <2>7, <2>8
<1>10. Composed(run, angle_values) = rec[N]
  BY DEF Composed, N
<1> HIDE DEF rec
<1> QED
  BY <1>9, <1>10 DEF Composes, N, V

\* The matrix of a block is undone by its adjoint.
LEMMA ComposedInverts ==
  ASSUME NEW program, NEW run, PairRun(run, program), NEW angle_values, LegalAngles(angle_values, program)
  PROVE  /\ Composed(run, angle_values) \in Matrix /\ Adjoint2(Composed(run, angle_values)) \in Matrix
         /\ Inverts(Adjoint2(Composed(run, angle_values)), Composed(run, angle_values))
<1> DEFINE n == Len(run)
<1>1. PICK f : Composes(f, run, angle_values) /\ Composed(run, angle_values) = f[n]
  BY ComposedChain
<1>2. n \in Nat /\ \A k \in 1 .. n : LegalOp(run[k], program) /\ ~IsDiagonal(run[k])
  BY DEF PairRun
<1>3. f \in [0 .. n -> Matrix] /\ f[0] = Identity2
      /\ \A k \in 1 .. n : f[k] = Multiply2(MicroMatrix(run[k], angle_values), f[k - 1])
  BY <1>1 DEF Composes
<1> HIDE DEF n
<1> DEFINE T == {k \in 0 .. n : Inverts(Adjoint2(f[k]), f[k])}
<1>4. 0 \in T
  <2>1. Zero \in Complex /\ One \in Complex /\ One \in Units
    BY DEF Zero, One, Gauss, Complex, Units
  <2>2. Identity2 \in Matrix /\ Symmetric(Identity2, One, Zero)
    BY <2>1, TwoByTwo DEF Identity2, Symmetric
  <2>3. UnitMatrix(One, Zero)
    BY <2>1 DEF UnitMatrix
  <2>4. Inverts(Adjoint2(Identity2), Identity2)
    BY <2>2, <2>3, UnitMatrixInverts
  <2> QED
    BY <1>2, <1>3, <2>4
<1>5. ASSUME NEW k \in 1 .. n, k - 1 \in T PROVE k \in T
  <2> DEFINE g == f[k - 1]
             a == MicroMatrix(run[k], angle_values)
  <2>1. k - 1 \in 0 .. n /\ k \in 0 .. n
    BY <1>2
  <2>2. g \in Matrix /\ Inverts(Adjoint2(g), g) /\ f[k] = Multiply2(a, g)
    BY <1>3, <1>5, <2>1
  <2>3. a \in Matrix /\ Inverts(Adjoint2(a), a)
    BY <1>2, MicroIs, UnitMatrixInverts
  <2> HIDE DEF g, a
  <2>4. Adjoint2(Multiply2(a, g)) = Multiply2(Adjoint2(g), Adjoint2(a)) /\ Adjoint2(a) \in Matrix /\ Adjoint2(g) \in Matrix
    BY <2>2, <2>3, AdjointProduct
  <2>5. Inverts(Multiply2(Adjoint2(g), Adjoint2(a)), Multiply2(a, g))
    <3> SUFFICES ASSUME NEW x \in Complex, NEW y \in Complex
                 PROVE  LET b == Multiply2(Adjoint2(g), Adjoint2(a))
                            c == Multiply2(a, g)
                        IN  /\ Row2(b, 1, Row2(c, 1, x, y), Row2(c, 2, x, y)) = x
                            /\ Row2(b, 2, Row2(c, 1, x, y), Row2(c, 2, x, y)) = y
      BY DEF Inverts
    <3> DEFINE x1 == Row2(g, 1, x, y)
               y1 == Row2(g, 2, x, y)
               x2 == Row2(a, 1, x1, y1)
               y2 == Row2(a, 2, x1, y1)
    <3>1. x1 \in Complex /\ y1 \in Complex
      BY <2>2, RowType
    <3>2. Row2(Multiply2(a, g), 1, x, y) = x2 /\ Row2(Multiply2(a, g), 2, x, y) = y2
      BY <2>2, <2>3, RowProduct
    <3> DEFINE p == x1
               q == y1
    <3>3. Row2(Adjoint2(g), 1, x1, y1) = x /\ Row2(Adjoint2(g), 2, x1, y1) = y
      BY <2>2 DEF Inverts
    <3> HIDE DEF x1, y1
    <3>4. x2 \in Complex /\ y2 \in Complex
      BY <2>3, <3>1, RowType
    <3>5. Row2(Adjoint2(a), 1, x2, y2) = x1 /\ Row2(Adjoint2(a), 2, x2, y2) = y1
      BY <2>3, <3>1 DEF Inverts
    <3> HIDE DEF x2, y2
    <3>6. \A r \in 1 .. 2 : Row2(Multiply2(Adjoint2(g), Adjoint2(a)), r, x2, y2)
            = Row2(Adjoint2(g), r, Row2(Adjoint2(a), 1, x2, y2), Row2(Adjoint2(a), 2, x2, y2))
      BY <2>4, <3>4, RowProduct
    <3> QED
      BY <3>2, <3>3, <3>5, <3>6
  <2>6. Inverts(Adjoint2(f[k]), f[k])
    BY <2>2, <2>4, <2>5
  <2> QED
    BY <2>1, <2>6
<1> HIDE DEF T
<1>6. \A k \in 0 .. n : k \in T
  BY <1>2, <1>4, <1>5, UpTo
<1>7. f[n] \in Matrix /\ Inverts(Adjoint2(f[n]), f[n])
  BY <1>2, <1>3, <1>6 DEF T
<1>8. Adjoint2(f[n]) \in Matrix
  BY <1>7, AdjointProduct
<1> QED
  BY <1>1, <1>7, <1>8


-----------------------------------------------------------------------------
(* Operations on the full vector                                           *)

Space(n) == [SUBSET Qubits(n) -> Complex]

\* A vector whose pairs of amplitudes, the two wires exchanged, are those of
\* another with a matrix applied.
MixesPairs(n, wire0, wire1, m, F, G) ==
  \A c \in SUBSET RemainingWires(n, wire0, wire1) :
    /\ G[c] = F[c] /\ G[c \cup {wire0, wire1}] = F[c \cup {wire0, wire1}]
    /\ G[c \cup {wire1}] = Row2(m, 1, F[c \cup {wire1}], F[c \cup {wire0}])
    /\ G[c \cup {wire0}] = Row2(m, 2, F[c \cup {wire1}], F[c \cup {wire0}])

\* Which words an operation exchanges.
Exchanges(op, n, wire0, wire1, c) ==
  /\ Exchanged(op, c) = c /\ Exchanged(op, c \cup {wire0, wire1}) = c \cup {wire0, wire1}
  /\ Exchanged(op, c \cup {wire0}) = c \cup {wire1} /\ Exchanged(op, c \cup {wire1}) = c \cup {wire0}
  /\ c \in SUBSET Qubits(n) /\ c \cup {wire0, wire1} \in SUBSET Qubits(n)
  /\ c \cup {wire0} \in SUBSET Qubits(n) /\ c \cup {wire1} \in SUBSET Qubits(n)
  /\ c \cup {wire0} # c \cup {wire1}

\* What exchanging a pair of wires makes of the four words over one remainder.
LEMMA ExchangedIs ==
  ASSUME NEW n \in Nat, NEW wire0, NEW wire1, TwoWires(n, wire0, wire1),
         NEW op, PairKey(op) = {wire0, wire1}, NEW c \in SUBSET RemainingWires(n, wire0, wire1)
  PROVE  Exchanges(op, n, wire0, wire1, c)
<1> DEFINE K == {wire0, wire1}
<1>1. wire0 \in Qubits(n) /\ wire1 \in Qubits(n) /\ wire0 # wire1 /\ c \subseteq Qubits(n)
      /\ wire0 \notin c /\ wire1 \notin c
  BY DEF TwoWires, RemainingWires
<1>2. K \cap c = {} /\ K \cap (c \cup {wire0, wire1}) = {wire0} \cup {wire1}
      /\ K \cap (c \cup {wire0}) = {wire0} /\ K \cap (c \cup {wire1}) = {wire1}
  BY <1>1
<1>3. /\ Cardinality({}) = 0 /\ Cardinality({wire0}) = 1 /\ Cardinality({wire1}) = 1
      /\ IsFiniteSet({wire0})
  BY FS_EmptySet, FS_Singleton
<1>4. Cardinality({wire0} \cup {wire1}) = 2
  <2>1. wire1 \notin {wire0}
    BY <1>1
  <2>2. Cardinality({wire0} \cup {wire1}) = Cardinality({wire0}) + 1
    BY <1>3, <2>1, FS_AddElement
  <2> QED
    BY <1>3, <2>2
<1>5. Xor(c \cup {wire0}, K) = c \cup {wire1} /\ Xor(c \cup {wire1}, K) = c \cup {wire0}
  BY <1>1 DEF Xor
<1>6. \A w : Exchanged(op, w) = IF Cardinality(K \cap w) = 1 THEN Xor(w, K) ELSE w
  BY DEF Exchanged
<1>7. Exchanged(op, c) = c
  BY <1>2, <1>3, <1>6
<1>8. Exchanged(op, c \cup {wire0, wire1}) = c \cup {wire0, wire1}
  BY <1>2, <1>4, <1>6
<1>9. Exchanged(op, c \cup {wire0}) = c \cup {wire1} /\ Exchanged(op, c \cup {wire1}) = c \cup {wire0}
  BY <1>2, <1>3, <1>5, <1>6
<1> QED
  BY <1>1, <1>7, <1>8, <1>9 DEF Exchanges

\* Every word stands in exactly one of four places.
LEMMA WordPlaces ==
  ASSUME NEW n \in Nat, NEW wire0, NEW wire1, TwoWires(n, wire0, wire1), NEW w \in SUBSET Qubits(n)
  PROVE  \E c \in SUBSET RemainingWires(n, wire0, wire1) :
           w = c \/ w = c \cup {wire0, wire1} \/ w = c \cup {wire0} \/ w = c \cup {wire1}
<1> DEFINE c == w \ {wire0, wire1}
<1>1. c \in SUBSET RemainingWires(n, wire0, wire1)
  BY DEF RemainingWires
<1>2. w = c \/ w = c \cup {wire0, wire1} \/ w = c \cup {wire0} \/ w = c \cup {wire1}
  OBVIOUS
<1> QED
  BY <1>1, <1>2

\* Exchanging two wires keeps a word within the qubits.
LEMMA ExchangeClosed ==
  ASSUME NEW n \in Nat, NEW wire0, NEW wire1, TwoWires(n, wire0, wire1),
         NEW op, PairKey(op) = {wire0, wire1}, NEW w \in SUBSET Qubits(n)
  PROVE  Exchanged(op, w) \in SUBSET Qubits(n)
<1>1. PICK c \in SUBSET RemainingWires(n, wire0, wire1) :
        w = c \/ w = c \cup {wire0, wire1} \/ w = c \cup {wire0} \/ w = c \cup {wire1}
  BY WordPlaces
<1>2. Exchanges(op, n, wire0, wire1, c)
  BY ExchangedIs
<1> QED
  BY <1>1, <1>2 DEF Exchanges

GateValue(op, angle_values, v, w) ==
  CASE IsDiagonal(op) -> Times(DiagonalPhase(op, angle_values, w), v[w])
    [] op.kind = "swap" -> v[Exchanged(op, w)]
    [] op.kind = "iswap" ->
         IF Exchanged(op, w) = w THEN v[w]
         ELSE LET u == IPow(angle_values[op.angle]) IN
              Plus(Times(Gauss(u.re, 0), v[w]), Times(Gauss(0, u.im), v[Exchanged(op, w)]))

\* An operation takes full vectors to full vectors.
LEMMA FullGateIs ==
  ASSUME NEW program, program.nqubits \in Nat, NEW op, LegalOp(op, program),
         NEW angle_values, LegalAngles(angle_values, program), NEW F \in Space(program.nqubits)
  PROVE  /\ FullGate(op, angle_values, F) \in Space(program.nqubits)
         /\ IsDiagonal(op) => \A w \in SUBSET Qubits(program.nqubits) :
              FullGate(op, angle_values, F)[w] = Times(DiagonalPhase(op, angle_values, w), F[w])
         /\ ~IsDiagonal(op) => \A wire0, wire1 : {wire0, wire1} = PairKey(op) /\ TwoWires(program.nqubits, wire0, wire1) =>
              MixesPairs(program.nqubits, wire0, wire1, MicroMatrix(op, angle_values), F, FullGate(op, angle_values, F))
<1> DEFINE n == program.nqubits
           G == FullGate(op, angle_values, F)
           u == IPow(angle_values[op.angle])
           m == MicroMatrix(op, angle_values)
           W == SUBSET Qubits(n)
<1>1. F \in [W -> Complex] /\ DOMAIN F = W /\ \A w \in W : F[w] \in Complex
  BY DEF Space
<1>a. G = [w \in DOMAIN F |-> GateValue(op, angle_values, F, w)]
  BY DEF FullGate, GateValue
<1> HIDE DEF G
<1>b. \A w \in W : G[w] = GateValue(op, angle_values, F, w)
  BY <1>1, <1>a
<1>2. G = [w \in W |-> G[w]]
  BY <1>1, <1>a
<1>3. \A w \in W : IsDiagonal(op) => G[w] = Times(DiagonalPhase(op, angle_values, w), F[w])
  BY <1>b DEF GateValue, IsDiagonal
<1>4. \A w \in W : op.kind = "swap" => G[w] = F[Exchanged(op, w)]
  BY <1>b DEF GateValue, IsDiagonal
<1>5. \A w \in W : op.kind = "iswap" =>
        G[w] = IF Exchanged(op, w) = w THEN F[w]
               ELSE Plus(Times(Gauss(u.re, 0), F[w]), Times(Gauss(0, u.im), F[Exchanged(op, w)]))
  BY <1>b DEF GateValue, IsDiagonal
<1>6. CASE IsDiagonal(op)
  <2>1. \A w \in W : G[w] \in Complex
    <3> SUFFICES ASSUME NEW w \in W PROVE G[w] \in Complex
      OBVIOUS
    <3>1. DiagonalPhase(op, angle_values, w) \in Complex
      BY <1>6, PhaseIsUnit, UnitFacts
    <3> QED
      BY <1>1, <1>3, <1>6, <3>1, ComplexClosed
  <2>2. G \in [W -> Complex]
    BY <1>2, <2>1
  <2> QED
    BY <1>3, <1>6, <2>2 DEF Space, G
<1>7. CASE ~IsDiagonal(op)
  <2> DEFINE p == Stays(op, angle_values)
             q == Crosses(op, angle_values)
  <2>1. op.kind \in {"swap", "iswap"}
    BY <1>7 DEF IsDiagonal
  <2>2. m \in Matrix /\ Symmetric(m, p, q) /\ UnitMatrix(p, q)
    BY <1>7, MicroIs
  <2>3. p \in Complex /\ q \in Complex
    BY <2>2, UnitFacts, ComplexFacts DEF Symmetric, Entries, Matrix
  <2>4. TwoWires(n, op.wires[1], op.wires[2]) /\ PairKey(op) = {op.wires[1], op.wires[2]}
    BY <2>1 DEF LegalOp, PairKey
  <2>5. \A w \in W : Exchanged(op, w) \in W
    BY <2>4, ExchangeClosed
  <2>6. \A w \in W : Exchanged(op, w) = w => G[w] = F[w]
    BY <1>4, <1>5, <2>1
  <2>7. \A w \in W : Exchanged(op, w) # w => G[w] = Plus(Times(p, F[w]), Times(q, F[Exchanged(op, w)]))
    <3> SUFFICES ASSUME NEW w \in W, Exchanged(op, w) # w
                 PROVE  G[w] = Plus(Times(p, F[w]), Times(q, F[Exchanged(op, w)]))
      OBVIOUS
    <3> DEFINE v == Exchanged(op, w)
    <3>1. F[w] \in Complex /\ F[v] \in Complex
      BY <1>1, <2>5
    <3>2. CASE op.kind = "swap"
      <4>1. p = Zero /\ q = One
        BY <3>2 DEF Stays, Crosses
      <4>2. Times(Zero, F[w]) = Zero /\ Times(One, F[v]) = F[v] /\ Plus(Zero, F[v]) = F[v]
        BY <3>1, ComplexFacts, ComplexOneTimes
      <4> QED
        BY <1>4, <3>2, <4>1, <4>2
    <3>3. CASE op.kind = "iswap"
      <4>1. p = Gauss(u.re, 0) /\ q = Gauss(0, u.im)
        BY <3>3 DEF Stays, Crosses
      <4> QED
        BY <1>5, <3>3, <4>1
    <3> QED
      BY <2>1, <3>2, <3>3
  <2>8. \A w \in W : G[w] \in Complex
    <3> SUFFICES ASSUME NEW w \in W PROVE G[w] \in Complex
      OBVIOUS
    <3>1. F[w] \in Complex /\ F[Exchanged(op, w)] \in Complex
      BY <1>1, <2>5
    <3>2. Times(p, F[w]) \in Complex /\ Times(q, F[Exchanged(op, w)]) \in Complex
      BY <2>3, <3>1, ComplexClosed
    <3>3. Plus(Times(p, F[w]), Times(q, F[Exchanged(op, w)])) \in Complex
      BY <3>2, ComplexClosed
    <3> QED
      BY <2>6, <2>7, <3>1, <3>3
  <2>9. G \in [W -> Complex]
    BY <1>2, <2>8
  <2>10. ASSUME NEW wire0, NEW wire1, {wire0, wire1} = PairKey(op), TwoWires(n, wire0, wire1)
         PROVE  MixesPairs(n, wire0, wire1, m, F, G)
    <3> SUFFICES ASSUME NEW c \in SUBSET RemainingWires(n, wire0, wire1)
                 PROVE  /\ G[c] = F[c] /\ G[c \cup {wire0, wire1}] = F[c \cup {wire0, wire1}]
                        /\ G[c \cup {wire1}] = Row2(m, 1, F[c \cup {wire1}], F[c \cup {wire0}])
                        /\ G[c \cup {wire0}] = Row2(m, 2, F[c \cup {wire1}], F[c \cup {wire0}])
      BY DEF MixesPairs
    <3> DEFINE c0 == c \cup {wire0}
               c1 == c \cup {wire1}
               c2 == c \cup {wire0, wire1}
    <3>0. Exchanges(op, n, wire0, wire1, c)
      <4>1. PairKey(op) = {wire0, wire1} /\ n \in Nat
        BY <2>10
      <4> HIDE DEF n
      <4> QED
        BY <2>10, <4>1, ExchangedIs
    <3>1. /\ Exchanged(op, c) = c /\ Exchanged(op, c2) = c2 /\ Exchanged(op, c0) = c1 /\ Exchanged(op, c1) = c0
          /\ c \in W /\ c2 \in W /\ c0 \in W /\ c1 \in W /\ c0 # c1
      BY <3>0 DEF Exchanges
    <3> HIDE DEF c0, c1, c2
    <3>2. G[c] = F[c] /\ G[c2] = F[c2]
      BY <2>6, <3>1
    <3>3. G[c1] = Plus(Times(p, F[c1]), Times(q, F[c0]))
      BY <2>7, <3>1
    <3>4. G[c0] = Plus(Times(q, F[c1]), Times(p, F[c0]))
      <4>1. G[c0] = Plus(Times(p, F[c0]), Times(q, F[c1]))
        BY <2>7, <3>1
      <4>2. Times(p, F[c0]) \in Complex /\ Times(q, F[c1]) \in Complex
        BY <1>1, <2>3, <3>1, ComplexClosed
      <4> QED
        BY <4>1, <4>2, ComplexFacts
    <3>5. Row2(m, 1, F[c1], F[c0]) = Plus(Times(p, F[c1]), Times(q, F[c0]))
          /\ Row2(m, 2, F[c1], F[c0]) = Plus(Times(q, F[c1]), Times(p, F[c0]))
      BY <2>2 DEF Row2, Symmetric, Entries
    <3> QED
      BY <3>2, <3>3, <3>4, <3>5 DEF c0, c1, c2
  <2> QED
    BY <1>7, <2>9, <2>10 DEF Space, G
<1> QED
  BY <1>6, <1>7

-----------------------------------------------------------------------------
\* The full circuit, operation by operation.
Evolves(f, program, angle_values, F, n) ==
  /\ f \in [0 .. n -> Space(program.nqubits)] /\ f[0] = F
  /\ \A k \in 1 .. n : f[k] = FullGate(program.operations[k], angle_values, f[k - 1])

\* The reference, up to an operation.
LEMMA FullRunChain ==
  ASSUME NEW program, LegalProgram(program), NEW angle_values, LegalAngles(angle_values, program),
         NEW F \in Space(program.nqubits), NEW upto \in 0 .. Len(program.operations)
  PROVE  \E f : Evolves(f, program, angle_values, F, upto) /\ FullRun(program, angle_values, F, upto) = f[upto]
<1> DEFINE N == upto
           V == Space(program.nqubits)
           Body(g) == [k \in 0 .. N |-> IF k = 0 THEN F ELSE FullGate(program.operations[k], angle_values, g[k - 1])]
           rec == CHOOSE g : g = Body(g)
           step == [k \in 1 .. N |-> [x \in V |-> FullGate(program.operations[k], angle_values, x)]]
<1>1. N \in Nat
  BY LegalOps
<1>2. F \in V
  OBVIOUS
<1>3. \A k \in 1 .. N : \A x \in V : FullGate(program.operations[k], angle_values, x) \in V
  <2> SUFFICES ASSUME NEW k \in 1 .. N, NEW x \in V PROVE FullGate(program.operations[k], angle_values, x) \in V
    OBVIOUS
  <2>1. k \in DOMAIN program.operations /\ program.nqubits \in Nat
    BY <1>1, LegalOps DEF LegalProgram, IsProgram
  <2>2. LegalOp(program.operations[k], program)
    BY <2>1, LegalOps
  <2> QED
    BY <2>1, <2>2, FullGateIs
<1> HIDE DEF N, V
<1>4. step \in [1 .. N -> [V -> V]]
  BY <1>3
<1>5. PICK g : IsChain(g, N, V, F, step)
  <2> HIDE DEF step
  <2> QED
    BY <1>1, <1>2, <1>4, Chain
<1>6. g \in [0 .. N -> V] /\ g[0] = F /\ \A k \in 1 .. N : g[k] = FullGate(program.operations[k], angle_values, g[k - 1])
  <2>1. g \in [0 .. N -> V] /\ g[0] = F /\ \A k \in 1 .. N : g[k] = step[k][g[k - 1]]
    BY <1>5 DEF IsChain
  <2>2. \A k \in 1 .. N : g[k - 1] \in V
    BY <1>1, <2>1
  <2>3. \A k \in 1 .. N : \A x \in V : step[k][x] = FullGate(program.operations[k], angle_values, x)
    OBVIOUS
  <2> HIDE DEF step
  <2> QED
    BY <2>1, <2>2, <2>3
<1>7. g = Body(g)
  <2>1. g = [k \in 0 .. N |-> g[k]] /\ g[0] = F
    BY <1>6
  <2>2. \A k \in 0 .. N : g[k] = IF k = 0 THEN F ELSE FullGate(program.operations[k], angle_values, g[k - 1])
    BY <1>1, <1>6
  <2> QED
    BY <2>1, <2>2
<1>8. rec = Body(rec)
  <2> HIDE DEF Body
  <2> QED
    BY <1>7
<1>9. rec \in [0 .. N -> V] /\ rec[0] = F
      /\ \A k \in 1 .. N : rec[k] = FullGate(program.operations[k], angle_values, rec[k - 1])
  <2> HIDE DEF rec
  <2>1. \A k \in 0 .. N : rec[k] = IF k = 0 THEN F ELSE FullGate(program.operations[k], angle_values, rec[k - 1])
    <3>1. rec = [k \in 0 .. N |-> IF k = 0 THEN F ELSE FullGate(program.operations[k], angle_values, rec[k - 1])]
      BY <1>8
    <3> QED
      BY <3>1
  <2> DEFINE T == {k \in 0 .. N : rec[k] \in V}
  <2>2. 0 \in T
    BY <1>1, <1>2, <2>1
  <2>3. ASSUME NEW k \in 1 .. N, k - 1 \in T PROVE k \in T
    <3>1. rec[k] = FullGate(program.operations[k], angle_values, rec[k - 1]) /\ rec[k - 1] \in V
      BY <1>1, <2>1, <2>3
    <3>2. rec[k] \in V
      BY <1>3, <3>1
    <3> QED
      BY <1>1, <3>2
  <2> HIDE DEF T
  <2>4. \A k \in 0 .. N : k \in T
    BY <1>1, <2>2, <2>3, UpTo
  <2>5. \A k \in 0 .. N : rec[k] \in V
    BY <2>4 DEF T
  <2>6. rec = [k \in 0 .. N |-> rec[k]]
    BY <1>8
  <2>7. rec \in [0 .. N -> V]
    BY <2>5, <2>6
  <2>8. rec[0] = F /\ \A k \in 1 .. N : rec[k] = FullGate(program.operations[k], angle_values, rec[k - 1])
    BY <1>1, <2>1
  <2> QED
    BY <2>7, <2>8
<1>10. FullRun(program, angle_values, F, upto) = rec[N]
  BY DEF FullRun, N
<1> HIDE DEF rec
<1> QED
  BY <1>9, <1>10 DEF Evolves, N, V

\* The evolution of the full space is determined by where it starts.
LEMMA EvolvesOnce ==
  ASSUME NEW program, NEW angle_values, NEW F, NEW n \in Nat, NEW m \in 0 .. n,
         NEW f, Evolves(f, program, angle_values, F, n), NEW g, Evolves(g, program, angle_values, F, m)
  PROVE  f[m] = g[m]
<1> DEFINE T == {k \in 0 .. m : f[k] = g[k]}
<1>1. m \in Nat /\ \A k \in 1 .. m : k \in 1 .. n /\ k \in 0 .. m
  OBVIOUS
<1>2. 0 \in T
  BY DEF Evolves
<1>3. ASSUME NEW k \in 1 .. m, k - 1 \in T PROVE k \in T
  BY <1>1, <1>3 DEF Evolves
<1> HIDE DEF T
<1>4. \A k \in 0 .. m : k \in T
  BY <1>1, <1>2, <1>3, UpTo
<1> QED
  BY <1>1, <1>4 DEF T

\* Up to one operation more is one operation more.
LEMMA FullRunSteps ==
  ASSUME NEW program, LegalProgram(program), NEW angle_values, LegalAngles(angle_values, program),
         NEW F \in Space(program.nqubits), NEW n, n = Len(program.operations),
         NEW R, R = [k \in 0 .. n |-> FullRun(program, angle_values, F, k)]
  PROVE  Evolves(R, program, angle_values, F, n)
<1>1. n \in Nat /\ n \in 0 .. n
  BY LegalOps
<1>2. PICK f : Evolves(f, program, angle_values, F, n)
  BY <1>1, FullRunChain
<1>3. ASSUME NEW k \in 0 .. n PROVE R[k] = f[k]
  <2>1. PICK g : Evolves(g, program, angle_values, F, k) /\ FullRun(program, angle_values, F, k) = g[k]
    BY <1>3, FullRunChain
  <2>2. f[k] = g[k]
    BY <1>1, <1>2, <2>1, EvolvesOnce
  <2> QED
    BY <2>1, <2>2
<1>4. f = [k \in 0 .. n |-> f[k]]
  BY <1>2 DEF Evolves
<1>5. R = f
  BY <1>3, <1>4
<1> QED
  BY <1>2, <1>5


-----------------------------------------------------------------------------
(* A block on the full vector                                              *)

EvolvesRun(h, run, program, angle_values, F) ==
  /\ h \in [0 .. Len(run) -> Space(program.nqubits)] /\ h[0] = F
  /\ \A k \in 1 .. Len(run) : h[k] = FullGate(run[k], angle_values, h[k - 1])

\* Two matrices, one after the other.
LEMMA MixesCompose ==
  ASSUME NEW n \in Nat, NEW wire0, NEW wire1, TwoWires(n, wire0, wire1), NEW a \in Matrix, NEW b \in Matrix,
         NEW F \in Space(n), NEW G, NEW H,
         MixesPairs(n, wire0, wire1, b, F, G), MixesPairs(n, wire0, wire1, a, G, H)
  PROVE  MixesPairs(n, wire0, wire1, Multiply2(a, b), F, H)
<1> SUFFICES ASSUME NEW c \in SUBSET RemainingWires(n, wire0, wire1)
             PROVE  /\ H[c] = F[c] /\ H[c \cup {wire0, wire1}] = F[c \cup {wire0, wire1}]
                    /\ H[c \cup {wire1}] = Row2(Multiply2(a, b), 1, F[c \cup {wire1}], F[c \cup {wire0}])
                    /\ H[c \cup {wire0}] = Row2(Multiply2(a, b), 2, F[c \cup {wire1}], F[c \cup {wire0}])
  BY DEF MixesPairs
<1> DEFINE c0 == c \cup {wire0}
           c1 == c \cup {wire1}
           c2 == c \cup {wire0, wire1}
<1>1. /\ G[c] = F[c] /\ G[c2] = F[c2] /\ G[c1] = Row2(b, 1, F[c1], F[c0]) /\ G[c0] = Row2(b, 2, F[c1], F[c0])
  BY DEF MixesPairs
<1>2. /\ H[c] = G[c] /\ H[c2] = G[c2] /\ H[c1] = Row2(a, 1, G[c1], G[c0]) /\ H[c0] = Row2(a, 2, G[c1], G[c0])
  BY DEF MixesPairs
<1>3. F[c0] \in Complex /\ F[c1] \in Complex
  <2>1. c0 \in SUBSET Qubits(n) /\ c1 \in SUBSET Qubits(n)
    BY DEF TwoWires, RemainingWires
  <2> HIDE DEF c0, c1
  <2> QED
    BY <2>1 DEF Space
<1> HIDE DEF c0, c1, c2
<1> DEFINE x == F[c1]
           y == F[c0]
<1>4. \A r \in 1 .. 2 : Row2(Multiply2(a, b), r, x, y) = Row2(a, r, Row2(b, 1, x, y), Row2(b, 2, x, y))
  <2> HIDE DEF x, y
  <2> QED
    BY <1>3, RowProduct DEF x, y
<1> QED
  BY <1>1, <1>2, <1>4 DEF c0, c1, c2

\* The identity matrix mixes a vector into itself.
LEMMA MixesIdentity ==
  ASSUME NEW n \in Nat, NEW wire0, NEW wire1, TwoWires(n, wire0, wire1), NEW F \in Space(n)
  PROVE  MixesPairs(n, wire0, wire1, Identity2, F, F)
<1>1. Zero \in Complex /\ One \in Complex
  BY DEF Zero, One, Gauss, Complex
<1>2. Entries(Identity2, One, Zero, Zero, One)
  BY <1>1, TwoByTwo DEF Identity2
<1>3. ASSUME NEW x \in Complex, NEW y \in Complex
      PROVE  Row2(Identity2, 1, x, y) = x /\ Row2(Identity2, 2, x, y) = y
  <2>1. Times(One, x) = x /\ Times(One, y) = y /\ Times(Zero, x) = Zero /\ Times(Zero, y) = Zero
        /\ Plus(x, Zero) = x /\ Plus(Zero, y) = y
    BY ComplexOneTimes, ComplexFacts
  <2> QED
    BY <1>2, <2>1 DEF Row2, Entries
<1>4. ASSUME NEW c \in SUBSET RemainingWires(n, wire0, wire1)
      PROVE  F[c \cup {wire1}] \in Complex /\ F[c \cup {wire0}] \in Complex
  <2>1. c \cup {wire0} \in SUBSET Qubits(n) /\ c \cup {wire1} \in SUBSET Qubits(n)
    BY DEF TwoWires, RemainingWires
  <2> QED
    BY <2>1 DEF Space
<1> QED
  BY <1>3, <1>4 DEF MixesPairs

\* A pair block applies its composed matrix.
LEMMA PairRunMixes ==
  ASSUME NEW program, program.nqubits \in Nat, NEW run, PairRun(run, program),
         NEW angle_values, LegalAngles(angle_values, program), NEW F \in Space(program.nqubits),
         NEW wire0, NEW wire1, {wire0, wire1} = PairKey(run[1]), TwoWires(program.nqubits, wire0, wire1),
         NEW h, EvolvesRun(h, run, program, angle_values, F)
  PROVE  MixesPairs(program.nqubits, wire0, wire1, Composed(run, angle_values), F, h[Len(run)])
<1> DEFINE N == Len(run)
           n == program.nqubits
           Mixed(m, A, B) == MixesPairs(n, wire0, wire1, m, A, B)
           Micro1(k) == MicroMatrix(run[k], angle_values)
<1>1. PICK f : Composes(f, run, angle_values) /\ Composed(run, angle_values) = f[N]
  BY ComposedChain
<1>2. N \in Nat /\ \A k \in 1 .. N : LegalOp(run[k], program) /\ ~IsDiagonal(run[k]) /\ PairKey(run[k]) = {wire0, wire1}
  BY DEF PairRun
<1>3. f \in [0 .. N -> Matrix] /\ f[0] = Identity2 /\ \A k \in 1 .. N : f[k] = Multiply2(Micro1(k), f[k - 1])
  BY <1>1 DEF Composes
<1>4. h \in [0 .. N -> Space(n)] /\ h[0] = F /\ \A k \in 1 .. N : h[k] = FullGate(run[k], angle_values, h[k - 1])
  BY DEF EvolvesRun
<1> HIDE DEF N
<1> DEFINE T == {k \in 0 .. N : Mixed(f[k], F, h[k])}
<1>5. 0 \in T
  <2>1. Mixed(Identity2, F, F)
    BY MixesIdentity
  <2> HIDE DEF Mixed
  <2> QED
    BY <1>2, <1>3, <1>4, <2>1
<1>6. ASSUME NEW k \in 1 .. N, k - 1 \in T PROVE k \in T
  <2>1. k - 1 \in 0 .. N /\ k \in 0 .. N /\ Mixed(f[k - 1], F, h[k - 1])
    BY <1>2, <1>6
  <2>2. f[k - 1] \in Matrix /\ h[k - 1] \in Space(n)
    BY <1>3, <1>4, <2>1
  <2>3. Micro1(k) \in Matrix
    BY <1>2, MicroIs
  <2>4. Mixed(Micro1(k), h[k - 1], h[k])
    <3>1. LegalOp(run[k], program) /\ ~IsDiagonal(run[k]) /\ {wire0, wire1} = PairKey(run[k])
          /\ h[k] = FullGate(run[k], angle_values, h[k - 1])
      BY <1>2, <1>4
    <3>2. PICK A \in Space(program.nqubits) : A = h[k - 1]
      BY <2>2
    <3>3. MixesPairs(program.nqubits, wire0, wire1, MicroMatrix(run[k], angle_values), A, FullGate(run[k], angle_values, A))
      BY <3>1, FullGateIs
    <3> QED
      BY <3>1, <3>2, <3>3
  <2>5. Mixed(Multiply2(Micro1(k), f[k - 1]), F, h[k])
    <3>1. PICK a \in Matrix : a = Micro1(k)
      BY <2>3
    <3>2. PICK b \in Matrix : b = f[k - 1]
      BY <2>2
    <3>3. PICK G : G = h[k - 1]
      OBVIOUS
    <3>4. PICK H : H = h[k]
      OBVIOUS
    <3>5. MixesPairs(n, wire0, wire1, b, F, G) /\ MixesPairs(n, wire0, wire1, a, G, H)
      BY <2>1, <2>4, <3>1, <3>2, <3>3, <3>4
    <3> HIDE DEF Micro1
    <3>6. MixesPairs(n, wire0, wire1, Multiply2(a, b), F, H)
      BY <3>5, MixesCompose
    <3> QED
      BY <3>1, <3>2, <3>4, <3>6
  <2> HIDE DEF Mixed, Micro1
  <2>6. Mixed(f[k], F, h[k])
    BY <1>3, <2>5
  <2> QED
    BY <2>1, <2>6
<1> HIDE DEF T
<1>7. \A k \in 0 .. N : k \in T
  BY <1>2, <1>5, <1>6, UpTo
<1>8. Mixed(f[N], F, h[N])
  BY <1>2, <1>7 DEF T
<1> QED
  BY <1>1, <1>8 DEF N

\* A diagonal block multiplies every amplitude by its effect.
LEMMA DiagonalRunActs ==
  ASSUME NEW program, program.nqubits \in Nat, NEW run, DiagonalRun(run, program),
         NEW angle_values, LegalAngles(angle_values, program), NEW F \in Space(program.nqubits),
         NEW h, EvolvesRun(h, run, program, angle_values, F), NEW w \in SUBSET Qubits(program.nqubits)
  PROVE  h[Len(run)][w] = Times(Effect(run, angle_values, w, Len(run)), F[w])
<1> DEFINE N == Len(run)
           n == program.nqubits
           P(k) == DiagonalPhase(run[k], angle_values, w)
           E(k) == Effect(run, angle_values, w, k)
<1>1. N \in Nat /\ \A k \in 1 .. N : LegalOp(run[k], program) /\ IsDiagonal(run[k])
  BY DEF DiagonalRun
<1>2. h \in [0 .. N -> Space(n)] /\ h[0] = F /\ \A k \in 1 .. N : h[k] = FullGate(run[k], angle_values, h[k - 1])
  BY DEF EvolvesRun
<1>3. F[w] \in Complex
  BY DEF Space
<1> HIDE DEF N
<1>4. \A k \in 1 .. N : P(k) \in Units
  BY <1>1, PhaseIsUnit
<1>5. ASSUME NEW k \in 1 .. N PROVE E(k) = Times(E(k - 1), P(k)) /\ E(k - 1) \in Units /\ E(k) \in Units
  <2>1. k \in Nat /\ k > 0 /\ k - 1 \in Nat /\ \A j \in 1 .. k : j \in 1 .. N
    BY <1>1
  <2>2. \A j \in 1 .. k : DiagonalPhase(run[j], angle_values, w) \in Units
    BY <1>4, <2>1
  <2>3. \A j \in 1 .. k - 1 : DiagonalPhase(run[j], angle_values, w) \in Units
    BY <2>1, <2>2
  <2>4. Effect(run, angle_values, w, k - 1) \in Units
    BY <2>1, <2>3, EffectSteps
  <2> QED
    BY <2>1, <2>2, <2>4, EffectSteps
<1>6. E(0) = One
  <2>1. 0 \in Nat /\ \A j \in 1 .. 0 : DiagonalPhase(run[j], angle_values, w) \in Units
    OBVIOUS
  <2> QED
    BY <2>1, EffectSteps
<1>7. \A k \in 1 .. N : h[k][w] = Times(P(k), h[k - 1][w])
  <2> SUFFICES ASSUME NEW k \in 1 .. N PROVE h[k][w] = Times(P(k), h[k - 1][w])
    OBVIOUS
  <2>1. k - 1 \in 0 .. N
    BY <1>1
  <2>2. h[k - 1] \in Space(program.nqubits)
    BY <1>2, <2>1
  <2>3. LegalOp(run[k], program) /\ IsDiagonal(run[k]) /\ h[k] = FullGate(run[k], angle_values, h[k - 1])
    BY <1>1, <1>2
  <2> QED
    BY <2>2, <2>3, FullGateIs
<1> HIDE DEF P, E
<1> DEFINE T == {k \in 0 .. N : h[k][w] = Times(E(k), F[w])}
<1>8. 0 \in T
  BY <1>1, <1>2, <1>3, <1>6, ComplexOneTimes
<1>9. ASSUME NEW k \in 1 .. N, k - 1 \in T PROVE k \in T
  <2>1. k \in 0 .. N /\ h[k - 1][w] = Times(E(k - 1), F[w])
    BY <1>1, <1>9
  <2>2. h[k][w] = Times(P(k), Times(E(k - 1), F[w]))
    BY <1>7, <2>1
  <2>3. Times(P(k), Times(E(k - 1), F[w])) = Times(Times(E(k - 1), P(k)), F[w])
    BY <1>3, <1>4, <1>5, UnitUndone
  <2> QED
    BY <1>5, <2>1, <2>2, <2>3
<1> HIDE DEF T
<1>10. \A k \in 0 .. N : k \in T
  BY <1>1, <1>8, <1>9, UpTo
<1>11. h[N][w] = Times(E(N), F[w])
  BY <1>1, <1>10 DEF T
<1> QED
  BY <1>11 DEF N, E


-----------------------------------------------------------------------------
(* The amplitudes of the sector                                            *)

OnSector(s, F) == [i \in 0 .. s.dimension - 1 |-> F[SectorWord(s, i)]]
InSector(s, F) == \A w \in SUBSET Qubits(s.nqubits) : w \notin SectorWords(s) => F[w] = Zero

\* The amplitude of a word of the sector is found at its rank.
LEMMA RestrictedType ==
  ASSUME NEW s, IsSector(s), NEW F \in Space(s.nqubits)
  PROVE  /\ OnSector(s, F) \in [0 .. s.dimension - 1 -> Complex]
         /\ \A w \in SectorWords(s) : /\ RankWords(s, w) \in 0 .. s.dimension - 1
                                       /\ OnSector(s, F)[RankWords(s, w)] = F[w]
<1>1. \A i \in 0 .. s.dimension - 1 : F[SectorWord(s, i)] \in Complex
  <2> SUFFICES ASSUME NEW i \in 0 .. s.dimension - 1 PROVE F[SectorWord(s, i)] \in Complex
    OBVIOUS
  <2>1. SectorWord(s, i) \in SUBSET Qubits(s.nqubits)
    BY SectorNumbered DEF SectorWords, Chosen
  <2> QED
    BY <2>1 DEF Space
<1>2. \A w \in SectorWords(s) : RankWords(s, w) \in 0 .. s.dimension - 1 /\ SectorWord(s, RankWords(s, w)) = w
  BY SectorComplete
<1> QED
  BY <1>1, <1>2 DEF OnSector

\* A vector whose pairs are those of another with a matrix applied, and the
\* rest kept.
MapsVector(ps, Index, m, v, u) ==
  /\ u \in [Index -> Complex]
  /\ \A k \in DOMAIN ps : /\ u[ps[k].zero_one] = Row2(m, 1, v[ps[k].zero_one], v[ps[k].one_zero])
                           /\ u[ps[k].one_zero] = Row2(m, 2, v[ps[k].zero_one], v[ps[k].one_zero])
  /\ \A i \in Index : (\A k \in DOMAIN ps : i \notin Indices(ps[k])) => u[i] = v[i]

\* Disjoint pairs and a matrix determine the vector they make.
LEMMA MapsOnce ==
  ASSUME NEW ps, NEW Index, NEW m, NEW v, NEW u, MapsVector(ps, Index, m, v, u),
         NEW t, MapsVector(ps, Index, m, v, t)
  PROVE  u = t
<1>1. u \in [Index -> Complex] /\ t \in [Index -> Complex]
  BY DEF MapsVector
<1>2. ASSUME NEW i \in Index PROVE u[i] = t[i]
  <2>1. CASE \E k \in DOMAIN ps : i \in Indices(ps[k])
    BY <2>1 DEF MapsVector, Indices
  <2>2. CASE \A k \in DOMAIN ps : i \notin Indices(ps[k])
    BY <2>2 DEF MapsVector
  <2> QED
    BY <2>1, <2>2
<1> QED
  BY <1>1, <1>2

\* What a matrix does to the pairs its inverse takes back.
LEMMA MapsBack ==
  ASSUME NEW Index, NEW ps \in PairList(Index), NEW a, NEW b, Inverts(b, a),
         NEW v \in [Index -> Complex], NEW u, MapsVector(ps, Index, a, v, u)
  PROVE  MapsVector(ps, Index, b, u, v)
<1>1. ASSUME NEW k \in DOMAIN ps
      PROVE  /\ v[ps[k].zero_one] = Row2(b, 1, u[ps[k].zero_one], u[ps[k].one_zero])
             /\ v[ps[k].one_zero] = Row2(b, 2, u[ps[k].zero_one], u[ps[k].one_zero])
  <2>1. ps[k].zero_one \in Index /\ ps[k].one_zero \in Index
    BY ListFacts
  <2> DEFINE x == v[ps[k].zero_one]
             y == v[ps[k].one_zero]
  <2>2. x \in Complex /\ y \in Complex
    BY <2>1
  <2>3. u[ps[k].zero_one] = Row2(a, 1, x, y) /\ u[ps[k].one_zero] = Row2(a, 2, x, y)
    BY DEF MapsVector
  <2> HIDE DEF x, y
  <2>4. Row2(b, 1, Row2(a, 1, x, y), Row2(a, 2, x, y)) = x /\ Row2(b, 2, Row2(a, 1, x, y), Row2(a, 2, x, y)) = y
    BY <2>2 DEF Inverts
  <2> QED
    BY <2>3, <2>4 DEF x, y
<1>2. \A i \in Index : (\A k \in DOMAIN ps : i \notin Indices(ps[k])) => v[i] = u[i]
  BY DEF MapsVector
<1> QED
  BY <1>1, <1>2 DEF MapsVector

\* The pairs of the map are the exchanged words of the sector.
LEMMA RestrictMixes ==
  ASSUME NEW s, IsSector(s), NEW wire0, NEW wire1, TwoWires(s.nqubits, wire0, wire1),
         NEW ps, MapsPairs(s, wire0, wire1, ps), NEW m \in Matrix,
         NEW F \in Space(s.nqubits), NEW G \in Space(s.nqubits),
         MixesPairs(s.nqubits, wire0, wire1, m, F, G)
  PROVE  /\ MapsVector(ps, 0 .. s.dimension - 1, m, OnSector(s, F), OnSector(s, G))
         /\ InSector(s, F) => InSector(s, G)
<1> DEFINE n == s.nqubits
           Index == 0 .. s.dimension - 1
           v == OnSector(s, F)
           u == OnSector(s, G)
           A(c) == c \cup {wire0}
           B(c) == c \cup {wire1}
           C(c) == c \cup {wire0, wire1}
           Rem == SUBSET RemainingWires(n, wire0, wire1)
           Others == OtherWords(s, wire0, wire1)
<1>1. n \in Nat /\ s.particle_number \in Nat
  BY SectorFacts
<1>2. \A c \in Rem : /\ G[c] = F[c] /\ G[C(c)] = F[C(c)]
                      /\ G[B(c)] = Row2(m, 1, F[B(c)], F[A(c)]) /\ G[A(c)] = Row2(m, 2, F[B(c)], F[A(c)])
  BY DEF MixesPairs
<1>3. u \in [Index -> Complex] /\ v \in [Index -> Complex]
  BY RestrictedType
<1>4. \A w \in SectorWords(s) : /\ RankWords(s, w) \in Index
                                 /\ v[RankWords(s, w)] = F[w] /\ u[RankWords(s, w)] = G[w]
  BY RestrictedType
<1>5. \A c \in Others : A(c) \in SectorWords(s) /\ B(c) \in SectorWords(s) /\ c \in Rem
  BY PairWords DEF OtherWords, Chosen
<1>6. ASSUME NEW c \in Rem PROVE Cardinality(A(c)) = Cardinality(c) + 1 /\ Cardinality(B(c)) = Cardinality(c) + 1
                                 /\ Cardinality(c) \in Nat /\ A(c) \in SUBSET Qubits(n) /\ B(c) \in SUBSET Qubits(n)
  <2>1. c \subseteq Qubits(n) /\ wire0 \notin c /\ wire1 \notin c /\ wire0 \in Qubits(n) /\ wire1 \in Qubits(n)
    BY DEF RemainingWires, TwoWires
  <2>2. IsFiniteSet(c)
    BY <1>1, <2>1, QubitsCount, FS_Subset
  <2> QED
    BY <2>1, <2>2, FS_AddElement, FS_CardinalityType
<1>7. ASSUME NEW c \in Rem, A(c) \in SectorWords(s) \/ B(c) \in SectorWords(s) PROVE c \in Others
  <2>1. Cardinality(c) + 1 = s.particle_number
    BY <1>6, <1>7 DEF SectorWords, Chosen
  <2> DEFINE x == Cardinality(c)
             y == s.particle_number
  <2>a. x \in Nat /\ y \in Nat /\ x + 1 = y
    BY <1>1, <1>6, <2>1
  <2> HIDE DEF x, y
  <2>b. x = y - 1
    BY <2>a
  <2>2. Cardinality(c) = s.particle_number - 1
    BY <2>b DEF x, y
  <2> QED
    BY <2>2 DEF OtherWords, Chosen
<1> HIDE DEF Rem, Others, A, B, C
<1>8. ASSUME NEW k \in DOMAIN ps
      PROVE  /\ u[ps[k].zero_one] = Row2(m, 1, v[ps[k].zero_one], v[ps[k].one_zero])
             /\ u[ps[k].one_zero] = Row2(m, 2, v[ps[k].zero_one], v[ps[k].one_zero])
  <2>1. PICK c \in Others : ps[k] = PairOf(s, wire0, wire1, c)
    BY DEF MapsPairs, Others
  <2>2. ps[k].zero_one = RankWords(s, B(c)) /\ ps[k].one_zero = RankWords(s, A(c))
    BY <2>1 DEF PairOf, A, B
  <2>3. /\ v[ps[k].zero_one] = F[B(c)] /\ v[ps[k].one_zero] = F[A(c)]
        /\ u[ps[k].zero_one] = G[B(c)] /\ u[ps[k].one_zero] = G[A(c)]
    BY <1>4, <1>5, <2>2
  <2> QED
    BY <1>2, <1>5, <2>3
<1>9. ASSUME NEW i \in Index, \A k \in DOMAIN ps : i \notin Indices(ps[k]) PROVE u[i] = v[i]
  <2> DEFINE w == SectorWord(s, i)
  <2>1. w \in SectorWords(s) /\ RankWords(s, w) = i
    BY SectorNumbered
  <2>2. u[i] = G[w] /\ v[i] = F[w]
    BY <1>4, <2>1
  <2> HIDE DEF w
  <2>3. w \in SUBSET Qubits(n)
    BY <2>1 DEF SectorWords, Chosen
  <2>4. PICK c \in Rem : w = c \/ w = C(c) \/ w = A(c) \/ w = B(c)
    <3> HIDE DEF n
    <3> QED
      BY <1>1, <2>3, WordPlaces DEF Rem, A, B, C, n
  <2>5. ASSUME w = A(c) \/ w = B(c) PROVE FALSE
    <3>1. c \in Others
      BY <1>7, <2>1, <2>5
    <3>2. PICK k \in DOMAIN ps : ps[k] = PairOf(s, wire0, wire1, c)
      BY <3>1 DEF MapsPairs, Others
    <3>3. ps[k].zero_one = RankWords(s, B(c)) /\ ps[k].one_zero = RankWords(s, A(c))
      BY <3>2 DEF PairOf, A, B
    <3>4. i \in Indices(ps[k])
      BY <2>1, <2>5, <3>3 DEF Indices
    <3> QED
      BY <1>9, <3>4
  <2> QED
    BY <1>2, <2>2, <2>4, <2>5
<1>10. MapsVector(ps, Index, m, v, u)
  BY <1>3, <1>8, <1>9 DEF MapsVector
<1>11. ASSUME InSector(s, F), NEW w \in SUBSET Qubits(n), w \notin SectorWords(s) PROVE G[w] = Zero
  <2>1. PICK c \in Rem : w = c \/ w = C(c) \/ w = A(c) \/ w = B(c)
    <3> HIDE DEF n
    <3> QED
      BY <1>1, <1>11, WordPlaces DEF Rem, A, B, C, n
  <2>2. F[w] = Zero
    BY <1>11 DEF InSector
  <2>3. CASE w = A(c) \/ w = B(c)
    <3>1. c \notin Others
      BY <1>5, <1>11, <2>3
    <3>2. A(c) \notin SectorWords(s) /\ B(c) \notin SectorWords(s)
      BY <1>7, <3>1
    <3>3. F[A(c)] = Zero /\ F[B(c)] = Zero
      BY <1>6, <1>11, <3>2 DEF InSector
    <3>4. \A r \in 1 .. 2 : Row2(m, r, Zero, Zero) = Zero
      <4> SUFFICES ASSUME NEW r \in 1 .. 2 PROVE Row2(m, r, Zero, Zero) = Zero
        OBVIOUS
      <4>1. m[r][1] \in Complex /\ m[r][2] \in Complex
        BY MatrixFacts
      <4>2. Times(m[r][1], Zero) = Zero /\ Times(m[r][2], Zero) = Zero
        BY <4>1, ComplexFacts
      <4>3. Plus(Zero, Zero) = Zero
        BY DEF Plus, Zero, Gauss
      <4> QED
        BY <4>2, <4>3 DEF Row2
    <3> QED
      BY <1>2, <2>3, <3>3, <3>4
  <2> QED
    BY <1>2, <2>1, <2>2, <2>3
<1>12. InSector(s, F) => InSector(s, G)
  BY <1>11 DEF InSector
<1> QED
  BY <1>10, <1>12

-----------------------------------------------------------------------------
(* The pairs one after the other                                           *)

Updates(f, ps, Index, m, v) ==
  /\ f \in [0 .. Len(ps) -> [Index -> Complex]] /\ f[0] = v
  /\ \A k \in 1 .. Len(ps) : f[k] = PairImage(m, f[k - 1], ps[k])

\* One pair changes its own two amplitudes and no other.
LEMMA PairImageIs ==
  ASSUME NEW Index, NEW ps \in PairList(Index), NEW m \in Matrix, NEW v \in [Index -> Complex],
         NEW k \in DOMAIN ps
  PROVE  /\ PairImage(m, v, ps[k]) \in [Index -> Complex]
         /\ PairImage(m, v, ps[k])[ps[k].zero_one] = Row2(m, 1, v[ps[k].zero_one], v[ps[k].one_zero])
         /\ PairImage(m, v, ps[k])[ps[k].one_zero] = Row2(m, 2, v[ps[k].zero_one], v[ps[k].one_zero])
         /\ \A i \in Index : i \notin Indices(ps[k]) => PairImage(m, v, ps[k])[i] = v[i]
<1> DEFINE a == ps[k].zero_one
           b == ps[k].one_zero
           x == Row2(m, 1, v[a], v[b])
           y == Row2(m, 2, v[a], v[b])
<1>1. a \in Index /\ b \in Index /\ a # b
  BY ListFacts
<1>2. x \in Complex /\ y \in Complex
  BY <1>1, RowType
<1>3. PairImage(m, v, ps[k]) = [v EXCEPT ![a] = x, ![b] = y]
  BY DEF PairImage
<1>4. Indices(ps[k]) = {a, b}
  BY DEF Indices
<1> HIDE DEF a, b, x, y
<1>5. [v EXCEPT ![a] = x, ![b] = y] \in [Index -> Complex]
  BY <1>1, <1>2
<1> QED
  BY <1>1, <1>2, <1>3, <1>4, <1>5 DEF a, b, x, y

\* The pairs of a block, one after the other.
LEMMA UpdateChain ==
  ASSUME NEW Index, NEW gate, gate.pairs \in PairList(Index), NEW m \in Matrix,
         NEW v \in [Index -> Complex]
  PROVE  \E f : Updates(f, gate.pairs, Index, m, v) /\ ApplyPairs(gate, v, m) = f[Len(gate.pairs)]
<1> DEFINE N == Len(gate.pairs)
           V == [Index -> Complex]
           Body(g) == [k \in 0 .. N |-> IF k = 0 THEN v ELSE PairImage(m, g[k - 1], gate.pairs[k])]
           rec == CHOOSE g : g = Body(g)
           step == [k \in 1 .. N |-> [x \in V |-> PairImage(m, x, gate.pairs[k])]]
<1>1. N \in Nat
  BY DEF PairList
<1>2. v \in V
  OBVIOUS
<1>3. \A k \in 1 .. N : \A x \in V : PairImage(m, x, gate.pairs[k]) \in V
  <2>1. DOMAIN gate.pairs = 1 .. N
    BY DEF PairList
  <2> QED
    BY <2>1, PairImageIs
<1> HIDE DEF N, V
<1>4. step \in [1 .. N -> [V -> V]]
  BY <1>3
<1>5. PICK g : IsChain(g, N, V, v, step)
  <2> HIDE DEF step
  <2> QED
    BY <1>1, <1>2, <1>4, Chain
<1>6. g \in [0 .. N -> V] /\ g[0] = v /\ \A k \in 1 .. N : g[k] = PairImage(m, g[k - 1], gate.pairs[k])
  <2>1. g \in [0 .. N -> V] /\ g[0] = v /\ \A k \in 1 .. N : g[k] = step[k][g[k - 1]]
    BY <1>5 DEF IsChain
  <2>2. \A k \in 1 .. N : g[k - 1] \in V
    BY <1>1, <2>1
  <2>3. \A k \in 1 .. N : \A x \in V : step[k][x] = PairImage(m, x, gate.pairs[k])
    OBVIOUS
  <2> HIDE DEF step
  <2> QED
    BY <2>1, <2>2, <2>3
<1>7. g = Body(g)
  <2>1. g = [k \in 0 .. N |-> g[k]] /\ g[0] = v
    BY <1>6
  <2>2. \A k \in 0 .. N : g[k] = IF k = 0 THEN v ELSE PairImage(m, g[k - 1], gate.pairs[k])
    BY <1>1, <1>6
  <2> QED
    BY <2>1, <2>2
<1>8. rec = Body(rec)
  <2> HIDE DEF Body
  <2> QED
    BY <1>7
<1>9. rec \in [0 .. N -> V] /\ rec[0] = v
      /\ \A k \in 1 .. N : rec[k] = PairImage(m, rec[k - 1], gate.pairs[k])
  <2> HIDE DEF rec
  <2>1. \A k \in 0 .. N : rec[k] = IF k = 0 THEN v ELSE PairImage(m, rec[k - 1], gate.pairs[k])
    <3>1. rec = [k \in 0 .. N |-> IF k = 0 THEN v ELSE PairImage(m, rec[k - 1], gate.pairs[k])]
      BY <1>8
    <3> QED
      BY <3>1
  <2> DEFINE T == {k \in 0 .. N : rec[k] \in V}
  <2>2. 0 \in T
    BY <1>1, <1>2, <2>1
  <2>3. ASSUME NEW k \in 1 .. N, k - 1 \in T PROVE k \in T
    <3>1. rec[k] = PairImage(m, rec[k - 1], gate.pairs[k]) /\ rec[k - 1] \in V
      BY <1>1, <2>1, <2>3
    <3>2. rec[k] \in V
      BY <1>3, <3>1
    <3> QED
      BY <1>1, <3>2
  <2> HIDE DEF T
  <2>4. \A k \in 0 .. N : k \in T
    BY <1>1, <2>2, <2>3, UpTo
  <2>5. \A k \in 0 .. N : rec[k] \in V
    BY <2>4 DEF T
  <2>6. rec = [k \in 0 .. N |-> rec[k]]
    BY <1>8
  <2>7. rec \in [0 .. N -> V]
    BY <2>5, <2>6
  <2>8. rec[0] = v /\ \A k \in 1 .. N : rec[k] = PairImage(m, rec[k - 1], gate.pairs[k])
    BY <1>1, <2>1
  <2> QED
    BY <2>7, <2>8
<1>10. ApplyPairs(gate, v, m) = rec[N]
  BY DEF ApplyPairs, N
<1> HIDE DEF rec
<1> QED
  BY <1>9, <1>10 DEF Updates, N, V

\* Updating the pairs one after the other maps the vector.
LEMMA ApplyPairsIs ==
  ASSUME NEW Index, NEW gate, gate.pairs \in PairList(Index), NEW m \in Matrix, NEW v \in [Index -> Complex]
  PROVE  MapsVector(gate.pairs, Index, m, v, ApplyPairs(gate, v, m))
<1> DEFINE ps == gate.pairs
           N == Len(ps)
<1>1. PICK f : Updates(f, ps, Index, m, v) /\ ApplyPairs(gate, v, m) = f[N]
  BY UpdateChain
<1>2. N \in Nat /\ DOMAIN ps = 1 .. N
  BY DEF PairList
<1>3. f \in [0 .. N -> [Index -> Complex]] /\ f[0] = v /\ \A k \in 1 .. N : f[k] = PairImage(m, f[k - 1], ps[k])
  BY <1>1 DEF Updates
<1>4. \A j, k \in 1 .. N : j # k => Indices(ps[j]) \cap Indices(ps[k]) = {}
  BY <1>2, ListFacts
<1>5. ASSUME NEW k \in 1 .. N
      PROVE  /\ f[k][ps[k].zero_one] = Row2(m, 1, f[k - 1][ps[k].zero_one], f[k - 1][ps[k].one_zero])
             /\ f[k][ps[k].one_zero] = Row2(m, 2, f[k - 1][ps[k].zero_one], f[k - 1][ps[k].one_zero])
             /\ \A i \in Index : i \notin Indices(ps[k]) => f[k][i] = f[k - 1][i]
  <2>1. k - 1 \in 0 .. N
    BY <1>2
  <2>2. f[k - 1] \in [Index -> Complex] /\ k \in DOMAIN ps /\ f[k] = PairImage(m, f[k - 1], ps[k])
    BY <1>2, <1>3, <2>1
  <2>3. PICK g \in [Index -> Complex] : g = f[k - 1]
    BY <2>2
  <2>4. PICK q : q = ps
    OBVIOUS
  <2>5. q \in PairList(Index) /\ k \in DOMAIN q /\ f[k] = PairImage(m, g, q[k])
    BY <2>2, <2>3, <2>4
  <2> HIDE DEF ps
  <2>6. /\ PairImage(m, g, q[k])[q[k].zero_one] = Row2(m, 1, g[q[k].zero_one], g[q[k].one_zero])
        /\ PairImage(m, g, q[k])[q[k].one_zero] = Row2(m, 2, g[q[k].zero_one], g[q[k].one_zero])
        /\ \A i \in Index : i \notin Indices(q[k]) => PairImage(m, g, q[k])[i] = g[i]
    BY <2>5, PairImageIs
  <2> QED
    BY <2>3, <2>4, <2>5, <2>6
<1>6. \A k \in 1 .. N : ps[k].zero_one \in Index /\ ps[k].one_zero \in Index
                        /\ ps[k].zero_one \in Indices(ps[k]) /\ ps[k].one_zero \in Indices(ps[k])
  BY <1>2, ListFacts DEF Indices
<1> HIDE DEF N, ps
<1> DEFINE Done(k) == /\ \A j \in 1 .. k : /\ f[k][ps[j].zero_one] = Row2(m, 1, v[ps[j].zero_one], v[ps[j].one_zero])
                                           /\ f[k][ps[j].one_zero] = Row2(m, 2, v[ps[j].zero_one], v[ps[j].one_zero])
                     /\ \A i \in Index : (\A j \in 1 .. k : i \notin Indices(ps[j])) => f[k][i] = v[i]
           T == {k \in 0 .. N : Done(k)}
<1>7. 0 \in T
  BY <1>2, <1>3
<1>8. ASSUME NEW k \in 1 .. N, k - 1 \in T PROVE k \in T
  <2>1. k \in 0 .. N /\ Done(k - 1) /\ \A j \in 1 .. k : j \in 1 .. N /\ (j # k => j \in 1 .. k - 1)
    BY <1>2, <1>8
  <2>2. \A j \in 1 .. k - 1 : j \in 1 .. N /\ j # k /\ j \in 1 .. k
    BY <1>2
  <2>3. f[k - 1][ps[k].zero_one] = v[ps[k].zero_one] /\ f[k - 1][ps[k].one_zero] = v[ps[k].one_zero]
    <3>1. \A j \in 1 .. k - 1 : ps[k].zero_one \notin Indices(ps[j]) /\ ps[k].one_zero \notin Indices(ps[j])
      BY <1>4, <1>6, <2>2
    <3> QED
      BY <1>6, <2>1, <3>1
  <2>4. \A j \in 1 .. k - 1 : /\ f[k][ps[j].zero_one] = f[k - 1][ps[j].zero_one]
                              /\ f[k][ps[j].one_zero] = f[k - 1][ps[j].one_zero]
    <3>1. \A j \in 1 .. k - 1 : ps[j].zero_one \notin Indices(ps[k]) /\ ps[j].one_zero \notin Indices(ps[k])
      BY <1>4, <1>6, <2>2
    <3> QED
      BY <1>5, <1>6, <2>2, <3>1
  <2>5. ASSUME NEW j \in 1 .. k
        PROVE  /\ f[k][ps[j].zero_one] = Row2(m, 1, v[ps[j].zero_one], v[ps[j].one_zero])
               /\ f[k][ps[j].one_zero] = Row2(m, 2, v[ps[j].zero_one], v[ps[j].one_zero])
    <3>1. CASE j = k
      BY <1>5, <2>3, <3>1
    <3>2. CASE j # k
      <4>1. j \in 1 .. k - 1
        BY <2>1, <3>2
      <4> QED
        BY <2>1, <2>4, <4>1
    <3> QED
      BY <3>1, <3>2
  <2>6. ASSUME NEW i \in Index, \A j \in 1 .. k : i \notin Indices(ps[j]) PROVE f[k][i] = v[i]
    <3>1. k \in 1 .. k /\ \A j \in 1 .. k - 1 : i \notin Indices(ps[j])
      BY <1>2, <2>2, <2>6
    <3>2. f[k][i] = f[k - 1][i]
      BY <1>5, <2>6, <3>1
    <3> QED
      BY <2>1, <3>1, <3>2
  <2> QED
    BY <2>1, <2>5, <2>6
<1> HIDE DEF T
<1>9. \A k \in 0 .. N : k \in T
  BY <1>2, <1>7, <1>8, UpTo
<1>10. f[N] \in [Index -> Complex] /\ Done(N)
  BY <1>2, <1>3, <1>9 DEF T
<1>11. MapsVector(ps, Index, m, v, f[N])
  BY <1>2, <1>10 DEF MapsVector
<1> QED
  BY <1>1, <1>11 DEF ps, N

\* When the pool has joined, it has done the same.
LEMMA JoinedMaps ==
  ASSUME NEW Index, SectionInv(Index), Joined
  PROVE  MapsVector(pairs, Index, matrix, lent, vector)
<1>1. vector \in [Index -> Complex]
  BY DEF SectionInv, SectionType
<1>2. \A k \in DOMAIN pairs : Written(k)
  BY DEF Joined, Written, Holds, Busy
<1>3. \A k \in DOMAIN pairs : vector[pairs[k].zero_one] = NewLeft(k) /\ vector[pairs[k].one_zero] = NewRight(k)
  BY <1>2 DEF SectionInv, WrittenMapped
<1>4. \A i \in Index : (\A k \in DOMAIN pairs : i \notin Indices(pairs[k])) => vector[i] = lent[i]
  BY DEF SectionInv, OthersKept
<1> QED
  BY <1>1, <1>3, <1>4 DEF MapsVector, NewLeft, NewRight


-----------------------------------------------------------------------------
(* Diagonal blocks on the sector                                           *)

Factor(op, angle_values, word, inverse) ==
  IF inverse THEN Conj(DiagonalPhase(op, angle_values, word)) ELSE DiagonalPhase(op, angle_values, word)
Factors(ops, angle_values, word, inverse) ==
  [k \in 1 .. Len(ops) |-> Factor(ops[k], angle_values, word, inverse)]
TurnedBack(u, inverse) == IF inverse THEN Conj(u) ELSE u

\* The factors of a block multiply to its effect, or to the conjugate of it.
LEMMA FactorsProduct ==
  ASSUME NEW ops, Len(ops) \in Nat, NEW angle_values, NEW word, NEW inverse \in BOOLEAN,
         \A k \in 1 .. Len(ops) : DiagonalPhase(ops[k], angle_values, word) \in Units
  PROVE  /\ \A k \in 1 .. Len(ops) : Factor(ops[k], angle_values, word, inverse) \in Units
         /\ Effect(ops, angle_values, word, Len(ops)) \in Units
         /\ PhaseProduct(Factors(ops, angle_values, word, inverse))
              = TurnedBack(Effect(ops, angle_values, word, Len(ops)), inverse)
<1> DEFINE n == Len(ops)
           s == Factors(ops, angle_values, word, inverse)
           P(k) == DiagonalPhase(ops[k], angle_values, word)
           E(k) == Effect(ops, angle_values, word, k)
           Q(u) == TurnedBack(u, inverse)
<1>1. n \in Nat /\ \A k \in 1 .. n : P(k) \in Units /\ s[k] = Q(P(k)) /\ s[k] = Factor(ops[k], angle_values, word, inverse)
  BY DEF Factors, Factor, TurnedBack
<1>2. s = [k \in 1 .. n |-> s[k]]
  BY DEF Factors
<1>3. ASSUME NEW k \in 1 .. n PROVE E(k) = Times(E(k - 1), P(k)) /\ E(k - 1) \in Units /\ E(k) \in Units
  <2>1. k \in Nat /\ k > 0 /\ k - 1 \in Nat /\ \A j \in 1 .. k : j \in 1 .. n
    BY <1>1
  <2>2. \A j \in 1 .. k : DiagonalPhase(ops[j], angle_values, word) \in Units
    BY <2>1
  <2>3. \A j \in 1 .. k - 1 : DiagonalPhase(ops[j], angle_values, word) \in Units
    BY <2>1, <2>2
  <2>4. Effect(ops, angle_values, word, k - 1) \in Units
    BY <2>1, <2>3, EffectSteps
  <2> QED
    BY <2>1, <2>2, <2>4, EffectSteps
<1>4. E(0) = One /\ E(n) \in Units
  <2>1. 0 \in Nat /\ \A j \in 1 .. 0 : DiagonalPhase(ops[j], angle_values, word) \in Units
    OBVIOUS
  <2> QED
    BY <2>1, EffectSteps
<1>5. \A a, b \in Units : Q(a) \in Units /\ Q(Times(a, b)) = Times(Q(a), Q(b)) /\ Q(One) = One
  <2>1. \A a, b \in Units : Conj(a) \in Units /\ Conj(Times(a, b)) = Times(Conj(a), Conj(b))
    BY UnitFacts, ConjFacts
  <2>2. Conj(One) = One
    BY DEF Conj, One, Gauss
  <2> QED
    BY <2>1, <2>2 DEF TurnedBack
<1> HIDE DEF n, s, P, E, Q
<1>6. Len(s) = n
  BY <1>1, <1>2, SeqOfFunction
<1>7. \A k \in 1 .. n : s[k] \in Units
  BY <1>1, <1>5
<1>8. PICK f : Multiplies(f, s, n) /\ PhaseProduct(s) = f[n]
  BY <1>1, <1>6, <1>7, ProductChain
<1> DEFINE T == {k \in 0 .. n : f[k] = Q(E(k))}
<1>9. 0 \in T
  <2>1. One \in Units
    BY DEF Units
  <2> QED
    BY <1>1, <1>4, <1>5, <1>8, <2>1 DEF Multiplies
<1>10. ASSUME NEW k \in 1 .. n, k - 1 \in T PROVE k \in T
  <2>1. k \in 0 .. n /\ f[k - 1] = Q(E(k - 1)) /\ f[k] = Times(f[k - 1], s[k])
    BY <1>1, <1>8, <1>10 DEF Multiplies
  <2>2. s[k] = Q(P(k)) /\ P(k) \in Units
    BY <1>1
  <2>3. Q(Times(E(k - 1), P(k))) = Times(Q(E(k - 1)), Q(P(k)))
    BY <1>3, <1>5, <2>2
  <2> QED
    BY <1>3, <2>1, <2>2, <2>3
<1> HIDE DEF T
<1>11. \A k \in 0 .. n : k \in T
  BY <1>1, <1>9, <1>10, UpTo
<1>12. f[n] = Q(E(n))
  BY <1>1, <1>11 DEF T
<1> QED
  BY <1>1, <1>4, <1>7, <1>8, <1>12 DEF n, s, E, Q

\* One operation of the sparse path.
SparseStep(p, op, angle_values, inverse, w) ==
  LET u == IF op.kind = "cz" THEN Gauss(-1, 0)
           ELSE IPow(IF inverse THEN -angle_values[op.angle] ELSE angle_values[op.angle])
  IN  [i \in DOMAIN w |-> IF i \in DiagonalIndices(p.basis, PairKey(op)) THEN Times(w[i], u) ELSE w[i]]

Scaled(u, w, p, op, angle_values, inverse, D) ==
  /\ u \in [0 .. D - 1 -> Complex]
  /\ \A i \in 0 .. D - 1 : u[i] = Times(w[i], Factor(op, angle_values, p.basis[i], inverse))

\* A cz or cphase outside a folded block scales each amplitude by its phase, back with
\* the conjugate one.
LEMMA SparseStepIs ==
  ASSUME NEW program, NEW p, NEW D, DOMAIN p.basis = 0 .. D - 1, NEW op, LegalOp(op, program), IsSparse(op),
         NEW angle_values, LegalAngles(angle_values, program), NEW inverse \in BOOLEAN,
         NEW w \in [0 .. D - 1 -> Complex]
  PROVE  Scaled(SparseStep(p, op, angle_values, inverse, w), w, p, op, angle_values, inverse, D)
<1> DEFINE v == SparseStep(p, op, angle_values, inverse, w)
           a == angle_values[op.angle]
           u == IF op.kind = "cz" THEN Gauss(-1, 0) ELSE IPow(IF inverse THEN -a ELSE a)
           turn(i) == DiagonalPhase(op, angle_values, p.basis[i])
           both(i) == op.wires[1] \in p.basis[i] /\ op.wires[2] \in p.basis[i]
<1>1. op.kind \in {"cz", "cphase"} /\ IsDiagonal(op)
  BY DEF IsSparse, IsDiagonal
<1>2. op.kind = "cphase" => a \in Int
  BY DEF LegalOp, HasAngle, LegalAngles
<1>3. u \in Units /\ HalfTurn \in Units
  <2>1. HalfTurn \in Units
    BY DEF Units
  <2>2. op.kind = "cphase" => IPow(a) \in Units /\ IPow(-a) \in Units
    BY <1>2, TurnFacts
  <2> QED
    BY <1>1, <2>1, <2>2 DEF HalfTurn
<1>4. \A i \in 0 .. D - 1 : Factor(op, angle_values, p.basis[i], inverse) = IF both(i) THEN u ELSE One
  <2> SUFFICES ASSUME NEW i \in 0 .. D - 1 PROVE TurnedBack(turn(i), inverse) = IF both(i) THEN u ELSE One
    BY DEF Factor, TurnedBack
  <2>1. op.kind = "cz" => turn(i) = IF both(i) THEN HalfTurn ELSE One
    BY DEF DiagonalPhase, HalfTurn
  <2>2. op.kind = "cphase" => turn(i) = IF both(i) THEN IPow(a) ELSE One
    BY DEF DiagonalPhase
  <2>3. Conj(One) = One /\ Conj(HalfTurn) = HalfTurn
    BY DEF Conj, One, HalfTurn, Gauss
  <2>4. op.kind = "cphase" => IPow(-a) = Conj(IPow(a))
    BY <1>2, TurnFacts
  <2> QED
    BY <1>1, <2>1, <2>2, <2>3, <2>4 DEF TurnedBack, HalfTurn
<1>5. \A i \in 0 .. D - 1 : i \in DiagonalIndices(p.basis, PairKey(op)) <=> both(i)
  BY DEF DiagonalIndices, PairKey
<1>6. v = [i \in 0 .. D - 1 |-> IF i \in DiagonalIndices(p.basis, PairKey(op)) THEN Times(w[i], u) ELSE w[i]]
  BY DEF SparseStep
<1> HIDE DEF v, u, both
<1>7. \A i \in 0 .. D - 1 : v[i] = Times(w[i], IF both(i) THEN u ELSE One) /\ v[i] \in Complex
  <2> SUFFICES ASSUME NEW i \in 0 .. D - 1 PROVE v[i] = Times(w[i], IF both(i) THEN u ELSE One) /\ v[i] \in Complex
    OBVIOUS
  <2>1. w[i] \in Complex /\ u \in Complex /\ v[i] = IF both(i) THEN Times(w[i], u) ELSE w[i]
    BY <1>3, <1>5, <1>6, UnitFacts
  <2>2. Times(w[i], One) = w[i] /\ Times(w[i], u) \in Complex
    BY <2>1, ComplexOneTimes, ComplexClosed
  <2> QED
    BY <2>1, <2>2
<1>8. v \in [0 .. D - 1 -> Complex]
  BY <1>6, <1>7
<1> QED
  BY <1>4, <1>7, <1>8 DEF v, Scaled

Touches(f, p, ops, angle_values, inverse, v, D) ==
  /\ f \in [0 .. Len(ops) -> [0 .. D - 1 -> Complex]] /\ f[0] = v
  /\ \A k \in 1 .. Len(ops) : f[k] = SparseStep(p, ops[k], angle_values, inverse, f[k - 1])

\* What the code does to a block of CZ and CPhase.
SparsePath(p, ops, angle_values, inverse, v) ==
  LET touched[k \in 0 .. Len(ops)] ==
        IF k = 0 THEN v ELSE SparseStep(p, ops[k], angle_values, inverse, touched[k - 1])
  IN  touched[Len(ops)]

SparseOps(ops, program) ==
  Len(ops) \in Nat /\ \A k \in 1 .. Len(ops) : LegalOp(ops[k], program) /\ IsSparse(ops[k])

\* The sparse path, operation by operation.
LEMMA TouchChain ==
  ASSUME NEW program, NEW p, NEW D, DOMAIN p.basis = 0 .. D - 1, NEW ops, SparseOps(ops, program),
         NEW angle_values, LegalAngles(angle_values, program), NEW inverse \in BOOLEAN,
         NEW v \in [0 .. D - 1 -> Complex]
  PROVE  \E f : Touches(f, p, ops, angle_values, inverse, v, D) /\ SparsePath(p, ops, angle_values, inverse, v) = f[Len(ops)]
<1> DEFINE N == Len(ops)
           V == [0 .. D - 1 -> Complex]
           Body(g) == [k \in 0 .. N |-> IF k = 0 THEN v ELSE SparseStep(p, ops[k], angle_values, inverse, g[k - 1])]
           rec == CHOOSE g : g = Body(g)
           step == [k \in 1 .. N |-> [x \in V |-> SparseStep(p, ops[k], angle_values, inverse, x)]]
<1>1. N \in Nat
  BY DEF SparseOps
<1>2. v \in V
  OBVIOUS
<1>3. \A k \in 1 .. N : \A x \in V : SparseStep(p, ops[k], angle_values, inverse, x) \in V
  BY SparseStepIs DEF SparseOps, Scaled
<1> HIDE DEF N, V
<1>4. step \in [1 .. N -> [V -> V]]
  BY <1>3
<1>5. PICK g : IsChain(g, N, V, v, step)
  <2> HIDE DEF step
  <2> QED
    BY <1>1, <1>2, <1>4, Chain
<1>6. g \in [0 .. N -> V] /\ g[0] = v /\ \A k \in 1 .. N : g[k] = SparseStep(p, ops[k], angle_values, inverse, g[k - 1])
  <2>1. g \in [0 .. N -> V] /\ g[0] = v /\ \A k \in 1 .. N : g[k] = step[k][g[k - 1]]
    BY <1>5 DEF IsChain
  <2>2. \A k \in 1 .. N : g[k - 1] \in V
    BY <1>1, <2>1
  <2>3. \A k \in 1 .. N : \A x \in V : step[k][x] = SparseStep(p, ops[k], angle_values, inverse, x)
    OBVIOUS
  <2> HIDE DEF step
  <2> QED
    BY <2>1, <2>2, <2>3
<1>7. g = Body(g)
  <2>1. g = [k \in 0 .. N |-> g[k]] /\ g[0] = v
    BY <1>6
  <2>2. \A k \in 0 .. N : g[k] = IF k = 0 THEN v ELSE SparseStep(p, ops[k], angle_values, inverse, g[k - 1])
    BY <1>1, <1>6
  <2> QED
    BY <2>1, <2>2
<1>8. rec = Body(rec)
  <2> HIDE DEF Body
  <2> QED
    BY <1>7
<1>9. rec \in [0 .. N -> V] /\ rec[0] = v
      /\ \A k \in 1 .. N : rec[k] = SparseStep(p, ops[k], angle_values, inverse, rec[k - 1])
  <2> HIDE DEF rec
  <2>1. \A k \in 0 .. N : rec[k] = IF k = 0 THEN v ELSE SparseStep(p, ops[k], angle_values, inverse, rec[k - 1])
    <3>1. rec = [k \in 0 .. N |-> IF k = 0 THEN v ELSE SparseStep(p, ops[k], angle_values, inverse, rec[k - 1])]
      BY <1>8
    <3> QED
      BY <3>1
  <2> DEFINE T == {k \in 0 .. N : rec[k] \in V}
  <2>2. 0 \in T
    BY <1>1, <1>2, <2>1
  <2>3. ASSUME NEW k \in 1 .. N, k - 1 \in T PROVE k \in T
    <3>1. rec[k] = SparseStep(p, ops[k], angle_values, inverse, rec[k - 1]) /\ rec[k - 1] \in V
      BY <1>1, <2>1, <2>3
    <3>2. rec[k] \in V
      BY <1>3, <3>1
    <3> QED
      BY <1>1, <3>2
  <2> HIDE DEF T
  <2>4. \A k \in 0 .. N : k \in T
    BY <1>1, <2>2, <2>3, UpTo
  <2>5. \A k \in 0 .. N : rec[k] \in V
    BY <2>4 DEF T
  <2>6. rec = [k \in 0 .. N |-> rec[k]]
    BY <1>8
  <2>7. rec \in [0 .. N -> V]
    BY <2>5, <2>6
  <2>8. rec[0] = v /\ \A k \in 1 .. N : rec[k] = SparseStep(p, ops[k], angle_values, inverse, rec[k - 1])
    BY <1>1, <2>1
  <2> QED
    BY <2>7, <2>8
<1>10. SparsePath(p, ops, angle_values, inverse, v) = rec[N]
  BY DEF SparsePath, N
<1> HIDE DEF rec
<1> QED
  BY <1>9, <1>10 DEF Touches, N, V

SparseProduct(p, ops, angle_values, inverse, v, D) ==
  SparsePath(p, ops, angle_values, inverse, v)
    = [i \in 0 .. D - 1 |-> Times(v[i], PhaseProduct(Factors(ops, angle_values, p.basis[i], inverse)))]

\* Each amplitude is multiplied by the factors of all its operations.
LEMMA SparsePathIs ==
  ASSUME NEW program, NEW p, NEW D, DOMAIN p.basis = 0 .. D - 1, NEW ops, SparseOps(ops, program),
         NEW angle_values, LegalAngles(angle_values, program), NEW inverse \in BOOLEAN,
         NEW v \in [0 .. D - 1 -> Complex]
  PROVE  SparseProduct(p, ops, angle_values, inverse, v, D)
<1> SUFFICES ASSUME NEW i \in 0 .. D - 1
             PROVE  SparsePath(p, ops, angle_values, inverse, v)[i]
                      = Times(v[i], PhaseProduct(Factors(ops, angle_values, p.basis[i], inverse)))
  <2>1. PICK f : Touches(f, p, ops, angle_values, inverse, v, D) /\ SparsePath(p, ops, angle_values, inverse, v) = f[Len(ops)]
    BY TouchChain
  <2>2. Len(ops) \in 0 .. Len(ops)
    BY DEF SparseOps
  <2>3. SparsePath(p, ops, angle_values, inverse, v) \in [0 .. D - 1 -> Complex]
    BY <2>1, <2>2 DEF Touches
  <2> QED
    BY <2>3 DEF SparseProduct
<1> DEFINE n == Len(ops)
           s == Factors(ops, angle_values, p.basis[i], inverse)
<1>1. PICK f : Touches(f, p, ops, angle_values, inverse, v, D) /\ SparsePath(p, ops, angle_values, inverse, v) = f[n]
  BY TouchChain
<1>2. n \in Nat /\ \A k \in 1 .. n : LegalOp(ops[k], program) /\ IsSparse(ops[k]) /\ IsDiagonal(ops[k])
  BY DEF SparseOps, IsSparse, IsDiagonal
<1>3. f \in [0 .. n -> [0 .. D - 1 -> Complex]] /\ f[0] = v
      /\ \A k \in 1 .. n : f[k] = SparseStep(p, ops[k], angle_values, inverse, f[k - 1])
  BY <1>1 DEF Touches
<1>4. \A k \in 1 .. n : DiagonalPhase(ops[k], angle_values, p.basis[i]) \in Units
  BY <1>2, PhaseIsUnit
<1>5. \A k \in 1 .. n : s[k] \in Units /\ s[k] = Factor(ops[k], angle_values, p.basis[i], inverse)
  BY <1>2, <1>4, FactorsProduct DEF Factors
<1>6. s = [k \in 1 .. n |-> s[k]]
  BY DEF Factors
<1> HIDE DEF n, s
<1>7. Len(s) = n
  BY <1>2, <1>6, SeqOfFunction
<1>8. PICK g : Multiplies(g, s, n) /\ PhaseProduct(s) = g[n]
  BY <1>2, <1>5, <1>7, ProductChain
<1>9. \A k \in 1 .. n : f[k][i] = Times(f[k - 1][i], s[k]) /\ f[k - 1][i] \in Complex
  <2> SUFFICES ASSUME NEW k \in 1 .. n PROVE f[k][i] = Times(f[k - 1][i], s[k]) /\ f[k - 1][i] \in Complex
    OBVIOUS
  <2>1. k - 1 \in 0 .. n
    BY <1>2
  <2>2. f[k - 1] \in [0 .. D - 1 -> Complex] /\ f[k] = SparseStep(p, ops[k], angle_values, inverse, f[k - 1])
        /\ LegalOp(ops[k], program) /\ IsSparse(ops[k])
    BY <1>2, <1>3, <2>1
  <2>3. PICK w : w = f[k - 1]
    OBVIOUS
  <2>4. PICK op : op = ops[k]
    OBVIOUS
  <2>5. w \in [0 .. D - 1 -> Complex] /\ LegalOp(op, program) /\ IsSparse(op)
    BY <2>2, <2>3, <2>4
  <2>6. Scaled(SparseStep(p, op, angle_values, inverse, w), w, p, op, angle_values, inverse, D)
    BY <2>5, SparseStepIs
  <2>7. f[k][i] = Times(f[k - 1][i], Factor(ops[k], angle_values, p.basis[i], inverse))
    BY <2>2, <2>3, <2>4, <2>6 DEF Scaled
  <2> QED
    BY <1>5, <2>2, <2>7
<1> DEFINE T == {k \in 0 .. n : f[k][i] = Times(v[i], g[k])}
<1>10. 0 \in T
  <2>1. v[i] \in Complex
    OBVIOUS
  <2>2. Times(v[i], One) = v[i]
    BY <2>1, ComplexOneTimes
  <2>3. f[0][i] = v[i] /\ 0 \in 0 .. n
    BY <1>2, <1>3
  <2>4. g[0] = One
    BY <1>8 DEF Multiplies
  <2> QED
    BY <2>2, <2>3, <2>4
<1>11. ASSUME NEW k \in 1 .. n, k - 1 \in T PROVE k \in T
  <2>1. k \in 0 .. n /\ k - 1 \in 0 .. n /\ f[k - 1][i] = Times(v[i], g[k - 1])
    BY <1>2, <1>11
  <2>2. g[k] = Times(g[k - 1], s[k]) /\ g[k - 1] \in Complex /\ s[k] \in Complex
    BY <1>5, <1>8, <2>1, UnitFacts DEF Multiplies
  <2>3. Times(v[i], Times(g[k - 1], s[k])) = Times(Times(v[i], g[k - 1]), s[k])
    BY <2>2, ComplexRing
  <2> QED
    BY <1>9, <2>1, <2>2, <2>3
<1> HIDE DEF T
<1>12. \A k \in 0 .. n : k \in T
  BY <1>2, <1>10, <1>11, UpTo
<1>13. f[n][i] = Times(v[i], g[n]) /\ f[n] \in [0 .. D - 1 -> Complex]
  BY <1>2, <1>3, <1>12 DEF T
<1> QED
  BY <1>1, <1>8, <1>13 DEF s, n

DiagonalMaps(p, k, run, angle_values, inverse, v, D) ==
  ApplyDiagonal(p, p.gates[k], v, angle_values, inverse)
    = [i \in 0 .. D - 1 |-> Times(v[i], TurnedBack(Effect(run, angle_values, p.basis[i], Len(run)), inverse))]

\* A diagonal block multiplies every amplitude by its effect, forward or
\* undone, whichever path it takes.
LEMMA ApplyDiagonalIs ==
  ASSUME NEW program, NEW p, NEW D, DOMAIN p.basis = 0 .. D - 1, NEW k, NEW run, IsDiagonalBlock(p, k, run, program),
         NEW angle_values, LegalAngles(angle_values, program), NEW inverse \in BOOLEAN,
         NEW v \in [0 .. D - 1 -> Complex]
  PROVE  DiagonalMaps(p, k, run, angle_values, inverse, v, D)
<1> SUFFICES ApplyDiagonal(p, p.gates[k], v, angle_values, inverse)
               = [i \in 0 .. D - 1 |-> Times(v[i], TurnedBack(Effect(run, angle_values, p.basis[i], Len(run)), inverse))]
  BY DEF DiagonalMaps
<1> DEFINE gate == p.gates[k]
           ops == FoldStatic(run, program)
           n == Len(ops)
           made == ApplyDiagonal(p, gate, v, angle_values, inverse)
<1>1. DiagonalRun(run, program) /\ gate.operations = ops
  BY DEF IsDiagonalBlock
<1>2. ops \in Seq(Micro(run, program))
      /\ \A word : Effect(ops, angle_values, word, n) = Effect(run, angle_values, word, Len(run))
  BY <1>1, FoldedIs
<1> HIDE DEF ops, n
<1>3. n \in Nat /\ DOMAIN ops = 1 .. n /\ \A j \in 1 .. n : LegalOp(ops[j], program) /\ IsDiagonal(ops[j])
  <2>1. n \in Nat /\ DOMAIN ops = 1 .. n /\ \A j \in 1 .. n : ops[j] \in Micro(run, program)
    BY <1>2 DEF n
  <2> QED
    BY <2>1 DEF Micro
<1>4. \A i \in 0 .. D - 1 : PhaseProduct(Factors(ops, angle_values, p.basis[i], inverse))
                            = TurnedBack(Effect(run, angle_values, p.basis[i], Len(run)), inverse)
  <2> SUFFICES ASSUME NEW i \in 0 .. D - 1
               PROVE  PhaseProduct(Factors(ops, angle_values, p.basis[i], inverse))
                            = TurnedBack(Effect(run, angle_values, p.basis[i], Len(run)), inverse)
    OBVIOUS
  <2>1. \A j \in 1 .. Len(ops) : DiagonalPhase(ops[j], angle_values, p.basis[i]) \in Units
    BY <1>3, PhaseIsUnit DEF n
  <2>2. Len(ops) \in Nat
    BY <1>3 DEF n
  <2>3. PhaseProduct(Factors(ops, angle_values, p.basis[i], inverse))
          = TurnedBack(Effect(ops, angle_values, p.basis[i], Len(ops)), inverse)
    BY <2>1, <2>2, FactorsProduct
  <2> QED
    BY <1>2, <2>3 DEF n
<1>5. CASE \A j \in DOMAIN ops : IsSparse(ops[j])
  <2>1. made = SparsePath(p, ops, angle_values, inverse, v)
    BY <1>1, <1>5 DEF ApplyDiagonal, SparsePath, SparseStep
  <2>2. SparseOps(ops, program)
    BY <1>3, <1>5 DEF SparseOps, n
  <2>3. SparsePath(p, ops, angle_values, inverse, v)
          = [i \in 0 .. D - 1 |-> Times(v[i], PhaseProduct(Factors(ops, angle_values, p.basis[i], inverse)))]
    <3> HIDE DEF ops
    <3>1. SparseProduct(p, ops, angle_values, inverse, v, D)
      BY <2>2, SparsePathIs
    <3> QED
      BY <3>1 DEF SparseProduct
  <2> HIDE DEF made, ops
  <2> DEFINE A(i) == PhaseProduct(Factors(ops, angle_values, p.basis[i], inverse))
             B(i) == TurnedBack(Effect(run, angle_values, p.basis[i], Len(run)), inverse)
  <2>4. made = [i \in 0 .. D - 1 |-> Times(v[i], A(i))]
    BY <2>1, <2>3
  <2>5. \A i \in 0 .. D - 1 : A(i) = B(i)
    BY <1>4
  <2> HIDE DEF A, B
  <2>6. made = [i \in 0 .. D - 1 |-> Times(v[i], B(i))]
    BY <2>4, <2>5
  <2> QED
    BY <2>6 DEF made, B
<1>6. CASE ~(\A j \in DOMAIN ops : IsSparse(ops[j]))
  <2> DEFINE F(i) == [j \in DOMAIN ops |-> Factor(ops[j], angle_values, p.basis[i], inverse)]
  <2>1. made = [i \in DOMAIN v |-> Times(v[i], PhaseProduct(F(i)))]
    BY <1>1, <1>6 DEF ApplyDiagonal, Factor
  <2>2. \A i : F(i) = Factors(ops, angle_values, p.basis[i], inverse)
    BY <1>3 DEF Factors, n
  <2> HIDE DEF F
  <2> QED
    BY <1>4, <2>1, <2>2
<1> QED
  BY <1>5, <1>6


-----------------------------------------------------------------------------
(* A block on the sector                                                   *)

\* What a block of a plan makes of v is u, by whichever path it is applied.
BlockMaps(p, k, angle_values, inverse, v, u) ==
  /\ p.gates[k].kind \in {"diagonal", "pairs"}
  /\ p.gates[k].kind = "diagonal" => ApplyDiagonal(p, p.gates[k], v, angle_values, inverse) = u
  /\ p.gates[k].kind = "pairs" =>
       /\ p.gates[k].pairs \in PairList(0 .. p.sector.dimension - 1)
       /\ PairBlockMatrix(p.gates[k], angle_values, inverse) \in Matrix
       /\ MapsVector(p.gates[k].pairs, 0 .. p.sector.dimension - 1,
                     PairBlockMatrix(p.gates[k], angle_values, inverse), v, u)

\* Full vectors before and after a block, and the block on their restrictions.
BlockBetween(p, k, angle_values, F, G) ==
  /\ InSector(p.sector, G)
  /\ BlockMaps(p, k, angle_values, FALSE, OnSector(p.sector, F), OnSector(p.sector, G))
  /\ BlockMaps(p, k, angle_values, TRUE, OnSector(p.sector, G), OnSector(p.sector, F))

\* A diagonal block does on the sector what its operations do on the full
\* space, and is undone by the conjugate phases.
LEMMA DiagonalGateIs ==
  ASSUME NEW program, NEW limit, NEW p, PlanOf(p, program, limit),
         NEW k, NEW run, IsDiagonalBlock(p, k, run, program),
         NEW angle_values, LegalAngles(angle_values, program),
         NEW F \in Space(program.nqubits), InSector(p.sector, F),
         NEW h, EvolvesRun(h, run, program, angle_values, F), NEW G, G = h[Len(run)]
  PROVE  BlockBetween(p, k, angle_values, F, G)
<1> DEFINE s == p.sector
           n == program.nqubits
           D == s.dimension
           E(w) == Effect(run, angle_values, w, Len(run))
           v == OnSector(s, F)
           u == OnSector(s, G)
<1>1. /\ IsSector(s) /\ s.nqubits = n /\ n \in Nat /\ LegalProgram(program)
      /\ DOMAIN p.basis = 0 .. D - 1 /\ \A i \in 0 .. D - 1 : p.basis[i] = SectorWord(s, i)
  BY SectorFacts DEF PlanOf
<1>2. DiagonalRun(run, program) /\ p.gates[k].kind = "diagonal"
  BY DEF IsDiagonalBlock
<1>3. G \in Space(n)
  BY <1>2 DEF EvolvesRun, DiagonalRun
<1>4. \A w \in SUBSET Qubits(n) : G[w] = Times(E(w), F[w]) /\ E(w) \in Units
  <2> SUFFICES ASSUME NEW w \in SUBSET Qubits(n) PROVE G[w] = Times(E(w), F[w]) /\ E(w) \in Units
    OBVIOUS
  <2>1. G[w] = Times(E(w), F[w])
    BY <1>1, <1>2, DiagonalRunActs
  <2>2. Len(run) \in Nat /\ \A j \in 1 .. Len(run) : DiagonalPhase(run[j], angle_values, w) \in Units
    BY <1>2, PhaseIsUnit DEF DiagonalRun
  <2>3. E(w) \in Units
    BY <2>2, EffectSteps
  <2> QED
    BY <2>1, <2>3
<1>5. InSector(s, G)
  <2> SUFFICES ASSUME NEW w \in SUBSET Qubits(s.nqubits), w \notin SectorWords(s) PROVE G[w] = Zero
    BY DEF InSector
  <2>1. F[w] = Zero /\ E(w) \in Complex /\ G[w] = Times(E(w), F[w])
    BY <1>1, <1>4, UnitFacts DEF InSector
  <2> QED
    BY <2>1, ComplexFacts
<1>6. v \in [0 .. D - 1 -> Complex] /\ u \in [0 .. D - 1 -> Complex]
  BY <1>1, <1>3, RestrictedType
<1>7. ASSUME NEW i \in 0 .. D - 1
      PROVE  Times(v[i], E(p.basis[i])) = u[i] /\ Times(u[i], Conj(E(p.basis[i]))) = v[i]
  <2> DEFINE w == SectorWord(s, i)
  <2>1. w \in SUBSET Qubits(n) /\ p.basis[i] = w
    BY <1>1, SectorNumbered DEF SectorWords, Chosen
  <2>2. v[i] = F[w] /\ u[i] = G[w]
    BY DEF OnSector
  <2> HIDE DEF w, v, u, E
  <2>3. v[i] \in Complex /\ u[i] \in Complex /\ E(w) \in Units /\ u[i] = Times(E(w), v[i])
    BY <1>4, <1>6, <2>1, <2>2
  <2>4. E(w) \in Complex /\ Conj(E(w)) \in Complex /\ Times(Conj(E(w)), Times(E(w), v[i])) = v[i]
    BY <2>3, UnitFacts, UnitUndone
  <2>5. Times(v[i], E(w)) = Times(E(w), v[i]) /\ Times(u[i], Conj(E(w))) = Times(Conj(E(w)), u[i])
    BY <2>3, <2>4, ComplexFacts
  <2> QED
    BY <2>1, <2>3, <2>4, <2>5
<1> HIDE DEF v, u
<1>8. \A inverse \in BOOLEAN : \A x \in [0 .. D - 1 -> Complex] :
        ApplyDiagonal(p, p.gates[k], x, angle_values, inverse)
          = [i \in 0 .. D - 1 |-> Times(x[i], TurnedBack(E(p.basis[i]), inverse))]
  <2>1. \A inverse \in BOOLEAN : \A x \in [0 .. D - 1 -> Complex] : DiagonalMaps(p, k, run, angle_values, inverse, x, D)
    BY <1>1, ApplyDiagonalIs
  <2> QED
    BY <2>1 DEF DiagonalMaps
<1> HIDE DEF E
<1>9. ApplyDiagonal(p, p.gates[k], v, angle_values, FALSE) = u
  <2>1. ApplyDiagonal(p, p.gates[k], v, angle_values, FALSE) = [i \in 0 .. D - 1 |-> Times(v[i], E(p.basis[i]))]
    BY <1>6, <1>8 DEF TurnedBack
  <2> QED
    BY <1>6, <1>7, <2>1
<1>10. ApplyDiagonal(p, p.gates[k], u, angle_values, TRUE) = v
  <2>1. ApplyDiagonal(p, p.gates[k], u, angle_values, TRUE) = [i \in 0 .. D - 1 |-> Times(u[i], Conj(E(p.basis[i])))]
    BY <1>6, <1>8 DEF TurnedBack
  <2> QED
    BY <1>6, <1>7, <2>1
<1> QED
  BY <1>2, <1>5, <1>9, <1>10 DEF BlockBetween, BlockMaps, v, u

\* So does a pair block, and the adjoint matrix undoes it.
LEMMA PairGateIs ==
  ASSUME NEW program, NEW limit, NEW p, PlanOf(p, program, limit),
         NEW k, NEW run, IsPairBlock(p, k, run), PairRun(run, program),
         NEW angle_values, LegalAngles(angle_values, program),
         NEW F \in Space(program.nqubits), InSector(p.sector, F),
         NEW h, EvolvesRun(h, run, program, angle_values, F), NEW G, G = h[Len(run)]
  PROVE  BlockBetween(p, k, angle_values, F, G)
<1> DEFINE s == p.sector
           Index == 0 .. s.dimension - 1
           m == Composed(run, angle_values)
           ps == p.gates[k].pairs
<1>1. IsSector(s) /\ s.nqubits = program.nqubits /\ program.nqubits \in Nat
  BY SectorFacts DEF PlanOf
<1>2. p.gates[k].kind = "pairs" /\ p.gates[k].operations = run /\ MapsKey(s, PairKey(run[1]), ps)
  BY DEF IsPairBlock
<1>3. PICK wire0, wire1 : {wire0, wire1} = PairKey(run[1]) /\ TwoWires(s.nqubits, wire0, wire1) /\ MapsPairs(s, wire0, wire1, ps)
  BY <1>2 DEF MapsKey
<1>4. ps \in PairList(Index)
  BY <1>3 DEF MapsPairs
<1>5. G \in Space(program.nqubits)
  BY DEF EvolvesRun, PairRun
<1>6. m \in Matrix /\ Adjoint2(m) \in Matrix /\ Inverts(Adjoint2(m), m)
  BY ComposedInverts
<1>7. MixesPairs(s.nqubits, wire0, wire1, m, F, G)
  BY <1>1, <1>3, PairRunMixes
<1>8. OnSector(s, F) \in [Index -> Complex]
  BY <1>1, RestrictedType
<1>9. MapsVector(ps, Index, m, OnSector(s, F), OnSector(s, G)) /\ InSector(s, G)
  BY <1>1, <1>3, <1>5, <1>6, <1>7, RestrictMixes
<1>10. MapsVector(ps, Index, Adjoint2(m), OnSector(s, G), OnSector(s, F))
  <2> HIDE DEF Index, m, ps, s
  <2> QED
    BY <1>4, <1>6, <1>8, <1>9, MapsBack
<1>11. PairBlockMatrix(p.gates[k], angle_values, FALSE) = m /\ PairBlockMatrix(p.gates[k], angle_values, TRUE) = Adjoint2(m)
  BY <1>2 DEF PairBlockMatrix
<1> HIDE DEF m
<1> QED
  BY <1>2, <1>4, <1>6, <1>9, <1>10, <1>11 DEF BlockBetween, BlockMaps

\* So does any block of a plan.
LEMMA BlockGateIs ==
  ASSUME NEW program, NEW limit, NEW p, PlanOf(p, program, limit),
         NEW runs, runs = Runs(program.operations), NEW k \in 1 .. Len(runs),
         NEW angle_values, LegalAngles(angle_values, program),
         NEW F \in Space(program.nqubits), InSector(p.sector, F),
         NEW h, EvolvesRun(h, runs[k], program, angle_values, F), NEW G, G = h[Len(runs[k])]
  PROVE  BlockBetween(p, k, angle_values, F, G) /\ G \in Space(program.nqubits)
<1>1. LegalProgram(program)
  BY DEF PlanOf
<1>2. PICK run : run = runs[k]
  OBVIOUS
<1>3. /\ RunOf(run, program)
      /\ IsDiagonal(run[1]) => IsDiagonalBlock(p, k, run, program)
      /\ ~IsDiagonal(run[1]) => IsPairBlock(p, k, run)
  BY <1>2, GateIs
<1>4. G \in Space(program.nqubits)
  BY <1>2, <1>3 DEF EvolvesRun, RunOf
<1>a. EvolvesRun(h, run, program, angle_values, F) /\ G = h[Len(run)]
  BY <1>2
<1>5. CASE IsDiagonal(run[1])
  <2>1. IsDiagonalBlock(p, k, run, program)
    BY <1>3, <1>5
  <2>2. BlockBetween(p, k, angle_values, F, G)
    BY <1>a, <2>1, DiagonalGateIs
  <2> QED
    BY <1>4, <2>2
<1>6. CASE ~IsDiagonal(run[1])
  <2>1. PairRun(run, program)
    BY <1>1, <1>3, <1>6, RunKinds DEF PairRun, RunOf
  <2>2. IsPairBlock(p, k, run)
    BY <1>3, <1>6
  <2>3. BlockBetween(p, k, angle_values, F, G)
    BY <1>a, <2>1, <2>2, PairGateIs
  <2> QED
    BY <1>4, <2>3
<1> QED
  BY <1>4, <1>5, <1>6


-----------------------------------------------------------------------------
(* The full circuit, block by block                                        *)

\* The operations in the first blocks end where the runs are cut.
LEMMA ConsumedIs ==
  ASSUME NEW p, NEW runs, runs = Runs(p.program.operations), Len(runs) \in Nat, NEW n \in Nat,
         NEW b, CutAt(runs, p.program.operations, n, b), NEW k \in 0 .. Len(runs)
  PROVE  Consumed(p, k) = b[k]
<1> DEFINE Body(g) == [j \in 0 .. k |-> IF j = 0 THEN 0 ELSE g[j - 1] + Len(runs[j])]
           rec == CHOOSE g : g = Body(g)
           c == [j \in 0 .. k |-> b[j]]
<1>1. k \in Nat /\ \A j \in 0 .. k : j \in 0 .. Len(runs) /\ b[j] \in Nat
  <2>1. k \in Nat /\ \A j \in 0 .. k : j \in 0 .. Len(runs)
    OBVIOUS
  <2>2. \A j \in 0 .. Len(runs) : b[j] \in Nat
    BY DEF CutAt
  <2> QED
    BY <2>1, <2>2
<1>2. b[0] = 0 /\ \A j \in 1 .. k : b[j - 1] \in Nat /\ b[j] = b[j - 1] + Len(runs[j])
  <2> SUFFICES ASSUME NEW j \in 1 .. k PROVE b[j - 1] \in Nat /\ b[j] = b[j - 1] + Len(runs[j])
    BY DEF CutAt
  <2>1. j \in 1 .. Len(runs) /\ j - 1 \in 0 .. k
    BY <1>1
  <2>2. b[j - 1] \in Nat /\ b[j] \in Nat /\ Len(runs[j]) = b[j] - b[j - 1]
    BY <1>1, <2>1 DEF CutAt
  <2> DEFINE x == b[j]
             y == b[j - 1]
  <2>3. x \in Nat /\ y \in Nat /\ Len(runs[j]) = x - y
    BY <2>2
  <2> HIDE DEF x, y
  <2>4. x = y + Len(runs[j])
    BY <2>3
  <2> QED
    BY <2>2, <2>4 DEF x, y
<1>3. c = Body(c)
  <2>1. \A j \in 0 .. k : c[j] = IF j = 0 THEN 0 ELSE c[j - 1] + Len(runs[j])
    BY <1>1, <1>2
  <2> QED
    BY <2>1
<1>4. rec = Body(rec)
  <2> HIDE DEF Body, c
  <2> QED
    BY <1>3
<1> HIDE DEF rec
<1>5. \A j \in 0 .. k : rec[j] = IF j = 0 THEN 0 ELSE rec[j - 1] + Len(runs[j])
  <2>1. rec = [j \in 0 .. k |-> IF j = 0 THEN 0 ELSE rec[j - 1] + Len(runs[j])]
    BY <1>4
  <2> QED
    BY <2>1
<1> DEFINE T == {j \in 0 .. k : rec[j] = b[j]}
<1>6. 0 \in T
  BY <1>1, <1>2, <1>5
<1>7. ASSUME NEW j \in 1 .. k, j - 1 \in T PROVE j \in T
  BY <1>1, <1>2, <1>5, <1>7
<1> HIDE DEF T
<1>8. \A j \in 0 .. k : j \in T
  BY <1>1, <1>6, <1>7, UpTo
<1>9. rec[k] = b[k]
  BY <1>1, <1>8 DEF T
<1>10. Consumed(p, k) = rec[k]
  BY DEF Consumed, rec
<1> QED
  BY <1>9, <1>10

\* The full vector after the first blocks.
FullAfter(p, angle_values, F, k) == FullRun(p.program, angle_values, F, Consumed(p, k))
ReachedIs(p, angle_values, F, k) ==
  /\ FullAfter(p, angle_values, F, k) \in Space(p.program.nqubits)
  /\ InSector(p.sector, FullAfter(p, angle_values, F, k))

\* Every block of a plan carries the restriction of the full vector before
\* it to that of the full vector after it, and back.
LEMMA BlocksFollow ==
  ASSUME NEW program, NEW limit, NEW p, PlanOf(p, program, limit),
         NEW angle_values, LegalAngles(angle_values, program),
         NEW F \in Space(program.nqubits), InSector(p.sector, F)
  PROVE  /\ FullAfter(p, angle_values, F, 0) = F
         /\ Consumed(p, Len(p.gates)) = Len(program.operations)
         /\ \A k \in 0 .. Len(p.gates) : ReachedIs(p, angle_values, F, k)
         /\ \A k \in 1 .. Len(p.gates) :
              BlockBetween(p, k, angle_values, FullAfter(p, angle_values, F, k - 1), FullAfter(p, angle_values, F, k))
<1> DEFINE runs == Runs(program.operations)
           N == Len(runs)
           ops == program.operations
           n == Len(ops)
           R == [k \in 0 .. n |-> FullRun(program, angle_values, F, k)]
           A(k) == FullAfter(p, angle_values, F, k)
<1>1. LegalProgram(program) /\ p.program = program
  BY DEF PlanOf
<1>2. /\ N \in Nat /\ DOMAIN runs = 1 .. N /\ Len(p.gates) = N
      /\ \A k \in 1 .. N : RunOf(runs[k], program)
  <2>1. PICK rs : rs = runs
    OBVIOUS
  <2>2. Len(rs) \in Nat /\ Len(p.gates) = Len(rs) /\ \A k \in 1 .. Len(rs) : RunOf(rs[k], program)
    BY <2>1, GateIs
  <2>3. DOMAIN rs = 1 .. Len(rs)
    BY <1>1, <2>1, BlockRuns
  <2> QED
    BY <2>1, <2>2, <2>3
<1>3. n \in Nat /\ DOMAIN ops = 1 .. n
  BY <1>1, LegalOps
<1>4. PICK b : CutAt(runs, ops, n, b)
  <2>1. IsCut(runs, ops, n)
    BY <1>1, BlockRuns
  <2> QED
    BY <2>1 DEF IsCut
<1>5. \A k \in 0 .. N : Consumed(p, k) = b[k]
  BY <1>1, <1>2, <1>3, <1>4, ConsumedIs
<1>6. Evolves(R, program, angle_values, F, n)
  BY <1>1, FullRunSteps
<1> HIDE DEF R
<1>7. /\ b \in [0 .. N -> 0 .. n] /\ b[0] = 0 /\ b[N] = n
      /\ \A k \in 1 .. N : /\ b[k - 1] < b[k] /\ Len(runs[k]) = b[k] - b[k - 1]
                           /\ \A i \in 1 .. Len(runs[k]) : runs[k][i] = ops[b[k - 1] + i]
  BY <1>4 DEF CutAt
<1>8. \A k \in 0 .. N : A(k) = R[b[k]] /\ A(k) \in Space(program.nqubits)
  <2> SUFFICES ASSUME NEW k \in 0 .. N PROVE A(k) = R[b[k]] /\ R[b[k]] \in Space(program.nqubits)
    OBVIOUS
  <2>1. b[k] \in 0 .. n /\ A(k) = FullRun(program, angle_values, F, b[k])
    BY <1>1, <1>5, <1>7 DEF FullAfter
  <2> HIDE DEF n, A
  <2> QED
    BY <1>6, <2>1 DEF R, Evolves
<1>9. A(0) = F
  <2>1. 0 \in 0 .. N
    BY <1>2
  <2> QED
    BY <1>6, <1>7, <1>8, <2>1 DEF Evolves
<1>10. ASSUME NEW k \in 1 .. N, InSector(p.sector, A(k - 1))
       PROVE  BlockBetween(p, k, angle_values, A(k - 1), A(k))
  <2> DEFINE run == runs[k]
             m == Len(run)
             c == b[k - 1]
             h == [j \in 0 .. m |-> R[c + j]]
  <2>1. k - 1 \in 0 .. N /\ k \in 0 .. N
    BY <1>2
  <2>2. c \in 0 .. n /\ b[k] \in 0 .. n /\ m = b[k] - c /\ \A i \in 1 .. m : run[i] = ops[c + i]
    BY <1>7, <2>1
  <2>3. m \in Nat /\ c \in Nat /\ n \in Nat /\ c + m = b[k]
    <3> DEFINE x == b[k]
    <3>1. RunOf(run, program) /\ c \in Nat /\ x \in Nat /\ m = x - c
      BY <1>2, <1>3, <2>2
    <3>2. m \in Nat
      BY <3>1 DEF RunOf
    <3> HIDE DEF x, m, c, n
    <3>3. c + m = x
      BY <3>1, <3>2
    <3> QED
      BY <1>3, <3>1, <3>2, <3>3 DEF x, n
  <2>4. \A j \in 0 .. m : c + j \in 0 .. n
    <3> DEFINE x == b[k]
    <3>1. m \in Nat /\ c \in Nat /\ n \in Nat /\ c + m = x /\ x \in 0 .. n
      BY <2>2, <2>3
    <3> HIDE DEF x, m, c, n
    <3> QED
      BY <3>1
  <2>5. h[0] = A(k - 1) /\ h[m] = A(k)
    <3>1. c + 0 = c /\ 0 \in 0 .. m /\ m \in 0 .. m
      BY <2>3
    <3>2. h[0] = R[c] /\ h[m] = R[b[k]]
      BY <2>3, <3>1
    <3> QED
      BY <1>8, <2>1, <3>2
  <2>6. ASSUME NEW j \in 1 .. m PROVE h[j] = FullGate(run[j], angle_values, h[j - 1])
    <3>1. j - 1 \in 0 .. m /\ j \in 0 .. m /\ c + j \in 1 .. n /\ (c + j) - 1 = c + (j - 1)
      <4>1. c + j \in 0 .. n /\ j \in 1 .. m /\ m \in Nat /\ c \in Nat /\ n \in Nat
        BY <2>3, <2>4
      <4> HIDE DEF m, c, n
      <4> QED
        BY <4>1
    <3>2. R[c + j] = FullGate(ops[c + j], angle_values, R[(c + j) - 1])
      BY <1>6, <3>1 DEF Evolves
    <3>3. run[j] = ops[c + j] /\ h[j] = R[c + j] /\ h[j - 1] = R[c + (j - 1)]
      BY <2>2, <3>1
    <3> QED
      BY <3>1, <3>2, <3>3
  <2>7. \A j \in 0 .. m : R[c + j] \in Space(program.nqubits)
    BY <1>6, <2>4 DEF Evolves
  <2>8. h \in [0 .. m -> Space(program.nqubits)]
    <3> HIDE DEF m, c
    <3> QED
      BY <2>7
  <2> HIDE DEF h, A
  <2>9. EvolvesRun(h, runs[k], program, angle_values, A(k - 1))
    BY <2>5, <2>6, <2>8 DEF EvolvesRun
  <2>10. A(k - 1) \in Space(program.nqubits) /\ A(k) = h[Len(runs[k])]
    BY <1>8, <2>1, <2>5
  <2> HIDE DEF run, m, c
  <2>11. PICK X : X = A(k - 1)
    OBVIOUS
  <2>12. PICK Y : Y = A(k)
    OBVIOUS
  <2>13. BlockBetween(p, k, angle_values, X, Y)
    <3>1. X \in Space(program.nqubits) /\ InSector(p.sector, X) /\ EvolvesRun(h, runs[k], program, angle_values, X)
          /\ Y = h[Len(runs[k])]
      BY <1>10, <2>9, <2>10, <2>11, <2>12
    <3> QED
      BY <3>1, BlockGateIs
  <2> QED
    BY <2>11, <2>12, <2>13
<1> DEFINE T == {k \in 0 .. N : InSector(p.sector, A(k))}
<1>11. 0 \in T
  BY <1>2, <1>9
<1>12. ASSUME NEW k \in 1 .. N, k - 1 \in T PROVE k \in T
  <2>1. BlockBetween(p, k, angle_values, A(k - 1), A(k))
    BY <1>10, <1>12
  <2> HIDE DEF A
  <2> QED
    BY <1>2, <2>1 DEF BlockBetween
<1> HIDE DEF T
<1>13. \A k \in 0 .. N : k \in T
  BY <1>2, <1>11, <1>12, UpTo
<1>14. \A k \in 0 .. N : InSector(p.sector, A(k))
  BY <1>13 DEF T
<1>15. \A k \in 1 .. N : BlockBetween(p, k, angle_values, A(k - 1), A(k))
  <2>1. \A k \in 1 .. N : k - 1 \in 0 .. N
    BY <1>2
  <2> HIDE DEF A
  <2> QED
    BY <1>10, <1>14, <2>1
<1>16. Consumed(p, N) = n
  BY <1>2, <1>5, <1>7
<1> QED
  BY <1>1, <1>2, <1>8, <1>9, <1>14, <1>15, <1>16 DEF ReachedIs


-----------------------------------------------------------------------------
(* Amplitudes of the sector in the full space                              *)

\* A vector of the sector, in the full space, is what it was on the sector
\* and nothing outside it; every full vector of that kind is one.
LEMMA EmbeddedIs ==
  ASSUME NEW program, NEW limit, NEW p, PlanOf(p, program, limit),
         NEW v \in [0 .. p.sector.dimension - 1 -> Complex]
  PROVE  /\ Embedded(p, v) \in Space(program.nqubits) /\ InSector(p.sector, Embedded(p, v))
         /\ OnSector(p.sector, Embedded(p, v)) = v
<1> DEFINE s == p.sector
           Index == 0 .. s.dimension - 1
           F == Embedded(p, v)
           place(w) == CHOOSE i \in Index : SectorWord(s, i) = w
<1>1. /\ IsSector(s) /\ s.nqubits = program.nqubits
      /\ \A i \in Index : p.basis[i] = SectorWord(s, i)
  BY DEF PlanOf
<1>2. DOMAIN v = Index
  OBVIOUS
<1>3. \A i \in Index : SectorWord(s, i) \in SectorWords(s) /\ RankWords(s, SectorWord(s, i)) = i
  BY <1>1, SectorNumbered
<1>4. F = [w \in SUBSET Qubits(program.nqubits) |->
              IF \E i \in Index : SectorWord(s, i) = w THEN v[place(w)] ELSE Zero]
  <2>1. \A w : (\E i \in Index : p.basis[i] = w) <=> (\E i \in Index : SectorWord(s, i) = w)
    BY <1>1
  <2>2. \A w : (CHOOSE i \in Index : p.basis[i] = w) = place(w)
    <3> SUFFICES ASSUME NEW w PROVE (CHOOSE i \in Index : p.basis[i] = w) = place(w)
      OBVIOUS
    <3>1. \A i : (i \in Index /\ p.basis[i] = w) <=> (i \in Index /\ SectorWord(s, i) = w)
      BY <1>1
    <3> QED
      BY <3>1, Zenon
  <2>3. F = [w \in SUBSET Qubits(program.nqubits) |->
              IF \E i \in Index : p.basis[i] = w THEN v[CHOOSE i \in Index : p.basis[i] = w] ELSE Zero]
    BY <1>1, <1>2 DEF Embedded
  <2>4. \A w \in SUBSET Qubits(program.nqubits) :
          (IF \E i \in Index : p.basis[i] = w THEN v[CHOOSE i \in Index : p.basis[i] = w] ELSE Zero)
            = IF \E i \in Index : SectorWord(s, i) = w THEN v[place(w)] ELSE Zero
    <3> HIDE DEF place
    <3> QED
      BY <2>1, <2>2, Zenon
  <2> HIDE DEF place, F
  <2> QED
    BY <2>3, <2>4, Zenon
<1> HIDE DEF F
<1>5. \A i \in Index : place(SectorWord(s, i)) = i
  <2> SUFFICES ASSUME NEW i \in Index PROVE place(SectorWord(s, i)) = i
    OBVIOUS
  <2>1. place(SectorWord(s, i)) \in Index /\ SectorWord(s, place(SectorWord(s, i))) = SectorWord(s, i)
    OBVIOUS
  <2> HIDE DEF place
  <2> QED
    BY <1>3, <2>1
<1>6. \A w : (\E i \in Index : SectorWord(s, i) = w) => place(w) \in Index
  OBVIOUS
<1> HIDE DEF place
<1>7. \A i \in Index : SectorWord(s, i) \in SUBSET Qubits(program.nqubits)
  BY <1>1, <1>3 DEF SectorWords, Chosen
<1>8. \A i \in Index : F[SectorWord(s, i)] = v[i]
  BY <1>4, <1>5, <1>7
<1>9. F \in Space(program.nqubits)
  <2>1. Zero \in Complex /\ \A i \in Index : v[i] \in Complex
    BY DEF Zero, Gauss, Complex
  <2>2. \A w \in SUBSET Qubits(program.nqubits) : F[w] \in Complex
    BY <1>4, <1>6, <2>1
  <2> QED
    BY <1>4, <2>2 DEF Space
<1>10. InSector(s, F)
  <2> SUFFICES ASSUME NEW w \in SUBSET Qubits(s.nqubits), w \notin SectorWords(s) PROVE F[w] = Zero
    BY DEF InSector
  <2> QED
    BY <1>1, <1>3, <1>4
<1>11. OnSector(s, F) = v
  BY <1>8 DEF OnSector
<1> QED
  BY <1>9, <1>10, <1>11 DEF F

\* Two full vectors of the sector that agree on it are one.
LEMMA RestrictedOnce ==
  ASSUME NEW s, IsSector(s), NEW F \in Space(s.nqubits), NEW G \in Space(s.nqubits),
         InSector(s, F), InSector(s, G), OnSector(s, F) = OnSector(s, G)
  PROVE  F = G
<1>1. ASSUME NEW w \in SUBSET Qubits(s.nqubits) PROVE F[w] = G[w]
  <2>1. CASE w \in SectorWords(s)
    BY <2>1, RestrictedType
  <2>2. CASE w \notin SectorWords(s)
    BY <2>2 DEF InSector
  <2> QED
    BY <2>1, <2>2
<1> QED
  BY <1>1 DEF Space

\* The restriction of a full vector of the sector stands for all of it.
LEMMA EmbeddedBack ==
  ASSUME NEW program, NEW limit, NEW p, PlanOf(p, program, limit),
         NEW F \in Space(program.nqubits), InSector(p.sector, F)
  PROVE  Embedded(p, OnSector(p.sector, F)) = F
<1> DEFINE s == p.sector
           v == OnSector(s, F)
<1>1. IsSector(s) /\ s.nqubits = program.nqubits
  BY DEF PlanOf
<1>2. v \in [0 .. s.dimension - 1 -> Complex]
  BY <1>1, RestrictedType
<1>3. /\ Embedded(p, v) \in Space(program.nqubits) /\ InSector(s, Embedded(p, v))
      /\ OnSector(s, Embedded(p, v)) = v
  BY <1>2, EmbeddedIs
<1> QED
  BY <1>1, <1>3, RestrictedOnce

\* Filling the slots of a legal program gives every angle a number.
LEMMA ResolvedIs ==
  ASSUME NEW program, LegalProgram(program), NEW parameters \in Seq(Int), Len(parameters) = program.nparameters
  PROVE  LegalAngles(ResolveAngleValues(program, parameters), program)
<1> DEFINE v == ResolveAngleValues(program, parameters)
           angles == program.angles
<1>1. /\ program.nparameters \in Nat
      /\ \A k \in DOMAIN angles : IF IsStatic(angles[k]) THEN angles[k].static \in Int ELSE angles[k].slot \in Nat
  BY DEF LegalProgram, IsProgram
<1>2. {angles[k].slot : k \in {j \in DOMAIN angles : ~IsStatic(angles[j])}} = 0 .. program.nparameters - 1
  BY DEF LegalProgram, ProgramError, AngleError
<1>3. DOMAIN v = DOMAIN angles
      /\ \A k \in DOMAIN angles : v[k] = IF IsStatic(angles[k]) THEN angles[k].static ELSE parameters[angles[k].slot + 1]
  BY DEF ResolveAngleValues
<1>4. ASSUME NEW k \in DOMAIN angles PROVE v[k] \in Int
  <2>1. CASE IsStatic(angles[k])
    BY <1>1, <1>3, <2>1
  <2>2. CASE ~IsStatic(angles[k])
    <3>1. angles[k].slot \in 0 .. program.nparameters - 1
      BY <1>2, <2>2
    <3>2. angles[k].slot + 1 \in 1 .. Len(parameters)
      BY <1>1, <3>1
    <3>3. parameters[angles[k].slot + 1] \in Int
      BY <3>2
    <3> QED
      BY <1>3, <2>2, <3>3
  <2> QED
    BY <2>1, <2>2
<1> HIDE DEF v
<1> QED
  BY <1>3, <1>4 DEF LegalAngles, v


-----------------------------------------------------------------------------
(* The observable on the sector                                            *)

\* A phase is a power of i.
LEMMA PhaseIs ==
  ASSUME NEW n \in Nat, NEW w, w.x \in SUBSET Qubits(n), NEW column
  PROVE  YPhase(w) \in Complex /\ ActionPhase(w, column) \in Complex
<1> DEFINE c == Cardinality(w.x \cap w.z)
           k == (c % 4) + 1
           powers == <<One, Gauss(0, 1), Gauss(-1, 0), Gauss(0, -1)>>
<1>1. c \in Nat
  <2>1. IsFiniteSet(Qubits(n)) /\ w.x \cap w.z \in SUBSET Qubits(n)
    BY QubitsCount
  <2>2. IsFiniteSet(w.x \cap w.z)
    BY <2>1, FS_Subset
  <2> QED
    BY <2>2, FS_CardinalityType
<1>2. k \in 1 .. 4
  <2> HIDE DEF c
  <2> QED
    BY <1>1
<1>3. \A i \in 1 .. 4 : powers[i] \in Complex
  BY DEF One, Gauss, Complex
<1>4. YPhase(w) = powers[k]
  BY DEF YPhase, IPow
<1>5. YPhase(w) \in Complex
  <2> HIDE DEF powers, k
  <2> QED
    BY <1>2, <1>3, <1>4
<1>6. Neg(YPhase(w)) \in Complex
  BY <1>5, ComplexFacts
<1> QED
  BY <1>5, <1>6 DEF ActionPhase

\* A total times a number.
ScaledBy(g, c, f, S) == \A x \in S : g[x] = Times(c, f[x])

\* A common factor leaves a total.
LEMMA ComplexScale ==
  ASSUME NEW S, IsFiniteSet(S), NEW f, ComplexOn(f, S), NEW c \in Complex, NEW g, ScaledBy(g, c, f, S)
  PROVE  ComplexOn(g, S) /\ Total(S, g) = Times(c, Total(S, f))
<1>1. c.re \in Int /\ c.im \in Int /\ -c.im \in Int
  BY DEF Complex
<1>2. \A x \in S : f[x] \in Complex /\ f[x].re \in Int /\ f[x].im \in Int /\ g[x] = Times(c, f[x])
  BY DEF ComplexOn, Complex, ScaledBy
<1>3. ComplexOn(g, S)
  BY <1>2, ComplexFacts DEF ComplexOn
<1>4. \A x \in S : /\ g[x].re = c.re * f[x].re - c.im * f[x].im
                   /\ g[x].im = c.re * f[x].im + c.im * f[x].re
  <2> SUFFICES ASSUME NEW x \in S
               PROVE  /\ g[x].re = c.re * f[x].re - c.im * f[x].im
                      /\ g[x].im = c.re * f[x].im + c.im * f[x].re
    OBVIOUS
  <2>1. g[x] = [re |-> c.re * f[x].re - c.im * f[x].im, im |-> c.re * f[x].im + c.im * f[x].re]
    BY <1>2, Zenon DEF Times, Gauss
  <2> QED
    BY <2>1
<1>5. Combines(Re(g, S), c.re, Re(f, S), -c.im, Im(f, S), S)
  <2>1. \A x \in S : Re(g, S)[x] = c.re * Re(f, S)[x] - c.im * Im(f, S)[x]
    BY <1>4 DEF Re, Im
  <2>2. \A x \in S : Re(f, S)[x] \in Int /\ Im(f, S)[x] \in Int
    BY <1>2 DEF Re, Im
  <2>3. \A a, b \in Int : c.re * a - c.im * b = c.re * a + (-c.im) * b
    BY <1>1
  <2> QED
    BY <2>1, <2>2, <2>3 DEF Combines
<1>6. Combines(Im(g, S), c.re, Im(f, S), c.im, Re(f, S), S)
  BY <1>4 DEF Combines, Re, Im
<1>7. /\ IntOn(Re(f, S), S) /\ IntOn(Im(f, S), S)
      /\ Total(S, f) = Gauss(SumFunctionOnSet(Re(f, S), S), SumFunctionOnSet(Im(f, S), S))
  BY ComplexParts
<1>8. Total(S, g) = Gauss(SumFunctionOnSet(Re(g, S), S), SumFunctionOnSet(Im(g, S), S))
  BY <1>3, ComplexParts
<1> DEFINE a == SumFunctionOnSet(Re(f, S), S)
           b == SumFunctionOnSet(Im(f, S), S)
<1>9. a \in Int /\ b \in Int
  BY <1>7, SumInt
<1>10. SumFunctionOnSet(Re(g, S), S) = c.re * a + (-c.im) * b
  BY <1>1, <1>5, <1>7, SumLinear
<1>11. SumFunctionOnSet(Im(g, S), S) = c.re * b + c.im * a
  BY <1>1, <1>6, <1>7, SumLinear
<1> HIDE DEF a, b
<1>12. c.re * a + (-c.im) * b = c.re * a - c.im * b
  BY <1>1, <1>9
<1>13. Times(c, Gauss(a, b)) = Gauss(c.re * a - c.im * b, c.re * b + c.im * a)
  BY DEF Times, Gauss
<1> QED
  BY <1>3, <1>7, <1>8, <1>10, <1>11, <1>12, <1>13 DEF a, b

\* A table of numbers can be totalled by rows or by columns.
Table2(row, col, S, T) == \A x \in S : \A y \in T : row[x][y] \in Complex /\ col[y][x] = row[x][y]
TotalsOf(r, row, S, T) == \A x \in S : r[x] = Total(T, row[x])

\* A double total can be taken in either order.
LEMMA ComplexSwap ==
  ASSUME NEW S, IsFiniteSet(S), NEW T, IsFiniteSet(T), NEW row, NEW col, Table2(row, col, S, T),
         NEW r, TotalsOf(r, row, S, T), NEW c, TotalsOf(c, col, T, S)
  PROVE  ComplexOn(r, S) /\ ComplexOn(c, T) /\ Total(S, r) = Total(T, c)
<1> DEFINE rowRe == [x \in S |-> Re(row[x], T)]
           colRe == [y \in T |-> Re(col[y], S)]
           rowIm == [x \in S |-> Im(row[x], T)]
           colIm == [y \in T |-> Im(col[y], S)]
<1>1. \A x \in S : \A y \in T : row[x][y].re \in Int /\ row[x][y].im \in Int /\ col[y][x] = row[x][y]
  BY DEF Table2, Complex
<1>2. Transposed(rowRe, colRe, S, T) /\ Transposed(rowIm, colIm, S, T)
  BY <1>1 DEF Transposed, Re, Im
<1>3. \A x \in S : ComplexOn(row[x], T)
  BY DEF ComplexOn, Table2
<1>4. \A y \in T : ComplexOn(col[y], S)
  BY DEF ComplexOn, Table2
<1>5. \A x \in S : r[x] \in Complex /\ r[x] = Gauss(SumFunctionOnSet(Re(row[x], T), T), SumFunctionOnSet(Im(row[x], T), T))
  BY <1>3, ComplexParts DEF TotalsOf
<1>6. \A y \in T : c[y] \in Complex /\ c[y] = Gauss(SumFunctionOnSet(Re(col[y], S), S), SumFunctionOnSet(Im(col[y], S), S))
  BY <1>4, ComplexParts DEF TotalsOf
<1>7. SumsOf(Re(r, S), rowRe, S, T) /\ SumsOf(Im(r, S), rowIm, S, T)
  <2>1. \A x \in S : /\ r[x].re = SumFunctionOnSet(Re(row[x], T), T)
                     /\ r[x].im = SumFunctionOnSet(Im(row[x], T), T)
    <3> SUFFICES ASSUME NEW x \in S PROVE /\ r[x].re = SumFunctionOnSet(Re(row[x], T), T)
                                          /\ r[x].im = SumFunctionOnSet(Im(row[x], T), T)
      OBVIOUS
    <3>1. r[x] = [re |-> SumFunctionOnSet(Re(row[x], T), T), im |-> SumFunctionOnSet(Im(row[x], T), T)]
      BY <1>5 DEF Gauss
    <3> QED
      BY <3>1
  <2>2. \A x \in S : Re(r, S)[x] = r[x].re /\ Im(r, S)[x] = r[x].im
                    /\ rowRe[x] = Re(row[x], T) /\ rowIm[x] = Im(row[x], T)
    BY DEF Re, Im
  <2> HIDE DEF rowRe, rowIm
  <2> QED
    BY <2>1, <2>2 DEF SumsOf
<1>8. SumsOf(Re(c, T), colRe, T, S) /\ SumsOf(Im(c, T), colIm, T, S)
  <2>1. \A y \in T : /\ c[y].re = SumFunctionOnSet(Re(col[y], S), S)
                     /\ c[y].im = SumFunctionOnSet(Im(col[y], S), S)
    <3> SUFFICES ASSUME NEW y \in T PROVE /\ c[y].re = SumFunctionOnSet(Re(col[y], S), S)
                                          /\ c[y].im = SumFunctionOnSet(Im(col[y], S), S)
      OBVIOUS
    <3>1. c[y] = [re |-> SumFunctionOnSet(Re(col[y], S), S), im |-> SumFunctionOnSet(Im(col[y], S), S)]
      BY <1>6 DEF Gauss
    <3> QED
      BY <3>1
  <2>2. \A y \in T : Re(c, T)[y] = c[y].re /\ Im(c, T)[y] = c[y].im
                    /\ colRe[y] = Re(col[y], S) /\ colIm[y] = Im(col[y], S)
    BY DEF Re, Im
  <2> HIDE DEF colRe, colIm
  <2> QED
    BY <2>1, <2>2 DEF SumsOf
<1> HIDE DEF rowRe, colRe, rowIm, colIm
<1>9. SumFunctionOnSet(Re(r, S), S) = SumFunctionOnSet(Re(c, T), T)
  BY <1>2, <1>7, <1>8, SumSwap
<1>10. SumFunctionOnSet(Im(r, S), S) = SumFunctionOnSet(Im(c, T), T)
  BY <1>2, <1>7, <1>8, SumSwap
<1>11. ComplexOn(r, S) /\ ComplexOn(c, T)
  BY <1>5, <1>6 DEF ComplexOn
<1> QED
  BY <1>9, <1>10, <1>11, ComplexParts

\* Where a mask takes a word, and which mask takes a word to another.
LEMMA XorWords ==
  ASSUME NEW s, IsSector(s), NEW w \in SectorWords(s), NEW x \in SUBSET Qubits(s.nqubits)
  PROVE  /\ Xor(w, x) \in SUBSET Qubits(s.nqubits)
         /\ Xor(w, x) \in SectorWords(s)
              <=> s.particle_number + Cardinality(x) - 2 * Cardinality(x \cap w) = s.particle_number
<1> DEFINE Q == Qubits(s.nqubits)
<1>1. IsFiniteSet(Q) /\ w \in SUBSET Q /\ Cardinality(w) = s.particle_number
  BY SectorFacts, QubitsCount DEF SectorWords, Chosen
<1>2. Xor(w, x) \in SUBSET Q /\ Sizes(w, x)
  <2> HIDE DEF Q
  <2>1. x \in SUBSET Q
    BY DEF Q
  <2> QED
    BY <1>1, <2>1, XorCount
<1>3. Cardinality(Xor(w, x)) = s.particle_number + Cardinality(x) - 2 * Cardinality(x \cap w)
  <2>1. w \cap x = x \cap w
    OBVIOUS
  <2> QED
    BY <1>1, <1>2, <2>1 DEF Sizes
<1> QED
  BY <1>2, <1>3 DEF SectorWords, Chosen

\* Flipping the same bits twice gives the word back.
LEMMA XorBack ==
  ASSUME NEW w, NEW x
  PROVE  Xor(w, Xor(w, x)) = x /\ Xor(Xor(w, x), x) = w
  BY DEF Xor

\* An operator as the public constructors make it.
ObservableOn(o, n) ==
  n \in Nat /\ o.nqubits = n /\ o.terms \in Seq([word : Words(n), coefficient : Complex])
TermOf(o, word) == [k \in DOMAIN o.terms |-> Times(o.terms[k].coefficient, ActionPhase(o.terms[k].word, word))]

\* The terms of a public operator are finite, typed, and grouped by the bits they flip.
LEMMA ObservableFacts ==
  ASSUME NEW n, NEW o, ObservableOn(o, n), NEW word
  PROVE  /\ IsFiniteSet(DOMAIN o.terms)
         /\ \A k \in DOMAIN o.terms :
              /\ o.terms[k].word.x \in SUBSET Qubits(n) /\ o.terms[k].coefficient \in Complex
              /\ ActionPhase(o.terms[k].word, word) \in Complex
              /\ TermOf(o, word)[k] \in Complex
         /\ \A x : TransitionValue(o, x, word) \in Complex
         /\ \A x : x \notin XGroups(o) => TransitionValue(o, x, word) = Zero
         /\ XGroups(o) \in SUBSET (SUBSET Qubits(n)) /\ IsFiniteSet(XGroups(o))
<1> DEFINE D == DOMAIN o.terms
           f == TermOf(o, word)
           S(x) == {k \in D : o.terms[k].word.x = x}
<1>1. D = 1 .. Len(o.terms) /\ Len(o.terms) \in Nat /\ n \in Nat
      /\ \A k \in D : o.terms[k] \in [word : Words(n), coefficient : Complex]
  <2>1. n \in Nat /\ o.terms \in Seq([word : Words(n), coefficient : Complex])
    BY DEF ObservableOn
  <2> DEFINE E == [word : Words(n), coefficient : Complex]
             ts == o.terms
  <2> HIDE DEF E, ts
  <2>2. ts \in Seq(E) /\ n \in Nat
    BY <2>1 DEF E, ts
  <2>3. DOMAIN ts = 1 .. Len(ts) /\ Len(ts) \in Nat /\ \A k \in DOMAIN ts : ts[k] \in E
    BY <2>2
  <2> QED
    BY <2>2, <2>3 DEF E, ts
<1>2. IsFiniteSet(D)
  BY <1>1, FS_Interval
<1>3. \A k \in D : o.terms[k].word.x \in SUBSET Qubits(n) /\ o.terms[k].coefficient \in Complex
  BY <1>1 DEF Words
<1>4. \A k \in D : ActionPhase(o.terms[k].word, word) \in Complex
  <2> SUFFICES ASSUME NEW k \in D PROVE ActionPhase(o.terms[k].word, word) \in Complex
    OBVIOUS
  <2>1. PICK w : w = o.terms[k].word
    OBVIOUS
  <2>2. w.x \in SUBSET Qubits(n) /\ n \in Nat
    BY <1>1, <1>3, <2>1
  <2> QED
    BY <2>1, <2>2, PhaseIs
<1>5. \A k \in D : f[k] \in Complex
  <2>1. \A k \in D : f[k] = Times(o.terms[k].coefficient, ActionPhase(o.terms[k].word, word))
    BY DEF TermOf
  <2> HIDE DEF f, D
  <2> QED
    BY <1>3, <1>4, <2>1, ComplexFacts
<1>6. \A x : TransitionValue(o, x, word) = Total(S(x), f)
  BY DEF TransitionValue, TermOf
<1>7. \A x : IsFiniteSet(S(x)) /\ ComplexOn(f, S(x))
  <2> SUFFICES ASSUME NEW x PROVE IsFiniteSet(S(x)) /\ ComplexOn(f, S(x))
    OBVIOUS
  <2>1. S(x) \subseteq D
    OBVIOUS
  <2> HIDE DEF f, D, S
  <2> QED
    BY <1>2, <1>5, <2>1, FS_Subset DEF ComplexOn
<1>8. \A x : x \notin XGroups(o) => S(x) = {}
  BY DEF XGroups
<1>9. XGroups(o) \in SUBSET (SUBSET Qubits(n))
  BY <1>3 DEF XGroups
<1>10. IsFiniteSet(XGroups(o))
  BY <1>1, <1>9, QubitsCount, FS_SUBSET, FS_Subset
<1> HIDE DEF f, S
<1>11. \A x : TransitionValue(o, x, word) \in Complex
  BY <1>6, <1>7, ComplexParts
<1>12. \A x : x \notin XGroups(o) => TransitionValue(o, x, word) = Zero
  BY <1>6, <1>8, ComplexNone
<1> QED
  BY <1>2, <1>3, <1>4, <1>5, <1>9, <1>10, <1>11, <1>12 DEF f

\* What one source adds to one destination: all the terms that lead there.
Arrives(p, o, v, source, i) ==
  Total(ObservableTransitions(p, o, source),
        [t \in ObservableTransitions(p, o, source) |->
            IF t.destination = i THEN Times(t.value, v[source]) ELSE Zero])

\* Of all transitions from a source at most one arrives at a destination, and it carries
\* the terms that flip exactly the bits between the two words.
LEMMA TransitionsTo ==
  ASSUME NEW program, NEW limit, NEW p, PlanOf(p, program, limit), NEW o, ObservableOn(o, p.sector.nqubits),
         NEW source \in 0 .. p.sector.dimension - 1, NEW i \in 0 .. p.sector.dimension - 1,
         NEW v \in [0 .. p.sector.dimension - 1 -> Complex]
  PROVE  Arrives(p, o, v, source, i)
           = Times(TransitionValue(o, Xor(p.basis[source], p.basis[i]), p.basis[source]), v[source])
<1> DEFINE s == p.sector
           Index == 0 .. s.dimension - 1
           w == p.basis[source]
           e == p.basis[i]
           y == Xor(w, e)
           TV(x) == TransitionValue(o, x, w)
           G == {g \in XGroups(o) :
                  /\ s.particle_number + Cardinality(g) - 2 * Cardinality(g \cap w) = s.particle_number
                  /\ TV(g) # Zero}
           tr(g) == [destination |-> RankWords(s, Xor(w, g)), value |-> TV(g)]
           M == ObservableTransitions(p, o, source)
           F == [t \in M |-> IF t.destination = i THEN Times(t.value, v[source]) ELSE Zero]
<1>1. IsSector(s) /\ w = SectorWord(s, source) /\ e = SectorWord(s, i)
  BY DEF PlanOf
<1>2. w \in SectorWords(s) /\ e \in SectorWords(s) /\ RankWords(s, e) = i
  BY <1>1, SectorNumbered
<1>3. M = {tr(g) : g \in G}
  BY DEF ObservableTransitions
<1>4. /\ \A x : TV(x) \in Complex
      /\ \A x : x \notin XGroups(o) => TV(x) = Zero
      /\ XGroups(o) \in SUBSET (SUBSET Qubits(s.nqubits)) /\ IsFiniteSet(XGroups(o))
  BY ObservableFacts
<1>5. v[source] \in Complex
  OBVIOUS
<1> HIDE DEF TV, w, e
<1>6. IsFiniteSet(G) /\ \A g \in G : g \in SUBSET Qubits(s.nqubits) /\ Xor(w, g) \in SectorWords(s)
  <2>1. G \subseteq XGroups(o)
    OBVIOUS
  <2>2. IsFiniteSet(G)
    BY <1>4, <2>1, FS_Subset
  <2>3. ASSUME NEW g \in G PROVE g \in SUBSET Qubits(s.nqubits) /\ Xor(w, g) \in SectorWords(s)
    <3>1. g \in SUBSET Qubits(s.nqubits)
      BY <1>4, <2>1
    <3> QED
      BY <1>1, <1>2, <3>1, XorWords
  <2> QED
    BY <2>2, <2>3
<1>7. \A g \in G : SectorWord(s, RankWords(s, Xor(w, g))) = Xor(w, g)
  BY <1>1, <1>6, SectorComplete
<1>8. y \in SUBSET Qubits(s.nqubits) /\ Xor(w, y) = e
  <2>1. e \in SUBSET Qubits(s.nqubits)
    BY <1>2 DEF SectorWords, Chosen
  <2>2. y \in SUBSET Qubits(s.nqubits)
    <3>1. w \in SUBSET Qubits(s.nqubits)
      BY <1>2 DEF SectorWords, Chosen
    <3> QED
      BY <2>1, <3>1 DEF Xor
  <2> QED
    BY <2>2, XorBack
<1>9. \A g \in G : RankWords(s, Xor(w, g)) = i => g = y
  <2> SUFFICES ASSUME NEW g \in G, RankWords(s, Xor(w, g)) = i PROVE g = y
    OBVIOUS
  <2>1. Xor(w, g) = Xor(w, y)
    BY <1>1, <1>7, <1>8
  <2> QED
    BY <2>1, XorOnce
<1>10. y \notin G => TV(y) = Zero
  <2>1. Xor(w, y) \in SectorWords(s)
    BY <1>2, <1>8
  <2>2. s.particle_number + Cardinality(y) - 2 * Cardinality(y \cap w) = s.particle_number
    <3> HIDE DEF y
    <3> QED
      BY <1>1, <1>2, <1>8, <2>1, XorWords
  <2> QED
    BY <1>4, <2>2
<1>11. IsFiniteSet(M)
  <2> DEFINE h == [g \in G |-> tr(g)]
  <2>1. \A g, k \in G : tr(g) = tr(k) => g = k
    <3> SUFFICES ASSUME NEW g \in G, NEW k \in G, tr(g) = tr(k) PROVE g = k
      OBVIOUS
    <3>1. RankWords(s, Xor(w, g)) = RankWords(s, Xor(w, k))
      OBVIOUS
    <3>2. Xor(w, g) = Xor(w, k)
      BY <1>7, <3>1
    <3> QED
      BY <3>2, XorOnce
  <2> HIDE DEF tr, G, M
  <2>2. OneToOne(h, G, M) /\ Onto(h, G, M)
    BY <1>3, <2>1 DEF OneToOne, Onto
  <2> QED
    BY <1>6, <2>2, SameCount
<1>12. \A t \in M : F[t] \in Complex
  <2> SUFFICES ASSUME NEW t \in M PROVE F[t] \in Complex
    OBVIOUS
  <2>1. PICK g \in G : t = tr(g)
    BY <1>3
  <2>2. t.value \in Complex
    BY <1>4, <2>1
  <2>3. Times(t.value, v[source]) \in Complex /\ Zero \in Complex
    BY <1>5, <2>2, ComplexFacts
  <2> QED
    BY <2>3
<1>13. CASE y \in G
  <2>1. tr(y) \in M /\ tr(y).destination = i /\ tr(y).value = TV(y)
    BY <1>2, <1>3, <1>8, <1>13
  <2>2. F[tr(y)] = Times(TV(y), v[source])
    BY <2>1
  <2>3. \A t \in M \ {tr(y)} : F[t] = Zero
    <3> SUFFICES ASSUME NEW t \in M, t # tr(y) PROVE F[t] = Zero
      OBVIOUS
    <3>1. PICK g \in G : t = tr(g)
      BY <1>3
    <3>2. g # y
      BY <3>1
    <3>3. t.destination # i
      BY <1>9, <3>1, <3>2
    <3> QED
      BY <3>3
  <2> DEFINE one == tr(y)
  <2> HIDE DEF tr, F, M
  <2>4. Total(M, F) = Total({one}, F)
    BY <1>11, <1>12, <2>1, <2>3, ComplexRestrict DEF ComplexOn
  <2>5. Total({one}, F) = F[one]
    BY <1>12, <2>1, ComplexOne
  <2> QED
    BY <2>2, <2>4, <2>5 DEF Arrives, F, M, TV, w, e
<1>14. CASE y \notin G
  <2>1. \A t \in M : F[t] = Zero
    <3> SUFFICES ASSUME NEW t \in M PROVE F[t] = Zero
      OBVIOUS
    <3>1. PICK g \in G : t = tr(g)
      BY <1>3
    <3>2. g # y
      BY <1>14
    <3>3. t.destination # i
      BY <1>9, <3>1, <3>2
    <3> QED
      BY <3>3
  <2> HIDE DEF F, M
  <2>2. Total(M, F) = Total({}, F)
    BY <1>11, <1>12, <2>1, ComplexRestrict DEF ComplexOn
  <2>3. Total({}, F) = Zero
    BY ComplexNone
  <2>4. Times(TV(y), v[source]) = Zero
    BY <1>5, <1>10, <1>14, ComplexFacts
  <2> QED
    BY <2>2, <2>3, <2>4 DEF Arrives, F, M, TV, w, e
<1> QED
  BY <1>13, <1>14


-----------------------------------------------------------------------------
(* What an observable makes of a vector of the sector                      *)

Image(o, F, w, k) == Times(o.terms[k].coefficient, ValueAt(o.terms[k].word, F, w))

\* The full operator, amplitude by amplitude.
FullOperator(o, F, n) ==
  /\ \A w \in SUBSET Qubits(n) : \A k \in DOMAIN o.terms :
       /\ Xor(w, o.terms[k].word.x) \in SUBSET Qubits(n)
       /\ Image(o, F, w, k) \in Complex
       /\ Image(o, F, w, k) = Times(TermOf(o, Xor(w, o.terms[k].word.x))[k], F[Xor(w, o.terms[k].word.x)])
  /\ \A w \in SUBSET Qubits(n) :
       ApplyOperator(o, F)[w] = Total(DOMAIN o.terms, [k \in DOMAIN o.terms |-> Image(o, F, w, k)])
  /\ ApplyOperator(o, F) \in Space(n)

\* The operator on the full space, word by word and term by term.
LEMMA OperatorIs ==
  ASSUME NEW n, NEW o, ObservableOn(o, n), NEW F \in Space(n)
  PROVE  FullOperator(o, F, n)
<1> DEFINE D == DOMAIN o.terms
           f(w) == [k \in D |-> Image(o, F, w, k)]
<1>1. ASSUME NEW w \in SUBSET Qubits(n), NEW k \in D
      PROVE  /\ Xor(w, o.terms[k].word.x) \in SUBSET Qubits(n)
             /\ Image(o, F, w, k) \in Complex
             /\ Image(o, F, w, k) = Times(TermOf(o, Xor(w, o.terms[k].word.x))[k], F[Xor(w, o.terms[k].word.x)])
  <2> DEFINE x == o.terms[k].word.x
             c == o.terms[k].coefficient
             u == Xor(w, x)
             a == ActionPhase(o.terms[k].word, u)
  <2>1. x \in SUBSET Qubits(n) /\ c \in Complex /\ a \in Complex
    BY ObservableFacts
  <2>2. u \in SUBSET Qubits(n)
    BY <2>1 DEF Xor
  <2>3. F[u] \in Complex
    BY <2>2 DEF Space
  <2>4. Image(o, F, w, k) = Times(c, Times(a, F[u]))
    BY DEF Image, ValueAt
  <2>5. TermOf(o, u)[k] = Times(c, a)
    BY DEF TermOf
  <2> HIDE DEF c, a, u
  <2>6. Times(c, Times(a, F[u])) = Times(Times(c, a), F[u])
    BY <2>1, <2>3, ComplexRing
  <2>7. Times(a, F[u]) \in Complex /\ Times(c, Times(a, F[u])) \in Complex
    BY <2>1, <2>3, ComplexClosed
  <2> QED
    BY <2>2, <2>4, <2>5, <2>6, <2>7 DEF u
<1>2. ApplyOperator(o, F) = [w \in SUBSET Qubits(n) |-> Total(D, f(w))]
  BY DEF ApplyOperator, Image, ObservableOn
<1>3. IsFiniteSet(D)
  BY ObservableFacts
<1>4. \A w \in SUBSET Qubits(n) : Total(D, f(w)) \in Complex
  <2> SUFFICES ASSUME NEW w \in SUBSET Qubits(n) PROVE Total(D, f(w)) \in Complex
    OBVIOUS
  <2>1. ComplexOn(f(w), D)
    BY <1>1 DEF ComplexOn
  <2> HIDE DEF f, D
  <2> QED
    BY <1>3, <2>1, ComplexParts
<1>5. ApplyOperator(o, F) \in Space(n)
  <2> HIDE DEF f, D
  <2> QED
    BY <1>2, <1>4 DEF Space
<1>6. \A w \in SUBSET Qubits(n) : ApplyOperator(o, F)[w] = Total(D, f(w))
  <2> HIDE DEF f, D
  <2> QED
    BY <1>2
<1> QED
  BY <1>1, <1>5, <1>6 DEF FullOperator

\* What a source adds is one term of the projected operator.
Arrivals(p, o, v) ==
  \A source, i \in 0 .. p.sector.dimension - 1 :
    Arrives(p, o, v, source, i)
      = Times(TransitionValue(o, Xor(p.basis[source], p.basis[i]), p.basis[source]), v[source])

\* TransitionsTo for all sources and destinations at once.
LEMMA ArrivalsAre ==
  ASSUME NEW program, NEW limit, NEW p, PlanOf(p, program, limit), NEW o, ObservableOn(o, p.sector.nqubits),
         NEW v \in [0 .. p.sector.dimension - 1 -> Complex]
  PROVE  Arrivals(p, o, v)
<1> SUFFICES ASSUME NEW source \in 0 .. p.sector.dimension - 1, NEW i \in 0 .. p.sector.dimension - 1
             PROVE  Arrives(p, o, v, source, i)
                      = Times(TransitionValue(o, Xor(p.basis[source], p.basis[i]), p.basis[source]), v[source])
  BY DEF Arrivals
<1> QED
  BY TransitionsTo

\* One amplitude: the terms that arrive from every source of the sector are
\* the terms of the operator.
LEMMA AppliedAt ==
  ASSUME NEW program, NEW limit, NEW p, PlanOf(p, program, limit), NEW o, ObservableOn(o, p.sector.nqubits),
         NEW F \in Space(p.sector.nqubits), InSector(p.sector, F), NEW i \in 0 .. p.sector.dimension - 1,
         NEW r, \A source \in 0 .. p.sector.dimension - 1 :
                  r[source] = Arrives(p, o, OnSector(p.sector, F), source, i)
  PROVE  Total(0 .. p.sector.dimension - 1, r) = ApplyOperator(o, F)[SectorWord(p.sector, i)]
         /\ ComplexOn(r, 0 .. p.sector.dimension - 1)
<1> DEFINE s == p.sector
           n == s.nqubits
           Index == 0 .. s.dimension - 1
           D == DOMAIN o.terms
           v == OnSector(s, F)
           spot(j) == SectorWord(s, j)
           w == spot(i)
           x(k) == o.terms[k].word.x
           cell(j, k) == IF Xor(spot(j), x(k)) = w THEN Times(TermOf(o, spot(j))[k], v[j]) ELSE Zero
           row == [j \in Index |-> [k \in D |-> cell(j, k)]]
           col == [k \in D |-> [j \in Index |-> cell(j, k)]]
           c == [k \in D |-> Image(o, F, w, k)]
<1>1. IsSector(s) /\ s.dimension \in Nat /\ n \in Nat /\ \A j \in Index : p.basis[j] = spot(j)
  BY SectorFacts DEF PlanOf
<1>2. \A j \in Index : spot(j) \in SectorWords(s) /\ spot(j) \in SUBSET Qubits(n) /\ RankWords(s, spot(j)) = j
  BY <1>1, SectorNumbered DEF SectorWords, Chosen
<1>3. v \in [Index -> Complex] /\ \A j \in Index : v[j] = F[spot(j)]
  BY <1>1, RestrictedType DEF OnSector
<1>4. IsFiniteSet(Index) /\ IsFiniteSet(D)
  <2>1. IsFiniteSet(D)
    <3>1. \A word : IsFiniteSet(DOMAIN o.terms)
      BY ObservableFacts
    <3> QED
      BY <3>1
  <2>2. PICK d : d = s.dimension
    OBVIOUS
  <2>3. d \in Nat /\ d - 1 \in Int
    BY <1>1, <2>2
  <2>4. IsFiniteSet(0 .. d - 1)
    BY <2>3, FS_Interval
  <2> QED
    BY <2>1, <2>2, <2>4
<1>15. FullOperator(o, F, p.sector.nqubits)
  BY OperatorIs
<1>5. \A j \in Index : \A k \in D : TermOf(o, spot(j))[k] \in Complex /\ x(k) \in SUBSET Qubits(n)
  BY ObservableFacts
<1> HIDE DEF v, spot
<1>6. \A j \in Index : \A k \in D : cell(j, k) \in Complex
  <2> SUFFICES ASSUME NEW j \in Index, NEW k \in D PROVE cell(j, k) \in Complex
    OBVIOUS
  <2>1. TermOf(o, spot(j))[k] \in Complex /\ v[j] \in Complex
    BY <1>3, <1>5
  <2>2. Times(TermOf(o, spot(j))[k], v[j]) \in Complex /\ Zero \in Complex
    BY <2>1, ComplexFacts
  <2> QED
    BY <2>2
<1>7. Table2(row, col, Index, D)
  <2>1. \A j \in Index : \A k \in D : row[j][k] = cell(j, k) /\ col[k][j] = cell(j, k)
    OBVIOUS
  <2> HIDE DEF cell, row, col
  <2> QED
    BY <1>6, <2>1 DEF Table2
<1>8. TotalsOf(r, row, Index, D)
  <2> SUFFICES ASSUME NEW j \in Index PROVE r[j] = Total(D, row[j])
    BY DEF TotalsOf
  <2> DEFINE y == Xor(spot(j), w)
             S == {k \in D : x(k) = y}
             f == TermOf(o, spot(j))
             g == row[j]
  <2>1. r[j] = Times(TransitionValue(o, y, spot(j)), v[j])
    <3>1. r[j] = Arrives(p, o, v, j, i)
      BY DEF v
    <3>2. Arrives(p, o, v, j, i) = Times(TransitionValue(o, Xor(p.basis[j], p.basis[i]), p.basis[j]), v[j])
      <4>1. PICK a : a = v
        OBVIOUS
      <4>2. a \in [0 .. p.sector.dimension - 1 -> Complex]
        BY <1>3, <4>1
      <4>3. Arrivals(p, o, a)
        BY <4>2, ArrivalsAre
      <4>4. Arrives(p, o, a, j, i) = Times(TransitionValue(o, Xor(p.basis[j], p.basis[i]), p.basis[j]), a[j])
        BY <4>3 DEF Arrivals
      <4> QED
        BY <4>1, <4>4
    <3> QED
      BY <1>1, <3>1, <3>2
  <2>2. \A k \in D : (Xor(spot(j), x(k)) = w <=> x(k) = y)
    BY DEF Xor
  <2>3. \A k \in D \ S : g[k] = Zero
    BY <2>2
  <2>4. \A k \in S : g[k] = Times(f[k], v[j])
    BY <2>2
  <2>5. ComplexOn(g, D) /\ ComplexOn(f, S)
    BY <1>5, <1>6 DEF ComplexOn
  <2>6. TransitionValue(o, y, spot(j)) = Total(S, f)
    BY DEF TransitionValue, TermOf
  <2>7. S \in SUBSET D /\ v[j] \in Complex
    BY <1>3
  <2> HIDE DEF f, g, S, D, y
  <2>8. IsFiniteSet(S)
    BY <1>4, <2>7, FS_Subset
  <2>9. ScaledBy(g, v[j], f, S)
    <3> SUFFICES ASSUME NEW k \in S PROVE g[k] = Times(v[j], f[k])
      BY DEF ScaledBy
    <3>1. f[k] \in Complex
      BY <2>5 DEF ComplexOn
    <3> QED
      BY <2>4, <2>7, <3>1, ComplexFacts
  <2>10. Total(S, g) = Times(v[j], Total(S, f)) /\ Total(S, f) \in Complex
    BY <2>5, <2>7, <2>8, <2>9, ComplexScale, ComplexParts
  <2>11. Total(D, g) = Total(S, g)
    BY <1>4, <2>3, <2>5, <2>7, ComplexRestrict
  <2>12. Times(v[j], Total(S, f)) = Times(Total(S, f), v[j])
    BY <2>7, <2>10, ComplexFacts
  <2> QED
    BY <2>1, <2>6, <2>10, <2>11, <2>12 DEF g
<1>9. TotalsOf(c, col, D, Index)
  <2> SUFFICES ASSUME NEW k \in D PROVE c[k] = Total(Index, col[k])
    BY DEF TotalsOf
  <2> DEFINE u == Xor(w, x(k))
             f == col[k]
  <2>1. w \in SUBSET Qubits(n)
    BY <1>2
  <2>2. c[k] = Times(TermOf(o, u)[k], F[u]) /\ u \in SUBSET Qubits(n)
    <3>1. \A a \in SUBSET Qubits(p.sector.nqubits) : \A l \in DOMAIN o.terms :
             /\ Xor(a, o.terms[l].word.x) \in SUBSET Qubits(p.sector.nqubits)
             /\ Image(o, F, a, l) = Times(TermOf(o, Xor(a, o.terms[l].word.x))[l], F[Xor(a, o.terms[l].word.x)])
      BY <1>15 DEF FullOperator
    <3>2. Image(o, F, w, k) = Times(TermOf(o, u)[k], F[u]) /\ u \in SUBSET Qubits(n)
      BY <2>1, <3>1
    <3> QED
      BY <3>2
  <2>3. \A j \in Index : Xor(spot(j), x(k)) = w <=> spot(j) = u
    BY DEF Xor
  <2>4. ComplexOn(f, Index)
    BY <1>6 DEF ComplexOn
  <2>5. CASE u \in SectorWords(s)
    <3> DEFINE j == RankWords(s, u)
    <3>1. j \in Index /\ spot(j) = u
      BY <1>1, <2>5, SectorComplete DEF spot
    <3>2. f[j] = Times(TermOf(o, spot(j))[k], v[j])
      BY <2>3, <3>1
    <3>3. f[j] = c[k]
      BY <1>3, <2>2, <3>1, <3>2
    <3>4. \A l \in Index \ {j} : f[l] = Zero
      <4> SUFFICES ASSUME NEW l \in Index, l # j PROVE f[l] = Zero
        OBVIOUS
      <4>1. spot(l) # u
        BY <1>2
      <4> QED
        BY <2>3, <4>1
    <3> HIDE DEF f, j, Index, c
    <3>5. Total(Index, f) = Total({j}, f)
      BY <1>4, <2>4, <3>1, <3>4, ComplexRestrict
    <3>6. f[j] \in Complex
      BY <2>4, <3>1 DEF ComplexOn
    <3> QED
      BY <3>3, <3>5, <3>6, ComplexOne DEF f
  <2>6. CASE u \notin SectorWords(s)
    <3>1. \A l \in Index : f[l] = Zero
      <4> SUFFICES ASSUME NEW l \in Index PROVE f[l] = Zero
        OBVIOUS
      <4>1. spot(l) # u
        BY <1>2, <2>6
      <4> QED
        BY <2>3, <4>1
    <3>2. F[u] = Zero
      BY <2>2, <2>6 DEF InSector
    <3>3. TermOf(o, u)[k] \in Complex
      BY ObservableFacts
    <3>4. c[k] = Zero
      BY <2>2, <3>2, <3>3, ComplexFacts
    <3> HIDE DEF f, Index, c
    <3>5. Total(Index, f) = Total({}, f)
      BY <1>4, <2>4, <3>1, ComplexRestrict
    <3> QED
      BY <3>4, <3>5, ComplexNone DEF f
  <2> QED
    BY <2>5, <2>6
<1>10. ApplyOperator(o, F)[w] = Total(D, c)
  <2>1. w \in SUBSET Qubits(n)
    BY <1>2
  <2>2. \A a \in SUBSET Qubits(p.sector.nqubits) :
          ApplyOperator(o, F)[a] = Total(DOMAIN o.terms, [l \in DOMAIN o.terms |-> Image(o, F, a, l)])
    BY <1>15 DEF FullOperator
  <2> QED
    BY <2>1, <2>2
<1> HIDE DEF row, col, c, Index, D
<1>11. ComplexOn(r, Index) /\ Total(Index, r) = Total(D, c)
  BY <1>4, <1>7, <1>8, <1>9, ComplexSwap
<1> QED
  BY <1>10, <1>11 DEF Index, spot

\* The projected observable is the operator, restricted to the sector.
LEMMA AppliedIs ==
  ASSUME NEW program, NEW limit, NEW p, PlanOf(p, program, limit), NEW o, ObservableOn(o, p.sector.nqubits),
         NEW F \in Space(p.sector.nqubits), InSector(p.sector, F)
  PROVE  ApplyObservable(p, o, OnSector(p.sector, F)) = OnSector(p.sector, ApplyOperator(o, F))
<1> DEFINE s == p.sector
           Index == 0 .. s.dimension - 1
           v == OnSector(s, F)
           r(i) == [source \in Index |-> Arrives(p, o, v, source, i)]
<1>1. DOMAIN v = Index
  BY DEF OnSector
<1>2. ApplyObservable(p, o, v) = [i \in Index |-> Total(Index, r(i))]
  <2> DEFINE moved == [source \in Index |-> ObservableTransitions(p, o, source)]
             q(i) == [source \in Index |->
                        Total(moved[source], [t \in moved[source] |->
                           IF t.destination = i THEN Times(t.value, v[source]) ELSE Zero])]
  <2>1. ApplyObservable(p, o, v) = [i \in Index |-> Total(Index, q(i))]
    BY <1>1 DEF ApplyObservable
  <2>2. \A i : q(i) = r(i)
    BY DEF Arrives
  <2> HIDE DEF q, r, v
  <2> QED
    BY <2>1, <2>2
<1>3. \A i \in Index : Total(Index, r(i)) = ApplyOperator(o, F)[SectorWord(s, i)]
  <2> SUFFICES ASSUME NEW i \in Index PROVE Total(Index, r(i)) = ApplyOperator(o, F)[SectorWord(s, i)]
    OBVIOUS
  <2>1. \A source \in Index : r(i)[source] = Arrives(p, o, OnSector(p.sector, F), source, i)
    OBVIOUS
  <2> HIDE DEF r
  <2> QED
    BY <2>1, AppliedAt
<1> HIDE DEF v, r
<1> QED
  BY <1>2, <1>3 DEF OnSector, v

\* An inner product with a vector of the sector only sees the sector.
LEMMA InnerIs ==
  ASSUME NEW s, IsSector(s), NEW F \in Space(s.nqubits), InSector(s, F), NEW G \in Space(s.nqubits)
  PROVE  InnerProduct(OnSector(s, F), OnSector(s, G)) = InnerProduct(F, G)
<1> DEFINE All == SUBSET Qubits(s.nqubits)
           Index == 0 .. s.dimension - 1
           v == OnSector(s, F)
           u == OnSector(s, G)
           f == [w \in All |-> Times(Conj(F[w]), G[w])]
           g == [i \in Index |-> Times(Conj(v[i]), u[i])]
           h == [i \in Index |-> SectorWord(s, i)]
           W == SectorWords(s)
<1>1. IsFiniteSet(All) /\ s.dimension \in Nat /\ IsFiniteSet(Index)
  <2>1. s.nqubits \in Nat /\ s.dimension \in Nat
    BY SectorFacts
  <2>2. PICK n, d : n = s.nqubits /\ d = s.dimension
    OBVIOUS
  <2>3. IsFiniteSet(Qubits(n))
    BY <2>1, <2>2, QubitsCount
  <2>4. IsFiniteSet(SUBSET Qubits(n))
    BY <2>3, FS_SUBSET
  <2>5. d - 1 \in Int
    BY <2>1, <2>2
  <2>6. IsFiniteSet(0 .. d - 1)
    BY <2>5, FS_Interval
  <2> QED
    BY <2>1, <2>2, <2>4, <2>6
<1>2. \A w \in All : F[w] \in Complex /\ G[w] \in Complex
  BY DEF Space
<1>3. ComplexOn(f, All)
  <2> SUFFICES ASSUME NEW w \in All PROVE f[w] \in Complex
    BY DEF ComplexOn
  <2>1. F[w] \in Complex /\ G[w] \in Complex
    BY <1>2
  <2>2. Conj(F[w]) \in Complex
    BY <2>1, ConjFacts
  <2>3. Times(Conj(F[w]), G[w]) \in Complex
    BY <2>1, <2>2, ComplexClosed
  <2> QED
    BY <2>3
<1>4. W \in SUBSET All /\ \A w \in All \ W : f[w] = Zero
  <2>1. W \in SUBSET All
    BY DEF SectorWords, Chosen
  <2>2. ASSUME NEW w \in All, w \notin W PROVE f[w] = Zero
    <3>1. F[w] = Zero /\ Conj(Zero) = Zero
      BY <2>2 DEF InSector, Conj, Zero, Gauss
    <3>2. G[w] \in Complex
      BY <1>2
    <3>3. Times(Zero, G[w]) = Zero
      BY <3>2, ComplexFacts
    <3> QED
      BY <3>1, <3>3
  <2> QED
    BY <2>1, <2>2
<1>5. Numbers(h, Index, W)
  <2>1. \A i \in Index : SectorWord(s, i) \in W /\ RankWords(s, SectorWord(s, i)) = i
    BY SectorNumbered
  <2>2. \A w \in W : RankWords(s, w) \in Index /\ SectorWord(s, RankWords(s, w)) = w
    BY SectorComplete
  <2> QED
    BY <2>1, <2>2 DEF Numbers
<1>6. Along(g, f, h, Index)
  <2>1. \A i \in Index : h[i] \in All
    BY <1>4, <1>5 DEF Numbers
  <2>2. \A i \in Index : v[i] = F[h[i]] /\ u[i] = G[h[i]]
    BY DEF OnSector
  <2> HIDE DEF h, v, u
  <2> QED
    BY <2>1, <2>2 DEF Along
<1>7. InnerProduct(v, u) = Total(Index, g)
  BY DEF InnerProduct, OnSector
<1>8. DOMAIN F = All
  BY DEF Space
<1>9. InnerProduct(F, G) = Total(All, f)
  BY <1>8 DEF InnerProduct
<1> HIDE DEF f, g, h, All, Index, v, u, W
<1>10. Total(All, f) = Total(W, f)
  BY <1>1, <1>3, <1>4, ComplexRestrict
<1>11. IsFiniteSet(W) /\ ComplexOn(f, W)
  BY <1>1, <1>3, <1>4, FS_Subset DEF ComplexOn
<1>12. Total(Index, g) = Total(W, f)
  BY <1>1, <1>5, <1>6, <1>11, ComplexReindex
<1> QED
  BY <1>7, <1>9, <1>10, <1>12 DEF v, u

\* The expectation of a plan is that of the full vector.
LEMMA ExpectationIs ==
  ASSUME NEW program, NEW limit, NEW p, PlanOf(p, program, limit), NEW o, ObservableOn(o, p.sector.nqubits),
         NEW F \in Space(p.sector.nqubits), InSector(p.sector, F)
  PROVE  Expectation(p, OnSector(p.sector, F), o) = InnerProduct(F, ApplyOperator(o, F))
<1>1. IsSector(p.sector)
  BY DEF PlanOf
<1>2. ApplyOperator(o, F) \in Space(p.sector.nqubits)
  BY OperatorIs DEF FullOperator
<1>3. InnerProduct(OnSector(p.sector, F), OnSector(p.sector, ApplyOperator(o, F)))
        = InnerProduct(F, ApplyOperator(o, F))
  BY <1>1, <1>2, InnerIs
<1>4. ApplyObservable(p, o, OnSector(p.sector, F)) = OnSector(p.sector, ApplyOperator(o, F))
  BY AppliedIs
<1> QED
  BY <1>3, <1>4 DEF Expectation


-----------------------------------------------------------------------------
(* The states of a run on the sector                                       *)

Amplitudes(p) == [0 .. p.sector.dimension - 1 -> Complex]

\* The full vector a run starts from, and what the sector holds of it after
\* the first k blocks.
Begin(p) == Embedded(p, InitialState(p.sector.dimension))
StateAt(p, angle_values, k) == OnSector(p.sector, FullAfter(p, angle_values, Begin(p), k))

StatesFollow(p, program, angle_values) ==
  /\ Len(p.gates) \in Nat /\ DOMAIN p.gates = 1 .. Len(p.gates)
  /\ StateAt(p, angle_values, 0) = InitialState(p.sector.dimension)
  /\ \A k \in 0 .. Len(p.gates) :
       /\ StateAt(p, angle_values, k) \in Amplitudes(p)
       /\ ReachedIs(p, angle_values, Begin(p), k)
       /\ Embedded(p, StateAt(p, angle_values, k)) = FullAfter(p, angle_values, Begin(p), k)
  /\ \A k \in 1 .. Len(p.gates) :
       /\ BlockMaps(p, k, angle_values, FALSE, StateAt(p, angle_values, k - 1), StateAt(p, angle_values, k))
       /\ BlockMaps(p, k, angle_values, TRUE, StateAt(p, angle_values, k), StateAt(p, angle_values, k - 1))

\* By induction over the blocks: after each block the full vector lies in the sector and
\* its restriction is what the compiled block makes of the one before, and back.
LEMMA StatesAre ==
  ASSUME NEW program, NEW limit, NEW p, PlanOf(p, program, limit),
         InitialState(p.sector.dimension) \in Amplitudes(p),
         NEW angle_values, LegalAngles(angle_values, program)
  PROVE  StatesFollow(p, program, angle_values) /\ Consumed(p, Len(p.gates)) = Len(program.operations)
<1>1. PICK F : F = Begin(p)
  OBVIOUS
<1>2. F \in Space(program.nqubits) /\ InSector(p.sector, F) /\ OnSector(p.sector, F) = InitialState(p.sector.dimension)
  <2>1. PICK v : v = InitialState(p.sector.dimension)
    OBVIOUS
  <2>2. v \in [0 .. p.sector.dimension - 1 -> Complex]
    BY <2>1 DEF Amplitudes
  <2>3. /\ Embedded(p, v) \in Space(program.nqubits) /\ InSector(p.sector, Embedded(p, v))
        /\ OnSector(p.sector, Embedded(p, v)) = v
    BY <2>2, EmbeddedIs
  <2> QED
    BY <1>1, <2>1, <2>3 DEF Begin
<1>3. /\ FullAfter(p, angle_values, F, 0) = F
      /\ Consumed(p, Len(p.gates)) = Len(program.operations)
      /\ \A k \in 0 .. Len(p.gates) : ReachedIs(p, angle_values, F, k)
      /\ \A k \in 1 .. Len(p.gates) :
           BlockBetween(p, k, angle_values, FullAfter(p, angle_values, F, k - 1), FullAfter(p, angle_values, F, k))
  BY <1>2, BlocksFollow
<1>4. Len(p.gates) \in Nat /\ DOMAIN p.gates = 1 .. Len(p.gates)
  <2>1. PICK runs : runs = Runs(program.operations)
    OBVIOUS
  <2> QED
    BY <2>1, GateIs
<1>5. IsSector(p.sector) /\ p.sector.nqubits = program.nqubits /\ p.program = program
  BY DEF PlanOf
<1>6. \A k : StateAt(p, angle_values, k) = OnSector(p.sector, FullAfter(p, angle_values, F, k))
  BY <1>1 DEF StateAt
<1>7. ASSUME NEW k \in 0 .. Len(p.gates)
      PROVE  /\ StateAt(p, angle_values, k) \in Amplitudes(p)
             /\ ReachedIs(p, angle_values, Begin(p), k)
             /\ Embedded(p, StateAt(p, angle_values, k)) = FullAfter(p, angle_values, Begin(p), k)
  <2>1. ReachedIs(p, angle_values, F, k)
    BY <1>3
  <2>2. PICK G : G = FullAfter(p, angle_values, F, k)
    OBVIOUS
  <2>3. G \in Space(program.nqubits) /\ InSector(p.sector, G)
    BY <1>5, <2>1, <2>2 DEF ReachedIs
  <2>4. OnSector(p.sector, G) \in [0 .. p.sector.dimension - 1 -> Complex]
    BY <1>5, <2>3, RestrictedType
  <2>5. Embedded(p, OnSector(p.sector, G)) = G
    BY <2>3, EmbeddedBack
  <2> QED
    BY <1>1, <1>6, <2>1, <2>2, <2>4, <2>5 DEF Amplitudes
<1>8. ASSUME NEW k \in 1 .. Len(p.gates)
      PROVE  /\ BlockMaps(p, k, angle_values, FALSE, StateAt(p, angle_values, k - 1), StateAt(p, angle_values, k))
             /\ BlockMaps(p, k, angle_values, TRUE, StateAt(p, angle_values, k), StateAt(p, angle_values, k - 1))
  <2>1. BlockBetween(p, k, angle_values, FullAfter(p, angle_values, F, k - 1), FullAfter(p, angle_values, F, k))
    BY <1>3
  <2> QED
    BY <1>6, <2>1 DEF BlockBetween
<1>9. StateAt(p, angle_values, 0) = InitialState(p.sector.dimension)
  BY <1>2, <1>3, <1>6
<1> QED
  BY <1>3, <1>4, <1>7, <1>8, <1>9 DEF StatesFollow

\* A diagonal block keeps a vector of the sector one.
LEMMA DiagonalTyped ==
  ASSUME NEW program, NEW limit, NEW p, PlanOf(p, program, limit),
         NEW angle_values, LegalAngles(angle_values, program), NEW inverse \in BOOLEAN,
         NEW k \in DOMAIN p.gates, p.gates[k].kind = "diagonal", NEW v \in Amplitudes(p)
  PROVE  ApplyDiagonal(p, p.gates[k], v, angle_values, inverse) \in Amplitudes(p)
<1>1. PICK runs : runs = Runs(program.operations)
  OBVIOUS
<1>2. /\ k \in 1 .. Len(runs)
      /\ IsDiagonal(runs[k][1]) => IsDiagonalBlock(p, k, runs[k], program)
      /\ ~IsDiagonal(runs[k][1]) => IsPairBlock(p, k, runs[k])
  BY <1>1, GateIs
<1>3. PICK run : run = runs[k]
  OBVIOUS
<1>4. IsDiagonalBlock(p, k, run, program)
  BY <1>2, <1>3 DEF IsPairBlock
<1>5. PICK D : D = p.sector.dimension
  OBVIOUS
<1>6. DOMAIN p.basis = 0 .. D - 1 /\ v \in [0 .. D - 1 -> Complex]
  BY <1>5 DEF PlanOf, Amplitudes
<1>7. DiagonalMaps(p, k, run, angle_values, inverse, v, D)
  BY <1>4, <1>6, ApplyDiagonalIs
<1> DEFINE f(i) == Times(v[i], TurnedBack(Effect(run, angle_values, p.basis[i], Len(run)), inverse))
<1>8. \A i \in 0 .. D - 1 : f(i) \in Complex
  <2> SUFFICES ASSUME NEW i \in 0 .. D - 1 PROVE f(i) \in Complex
    OBVIOUS
  <2>1. PICK w, e : w = p.basis[i] /\ e = Effect(run, angle_values, w, Len(run))
    OBVIOUS
  <2>2. Len(run) \in Nat /\ \A j \in 1 .. Len(run) : DiagonalPhase(run[j], angle_values, w) \in Units
    BY <1>4, PhaseIsUnit DEF IsDiagonalBlock, DiagonalRun
  <2>3. e \in Units
    BY <2>1, <2>2, EffectSteps
  <2>4. TurnedBack(e, inverse) \in Complex
    BY <2>3, UnitFacts DEF TurnedBack
  <2>5. v[i] \in Complex
    BY <1>6
  <2>6. Times(v[i], TurnedBack(e, inverse)) \in Complex
    BY <2>4, <2>5, ComplexClosed
  <2> QED
    BY <2>1, <2>6
<1>9. ApplyDiagonal(p, p.gates[k], v, angle_values, inverse) = [i \in 0 .. D - 1 |-> f(i)]
  BY <1>7 DEF DiagonalMaps
<1> HIDE DEF f
<1> QED
  BY <1>5, <1>8, <1>9 DEF Amplitudes

\* What an observable of the right size makes of a state of the run.
LEMMA ObservedIs ==
  ASSUME NEW program, NEW limit, NEW p, PlanOf(p, program, limit),
         NEW angle_values, StatesFollow(p, program, angle_values),
         NEW o \in Observables, o.nqubits = p.sector.nqubits, NEW k \in 0 .. Len(p.gates),
         NEW v, v = StateAt(p, angle_values, k)
  PROVE  /\ ApplyObservable(p, o, v) \in Amplitudes(p)
         /\ Expectation(p, v, o) = InnerProduct(Embedded(p, v), ApplyOperator(o, Embedded(p, v)))
<1>1. IsSector(p.sector) /\ p.sector.nqubits = program.nqubits /\ p.program = program /\ p.sector.nqubits \in Nat
  BY SectorFacts DEF PlanOf
<1>2. ObservableOn(o, p.sector.nqubits)
  BY ObservablesAssumption DEF ObservableOn
<1>3. PICK F : F = FullAfter(p, angle_values, Begin(p), k)
  OBVIOUS
<1>4. F \in Space(p.sector.nqubits) /\ InSector(p.sector, F)
  BY <1>1, <1>3 DEF StatesFollow, ReachedIs
<1>5. v = OnSector(p.sector, F) /\ Embedded(p, v) = F
  BY <1>3 DEF StatesFollow, StateAt
<1>6. PICK G : G = ApplyOperator(o, F)
  OBVIOUS
<1>7. G \in Space(p.sector.nqubits)
  <2>1. FullOperator(o, F, p.sector.nqubits)
    BY <1>2, <1>4, OperatorIs
  <2> QED
    BY <1>6, <2>1 DEF FullOperator
<1>8. OnSector(p.sector, G) \in [0 .. p.sector.dimension - 1 -> Complex]
  BY <1>1, <1>7, RestrictedType
<1>9. ApplyObservable(p, o, OnSector(p.sector, F)) = OnSector(p.sector, ApplyOperator(o, F))
  BY <1>2, <1>4, AppliedIs
<1>10. Expectation(p, OnSector(p.sector, F), o) = InnerProduct(F, ApplyOperator(o, F))
  BY <1>2, <1>4, ExpectationIs
<1> QED
  BY <1>5, <1>6, <1>8, <1>9, <1>10 DEF Amplitudes


-----------------------------------------------------------------------------
(* What holds of the state, the adjoint state and the pool between steps   *)

Undoing == {"undo_state", "derive", "undo_lambda"}
Running == {"forward", "final"} \cup Undoing

\* The state a phase has reached, undone or not, is that of the run.
StandsAt(v, k) == k \in 0 .. Len(plan.gates) /\ v = StateAt(plan, values, k)

\* The pool works on the vector of the phase, with the pairs and the matrix
\* of the block.
Section(Index) ==
  /\ Index = 0 .. plan.sector.dimension - 1 /\ SectionInv(Index)
  /\ lent = Target /\ pairs = Gate.pairs /\ matrix = PairBlockMatrix(Gate, values, phase # "forward")

RunInv ==
  /\ phase \notin {"new", "refused"} => InitialState(plan.sector.dimension) \in Amplitudes(plan)
  /\ phase \in Running => LegalAngles(values, instance.program)
  /\ phase \in {"forward", "derive", "undo_lambda"} => StandsAt(state, at - 1) /\ at \in 1 .. Len(plan.gates) + 1
  /\ phase \in {"derive", "undo_lambda"} => at \in 1 .. Len(plan.gates)
  /\ phase = "undo_state" => StandsAt(state, at)
  /\ phase \in Undoing => lambda \in Amplitudes(plan)
  /\ phase \in Undoing \cup {"final"} => StandsAt(final, Len(plan.gates))
  /\ lent = Nothing => \A w \in Worker : held[w] = Free
  /\ lent # Nothing => \E Index : Section(Index)

\* What a step that applies a block must make of the vector.
Moves(v) ==
  /\ phase = "forward" => StandsAt(v, at)
  /\ phase = "undo_state" => StandsAt(v, at - 1)
  /\ phase = "undo_lambda" => v \in Amplitudes(plan)

\* What the invariants give of a plan that is being run.
LEMMA RunFacts ==
  ASSUME PlanInv, RunInv, phase \in Running
  PROVE  /\ PlanOf(plan, instance.program, instance.limit) /\ LegalAngles(values, instance.program)
         /\ StatesFollow(plan, instance.program, values)
         /\ Consumed(plan, Len(plan.gates)) = Len(instance.program.operations)
<1>1. phase \notin {"new", "refused"}
  BY DEF Running, Undoing
<1>2. /\ PlanOf(plan, instance.program, instance.limit) /\ LegalAngles(values, instance.program)
      /\ InitialState(plan.sector.dimension) \in Amplitudes(plan)
  BY <1>1 DEF PlanInv, RunInv
<1>3. PICK p, av : p = plan /\ av = values
  OBVIOUS
<1>4. StatesFollow(p, instance.program, av) /\ Consumed(p, Len(p.gates)) = Len(instance.program.operations)
  BY <1>2, <1>3, StatesAre
<1> QED
  BY <1>2, <1>3, <1>4

\* The vector that the current block works on has one number per index of the sector.
LEMMA TargetTyped ==
  ASSUME PlanInv, RunInv, HasBlock
  PROVE  /\ phase \in Running /\ at \in 1 .. Len(plan.gates) /\ Len(plan.gates) \in Nat
         /\ Target \in Amplitudes(plan)
         /\ BlockMaps(plan, at, values, FALSE, StateAt(plan, values, at - 1), StateAt(plan, values, at))
         /\ BlockMaps(plan, at, values, TRUE, StateAt(plan, values, at), StateAt(plan, values, at - 1))
<1>1. phase \in {"forward", "undo_state", "undo_lambda"} /\ at \in DOMAIN plan.gates
  BY DEF HasBlock, Working
<1>2. phase \in Running
  BY <1>1 DEF Running, Undoing
<1>3. StatesFollow(plan, instance.program, values)
  BY <1>2, RunFacts
<1>4. at \in 1 .. Len(plan.gates) /\ Len(plan.gates) \in Nat
  BY <1>1, <1>3 DEF StatesFollow
<1>5. Target \in Amplitudes(plan)
  <2>1. CASE phase = "undo_lambda"
    BY <2>1 DEF Target, RunInv, Undoing
  <2>2. CASE phase \in {"forward", "undo_state"}
    <3>1. \E k \in 0 .. Len(plan.gates) : state = StateAt(plan, values, k)
      BY <2>2 DEF RunInv, StandsAt
    <3>2. state \in Amplitudes(plan)
      BY <1>3, <3>1 DEF StatesFollow
    <3> QED
      BY <2>2, <3>2 DEF Target
  <2> QED
    BY <1>1, <2>1, <2>2
<1>6. /\ BlockMaps(plan, at, values, FALSE, StateAt(plan, values, at - 1), StateAt(plan, values, at))
      /\ BlockMaps(plan, at, values, TRUE, StateAt(plan, values, at), StateAt(plan, values, at - 1))
  BY <1>3, <1>4 DEF StatesFollow
<1> QED
  BY <1>2, <1>4, <1>5, <1>6

\* Whichever path applies the block, the vector moves as it must.
LEMMA BlockMoves ==
  ASSUME PlanInv, RunInv, HasBlock, NEW v,
         \/ Gate.kind = "diagonal" /\ v = ApplyDiagonal(plan, Gate, Target, values, phase # "forward")
         \/ /\ Gate.kind = "pairs"
            /\ MapsVector(Gate.pairs, 0 .. plan.sector.dimension - 1,
                          PairBlockMatrix(Gate, values, phase # "forward"), Target, v)
  PROVE  Moves(v)
<1>1. /\ phase \in Running /\ at \in 1 .. Len(plan.gates) /\ Len(plan.gates) \in Nat
      /\ Target \in Amplitudes(plan)
      /\ BlockMaps(plan, at, values, FALSE, StateAt(plan, values, at - 1), StateAt(plan, values, at))
      /\ BlockMaps(plan, at, values, TRUE, StateAt(plan, values, at), StateAt(plan, values, at - 1))
  BY TargetTyped
<1>2. Gate = plan.gates[at]
  BY DEF Gate
<1>3. at - 1 \in 0 .. Len(plan.gates) /\ at \in 0 .. Len(plan.gates)
  BY <1>1
<1>4. ASSUME NEW inverse \in BOOLEAN, inverse = (phase # "forward"), NEW a, a = Target, NEW u,
             BlockMaps(plan, at, values, inverse, a, u)
      PROVE  v = u
  <2>1. CASE Gate.kind = "diagonal"
    <3>1. v = ApplyDiagonal(plan, plan.gates[at], a, values, inverse)
      BY <1>2, <1>4, <2>1
    <3>2. u = ApplyDiagonal(plan, plan.gates[at], a, values, inverse)
      BY <1>2, <1>4, <2>1 DEF BlockMaps
    <3> QED
      BY <3>1, <3>2
  <2>2. CASE Gate.kind = "pairs"
    <3>1. PICK Index, m, ps : /\ Index = 0 .. plan.sector.dimension - 1
                              /\ m = PairBlockMatrix(plan.gates[at], values, inverse)
                              /\ ps = plan.gates[at].pairs
      OBVIOUS
    <3>2. MapsVector(ps, Index, m, a, v)
      BY <1>2, <1>4, <2>2, <3>1
    <3>3. MapsVector(ps, Index, m, a, u)
      BY <1>2, <1>4, <2>2, <3>1 DEF BlockMaps
    <3> QED
      BY <3>2, <3>3, MapsOnce
  <2> QED
    BY <2>1, <2>2
<1>5. CASE phase = "forward"
  <2>1. Target = StateAt(plan, values, at - 1) /\ FALSE = (phase # "forward")
    BY <1>5 DEF Target, RunInv, StandsAt
  <2>2. v = StateAt(plan, values, at)
    BY <1>1, <1>4, <2>1
  <2> QED
    BY <1>3, <1>5, <2>2 DEF Moves, StandsAt
<1>6. CASE phase = "undo_state"
  <2>1. Target = StateAt(plan, values, at) /\ TRUE = (phase # "forward")
    BY <1>6 DEF Target, RunInv, StandsAt
  <2>2. v = StateAt(plan, values, at - 1)
    BY <1>1, <1>4, <2>1
  <2> QED
    BY <1>3, <1>6, <2>2 DEF Moves, StandsAt
<1>7. CASE phase = "undo_lambda"
  <2>1. v \in Amplitudes(plan)
    <3>1. CASE Gate.kind = "diagonal"
      <4>1. PICK p, av, k, a, inverse : /\ p = plan /\ av = values /\ k = at /\ a = Target
                                        /\ inverse = (phase # "forward") /\ inverse \in BOOLEAN
        OBVIOUS
      <4>2. /\ PlanOf(p, instance.program, instance.limit) /\ LegalAngles(av, instance.program)
            /\ k \in DOMAIN p.gates /\ p.gates[k].kind = "diagonal" /\ a \in Amplitudes(p)
        BY <1>1, <1>2, <3>1, <4>1, RunFacts DEF HasBlock
      <4>3. ApplyDiagonal(p, p.gates[k], a, av, inverse) \in Amplitudes(p)
        BY <4>1, <4>2, DiagonalTyped
      <4>4. v = ApplyDiagonal(p, p.gates[k], a, av, inverse)
        BY <1>2, <3>1, <4>1
      <4> QED
        BY <4>1, <4>3, <4>4
    <3>2. CASE Gate.kind = "pairs"
      BY <3>2 DEF MapsVector, Amplitudes
    <3> QED
      BY <3>1, <3>2
  <2> QED
    BY <1>7, <2>1 DEF Moves
<1>8. phase \in {"forward", "undo_state", "undo_lambda"}
  BY DEF HasBlock, Working
<1> QED
  BY <1>5, <1>6, <1>7, <1>8 DEF Moves

\* Applying a block with the pool free keeps the invariant.
LEMMA AppliedKeeps ==
  ASSUME PlanInv, RunInv, HasBlock, NEW v, Applied(v), Moves(v), lent' = Nothing,
         \A w \in Worker : held'[w] = Free
  PROVE  RunInv'
<1>1. at \in 1 .. Len(plan.gates) /\ Len(plan.gates) \in Nat /\ phase \in {"forward", "undo_state", "undo_lambda"}
  BY TargetTyped DEF HasBlock, Working
<1>2. /\ phase \in Running /\ InitialState(plan.sector.dimension) \in Amplitudes(plan)
      /\ LegalAngles(values, instance.program)
  BY <1>1 DEF RunInv, Running, Undoing
<1>3. /\ instance' = instance /\ plan' = plan /\ values' = values /\ final' = final
  BY DEF Applied
<1>4. CASE phase = "forward"
  <2>1. phase' = "forward" /\ at' = at + 1 /\ state' = v
    BY <1>4 DEF Applied
  <2>2. at' - 1 = at /\ at' \in 1 .. Len(plan.gates) + 1
    BY <1>1, <2>1
  <2>3. at \in 0 .. Len(plan.gates) /\ v = StateAt(plan, values, at)
    BY <1>4 DEF Moves, StandsAt
  <2> QED
    BY <1>2, <1>3, <2>1, <2>2, <2>3 DEF RunInv, StandsAt, Undoing
<1>5. CASE phase = "undo_state"
  <2>1. phase' = "derive" /\ at' = at /\ state' = v /\ lambda' = lambda
    BY <1>5 DEF Applied
  <2>2. at - 1 \in 0 .. Len(plan.gates) /\ v = StateAt(plan, values, at - 1)
    BY <1>5 DEF Moves, StandsAt
  <2>3. lambda \in Amplitudes(plan) /\ StandsAt(final, Len(plan.gates))
    BY <1>5 DEF RunInv, Undoing
  <2>4. at \in 1 .. Len(plan.gates) + 1
    BY <1>1
  <2> QED
    BY <1>1, <1>2, <1>3, <2>1, <2>2, <2>3, <2>4 DEF RunInv, StandsAt, Undoing
<1>6. CASE phase = "undo_lambda"
  <2>1. phase' = "undo_state" /\ at' = at - 1 /\ state' = state /\ lambda' = v
    BY <1>6 DEF Applied
  <2>2. v \in Amplitudes(plan)
    BY <1>6 DEF Moves
  <2>3. at - 1 \in 0 .. Len(plan.gates) /\ state = StateAt(plan, values, at - 1) /\ StandsAt(final, Len(plan.gates))
    BY <1>6 DEF RunInv, StandsAt, Undoing
  <2> QED
    BY <1>2, <1>3, <2>1, <2>2, <2>3 DEF RunInv, StandsAt, Undoing
<1> QED
  BY <1>1, <1>4, <1>5, <1>6


\* A plan is only made of a sector the initial state is given for.
LEMMA CompiledFits ==
  ASSUME NEW i \in Instances, NEW p, p = Compile(i.program, i.particles, i.limit), ~IsFailed(p)
  PROVE  InitialState(p.sector.dimension) \in Amplitudes(p)
<1>1. IsProgram(i.program) /\ i.particles \in Nat /\ i.limit \in Nat
  BY InstancesAssumption
<1>2. p.sector = NewSector(i.program.nqubits, i.particles)
  BY <1>1, CompiledIs
<1>3. ~(i.particles > i.program.nqubits)
  <2> SUFFICES ASSUME i.particles > i.program.nqubits PROVE FALSE
    OBVIOUS
  <2>1. NewSector(i.program.nqubits, i.particles) = Failed("InvalidSector")
    BY DEF NewSector
  <2>2. IsFailed(Failed("InvalidSector")) /\ IsFailed(Failed("InvalidCircuit"))
    BY DEF IsFailed, Failed
  <2>3. p \in {Failed("InvalidSector"), Failed("InvalidCircuit")}
    BY <2>1, <2>2 DEF Compile
  <2> QED
    BY <2>2, <2>3
<1>4. p.sector.dimension = ChooseCount(i.program.nqubits, i.particles)
  BY <1>2, <1>3 DEF NewSector
<1>5. i.particles <= i.program.nqubits
  BY <1>1, <1>3 DEF IsProgram
<1>6. InitialState(ChooseCount(i.program.nqubits, i.particles))
        \in [0 .. ChooseCount(i.program.nqubits, i.particles) - 1 -> Complex]
  BY <1>5, InstancesAssumption
<1> QED
  BY <1>4, <1>6 DEF Amplitudes

\* A parallel section starts with every pair pending.
LEMMA SectionBegins ==
  ASSUME NEW Index
  PROVE  (PairInit(Index) => SectionInv(Index))'
<1>1. PairInit(Index) => SectionInv(Index)
  BY SectionInit
<1> QED
  BY <1>1, PTL

\* While nothing is lent, a step that leaves the pool alone leaves it free.
LEMMA StaysFree ==
  ASSUME RunInv, lent = Nothing, UNCHANGED pairVars
  PROVE  lent' = Nothing /\ \A w \in Worker : held'[w] = Free
  BY DEF RunInv, pairVars

\* Every step keeps the run at the restriction of the full vector.
LEMMA RunStep ==
  PlanInv /\ RunInv /\ [CircuitNext]_circuitVars => RunInv'
<1> SUFFICES ASSUME PlanInv, RunInv, [CircuitNext]_circuitVars PROVE RunInv'
  OBVIOUS
<1>1. /\ phase \notin {"new", "refused"} => InitialState(plan.sector.dimension) \in Amplitudes(plan)
      /\ phase \in Running => LegalAngles(values, instance.program)
      /\ phase \in {"forward", "derive", "undo_lambda"} => StandsAt(state, at - 1) /\ at \in 1 .. Len(plan.gates) + 1
      /\ phase \in {"derive", "undo_lambda"} => at \in 1 .. Len(plan.gates)
      /\ phase = "undo_state" => StandsAt(state, at)
      /\ phase \in Undoing => lambda \in Amplitudes(plan)
      /\ phase \in Undoing \cup {"final"} => StandsAt(final, Len(plan.gates))
      /\ lent = Nothing => \A w \in Worker : held[w] = Free
      /\ lent # Nothing => \E Index : Section(Index)
  BY DEF RunInv
<1>a. lent # Nothing => HasBlock /\ Gate.kind = "pairs" /\ Len(Gate.pairs) >= Threshold
  BY DEF PlanInv
<1>b. lent # Nothing => phase \in {"forward", "undo_state", "undo_lambda"} /\ at \in DOMAIN plan.gates
  BY <1>a DEF HasBlock, Working
<1>c. phase \in Running => Len(plan.gates) \in Nat /\ DOMAIN plan.gates = 1 .. Len(plan.gates)
  BY RunFacts DEF StatesFollow
<1>2. CASE CompilePlan
  <2>1. /\ phase \in {"new", "refused"} /\ instance' = instance
        /\ plan' = Compile(instance.program, instance.particles, instance.limit)
        /\ phase' = (IF IsFailed(plan') THEN "refused" ELSE "ready")
        /\ UNCHANGED pairVars
    BY <1>2 DEF CompilePlan
  <2>2. lent' = Nothing /\ \A w \in Worker : held'[w] = Free
    BY <1>b, <2>1, StaysFree
  <2>3. phase' = "ready" => InitialState(plan'.sector.dimension) \in Amplitudes(plan')
    <3> SUFFICES ASSUME phase' = "ready" PROVE InitialState(plan'.sector.dimension) \in Amplitudes(plan')
      OBVIOUS
    <3>1. PICK i, p : i = instance /\ p = plan'
      OBVIOUS
    <3>2. i \in Instances /\ p = Compile(i.program, i.particles, i.limit) /\ ~IsFailed(p)
      BY <2>1, <3>1 DEF PlanInv
    <3> QED
      BY <3>1, <3>2, CompiledFits
  <2> QED
    BY <2>1, <2>2, <2>3 DEF RunInv, Running, Undoing
<1>3. ASSUME NEW parameters \in Parameters, RunCached(parameters) PROVE RunInv'
  <2> DEFINE errors == StateError(plan, plan.sector.dimension) \cup ParameterError(plan, parameters)
  <2>1. phase = "ready" /\ instance' = instance /\ plan' = plan /\ UNCHANGED pairVars
    BY <1>3 DEF RunCached
  <2>2. lent' = Nothing /\ \A w \in Worker : held'[w] = Free
    BY <1>b, <2>1, StaysFree
  <2>3. InitialState(plan.sector.dimension) \in Amplitudes(plan)
    BY <1>1, <2>1
  <2>4. CASE errors # {}
    <3>1. phase' = phase
      BY <1>3, <2>4 DEF RunCached
    <3> QED
      BY <2>1, <2>2, <2>3, <3>1 DEF RunInv, Running, Undoing
  <2>5. CASE errors = {}
    <3>1. /\ values' = ResolveAngleValues(plan.program, parameters)
          /\ state' = InitialState(plan.sector.dimension) /\ at' = 1 /\ phase' = "forward"
      BY <1>3, <2>5 DEF RunCached
    <3>2. PlanOf(plan, instance.program, instance.limit)
      BY <2>1 DEF PlanInv
    <3>3. plan.program = instance.program /\ LegalProgram(instance.program)
      BY <3>2 DEF PlanOf
    <3>4. parameters \in Seq(Int) /\ Len(parameters) = instance.program.nparameters
      BY <2>5, <3>3, ParametersAssumption DEF ParameterError
    <3>5. PICK p, av, program : p = plan /\ av = values' /\ program = instance.program
      OBVIOUS
    <3>6. LegalAngles(av, program)
      BY <3>1, <3>3, <3>4, <3>5, ResolvedIs
    <3>7. StatesFollow(p, program, av)
      BY <2>3, <3>2, <3>5, <3>6, StatesAre
    <3>8. Len(p.gates) \in Nat /\ StateAt(p, av, 0) = InitialState(p.sector.dimension)
      BY <3>7 DEF StatesFollow
    <3>9. 0 \in 0 .. Len(p.gates) /\ at' - 1 = 0 /\ at' \in 1 .. Len(p.gates) + 1
      BY <3>1, <3>8
    <3>10. state' = StateAt(p, av, at' - 1) /\ at' - 1 \in 0 .. Len(p.gates)
      BY <3>1, <3>5, <3>8, <3>9
    <3> QED
      BY <2>1, <2>2, <2>3, <3>1, <3>5, <3>6, <3>9, <3>10 DEF RunInv, StandsAt, Undoing
  <2> QED
    BY <2>4, <2>5
<1>4. CASE KeepFinal
  <2>1. /\ phase = "forward" /\ at > Len(plan.gates) /\ final' = state /\ phase' = "final"
        /\ UNCHANGED <<instance, plan, at, values, state>> /\ UNCHANGED pairVars
    BY <1>4 DEF KeepFinal
  <2>2. Len(plan.gates) \in Nat /\ DOMAIN plan.gates = 1 .. Len(plan.gates)
    BY <1>c, <2>1 DEF Running
  <2>3. at \notin DOMAIN plan.gates
    BY <2>1, <2>2
  <2>4. lent' = Nothing /\ \A w \in Worker : held'[w] = Free
    BY <1>b, <2>1, <2>3, StaysFree
  <2>5. at - 1 = Len(plan.gates) /\ StandsAt(state, at - 1)
    BY <1>1, <2>1, <2>2
  <2>6. InitialState(plan.sector.dimension) \in Amplitudes(plan) /\ LegalAngles(values, instance.program)
    BY <1>1, <2>1 DEF Running
  <2> QED
    BY <2>1, <2>4, <2>5, <2>6 DEF RunInv, StandsAt, Undoing
<1>5. ASSUME NEW o \in Observables, ValueAndGrad(o) PROVE RunInv'
  <2>1. phase = "final" /\ UNCHANGED <<instance, plan, values, final>> /\ UNCHANGED pairVars
    BY <1>5 DEF ValueAndGrad
  <2>2. lent' = Nothing /\ \A w \in Worker : held'[w] = Free
    BY <1>b, <2>1, StaysFree
  <2>3. /\ InitialState(plan.sector.dimension) \in Amplitudes(plan) /\ LegalAngles(values, instance.program)
        /\ StandsAt(final, Len(plan.gates))
    BY <1>1, <2>1 DEF Running
  <2>4. CASE ObservableError(plan, o) # {}
    <3>1. phase' = phase
      BY <1>5, <2>4 DEF ValueAndGrad
    <3> QED
      BY <2>1, <2>2, <2>3, <3>1 DEF RunInv, StandsAt, Undoing
  <2>5. CASE ObservableError(plan, o) = {}
    <3>1. /\ state' = final /\ lambda' = ApplyObservable(plan, o, final) /\ at' = Len(plan.gates)
          /\ phase' = "undo_state"
      BY <1>5, <2>5 DEF ValueAndGrad
    <3>2. o.nqubits = plan.sector.nqubits
      BY <2>5 DEF ObservableError
    <3>3. PICK p, av, v, k : p = plan /\ av = values /\ v = final /\ k = Len(plan.gates)
      OBVIOUS
    <3>4. PlanOf(p, instance.program, instance.limit) /\ StatesFollow(p, instance.program, av)
      BY <2>1, <3>3, RunFacts DEF Running
    <3>5. k \in 0 .. Len(p.gates) /\ v = StateAt(p, av, k)
      BY <2>3, <3>3 DEF StandsAt
    <3>6. ApplyObservable(p, o, v) \in Amplitudes(p)
      BY <3>2, <3>3, <3>4, <3>5, ObservedIs
    <3> QED
      BY <2>1, <2>2, <2>3, <3>1, <3>3, <3>6 DEF RunInv, StandsAt, Undoing
  <2> QED
    BY <2>4, <2>5
<1>6. CASE DiagonalStep
  <2>1. /\ HasBlock /\ Gate.kind = "diagonal" /\ UNCHANGED pairVars
        /\ Applied(ApplyDiagonal(plan, Gate, Target, values, phase # "forward"))
    BY <1>6 DEF DiagonalStep
  <2>2. PICK v : v = ApplyDiagonal(plan, Gate, Target, values, phase # "forward")
    OBVIOUS
  <2>3. lent' = Nothing /\ \A w \in Worker : held'[w] = Free
    BY <1>a, <2>1, StaysFree
  <2>4. Moves(v)
    BY <2>1, <2>2, BlockMoves
  <2> QED
    BY <2>1, <2>2, <2>3, <2>4, AppliedKeeps
<1>7. CASE PairStep
  <2>1. /\ HasBlock /\ Gate.kind = "pairs" /\ Len(Gate.pairs) < Threshold /\ UNCHANGED pairVars
        /\ Applied(ApplyPairs(Gate, Target, PairBlockMatrix(Gate, values, phase # "forward")))
    BY <1>7 DEF PairStep
  <2>2. PICK gate, a, m, Index, v : /\ gate = Gate /\ a = Target /\ Index = 0 .. plan.sector.dimension - 1
                                    /\ m = PairBlockMatrix(Gate, values, phase # "forward")
                                    /\ v = ApplyPairs(gate, a, m)
    OBVIOUS
  <2>3. gate.pairs \in PairList(Index) /\ m \in Matrix /\ a \in [Index -> Complex]
    BY <2>1, <2>2, TargetTyped DEF Gate, BlockMaps, Amplitudes
  <2>4. MapsVector(gate.pairs, Index, m, a, v)
    BY <2>2, <2>3, ApplyPairsIs
  <2>5. Moves(v)
    BY <2>1, <2>2, <2>4, BlockMoves
  <2>6. lent = Nothing
    <3>1. Len(gate.pairs) \in Nat
      BY <2>3 DEF PairList
    <3> QED
      BY <1>a, <2>1, <2>2, <3>1, NumbersAssumption
  <2>7. lent' = Nothing /\ \A w \in Worker : held'[w] = Free
    BY <2>1, <2>6, StaysFree
  <2> QED
    BY <2>1, <2>2, <2>5, <2>7, AppliedKeeps
<1>8. CASE LendPairs
  <2>1. /\ HasBlock /\ Gate.kind = "pairs" /\ UNCHANGED u1Vars
        /\ Lend(Target, Gate.pairs, PairBlockMatrix(Gate, values, phase # "forward"))
    BY <1>8 DEF LendPairs
  <2>2. PICK ps, a, m, Index : /\ ps = Gate.pairs /\ a = Target /\ Index = 0 .. plan.sector.dimension - 1
                               /\ m = PairBlockMatrix(Gate, values, phase # "forward")
    OBVIOUS
  <2>3. ps \in PairList(Index) /\ m \in Matrix /\ a \in [Index -> Complex]
    BY <2>1, <2>2, TargetTyped DEF Gate, BlockMaps, Amplitudes
  <2>4. /\ vector' = a /\ lent' = a /\ pairs' = ps /\ matrix' = m /\ pending' = DOMAIN ps
        /\ held' = [w \in Worker |-> Free]
    BY <2>1, <2>2 DEF Lend
  <2>5. PairInit(Index)'
    BY <2>3, <2>4 DEF PairInit
  <2>6. SectionInv(Index)'
    BY <2>5, SectionBegins
  <2>7. UNCHANGED <<instance, plan, phase, at, values, state, lambda, final>>
    BY <2>1 DEF u1Vars
  <2>8. Section(Index)'
    BY <2>2, <2>4, <2>6, <2>7 DEF Section, Target, Gate
  <2>9. \A w \in Worker : held'[w] = Free
    BY <2>4
  <2> QED
    BY <1>1, <2>7, <2>8, <2>9 DEF RunInv, StandsAt
<1>9. CASE WorkPairs
  <2>1. lent # Nothing /\ WorkerStep /\ UNCHANGED u1Vars
    BY <1>9 DEF WorkPairs, Idle
  <2>2. PICK Index : Section(Index)
    BY <1>1, <2>1
  <2>3. UNCHANGED <<lent, pairs, matrix>>
    BY <2>1 DEF WorkerStep, Load, Store
  <2>4. SectionInv(Index)'
    BY <2>1, <2>2, SectionInductive DEF Section
  <2>5. UNCHANGED <<instance, plan, phase, at, values, state, lambda, final>>
    BY <2>1 DEF u1Vars
  <2>6. Section(Index)'
    BY <2>2, <2>3, <2>4, <2>5 DEF Section, Target, Gate
  <2>7. lent' # Nothing
    BY <2>1, <2>3
  <2> QED
    BY <1>1, <2>5, <2>6, <2>7 DEF RunInv, StandsAt
<1>10. CASE JoinPairs
  <2>1. lent # Nothing /\ Joined /\ Applied(vector) /\ lent' = Nothing /\ held' = held
    BY <1>10 DEF JoinPairs, Idle
  <2>2. PICK Index : Section(Index)
    BY <1>1, <2>1
  <2>3. MapsVector(pairs, Index, matrix, lent, vector)
    BY <2>1, <2>2, JoinedMaps DEF Section
  <2>4. HasBlock /\ Gate.kind = "pairs"
    BY <1>a, <2>1
  <2>5. PICK v : v = vector
    OBVIOUS
  <2>6. Moves(v)
    BY <2>2, <2>3, <2>4, <2>5, BlockMoves DEF Section
  <2>7. \A w \in Worker : held'[w] = Free
    BY <2>1 DEF Joined
  <2> QED
    BY <2>1, <2>4, <2>5, <2>6, <2>7, AppliedKeeps
<1>11. CASE DeriveStep
  <2>1. /\ phase = "derive" /\ phase' = "undo_lambda" /\ UNCHANGED pairVars
        /\ UNCHANGED <<instance, plan, at, values, state, lambda, final>>
    BY <1>11 DEF DeriveStep
  <2>2. lent' = Nothing /\ \A w \in Worker : held'[w] = Free
    BY <1>b, <2>1, StaysFree
  <2> QED
    BY <1>1, <2>1, <2>2 DEF RunInv, StandsAt, Undoing, Running
<1>12. CASE ReturnGradient
  <2>1. /\ phase = "undo_state" /\ at = 0 /\ phase' = "final" /\ UNCHANGED pairVars
        /\ UNCHANGED <<instance, plan, at, values, state, lambda, final>>
    BY <1>12 DEF ReturnGradient
  <2>2. at \notin DOMAIN plan.gates
    BY <1>c, <2>1 DEF Running, Undoing
  <2>3. lent' = Nothing /\ \A w \in Worker : held'[w] = Free
    BY <1>b, <2>1, <2>2, StaysFree
  <2> QED
    BY <1>1, <2>1, <2>3 DEF RunInv, StandsAt, Undoing, Running
<1>13. CASE UNCHANGED circuitVars
  <2>1. /\ UNCHANGED <<instance, plan, phase, at, values, state, lambda, final>>
        /\ UNCHANGED <<lent, pairs, matrix, held>> /\ UNCHANGED pairVars
    BY <1>13 DEF circuitVars, u1Vars, pairVars
  <2>2. CASE lent = Nothing
    BY <1>1, <2>1, <2>2 DEF RunInv, StandsAt
  <2>3. CASE lent # Nothing
    <3>1. PICK Index : Section(Index)
      BY <1>1, <2>3
    <3>2. SectionInv(Index)'
      BY <2>1, <3>1, SectionInductive DEF Section
    <3>3. Section(Index)'
      BY <2>1, <3>1, <3>2 DEF Section, Target, Gate
    <3> QED
      BY <1>1, <2>1, <2>3, <3>3 DEF RunInv, StandsAt
  <2> QED
    BY <2>2, <2>3
<1> QED
  BY <1>2, <1>3, <1>4, <1>5, <1>6, <1>7, <1>8, <1>9, <1>10, <1>11, <1>12, <1>13 DEF CircuitNext

\* The inductive invariant of a circuit.
LEMMA RunHolds == CircuitSpec => [](PlanInv /\ RunInv)
<1>1. CircuitInit => PlanInv /\ RunInv
  BY DEF CircuitInit, PlanInv, CircuitPhases, RunInv, Running, Undoing
<1> QED
  BY <1>1, PlanStep, RunStep, PTL DEF CircuitSpec

\* After every block, forward or undone, the sector holds what the same
\* operations make of the full vector, and the expectation of every observable
\* of a kept state is that of the full vector: for all programs, sectors,
\* initial states and parameters, and whatever the pool does.
THEOREM RunsSimulateFullSpace == CircuitSpec => []SimulatesFullSpace
<1>1. PlanInv /\ RunInv => SimulatesFullSpace
  <2> SUFFICES ASSUME PlanInv, RunInv PROVE SimulatesFullSpace
    OBVIOUS
  <2>1. ASSUME phase \in {"forward", "undo_state"}
        PROVE  Embedded(plan, state) =
                 FullRun(plan.program, values, Embedded(plan, InitialState(plan.sector.dimension)),
                         Consumed(plan, IF phase = "forward" THEN at - 1 ELSE at))
    <3>1. StatesFollow(plan, instance.program, values)
      BY <2>1, RunFacts DEF Running, Undoing
    <3>2. PICK k : k = IF phase = "forward" THEN at - 1 ELSE at
      OBVIOUS
    <3>3. k \in 0 .. Len(plan.gates) /\ state = StateAt(plan, values, k)
      BY <2>1, <3>2 DEF RunInv, StandsAt
    <3>4. Embedded(plan, state) = FullAfter(plan, values, Begin(plan), k)
      BY <3>1, <3>3 DEF StatesFollow
    <3> QED
      BY <3>2, <3>4 DEF FullAfter, Begin
  <2>2. ASSUME phase = "final", NEW o \in Observables, o.nqubits = plan.sector.nqubits
        PROVE  Expectation(plan, final, o)
                 = InnerProduct(Embedded(plan, final), ApplyOperator(o, Embedded(plan, final)))
    <3>1. PICK p, av, v, k : p = plan /\ av = values /\ v = final /\ k = Len(plan.gates)
      OBVIOUS
    <3>2. PlanOf(p, instance.program, instance.limit) /\ StatesFollow(p, instance.program, av)
      BY <2>2, <3>1, RunFacts DEF Running
    <3>3. k \in 0 .. Len(p.gates) /\ v = StateAt(p, av, k)
      BY <2>2, <3>1 DEF RunInv, StandsAt, Undoing
    <3>4. Expectation(p, v, o) = InnerProduct(Embedded(p, v), ApplyOperator(o, Embedded(p, v)))
      BY <2>2, <3>1, <3>2, <3>3, ObservedIs
    <3> QED
      BY <3>1, <3>4
  <2>3. (Working /\ Idle /\ phase # "undo_lambda") => phase \in {"forward", "undo_state"}
    BY DEF Working
  <2> QED
    BY <2>1, <2>2, <2>3 DEF SimulatesFullSpace
<1> QED
  BY <1>1, RunHolds, PTL

\* No two workers of the pool hold pairs that share an amplitude, in any
\* block of any program.
THEOREM BlocksNeverAlias == CircuitSpec => []NoSharedAmplitude
<1>1. RunInv => NoSharedAmplitude
  <2> SUFFICES ASSUME RunInv, NEW v \in Worker, NEW w \in Worker, v # w, held[v] # Free, held[w] # Free
               PROVE  Indices(pairs[held[v].pair]) \cap Indices(pairs[held[w].pair]) = {}
    BY DEF NoSharedAmplitude
  <2>1. PICK Index : SectionInv(Index)
    BY DEF RunInv, Section
  <2>2. Busy(v) /\ Busy(w)
    BY DEF Busy
  <2>3. held[v].pair \in DOMAIN pairs /\ held[w].pair \in DOMAIN pairs
    BY <2>1, <2>2, HoldingFacts DEF SectionInv
  <2>4. held[v].pair # held[w].pair
    BY <2>1, <2>2 DEF SectionInv, HeldApart
  <2> QED
    BY <2>1, <2>3, <2>4, ListFacts DEF SectionInv, SectionType
<1> QED
  BY <1>1, RunHolds, PTL
=============================================================================
