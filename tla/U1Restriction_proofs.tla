------------------------ MODULE U1Restriction_proofs ------------------------
(***************************************************************************)
(* The facade of a restricted operator, for any threads, requests and      *)
(* limits.  At most one thread is past the lock, only it builds a graph,   *)
(* and a graph is cached only when nobody builds one.  The two passes of a *)
(* build leave the columns of the operator in the sector, in no more cells *)
(* than its memory was checked for.  Whatever a thread is handed is the    *)
(* block of the operator's matrix.                                         *)
(***************************************************************************)
EXTENDS U1Restriction, U1Circuit_proofs
-----------------------------------------------------------------------------
(* Compiled terms and the columns they make                                *)

\* An operator: words of its qubits with Gaussian coefficients.
IsOperator(op) ==
  /\ op.nqubits \in Nat
  /\ op.terms \in Seq([word : Words(op.nqubits), coefficient : Complex])

\* The terms with one X mask, and what they are compiled to.
Sharing(ts, x) == Kept(ts, {k \in DOMAIN ts : ts[k].word.x = x})
Weighted(t) == [z |-> t.word.z, coefficient |-> Times(t.coefficient, YPhase(t.word))]
WeightedTerms(ts, x) == [k \in DOMAIN Sharing(ts, x) |-> Weighted(Sharing(ts, x)[k])]

\* One group for every X mask that occurs.
Grouped(groups, ts) ==
  /\ Len(groups) \in Nat /\ DOMAIN groups = 1 .. Len(groups)
  /\ \A g \in 1 .. Len(groups) :
       /\ \E k \in 1 .. Len(ts) : ts[k].word.x = groups[g].x
       /\ groups[g].terms = WeightedTerms(ts, groups[g].x)
  /\ \A g, h \in 1 .. Len(groups) : groups[g].x = groups[h].x => g = h
  /\ \A k \in 1 .. Len(ts) : \E g \in 1 .. Len(groups) : groups[g].x = ts[k].word.x

\* CompileTerms makes one group for every X mask.
LEMMA CompiledGroups ==
  ASSUME NEW op, IsOperator(op)
  PROVE  /\ Grouped(CompileTerms(op), op.terms)
         /\ \A k \in 1 .. Len(op.terms) :
              /\ op.terms[k].word.x \in SUBSET Qubits(op.nqubits)
              /\ op.terms[k].word.z \in SUBSET Qubits(op.nqubits)
              /\ op.terms[k].coefficient \in Complex
<1> DEFINE ts == op.terms
           T == [word : Words(op.nqubits), coefficient : Complex]
           N == Len(ts)
           ids == [k \in DOMAIN ts |-> k]
           spots == {k \in DOMAIN ts : \A j \in 1 .. k - 1 : ts[j].word.x # ts[k].word.x}
           firsts == Kept(ids, spots)
           groups == CompileTerms(op)
<1>1. ts \in Seq(T) /\ N \in Nat /\ DOMAIN ts = 1 .. N /\ \A k \in 1 .. N : ts[k] \in T
  <2>1. ts \in Seq(T)
    BY DEF IsOperator
  <2> HIDE DEF ts, T
  <2> QED
    BY <2>1, ElementOfSeq
<1>2. \A k \in 1 .. N :
              /\ ts[k].word.x \in SUBSET Qubits(op.nqubits)
              /\ ts[k].word.z \in SUBSET Qubits(op.nqubits)
              /\ ts[k].coefficient \in Complex
  BY <1>1 DEF Words
<1>3. ids \in Seq(1 .. N) /\ Len(ids) = N /\ \A k \in 1 .. N : ids[k] = k
  <2>1. ids \in [1 .. N -> 1 .. N]
    BY <1>1
  <2> QED
    BY <1>1, <2>1, SeqDef
<1>4. PICK index : KeepsAt(firsts, Len(ids), ids, spots, index)
  <2> HIDE DEF ids, spots, N
  <2> QED
    BY <1>3, KeptElements
<1>5. firsts \in Seq(1 .. N)
  <2> HIDE DEF ids, spots, N
  <2> QED
    BY <1>3, KeptElements
<1> DEFINE M == Len(firsts)
<1>6. M \in Nat /\ DOMAIN firsts = 1 .. M
  <2> HIDE DEF firsts
  <2> QED
    BY <1>5
<1>7. \A g \in 1 .. M : firsts[g] \in 1 .. N /\ firsts[g] \in spots
  <2> HIDE DEF ids, spots, firsts
  <2> QED
    BY <1>3, <1>4 DEF KeepsAt
<1>8. \A g, h \in 1 .. M : g < h => firsts[g] < firsts[h]
  <2> HIDE DEF ids, spots, firsts
  <2> QED
    BY <1>3, <1>4 DEF KeepsAt
<1>9. \A k \in 1 .. N : k \in spots => \E g \in 1 .. M : firsts[g] = k
  <2> HIDE DEF ids, spots, firsts
  <2> QED
    BY <1>3, <1>4 DEF KeepsAt
<1>10. groups = [g \in 1 .. M |-> [x |-> ts[firsts[g]].word.x,
                                   terms |-> WeightedTerms(ts, ts[firsts[g]].word.x)]]
  BY <1>6 DEF CompileTerms, KeepIf, Sharing, Weighted, WeightedTerms
<1> HIDE DEF groups
<1>11. Len(groups) = M /\ DOMAIN groups = 1 .. M
  <2> HIDE DEF firsts
  <2> QED
    BY <1>6, <1>10
<1>12. \A g \in 1 .. M : /\ groups[g].x = ts[firsts[g]].word.x
                         /\ groups[g].terms = WeightedTerms(ts, groups[g].x)
  <2> HIDE DEF firsts, ts
  <2> QED
    BY <1>10
<1>13. ASSUME NEW g \in 1 .. M, NEW h \in 1 .. M, g < h
       PROVE  groups[g].x # groups[h].x
  <2>1. firsts[g] < firsts[h] /\ firsts[g] \in 1 .. N /\ firsts[h] \in 1 .. N
    BY <1>7, <1>8, <1>13
  <2>2. firsts[g] \in 1 .. firsts[h] - 1
    <3> HIDE DEF firsts, N
    <3> QED
      BY <1>1, <2>1
  <2>3. firsts[h] \in spots
    BY <1>7
  <2>4. ts[firsts[g]].word.x # ts[firsts[h]].word.x
    <3> HIDE DEF firsts
    <3> QED
      BY <2>2, <2>3
  <2> HIDE DEF firsts, ts
  <2> QED
    BY <1>12, <2>4
<1>14. ASSUME NEW k \in 1 .. N PROVE \E g \in 1 .. M : groups[g].x = ts[k].word.x
  <2> DEFINE J == {j \in 1 .. N : ts[j].word.x = ts[k].word.x}
  <2>1. J \subseteq Nat /\ k \in J
    OBVIOUS
  <2>2. PICK j \in J : \A i \in J : j <= i
    <3> HIDE DEF J
    <3> QED
      BY <2>1, Least
  <2>3. \A i \in 1 .. j - 1 : ts[i].word.x # ts[j].word.x
    <3> SUFFICES ASSUME NEW i \in 1 .. j - 1, ts[i].word.x = ts[j].word.x PROVE FALSE
      OBVIOUS
    <3>1. i \in J /\ i < j
      BY <1>1, <2>2
    <3> QED
      BY <2>2, <3>1
  <2>4. j \in spots /\ j \in 1 .. N
    BY <1>1, <2>2, <2>3
  <2>5. PICK g \in 1 .. M : firsts[g] = j
    BY <1>9, <2>4
  <2> HIDE DEF firsts, spots
  <2> QED
    BY <1>12, <2>2, <2>5
<1>15. Grouped(groups, ts)
  <2>1. \A g \in 1 .. M : \E k \in 1 .. N : ts[k].word.x = groups[g].x
    BY <1>7, <1>12
  <2>2. \A g, h \in 1 .. M : groups[g].x = groups[h].x => g = h
    <3> SUFFICES ASSUME NEW g \in 1 .. M, NEW h \in 1 .. M, groups[g].x = groups[h].x PROVE g = h
      OBVIOUS
    <3>1. ~(g < h) /\ ~(h < g)
      BY <1>13
    <3> QED
      BY <3>1
  <2> HIDE DEF firsts, ts
  <2> QED
    BY <1>6, <1>11, <1>12, <1>14, <2>1, <2>2 DEF Grouped
<1> QED
  BY <1>2, <1>15 DEF groups

-----------------------------------------------------------------------------
\* The particles of the destination are counted without making its word.
LEMMA DestinationIs ==
  ASSUME NEW s, IsSector(s), NEW w \in SectorWords(s), NEW x \in SUBSET Qubits(s.nqubits)
  PROVE  DestinationWeight(s, Active(s, w), x) = Cardinality(Xor(w, x))
<1> DEFINE n == s.nqubits
           Q == Qubits(n)
           c == Cardinality(w)
           v == Cardinality(x)
           a == Cardinality(w \cap x)
           d == Cardinality(Xor(w, x))
<1>1. /\ n \in Nat /\ s.complement \in BOOLEAN /\ IsFiniteSet(Q) /\ Cardinality(Q) = n
      /\ w \in SUBSET Q /\ x \in SUBSET Q
  BY SectorFacts, QubitsCount DEF SectorWords, Chosen
<1>2. Sizes(w, x)
  <2> HIDE DEF Q
  <2> QED
    BY <1>1, XorCount
<1>3. c \in Nat /\ v \in Nat /\ a \in Nat /\ d = c + v - 2 * a
  BY <1>2 DEF Sizes
<1>4. CASE s.complement
  <2> DEFINE e == Cardinality(Q \ w)
             f == Cardinality((Q \ w) \cap x)
  <2>1. Active(s, w) = Q \ w
    BY <1>4 DEF Active
  <2>2. n = c + e /\ e \in Nat
    BY <1>1, CountLeft
  <2>3. v = a + f /\ f \in Nat
    <3>1. IsFiniteSet(x) /\ w \cap x \in SUBSET x
      BY <1>1, FS_Subset
    <3>2. x \ (w \cap x) = (Q \ w) \cap x
      BY <1>1
    <3>3. /\ Cardinality(x) = Cardinality(w \cap x) + Cardinality(x \ (w \cap x))
          /\ Cardinality(x \ (w \cap x)) \in Nat
      BY <3>1, CountLeft
    <3> QED
      BY <3>2, <3>3
  <2>4. DestinationWeight(s, Q \ w, x) = n - (e + v - 2 * f)
    BY <1>4 DEF DestinationWeight
  <2>5. n - (e + v - 2 * f) = d
    <3> HIDE DEF n, c, v, a, d, e, f
    <3> QED
      BY <1>1, <1>3, <2>2, <2>3
  <2> QED
    BY <2>1, <2>4, <2>5
<1>5. CASE ~s.complement
  <2>1. Active(s, w) = w
    BY <1>5 DEF Active
  <2>2. DestinationWeight(s, w, x) = c + v - 2 * a
    BY <1>5 DEF DestinationWeight
  <2> QED
    BY <1>3, <2>1, <2>2
<1> QED
  BY <1>1, <1>4, <1>5

\* Column i as the program aggregates it: nothing when it leaves the sector.
AggregatedAt(s, groups, i) == AggregateSource(s, groups, Standing(s, i))
Column(s, groups, i) ==
  IF IsFailed(AggregatedAt(s, groups, i)) THEN {} ELSE AggregatedAt(s, groups, i).entries

\* A group that does not cancel at a word, and the entry it makes.
Live(s, groups, w, g) == GroupValue(s, Active(s, w), groups[g]) # Zero
Hop(s, groups, w, g) ==
  [row |-> RankWords(s, Xor(w, groups[g].x)), value |-> GroupValue(s, Active(s, w), groups[g])]
Staying(s, groups, w) ==
  \A g \in 1 .. Len(groups) : Live(s, groups, w, g) =>
    Cardinality(Xor(w, groups[g].x)) = s.particle_number

\* What a column is made of: an entry for every group that does not cancel, in
\* the row of the word it leads to; a refusal when one of those leaves.
LEMMA ColumnIs ==
  ASSUME NEW s, IsSector(s), NEW ts, NEW groups, Grouped(groups, ts),
         \A k \in 1 .. Len(ts) : ts[k].word.x \in SUBSET Qubits(s.nqubits),
         NEW i \in 0 .. s.dimension - 1
  PROVE  LET w == SectorWord(s, i)
             c == AggregatedAt(s, groups, i)
         IN  /\ IsFailed(c) => c = Failed("SectorLeakage")
             /\ IsFailed(c) <=> ~Staying(s, groups, w)
             /\ ~IsFailed(c) =>
                  /\ c.entries = Column(s, groups, i)
                  /\ \A e \in Column(s, groups, i) : \E g \in 1 .. Len(groups) :
                       Live(s, groups, w, g) /\ e = Hop(s, groups, w, g)
                  /\ \A g \in 1 .. Len(groups) : Live(s, groups, w, g) =>
                       /\ Hop(s, groups, w, g) \in Column(s, groups, i)
                       /\ Xor(w, groups[g].x) \in SectorWords(s)
<1> DEFINE w == SectorWord(s, i)
           act == Active(s, w)
           c == AggregatedAt(s, groups, i)
           G == 1 .. Len(groups)
           live == {g \in Range(groups) : GroupValue(s, act, g) # Zero}
           leaves == \E g \in live : DestinationWeight(s, act, g.x) # s.particle_number
           staying == Staying(s, groups, w)
           made == {[row |-> RankWords(s, Xor(w, g.x)), value |-> GroupValue(s, act, g)] : g \in live}
<1>1. /\ w \in SectorWords(s) /\ ActiveQubits(s, Standing(s, i)) = act
      /\ PackedWord(s, Standing(s, i)) = w
  BY SectorNumbered DEF SectorWord
<1>2. c = IF leaves THEN Failed("SectorLeakage") ELSE [entries |-> made]
  BY <1>1 DEF AggregatedAt, AggregateSource, Contributions
<1>3. DOMAIN groups = G
  BY DEF Grouped
<1>4. /\ \A g \in live : \E k \in G : g = groups[k] /\ Live(s, groups, w, k)
      /\ \A k \in G : Live(s, groups, w, k) => groups[k] \in live
  BY <1>3 DEF Range, Live
<1>5. \A k \in G : groups[k].x \in SUBSET Qubits(s.nqubits)
  <2> SUFFICES ASSUME NEW k \in G PROVE groups[k].x \in SUBSET Qubits(s.nqubits)
    OBVIOUS
  <2>1. PICK j \in 1 .. Len(ts) : ts[j].word.x = groups[k].x
    BY DEF Grouped
  <2> QED
    BY <2>1
<1>6. \A k \in G : DestinationWeight(s, act, groups[k].x) = Cardinality(Xor(w, groups[k].x))
  <2> HIDE DEF w, G
  <2> QED
    BY <1>1, <1>5, DestinationIs
<1>7. leaves <=> ~staying
  <2> HIDE DEF live, act, w
  <2> QED
    BY <1>4, <1>6 DEF Staying
<1>8. IsFailed(Failed("SectorLeakage"))
  BY DEF IsFailed, Failed
<1>9. ~IsFailed([entries |-> made]) /\ [entries |-> made].entries = made
  <2> HIDE DEF made
  <2> QED
    BY DEF IsFailed
<1>10. (IsFailed(c) <=> leaves) /\ (IsFailed(c) => c = Failed("SectorLeakage"))
  <2> HIDE DEF made, leaves
  <2> QED
    BY <1>2, <1>8, <1>9
<1>11. ~IsFailed(c) => Column(s, groups, i) = made /\ c.entries = made
  <2>1. Column(s, groups, i) = IF IsFailed(c) THEN {} ELSE c.entries
    BY DEF Column
  <2> HIDE DEF made, leaves, c
  <2> QED
    BY <1>2, <1>9, <1>10, <2>1
<1>12. ASSUME NEW e \in made
       PROVE  \E k \in G : Live(s, groups, w, k) /\ e = Hop(s, groups, w, k)
  <2>1. PICK g \in live : e = [row |-> RankWords(s, Xor(w, g.x)), value |-> GroupValue(s, act, g)]
    OBVIOUS
  <2>2. PICK k \in G : g = groups[k] /\ Live(s, groups, w, k)
    BY <1>4
  <2> HIDE DEF w
  <2> QED
    BY <2>1, <2>2 DEF Hop
<1>13. ASSUME NEW k \in G, Live(s, groups, w, k)
       PROVE  /\ Hop(s, groups, w, k) \in made
              /\ staying => Xor(w, groups[k].x) \in SectorWords(s)
  <2>1. groups[k] \in live
    BY <1>4, <1>13
  <2>2. Hop(s, groups, w, k) \in made
    BY <2>1 DEF Hop
  <2>3. Xor(w, groups[k].x) \in SUBSET Qubits(s.nqubits)
    BY <1>1, <1>5 DEF Xor, SectorWords, Chosen
  <2>4. staying => Xor(w, groups[k].x) \in SectorWords(s)
    BY <1>13, <2>3 DEF SectorWords, Chosen, Staying
  <2> QED
    BY <2>2, <2>4
<1> HIDE DEF made, leaves, staying, c, live
<1>14. ~IsFailed(c) =>
          /\ c.entries = Column(s, groups, i)
          /\ \A e \in Column(s, groups, i) : \E g \in G :
               Live(s, groups, w, g) /\ e = Hop(s, groups, w, g)
          /\ \A g \in G : Live(s, groups, w, g) =>
               /\ Hop(s, groups, w, g) \in Column(s, groups, i)
               /\ Xor(w, groups[g].x) \in SectorWords(s)
  BY <1>7, <1>10, <1>11, <1>12, <1>13
<1> QED
  BY <1>7, <1>10, <1>14 DEF c, staying

\* The sources a group may move inside the sector are as many as the bound counts.
Moved(s, groups, g) ==
  {i \in 0 .. s.dimension - 1 : Cardinality(Xor(SectorWord(s, i), groups[g].x)) = s.particle_number}
PairsOfWeight(s, v) ==
  IF v % 2 # 0 \/ v \div 2 > s.particle_number \/ v \div 2 > s.nqubits - s.particle_number THEN 0
  ELSE Combination(s, v, v \div 2)
       * Combination(s, s.nqubits - v, s.particle_number - v \div 2)

\* A group moves as many words of the sector inside it as the bound counts.
LEMMA MovedAre ==
  ASSUME NEW s, IsSector(s), NEW groups, NEW g, groups[g].x \in SUBSET Qubits(s.nqubits)
  PROVE  Cardinality(Moved(s, groups, g)) = PairsOfWeight(s, Cardinality(groups[g].x))
<1> DEFINE n == s.nqubits
           p == s.particle_number
           x == groups[g].x
           v == Cardinality(x)
           half == v \div 2
           kept == {w \in Chosen(Qubits(n), p) : Cardinality(Xor(w, x)) = p}
           h == [i \in Moved(s, groups, g) |-> SectorWord(s, i)]
<1>1. n \in Nat /\ p \in 0 .. n /\ x \in SUBSET Qubits(n) /\ s.dimension \in Nat
  BY SectorFacts
<1>2. /\ v \in 0 .. n /\ IsFiniteSet(kept)
      /\ v % 2 # 0 => Cardinality(kept) = 0
      /\ v % 2 = 0 => Cardinality(kept) = Count(v, half) * Count(n - v, p - half)
  <2> HIDE DEF n, p, x
  <2> QED
    BY <1>1, MaskKeeps
<1>3. /\ \A i \in Moved(s, groups, g) : h[i] \in kept
      /\ \A i, j \in Moved(s, groups, g) : h[i] = h[j] => i = j
  <2>1. \A i \in 0 .. s.dimension - 1 :
           SectorWord(s, i) \in Chosen(Qubits(n), p) /\ RankWords(s, SectorWord(s, i)) = i
    BY SectorNumbered DEF SectorWords
  <2> HIDE DEF n, p
  <2> QED
    BY <2>1 DEF Moved, p
<1>4. ASSUME NEW w \in kept PROVE \E i \in Moved(s, groups, g) : h[i] = w
  <2> DEFINE i == RankWords(s, w)
  <2>1. w \in SectorWords(s) /\ Cardinality(Xor(w, x)) = p
    BY DEF SectorWords
  <2>2. i \in 0 .. s.dimension - 1 /\ SectorWord(s, i) = w
    BY <2>1, SectorComplete
  <2>3. i \in Moved(s, groups, g)
    BY <2>1, <2>2 DEF Moved
  <2> QED
    BY <2>2, <2>3
<1>5. IsFiniteSet(Moved(s, groups, g))
  <2>1. IsFiniteSet(0 .. s.dimension - 1)
    BY <1>1, FS_Interval
  <2> QED
    BY <2>1, FS_Subset DEF Moved
<1>6. Cardinality(kept) = Cardinality(Moved(s, groups, g))
  <2>1. OneToOne(h, Moved(s, groups, g), kept) /\ Onto(h, Moved(s, groups, g), kept)
    <3> HIDE DEF h, kept
    <3> QED
      BY <1>3, <1>4 DEF OneToOne, Onto
  <2> HIDE DEF h, kept
  <2> QED
    BY <1>5, <2>1, SameCount
<1> HIDE DEF kept
<1>7. CASE v % 2 # 0
  BY <1>2, <1>6, <1>7 DEF PairsOfWeight
<1>8. CASE v % 2 = 0
  <2>1. half \in Nat /\ 2 * half = v /\ v \in Nat /\ n - v \in Nat /\ p \in Nat
    <3> HIDE DEF v, n, p
    <3> QED
      BY <1>1, <1>2, <1>8
  <2>2. Cardinality(kept) = Count(v, half) * Count(n - v, p - half) /\ Count(v, half) \in Nat
    <3>1. half \in Int
      <4> HIDE DEF half
      <4> QED
        BY <2>1
    <3>2. Count(v, half) \in Nat
      <4> HIDE DEF half, v
      <4> QED
        BY <2>1, <3>1, CountNat
    <3> QED
      BY <1>2, <1>8, <3>2
  <2>3. CASE half > p \/ half > n - p
    <3>1. p - half \in Int /\ (p - half < 0 \/ p - half > n - v)
      <4> HIDE DEF half, v, n, p
      <4> QED
        BY <1>1, <2>1, <2>3
    <3>2. Count(n - v, p - half) = 0
      <4> DEFINE k == p - half
                 l == n - v
      <4> HIDE DEF k, l
      <4>1. k \in Int /\ l \in Nat /\ (k < 0 \/ k > l)
        BY <2>1, <3>1 DEF k, l
      <4>2. Count(l, k) = 0
        BY <4>1, CountEnds
      <4> QED
        BY <4>2 DEF k, l
    <3>3. Cardinality(kept) = 0
      <4> HIDE DEF half, v, n, p
      <4> QED
        BY <2>2, <3>2
    <3>4. PairsOfWeight(s, v) = 0
      BY <2>3 DEF PairsOfWeight
    <3> QED
      BY <1>6, <3>3, <3>4
  <2>4. CASE ~(half > p \/ half > n - p)
    <3>1. p - half \in Nat
      <4> HIDE DEF half, v, n, p
      <4> QED
        BY <1>1, <2>1, <2>4
    <3>2. Combination(s, v, half) = Count(v, half)
      <4> HIDE DEF half, v
      <4> QED
        BY <2>1, CombinationIs
    <3>3. Combination(s, n - v, p - half) = Count(n - v, p - half)
      <4> DEFINE k == p - half
                 l == n - v
      <4> HIDE DEF k, l
      <4>1. Combination(s, l, k) = Count(l, k)
        BY <2>1, <3>1, CombinationIs DEF k, l
      <4> QED
        BY <4>1 DEF k, l
    <3>4. PairsOfWeight(s, v) = Combination(s, v, half) * Combination(s, n - v, p - half)
      BY <1>8, <2>4 DEF PairsOfWeight
    <3> QED
      BY <1>6, <2>2, <3>2, <3>3, <3>4
  <2> QED
    BY <2>3, <2>4
<1> QED
  BY <1>7, <1>8

\* The bound adds up what every group may move.
LEMMA BoundCounts ==
  ASSUME NEW s, IsSector(s), NEW groups, NEW N \in Nat, DOMAIN groups = 1 .. N,
         \A g \in 1 .. N : groups[g].x \in SUBSET Qubits(s.nqubits)
  PROVE  TransitionUpperBound(s, groups)
           = Cardinality({e \in (1 .. N) \X (0 .. s.dimension - 1) : e[2] \in Moved(s, groups, e[1])})
<1> DEFINE I == 0 .. s.dimension - 1
           R == {e \in (1 .. N) \X I : e[2] \in Moved(s, groups, e[1])}
           f == [g \in 1 .. N |-> PairsOfWeight(s, Cardinality(groups[g].x))]
<1>1. TransitionUpperBound(s, groups) = SumFunctionOnSet(f, 1 .. N)
  <2>1. TransitionUpperBound(s, groups) = SumFunction(f)
    BY DEF TransitionUpperBound, SumOver, PairsOfWeight
  <2>2. SumFunction(f) = SumFunctionOnSet(f, 1 .. N)
    BY DEF SumFunction
  <2> QED
    BY <2>1, <2>2
<1>2. \A g \in 1 .. N : f[g] = Cardinality(PairedWith(R, g, I))
  <2> SUFFICES ASSUME NEW g \in 1 .. N PROVE f[g] = Cardinality(PairedWith(R, g, I))
    OBVIOUS
  <2>1. PairedWith(R, g, I) = Moved(s, groups, g)
    BY DEF Moved, PairedWith
  <2>2. f[g] = Cardinality(Moved(s, groups, g))
    BY MovedAre
  <2> HIDE DEF f, R
  <2> QED
    BY <2>1, <2>2
<1>3. IsFiniteSet(1 .. N) /\ IsFiniteSet(I)
  <2>1. s.dimension \in Nat
    BY SectorFacts
  <2> QED
    BY <2>1, FS_Interval
<1>4. SumFunctionOnSet(f, 1 .. N) = Cardinality(PairsIn(R, 1 .. N, I))
  <2> HIDE DEF f, R, I
  <2> QED
    BY <1>2, <1>3, PairsCounted
<1>5. PairsIn(R, 1 .. N, I) = R
  BY DEF PairsIn
<1> HIDE DEF f
<1> QED
  BY <1>1, <1>4, <1>5

-----------------------------------------------------------------------------
(* Public order                                                            *)

\* Public order is a strict linear order of the words.
LEMMA BeforeOrders ==
  ASSUME NEW n \in Nat, NEW u \in SUBSET Qubits(n), NEW v \in SUBSET Qubits(n), NEW w \in SUBSET Qubits(n)
  PROVE  /\ ~Before(u, u)
         /\ ~(Before(u, v) /\ Before(v, u))
         /\ Before(u, v) /\ Before(v, w) => Before(u, w)
<1>1. \A q \in u \cup v \cup w : q \in Int
  BY DEF Qubits
<1>2. ~Before(u, u)
  BY DEF Before
<1>3. ASSUME Before(u, v), Before(v, u) PROVE FALSE
  <2>1. PICK q \in v \ u : \A r \in u \ v : q < r
    BY <1>3 DEF Before
  <2>2. PICK p \in u \ v : \A r \in v \ u : p < r
    BY <1>3 DEF Before
  <2>3. q \in Int /\ p \in Int /\ q < p /\ p < q
    BY <1>1, <2>1, <2>2
  <2> QED
    BY <2>3
<1>4. ASSUME Before(u, v), Before(v, w) PROVE Before(u, w)
  <2>1. PICK q \in v \ u : \A r \in u \ v : q < r
    BY <1>4 DEF Before
  <2>2. PICK p \in w \ v : \A r \in v \ w : p < r
    BY <1>4 DEF Before
  <2>3. q \in Int /\ p \in Int /\ q # p
    BY <1>1, <2>1, <2>2
  <2>4. CASE q < p
    <3>1. q \in w \ u
      <4>1. ASSUME q \notin w PROVE FALSE
        <5>1. p < q
          BY <2>1, <2>2, <4>1
        <5> QED
          BY <2>3, <2>4, <5>1
      <4> QED
        BY <2>1, <4>1
    <3>2. ASSUME NEW r \in u \ w PROVE q < r
      <4>0. r \in Int
        BY <1>1
      <4>1. CASE r \in v
        <5>1. p < r
          BY <2>2, <4>1
        <5> QED
          BY <2>3, <2>4, <4>0, <5>1
      <4>2. CASE r \notin v
        BY <2>1, <4>2
      <4> QED
        BY <4>1, <4>2
    <3> QED
      BY <3>1, <3>2 DEF Before
  <2>5. CASE p < q
    <3>1. p \in w \ u
      <4>1. ASSUME p \in u PROVE FALSE
        <5>1. q < p
          BY <2>1, <2>2, <4>1
        <5> QED
          BY <2>3, <2>5, <5>1
      <4> QED
        BY <2>2, <4>1
    <3>2. ASSUME NEW r \in u \ w PROVE p < r
      <4>0. r \in Int
        BY <1>1
      <4>1. CASE r \in v
        BY <2>2, <4>1
      <4>2. CASE r \notin v
        <5>1. q < r
          BY <2>1, <4>2
        <5> QED
          BY <2>3, <2>5, <4>0, <5>1
      <4> QED
        BY <4>1, <4>2
    <3> QED
      BY <3>1, <3>2 DEF Before
  <2> QED
    BY <2>3, <2>4, <2>5
<1> QED
  BY <1>2, <1>3, <1>4

\* A choice that follows another stands for a later word.
LEMMA FollowsLater ==
  ASSUME NEW n \in Nat, NEW m \in Nat, NEW p \in Places(n, m), NEW q \in Places(n, m), Follows(p, q, m)
  PROVE  /\ Before(Occupied(n, q), Occupied(n, p))
         /\ Before(Qubits(n) \ Occupied(n, p), Qubits(n) \ Occupied(n, q))
<1> DEFINE P == Occupied(n, p)
           Q == Occupied(n, q)
<1>1. /\ DOMAIN p = 1 .. m /\ DOMAIN q = 1 .. m
      /\ \A k \in 1 .. m : p[k] \in Nat /\ q[k] \in Nat /\ p[k] < n /\ q[k] < n
      /\ \A j, k \in 1 .. m : j < k => p[j] < p[k] /\ q[j] < q[k]
  BY PlaceFacts, PlacesAreSeq
<1>2. PICK k \in 1 .. m : q[k] < p[k] /\ \A j \in k + 1 .. m : p[j] = q[j]
  BY DEF Follows
<1> DEFINE a == n - p[k] - 1
<1>3. a \in P
  BY <1>1 DEF Occupied
<1>4. a \notin Q
  <2> SUFFICES ASSUME NEW j \in 1 .. m, a = n - q[j] - 1 PROVE FALSE
    BY <1>1 DEF Occupied
  <2>1. p[k] = q[j] /\ p[k] \in Nat /\ q[j] \in Nat /\ q[k] \in Nat
    BY <1>1, <1>2
  <2>2. CASE j = k
    BY <1>2, <2>1, <2>2
  <2>3. CASE j < k
    <3>1. q[j] < q[k]
      BY <1>1, <2>3
    <3> QED
      BY <1>2, <2>1, <3>1
  <2>4. CASE k < j
    <3>1. j \in k + 1 .. m
      BY <2>4
    <3>2. p[j] = q[j] /\ p[k] < p[j]
      BY <1>1, <1>2, <2>4, <3>1
    <3> QED
      BY <2>1, <3>2
  <2> QED
    BY <2>2, <2>3, <2>4
<1>5. ASSUME NEW r \in Q \ P PROVE a < r
  <2>1. PICK j \in 1 .. m : r = n - q[j] - 1
    BY <1>1 DEF Occupied
  <2>2. p[k] \in Nat /\ q[j] \in Nat /\ q[k] \in Nat
    BY <1>1, <1>2
  <2>3. CASE k < j
    <3>1. j \in k + 1 .. m
      BY <2>3
    <3>2. r = n - p[j] - 1
      BY <1>2, <2>1, <3>1
    <3> QED
      BY <1>1, <3>2 DEF Occupied
  <2>4. CASE j <= k
    <3>1. q[j] <= q[k]
      <4>1. CASE j = k
        BY <2>2, <4>1
      <4>2. CASE j < k
        <5>1. q[j] < q[k]
          BY <1>1, <4>2
        <5> QED
          BY <2>2, <5>1
      <4> QED
        BY <2>4, <4>1, <4>2
    <3> QED
      BY <1>2, <2>1, <2>2, <3>1
  <2> QED
    BY <2>3, <2>4
<1>6. P \in SUBSET Qubits(n) /\ Q \in SUBSET Qubits(n)
  BY OccupiedFacts DEF Chosen
<1> HIDE DEF P, Q
<1>7. Before(Q, P)
  BY <1>3, <1>4, <1>5 DEF Before
<1>8. Before(Qubits(n) \ P, Qubits(n) \ Q)
  <2>1. /\ a \in (Qubits(n) \ Q) \ (Qubits(n) \ P)
        /\ \A r \in (Qubits(n) \ P) \ (Qubits(n) \ Q) : r \in Q \ P
    BY <1>3, <1>4, <1>6
  <2> HIDE DEF a
  <2> QED
    BY <1>5, <2>1 DEF Before
<1> QED
  BY <1>7, <1>8 DEF P, Q

\* The columns of a sector come in public order.
LEMMA WordsAscend ==
  ASSUME NEW s, IsSector(s)
  PROVE  \A i, j \in 0 .. s.dimension - 1 : i < j <=> Before(SectorWord(s, i), SectorWord(s, j))
<1> DEFINE D == s.dimension
           n == s.nqubits
           I == 0 .. D - 1
           W(i) == SectorWord(s, i)
           O(i) == Occupied(n, Standing(s, i))
<1>1. D \in Nat /\ n \in Nat /\ s.complement \in BOOLEAN /\ s.active_number \in Nat
  BY SectorFacts
<1>2. ASSUME NEW i \in I
      PROVE  /\ Standing(s, i) \in Places(n, s.active_number)
             /\ W(i) = IF s.complement THEN Qubits(n) \ O(i) ELSE O(i)
             /\ W(i) \in SUBSET Qubits(n)
  <2>1. Standing(s, i) \in Places(n, s.active_number) /\ W(i) \in SectorWords(s)
    BY SectorNumbered
  <2>2. W(i) = Active(s, O(i))
    BY DEF SectorWord, PackedWord, ActiveQubits, Occupied
  <2> QED
    BY <2>1, <2>2 DEF Active, SectorWords, Chosen
<1>3. ASSUME NEW i \in I, i + 1 < D PROVE Before(W(i), W(i + 1))
  <2>1. i + 1 \in I
    BY <1>1, <1>3
  <2>2. IF s.complement
        THEN Follows(Standing(s, i), Standing(s, i + 1), s.active_number)
        ELSE Follows(Standing(s, i + 1), Standing(s, i), s.active_number)
    BY <1>3, IteratorSteps
  <2>3. /\ Standing(s, i) \in Places(n, s.active_number)
        /\ Standing(s, i + 1) \in Places(n, s.active_number)
    BY <1>2, <2>1
  <2>4. CASE s.complement
    <3>1. Before(Qubits(n) \ O(i), Qubits(n) \ O(i + 1))
      BY <1>1, <2>2, <2>3, <2>4, FollowsLater
    <3> QED
      BY <1>2, <2>1, <2>4, <3>1
  <2>5. CASE ~s.complement
    <3>1. Before(O(i), O(i + 1))
      BY <1>1, <2>2, <2>3, <2>5, FollowsLater
    <3> QED
      BY <1>2, <2>1, <2>5, <3>1
  <2> QED
    BY <1>1, <2>4, <2>5
<1>4. \A i \in I : W(i) \in SUBSET Qubits(n)
  BY <1>2
<1> HIDE DEF W
<1>5. ASSUME NEW i \in I PROVE \A j \in I : i < j => Before(W(i), W(j))
  <2> DEFINE T == {k \in 0 .. D : k < D /\ i < k => Before(W(i), W(k))}
  <2>1. 0 \in T
    BY <1>1
  <2>2. ASSUME NEW k \in 1 .. D, k - 1 \in T PROVE k \in T
    <3> SUFFICES ASSUME k < D, i < k PROVE Before(W(i), W(k))
      BY <1>1
    <3> DEFINE j == k - 1
    <3>1. j \in I /\ j + 1 = k /\ j + 1 < D /\ k \in I
      BY <1>1
    <3>2. Before(W(j), W(k))
      BY <1>3, <3>1
    <3>3. CASE i = j
      BY <3>2, <3>3
    <3>4. CASE i # j
      <4>1. i < j /\ j < D
        BY <1>1, <3>1, <3>4
      <4>2. Before(W(i), W(j))
        BY <2>2, <4>1
      <4> HIDE DEF j
      <4>3. W(i) \in SUBSET Qubits(n) /\ W(j) \in SUBSET Qubits(n) /\ W(k) \in SUBSET Qubits(n)
        BY <1>4, <3>1
      <4> HIDE DEF n
      <4> QED
        BY <1>1, <3>2, <4>2, <4>3, BeforeOrders
    <3> QED
      BY <3>3, <3>4
  <2>3. \A k \in 0 .. D : k \in T
    <3> HIDE DEF T, D
    <3> QED
      BY <1>1, <2>1, <2>2, UpTo
  <2> QED
    BY <1>1, <2>3
<1>6. ASSUME NEW i \in I, NEW j \in I, Before(W(i), W(j)) PROVE i < j
  <2>1. W(i) \in SUBSET Qubits(n) /\ W(j) \in SUBSET Qubits(n)
    BY <1>4
  <2>2. i # j /\ ~Before(W(j), W(i))
    <3> HIDE DEF n
    <3> QED
      BY <1>1, <1>6, <2>1, BeforeOrders
  <2>3. ~(j < i)
    BY <1>5, <2>2
  <2> QED
    BY <1>1, <2>2, <2>3
<1> QED
  BY <1>5, <1>6 DEF W

\* The reference takes the words of the sector in the order of its columns.
LEMMA OrderIs ==
  ASSUME NEW s, IsSector(s)
  PROVE  LET M == WordsInOrder(s.nqubits, s.particle_number)
         IN  /\ DOMAIN M = 1 .. s.dimension
             /\ \A i \in 1 .. s.dimension : M[i] = SectorWord(s, i - 1)
<1> DEFINE D == s.dimension
           I == 0 .. D - 1
           n == s.nqubits
           words == {w \in SUBSET Qubits(n) : Cardinality(w) = s.particle_number}
           Ahead(w) == {v \in words : Before(v, w)}
           M == WordsInOrder(n, s.particle_number)
<1>1. D \in Nat /\ n \in Nat /\ s.particle_number \in Int /\ D = Count(n, s.particle_number)
  BY SectorFacts
<1>2. words = SectorWords(s)
  BY DEF SectorWords, Chosen
<1>3. Cardinality(words) = D
  <2>1. IsFiniteSet(Qubits(n)) /\ Cardinality(Qubits(n)) = n
    BY <1>1, QubitsCount
  <2>2. Cardinality(Chosen(Qubits(n), s.particle_number)) = Count(n, s.particle_number)
    BY <1>1, <2>1, CountOf
  <2> QED
    BY <1>1, <1>2, <2>2 DEF SectorWords
<1>4. /\ \A i \in I : SectorWord(s, i) \in words /\ RankWords(s, SectorWord(s, i)) = i
      /\ \A w \in words : RankWords(s, w) \in I /\ SectorWord(s, RankWords(s, w)) = w
  BY <1>2, SectorNumbered, SectorComplete
<1>5. M = [i \in 1 .. D |-> CHOOSE w \in words : Cardinality(Ahead(w)) = i - 1]
  BY <1>3 DEF WordsInOrder
<1> HIDE DEF words
<1>6. ASSUME NEW j \in I PROVE Cardinality(Ahead(SectorWord(s, j))) = j
  <2> DEFINE h == [i \in 0 .. j - 1 |-> SectorWord(s, i)]
             A == Ahead(SectorWord(s, j))
             J == 0 .. j - 1
  <2>0. j \in Nat /\ \A i \in J : i \in I /\ i < j
    BY <1>1
  <2>1. OneToOne(h, J, A)
    <3>1. \A i \in J : h[i] \in A
      BY <1>4, <2>0, WordsAscend
    <3>2. \A i, k \in J : h[i] = h[k] => i = k
      <4> SUFFICES ASSUME NEW i \in J, NEW k \in J, h[i] = h[k] PROVE i = k
        OBVIOUS
      <4>1. SectorWord(s, i) = SectorWord(s, k)
        OBVIOUS
      <4>2. RankWords(s, SectorWord(s, i)) = i /\ RankWords(s, SectorWord(s, k)) = k
        BY <1>4, <2>0
      <4> QED
        BY <4>1, <4>2
    <3> QED
      BY <3>1, <3>2 DEF OneToOne
  <2>2. Onto(h, J, A)
    <3> SUFFICES ASSUME NEW v \in A PROVE \E i \in J : h[i] = v
      BY DEF Onto
    <3>1. RankWords(s, v) \in I /\ SectorWord(s, RankWords(s, v)) = v /\ Before(v, SectorWord(s, j))
      BY <1>4
    <3>2. RankWords(s, v) < j
      BY <3>1, WordsAscend
    <3> QED
      BY <3>1, <3>2
  <2>3. IsFiniteSet(J) /\ Cardinality(J) = j
    <3>1. CASE j = 0
      BY <3>1, FS_EmptySet
    <3>2. CASE j # 0
      BY <2>0, <3>2, FS_Interval
    <3> QED
      BY <3>1, <3>2
  <2>4. Cardinality(A) = Cardinality(J)
    <3> HIDE DEF h, A, J
    <3> QED
      BY <2>1, <2>2, <2>3, SameCount
  <2> QED
    BY <2>3, <2>4
<1> HIDE DEF Ahead
<1>7. ASSUME NEW i \in 1 .. D PROVE M[i] = SectorWord(s, i - 1)
  <2> DEFINE w == SectorWord(s, i - 1)
             v == CHOOSE u \in words : Cardinality(Ahead(u)) = i - 1
  <2>1. i - 1 \in I
    BY <1>1
  <2>2. w \in words /\ Cardinality(Ahead(w)) = i - 1
    BY <1>4, <1>6, <2>1
  <2>3. v \in words /\ Cardinality(Ahead(v)) = i - 1
    <3> HIDE DEF w
    <3> QED
      BY <2>2
  <2>4. M[i] = v
    BY <1>5
  <2> HIDE DEF v
  <2>5. RankWords(s, v) \in I /\ SectorWord(s, RankWords(s, v)) = v
    BY <1>4, <2>3
  <2>6. Cardinality(Ahead(v)) = RankWords(s, v)
    BY <1>6, <2>5
  <2> QED
    BY <2>3, <2>4, <2>5, <2>6
<1>8. DOMAIN M = 1 .. D
  BY <1>5
<1> QED
  BY <1>7, <1>8

-----------------------------------------------------------------------------
(* Groups and matrix elements                                              *)

\* The parity of a Z mask, from particles or from holes, is that of the word.
LEMMA SignIs ==
  ASSUME NEW s, IsSector(s), NEW w \in SectorWords(s), NEW z \in SUBSET Qubits(s.nqubits)
  PROVE  ZParity(s, Active(s, w), z) = 0 <=> ~Odd(z \cap w)
<1> DEFINE Q == Qubits(s.nqubits)
           c == Cardinality(z \cap w)
           d == Cardinality((Q \ w) \cap z)
           e == Cardinality(z)
<1>1. /\ IsFiniteSet(Q) /\ w \in SUBSET Q /\ s.complement \in BOOLEAN
  BY SectorFacts, QubitsCount DEF SectorWords, Chosen
<1>2. IsFiniteSet(z) /\ z \cap w \in SUBSET z /\ z \ (z \cap w) = (Q \ w) \cap z
  BY <1>1, FS_Subset
<1>3. c \in Nat /\ d \in Nat /\ e = c + d
  <2>1. /\ Cardinality(z \cap w) \in Nat /\ Cardinality(z \ (z \cap w)) \in Nat
        /\ Cardinality(z) = Cardinality(z \cap w) + Cardinality(z \ (z \cap w))
    BY <1>2, CountLeft
  <2> QED
    BY <1>2, <2>1
<1>4. Odd(z \cap w) <=> c % 2 = 1
  BY DEF Odd
<1>5. c % 2 = 0 \/ c % 2 = 1
  <2> HIDE DEF c
  <2> QED
    BY <1>3
<1>6. CASE s.complement
  <2>1. ZParity(s, Active(s, w), z) = (d + e) % 2
    BY <1>6 DEF ZParity, Active
  <2>2. (d + e) % 2 = c % 2
    <3> HIDE DEF c, d, e
    <3>1. d + e = c + 2 * d
      BY <1>3
    <3>2. (c + 2 * d) % 2 = c % 2
      BY <1>3
    <3> QED
      BY <3>1, <3>2
  <2> HIDE DEF c, d, e
  <2> QED
    BY <1>4, <1>5, <2>1, <2>2
<1>7. CASE ~s.complement
  <2>1. w \cap z = z \cap w
    OBVIOUS
  <2>2. ZParity(s, Active(s, w), z) = (c + 0) % 2
    BY <1>7, <2>1 DEF ZParity, Active
  <2>3. c + 0 = c
    BY <1>3
  <2> HIDE DEF c
  <2> QED
    BY <1>4, <1>5, <2>2, <2>3
<1> QED
  BY <1>1, <1>6, <1>7

\* What a term adds to the matrix element it leads to.
Addend(op, w) == [k \in DOMAIN op.terms |-> Times(op.terms[k].coefficient, ActionPhase(op.terms[k].word, w))]

\* A group adds up its terms to one matrix element; the others are zero.
LEMMA EntriesAre ==
  ASSUME NEW s, IsSector(s), NEW op, IsOperator(op), op.nqubits = s.nqubits,
         NEW groups, Grouped(groups, op.terms),
         \A k \in 1 .. Len(op.terms) :
              /\ op.terms[k].word.x \in SUBSET Qubits(op.nqubits)
              /\ op.terms[k].word.z \in SUBSET Qubits(op.nqubits)
              /\ op.terms[k].coefficient \in Complex,
         NEW w \in SectorWords(s)
  PROVE  /\ \A row : Entry(op, row, w) \in Complex
         /\ \A g \in 1 .. Len(groups) :
              GroupValue(s, Active(s, w), groups[g]) = Entry(op, Xor(w, groups[g].x), w)
         /\ \A row : Entry(op, row, w) # Zero =>
              \E g \in 1 .. Len(groups) : row = Xor(w, groups[g].x)
<1> DEFINE ts == op.terms
           N == Len(ts)
           F == Addend(op, w)
           Leading(row) == {k \in DOMAIN ts : Xor(w, ts[k].word.x) = row}
<1>1. ts \in Seq([word : Words(op.nqubits), coefficient : Complex]) /\ N \in Nat /\ DOMAIN ts = 1 .. N
      /\ op.nqubits \in Nat
  BY DEF IsOperator
<1>2. DOMAIN F = 1 .. N /\ \A k \in 1 .. N : F[k] = Times(ts[k].coefficient, ActionPhase(ts[k].word, w)) /\ F[k] \in Complex
  <2>1. \A k \in 1 .. N : F[k] = Times(ts[k].coefficient, ActionPhase(ts[k].word, w))
    BY <1>1 DEF Addend
  <2>2. \A k \in 1 .. N : ActionPhase(ts[k].word, w) \in Complex
    BY <1>1, PhaseIs
  <2>3. DOMAIN F = 1 .. N
    BY <1>1 DEF Addend
  <2> QED
    BY <2>1, <2>2, <2>3, ComplexFacts
<1>3. \A row : Entry(op, row, w) = Total(Leading(row), F)
  BY DEF Entry, Addend
<1>4. ASSUME NEW A \in SUBSET (1 .. N) PROVE IsFiniteSet(A) /\ ComplexOn(F, A)
  <2>1. IsFiniteSet(1 .. N)
    BY <1>1, FS_Interval
  <2> HIDE DEF F, N
  <2> QED
    BY <1>2, <2>1, FS_Subset DEF ComplexOn
<1>5. \A row : Leading(row) \in SUBSET (1 .. N)
  BY <1>1
<1> HIDE DEF F
<1>6. \A row : Entry(op, row, w) \in Complex
  <2> SUFFICES ASSUME NEW row PROVE Entry(op, row, w) \in Complex
    OBVIOUS
  <2> DEFINE A == Leading(row)
  <2>1. A \in SUBSET (1 .. N)
    BY <1>5
  <2>2. IsFiniteSet(A) /\ ComplexOn(F, A)
    BY <1>4, <2>1
  <2>3. Entry(op, row, w) = Total(A, F)
    BY <1>3
  <2> HIDE DEF A
  <2> QED
    BY <2>2, <2>3, ComplexParts
<1>7. ASSUME NEW row, Entry(op, row, w) # Zero
      PROVE  \E g \in 1 .. Len(groups) : row = Xor(w, groups[g].x)
  <2>1. Leading(row) # {}
    BY <1>3, <1>7, ComplexNone
  <2>2. PICK k \in 1 .. N : Xor(w, ts[k].word.x) = row
    BY <1>1, <2>1
  <2> QED
    BY <2>2 DEF Grouped
<1>8. ASSUME NEW g \in 1 .. Len(groups)
      PROVE  GroupValue(s, Active(s, w), groups[g]) = Entry(op, Xor(w, groups[g].x), w)
  <2> DEFINE x == groups[g].x
             spots == {k \in DOMAIN ts : ts[k].word.x = x}
             mine == Kept(ts, spots)
             M == Len(mine)
             act == Active(s, w)
             V == [k \in DOMAIN groups[g].terms |->
                     IF ZParity(s, act, groups[g].terms[k].z) = 0 THEN groups[g].terms[k].coefficient
                     ELSE Neg(groups[g].terms[k].coefficient)]
  <2>1. mine \in Seq([word : Words(op.nqubits), coefficient : Complex])
        /\ \E index : KeepsAt(mine, N, ts, spots, index)
    <3> HIDE DEF spots, ts
    <3> QED
      BY <1>1, KeptElements
  <2>2. PICK index : KeepsAt(mine, N, ts, spots, index)
    BY <2>1
  <2>3. M \in Nat /\ DOMAIN mine = 1 .. M
    <3> HIDE DEF mine
    <3> QED
      BY <2>1
  <2>4. groups[g].terms = [k \in DOMAIN mine |-> Weighted(mine[k])]
    BY DEF Grouped, WeightedTerms, Sharing
  <2>5. Leading(Xor(w, x)) = spots
    <3> SUFFICES ASSUME NEW k \in DOMAIN ts PROVE Xor(w, ts[k].word.x) = Xor(w, x) <=> ts[k].word.x = x
      OBVIOUS
    <3> QED
      BY XorOnce
  <2>6. ASSUME NEW k \in 1 .. M PROVE V[k] = F[index[k]]
    <3> DEFINE i == index[k]
               t == ts[i]
    <3>1. i \in 1 .. N /\ mine[k] = t
      BY <2>2 DEF KeepsAt
    <3>2. groups[g].terms[k] = Weighted(t)
      BY <2>3, <2>4, <3>1
    <3>3. V[k] = IF ZParity(s, act, Weighted(t).z) = 0 THEN Weighted(t).coefficient
                 ELSE Neg(Weighted(t).coefficient)
      BY <2>3, <2>4, <3>2
    <3>4. Weighted(t).z = t.word.z /\ Weighted(t).coefficient = Times(t.coefficient, YPhase(t.word))
      BY DEF Weighted
    <3>5. ZParity(s, act, t.word.z) = 0 <=> ~Odd(t.word.z \cap w)
      BY <3>1, SignIs
    <3>6. F[i] = Times(t.coefficient, IF Odd(t.word.z \cap w) THEN Neg(YPhase(t.word)) ELSE YPhase(t.word))
      BY <1>2, <3>1 DEF ActionPhase
    <3>7. t.coefficient \in Complex /\ YPhase(t.word) \in Complex
      BY <1>1, <3>1, PhaseIs
    <3>8. Neg(Times(t.coefficient, YPhase(t.word))) = Times(t.coefficient, Neg(YPhase(t.word)))
      BY <3>7, ComplexFacts
    <3> HIDE DEF V, t, i, act
    <3>9. V[k] = F[i]
      BY <3>3, <3>4, <3>5, <3>6, <3>8
    <3> QED
      BY <3>9 DEF i
  <2>7. Numbers(index, 1 .. M, spots)
    <3>1. \A k \in 1 .. M : index[k] \in spots /\ index[k] \in Int
      BY <2>2 DEF KeepsAt
    <3>2. \A i \in spots : \E k \in 1 .. M : index[k] = i
      BY <1>1, <2>2 DEF KeepsAt
    <3>3. \A j, k \in 1 .. M : j < k => index[j] < index[k]
      BY <2>2 DEF KeepsAt
    <3>4. \A j, k \in 1 .. M : index[j] = index[k] => j = k
      <4> SUFFICES ASSUME NEW j \in 1 .. M, NEW k \in 1 .. M, index[j] = index[k], j # k PROVE FALSE
        OBVIOUS
      <4>1. j < k \/ k < j
        BY <2>3
      <4>2. index[j] < index[k] \/ index[k] < index[j]
        BY <3>3, <4>1
      <4> QED
        BY <3>1, <4>2
    <3> HIDE DEF spots, M
    <3> QED
      BY <3>1, <3>2, <3>4 DEF Numbers
  <2>8. Along(V, F, index, 1 .. M)
    <3> HIDE DEF V, M
    <3> QED
      BY <2>6 DEF Along
  <2>9. spots \in SUBSET (1 .. N)
    BY <1>1
  <2>10. IsFiniteSet(1 .. M)
    BY <2>3, FS_Interval
  <2>11. Total(1 .. M, V) = Total(spots, F)
    <3>1. IsFiniteSet(spots) /\ ComplexOn(F, spots)
      <4> HIDE DEF spots, N
      <4> QED
        BY <1>4, <2>9
    <3> HIDE DEF spots, M, V
    <3> QED
      BY <2>7, <2>8, <2>10, <3>1, ComplexReindex
  <2>12. DOMAIN V = 1 .. M
    BY <2>3, <2>4
  <2>13. GroupValue(s, act, groups[g]) = Total(DOMAIN V, V)
    BY DEF GroupValue, TotalOf
  <2> HIDE DEF V, spots, M
  <2> QED
    BY <1>3, <2>5, <2>11, <2>12, <2>13
<1> QED
  BY <1>6, <1>7, <1>8


-----------------------------------------------------------------------------
(* Locks                                                                   *)

Label == {"idle", "apply", "lazy_read", "lazy_wait", "lazy_locked", "lazy_check", "eager_read",
          "eager_wait", "eager_locked", "building", "constructing", "materialize", "done"}
Locked == {"lazy_locked", "eager_locked", "building"}

LabelInv == pc \in [Thread -> Label]
\* Whoever is past the lock owns it.
OwnerInv == \A t \in Thread : pc[t] \in Locked => lock = {t}
\* A graph is built only while none is cached.
BuildInv == \A t \in Thread : pc[t] = "building" => IsNone(eager)
\* Until the object is constructed nobody uses it and nothing is cached.
SharedInv ==
    storage = "absent" =>
        IsNone(eager) /\ \A t \in Thread : pc[t] \in {"idle", "constructing", "done"}
\* The thread that constructs it is alone.
AloneInv ==
    \A t \in Thread : pc[t] = "constructing" =>
        storage = "absent" /\ \A u \in Thread \ {t} : pc[u] = "idle"
LockInv == LabelInv /\ OwnerInv /\ BuildInv /\ SharedInv /\ AloneInv

\* Nothing is cached, locked or built at first.
LEMMA LockInit == Init => LockInv
BY DEF Init, LockInv, LabelInv, OwnerInv, BuildInv, SharedInv, AloneInv, Label, Locked, None, IsNone

\* A step that moves one thread to a label outside the lock, or leaves it,
\* and does not touch the lock, the graph or the construction.
LEMMA MoveOutside ==
    ASSUME LockInv, NEW t \in Thread, NEW label \in Label \ (Locked \cup {"constructing"}),
           storage # "absent" \/ label = "done", pc' = [pc EXCEPT ![t] = label],
           pc[t] \notin Locked, storage = "absent" => \A u \in Thread : pc[u] = "idle",
           UNCHANGED <<lock, eager, storage>>
    PROVE  LockInv'
BY DEF LockInv, LabelInv, OwnerInv, BuildInv, SharedInv, AloneInv, Label, Locked, IsNone

\* A thread that leaves the lock gives it back.
LEMMA MoveOut ==
    ASSUME LockInv, NEW t \in Thread, pc[t] \in Locked,
           NEW label \in {"lazy_check", "materialize", "done"},
           pc' = [pc EXCEPT ![t] = label], lock' = {}, UNCHANGED storage
    PROVE  LockInv'
BY DEF LockInv, LabelInv, OwnerInv, BuildInv, SharedInv, AloneInv, Label, Locked, IsNone

\* Every action keeps the discipline.
LEMMA LockStep == LockInv /\ [Next]_vars => LockInv'
<1> SUFFICES ASSUME LockInv, [Next]_vars PROVE LockInv'
  OBVIOUS
<1> USE DEF Go, Done
<1>1. ASSUME NEW t \in Thread, ConstructLazy(t) PROVE LockInv'
  BY <1>1 DEF ConstructLazy, LockInv, LabelInv, OwnerInv, BuildInv, SharedInv, AloneInv,
              Label, Locked, IsNone
<1>2. ASSUME NEW t \in Thread, ConstructEager(t) PROVE LockInv'
  <2>1. \/ pc' = [pc EXCEPT ![t] = "done"]
        \/ pc' = [pc EXCEPT ![t] = "constructing"]
    BY <1>2 DEF ConstructEager
  <2> QED
    BY <1>2, <2>1 DEF ConstructEager, LockInv, LabelInv, OwnerInv, BuildInv, SharedInv, AloneInv,
                      Label, Locked, IsNone
<1>3. ASSUME NEW t \in Thread, FinishConstruction(t) PROVE LockInv'
  BY <1>3 DEF FinishConstruction, LockInv, LabelInv, OwnerInv, BuildInv, SharedInv, AloneInv,
              Label, Locked, IsNone
<1>4. ASSUME NEW t \in Thread, Start(t) PROVE LockInv'
  <2>1. PICK label \in {"apply", "lazy_read", "eager_read"} : pc' = [pc EXCEPT ![t] = label]
    BY <1>4 DEF Start
  <2> QED
    BY <1>4, <2>1, MoveOutside DEF Start, Label, Locked
<1>5. ASSUME NEW t \in Thread, Apply(t) PROVE LockInv'
  <2>1. storage # "absent"
    BY <1>5 DEF Apply, LockInv, SharedInv
  <2> QED
    BY <1>5, <2>1, MoveOutside DEF Apply, Label, Locked
<1>6. ASSUME NEW t \in Thread, ReadLazy(t) PROVE LockInv'
  <2>1. storage # "absent"
    BY <1>6 DEF ReadLazy, LockInv, SharedInv
  <2>2. PICK label \in {"lazy_wait", "lazy_check"} : pc' = [pc EXCEPT ![t] = label]
    BY <1>6 DEF ReadLazy
  <2> QED
    BY <1>6, <2>1, <2>2, MoveOutside DEF ReadLazy, Label, Locked
<1>7. ASSUME NEW t \in Thread, ReadEager(t) PROVE LockInv'
  <2>1. storage # "absent"
    BY <1>7 DEF ReadEager, LockInv, SharedInv
  <2>2. PICK label \in {"eager_wait", "materialize", "done"} : pc' = [pc EXCEPT ![t] = label]
    BY <1>7 DEF ReadEager
  <2> QED
    BY <1>7, <2>1, <2>2, MoveOutside DEF ReadEager, Label, Locked
<1>8. ASSUME NEW t \in Thread, Acquire(t) PROVE LockInv'
  <2>1. \/ pc' = [pc EXCEPT ![t] = "lazy_locked"]
        \/ pc' = [pc EXCEPT ![t] = "eager_locked"]
    BY <1>8 DEF Acquire
  <2>2. \A u \in Thread : pc[u] \notin Locked
    BY <1>8 DEF Acquire, LockInv, OwnerInv
  <2> QED
    BY <1>8, <2>1, <2>2 DEF Acquire, LockInv, LabelInv, OwnerInv, BuildInv, SharedInv, AloneInv,
                            Label, Locked, IsNone
<1>9. ASSUME NEW t \in Thread, EnsureLazy(t) PROVE LockInv'
  <2>1. PICK label \in {"lazy_check", "done"} : pc' = [pc EXCEPT ![t] = label]
    BY <1>9 DEF EnsureLazy
  <2> QED
    BY <1>9, <2>1, MoveOut DEF EnsureLazy, Locked
<1>10. ASSUME NEW t \in Thread, ReturnLazy(t) PROVE LockInv'
  <2>1. storage # "absent"
    BY <1>10 DEF ReturnLazy, LockInv, SharedInv
  <2> QED
    BY <1>10, <2>1, MoveOutside DEF ReturnLazy, Label, Locked
<1>11. ASSUME NEW t \in Thread, BeginBuild(t) PROVE LockInv'
  <2>1. \/ lock' = {} /\ \E label \in {"materialize", "done"} : pc' = [pc EXCEPT ![t] = label]
        \/ IsNone(eager) /\ UNCHANGED lock /\ pc' = [pc EXCEPT ![t] = "building"]
    BY <1>11 DEF BeginBuild
  <2>2. pc[t] = "eager_locked" /\ UNCHANGED <<storage, eager>>
    BY <1>11 DEF BeginBuild
  <2>3. CASE lock' = {} /\ \E label \in {"materialize", "done"} : pc' = [pc EXCEPT ![t] = label]
    BY <2>2, <2>3, MoveOut DEF Locked
  <2>4. CASE IsNone(eager) /\ UNCHANGED lock /\ pc' = [pc EXCEPT ![t] = "building"]
    BY <2>2, <2>4 DEF LockInv, LabelInv, OwnerInv, BuildInv, SharedInv, AloneInv,
                      Label, Locked, IsNone
  <2> QED
    BY <2>1, <2>3, <2>4
<1>12. ASSUME NEW t \in Thread, Aggregate(t) PROVE LockInv'
  <2>1. \/ lock' = lock \ {t} /\ pc' = [pc EXCEPT ![t] = "done"]
        \/ UNCHANGED <<pc, lock>>
    BY <1>12 DEF Aggregate
  <2>2. pc[t] \in {"building", "constructing"} /\ UNCHANGED <<storage, eager>>
    BY <1>12 DEF Aggregate
  <2>3. CASE lock' = lock \ {t} /\ pc' = [pc EXCEPT ![t] = "done"]
    <3>1. CASE pc[t] = "building"
      <4>1. lock' = {}
        BY <2>3, <3>1 DEF LockInv, OwnerInv, Locked
      <4> QED
        BY <2>2, <2>3, <3>1, <4>1, MoveOut DEF Locked
    <3>2. CASE pc[t] = "constructing"
      BY <2>2, <2>3, <3>2 DEF LockInv, LabelInv, OwnerInv, BuildInv, SharedInv, AloneInv,
                              Label, Locked, IsNone
    <3> QED
      BY <2>2, <3>1, <3>2
  <2>4. CASE UNCHANGED <<pc, lock>>
    BY <2>2, <2>4 DEF LockInv, LabelInv, OwnerInv, BuildInv, SharedInv, AloneInv, IsNone
  <2> QED
    BY <2>1, <2>3, <2>4
<1>13. ASSUME NEW t \in Thread, Turn(t) PROVE LockInv'
  BY <1>13 DEF Turn, facadeVars, LockInv, LabelInv, OwnerInv, BuildInv, SharedInv, AloneInv, IsNone
<1>14. ASSUME NEW t \in Thread, Install(t) PROVE LockInv'
  <2>1. PICK label \in {"materialize", "done"} : pc' = [pc EXCEPT ![t] = label]
    BY <1>14 DEF Install
  <2>2. pc[t] = "building" /\ lock' = {} /\ UNCHANGED storage
    BY <1>14 DEF Install
  <2> QED
    BY <2>1, <2>2, MoveOut DEF Locked
<1>15. ASSUME NEW t \in Thread, Materialize(t) PROVE LockInv'
  <2>1. storage # "absent"
    BY <1>15 DEF Materialize, LockInv, SharedInv
  <2> QED
    BY <1>15, <2>1, MoveOutside DEF Materialize, Label, Locked
<1>16. CASE UNCHANGED vars
  BY <1>16 DEF vars, facadeVars, LockInv, LabelInv, OwnerInv, BuildInv, SharedInv, AloneInv, IsNone
<1> QED
  BY <1>1, <1>2, <1>3, <1>4, <1>5, <1>6, <1>7, <1>8, <1>9, <1>10, <1>11, <1>12, <1>13, <1>14,
     <1>15, <1>16 DEF Next

\* The discipline holds in every reachable state.
LEMMA LockInvariant == Spec => []LockInv
BY LockInit, LockStep, PTL DEF Spec

\* However many threads share the facade, none builds a transition graph while
\* one is cached, and never two at once: the reads outside the lock in
\* _ensure_eager_for_target are made good by the one inside it.
THEOREM OneGraphBuild == Spec => []NoBuildBesideCache
<1>1. LockInv => NoBuildBesideCache
  BY DEF LockInv, OwnerInv, BuildInv, NoBuildBesideCache, Locked
<1> QED
  BY <1>1, LockInvariant, PTL

\* A cached graph is never replaced or dropped: who was handed it by one call
\* reads the same in the next.
THEOREM GraphIsKept == Spec => [][~IsNone(eager) => UNCHANGED eager]_vars
<1>1. LockInv /\ [Next]_vars => [~IsNone(eager) => UNCHANGED eager]_vars
  <2> SUFFICES ASSUME LockInv, Next, ~IsNone(eager) PROVE UNCHANGED eager
    OBVIOUS
  <2> PICK t \in Thread :
        \/ ConstructLazy(t) \/ ConstructEager(t) \/ FinishConstruction(t)
        \/ Start(t) \/ Apply(t) \/ ReadLazy(t) \/ ReadEager(t) \/ Acquire(t)
        \/ EnsureLazy(t) \/ ReturnLazy(t)
        \/ BeginBuild(t) \/ Aggregate(t) \/ Turn(t) \/ Install(t) \/ Materialize(t)
    BY DEF Next
  <2>1. ~FinishConstruction(t)
    BY DEF FinishConstruction, LockInv, SharedInv, AloneInv
  <2>2. ~Install(t)
    BY DEF Install, LockInv, BuildInv
  <2>3. CASE ConstructLazy(t) \/ ConstructEager(t) \/ Start(t) \/ Apply(t) \/ ReadLazy(t)
    BY <2>3 DEF ConstructLazy, ConstructEager, Start, Apply, ReadLazy
  <2>4. CASE ReadEager(t) \/ Acquire(t) \/ EnsureLazy(t) \/ ReturnLazy(t) \/ BeginBuild(t)
    BY <2>4 DEF ReadEager, Acquire, EnsureLazy, ReturnLazy, BeginBuild
  <2>5. CASE Aggregate(t) \/ Turn(t) \/ Materialize(t)
    BY <2>5 DEF Aggregate, Turn, Materialize, facadeVars
  <2> QED
    BY <2>1, <2>2, <2>3, <2>4, <2>5
<1> QED
  BY <1>1, LockInvariant, PTL DEF Spec

-----------------------------------------------------------------------------
(* The two passes by themselves, for any number of rows and any entries    *)
(* that both passes compute alike: the second pass stays inside the cells  *)
(* the first one counted, fills them all, and leaves exactly the entries.  *)

Row(D) == 0..D - 1

\* The entries of a source lie in different rows.
Setting(D, E) ==
    /\ D \in Nat
    /\ \A c \in Row(D) : \A e \in E[c] : e.row \in Row(D)
    /\ \A c \in Row(D) : \A e, f \in E[c] : e.row = f.row => e = f

FillInit(D, E) ==
    /\ Setting(D, E)
    /\ pass = "count" /\ source = 0 /\ sized = 0
    /\ counts = [r \in Row(D) |-> 0]
    /\ indptr = [r \in 0..D |-> 0]
    /\ next = [r \in Row(D) |-> 0]
    /\ cells = [k \in {} |-> Blank]

FillNext(E) ==
    \/ CountSource(E[source]) \/ StartSizing \/ SizeRow
    \/ StartFill \/ FillSource(E[source]) \/ FinishFill

FillSpec(D, E) == FillInit(D, E) /\ [][FillNext(E)]_passVars

-------------------------------------------------------------------------------
(***************************************************************************)
(* The inductive invariant.  A cursor stands as far behind its row pointer *)
(* as there are earlier sources that reach the row.                        *)
(***************************************************************************)
Reaching(E, r, n) == {c \in 0..n - 1 : Hits(E[c], r)}
Reached(E, r, n) == Cardinality(Reaching(E, r, n))

PassType(D) ==
    /\ pass \in {"count", "size", "fill", "full"}
    /\ source \in 0..D /\ sized \in 0..D
    /\ pass = "count" => sized = 0
    /\ counts \in [Row(D) -> Nat]
    /\ indptr \in [0..D -> Nat]
    /\ next \in [Row(D) -> Nat]

Counted(D, E) ==
    \A r \in Row(D) : counts[r] = IF pass = "count" THEN Reached(E, r, source) ELSE Reached(E, r, D)

Sized(D) ==
    /\ indptr[0] = 0
    /\ \A r \in Row(D) : r < sized => indptr[r + 1] = indptr[r] + counts[r]
    /\ \A q, r \in 0..sized : q <= r => indptr[q] <= indptr[r]

Filling == pass \in {"fill", "full"}
Cell(c, e) == [column |-> c, value |-> e.value]
Span(r) == indptr[r]..next[r] - 1

Cursors(D, E) ==
    Filling =>
        /\ sized = D
        /\ DOMAIN cells = 0..indptr[D] - 1
        /\ pass = "full" => source = D
        /\ \A r \in Row(D) : next[r] = indptr[r] + Reached(E, r, source)

CellsAreEntries(D, E) ==
    Filling => \A r \in Row(D) : \A k \in Span(r) :
        \E c \in 0..source - 1 : \E e \in E[c] : e.row = r /\ cells[k] = Cell(c, e)

EntriesHaveCells(E) ==
    Filling => \A c \in 0..source - 1 : \A e \in E[c] :
        \E k \in Span(e.row) : cells[k] = Cell(c, e)

Ascending(D) ==
    Filling => \A r \in Row(D) : \A j, k \in Span(r) : j < k => cells[j].column < cells[k].column

FillInv(D, E) ==
    /\ Setting(D, E) /\ PassType(D) /\ Counted(D, E) /\ Sized(D) /\ Cursors(D, E)
    /\ CellsAreEntries(D, E) /\ EntriesHaveCells(E) /\ Ascending(D)

-------------------------------------------------------------------------------
\* The sources that reach a row before a given one: a finite set that grows by
\* the source when it is taken.
LEMMA ReachGrows ==
    ASSUME NEW D, NEW E, Setting(D, E), NEW r \in Row(D), NEW n \in Row(D)
    PROVE  /\ Reached(E, r, n) \in Nat /\ Reached(E, r, n + 1) \in Nat
           /\ Reached(E, r, n + 1) = IF Hits(E[n], r) THEN Reached(E, r, n) + 1 ELSE Reached(E, r, n)
<1>1. IsFiniteSet(Reaching(E, r, n))
  <2>1. n - 1 \in Int
    BY DEF Row, Setting
  <2>2. IsFiniteSet(0..n - 1)
    BY <2>1, FS_Interval
  <2> QED
    BY <2>2, FS_Subset DEF Reaching
<1>2. Reached(E, r, n) \in Nat
  BY <1>1, FS_CardinalityType DEF Reached
<1>3. CASE Hits(E[n], r)
  <2>1. Reaching(E, r, n + 1) = Reaching(E, r, n) \cup {n}
    BY <1>3 DEF Reaching, Row, Setting
  <2>2. n \notin Reaching(E, r, n)
    BY DEF Reaching, Row, Setting
  <2>3. Reached(E, r, n + 1) = Reached(E, r, n) + 1
    BY <1>1, <2>1, <2>2, FS_AddElement DEF Reached
  <2> QED
    BY <1>2, <1>3, <2>3
<1>4. CASE ~Hits(E[n], r)
  <2>1. Reaching(E, r, n + 1) = Reaching(E, r, n)
    BY <1>4 DEF Reaching, Row, Setting
  <2> QED
    BY <1>2, <1>4, <2>1 DEF Reached
<1> QED
  BY <1>3, <1>4

\* Fewer sources reach a row than all of them do; strictly fewer while one
\* that reaches it is to come.
LEMMA ReachBounded ==
    ASSUME NEW D, NEW E, Setting(D, E), NEW r \in Row(D), NEW n \in 0..D
    PROVE  /\ Reached(E, r, n) \in Nat /\ Reached(E, r, D) \in Nat
           /\ Reached(E, r, n) <= Reached(E, r, D)
<1>1. IsFiniteSet(Reaching(E, r, D))
  <2>1. IsFiniteSet(0..D - 1)
    BY FS_Interval DEF Setting
  <2> QED
    BY <2>1, FS_Subset DEF Reaching
<1>2. Reaching(E, r, n) \subseteq Reaching(E, r, D)
  BY DEF Reaching, Setting
<1>3. IsFiniteSet(Reaching(E, r, n)) /\ Cardinality(Reaching(E, r, n)) <= Cardinality(Reaching(E, r, D))
  BY <1>1, <1>2, FS_Subset
<1> QED
  BY <1>1, <1>3, FS_CardinalityType DEF Reached

\* No source before the first reaches a row.
LEMMA ReachNone ==
    ASSUME NEW D, NEW E, Setting(D, E), NEW r \in Row(D)
    PROVE  Reached(E, r, 0) = 0
<1>1. Reaching(E, r, 0) = {}
  BY DEF Reaching
<1> QED
  BY <1>1, FS_EmptySet DEF Reached

\* The number of rows is what the arrays are sized by.
LEMMA SizeIsDim ==
    ASSUME NEW D, NEW E, Setting(D, E), PassType(D)
    PROVE  Size = D /\ DOMAIN counts = Row(D)
<1>1. DOMAIN counts = 0..D - 1
  BY DEF PassType, Row
<1>2. Cardinality(0..D - 1) = D
  <2>1. CASE D = 0
    BY <2>1, FS_EmptySet DEF Setting
  <2>2. CASE D # 0
    BY <2>2, FS_Interval DEF Setting
  <2> QED
    BY <2>1, <2>2
<1> QED
  BY <1>1, <1>2 DEF Size, Row

-------------------------------------------------------------------------------
\* Before the first source the arrays are as the invariant has them.
LEMMA FillInitially == ASSUME NEW D, NEW E PROVE FillInit(D, E) => FillInv(D, E)
<1> SUFFICES ASSUME FillInit(D, E) PROVE FillInv(D, E)
  OBVIOUS
<1>1. PassType(D)
  BY DEF FillInit, PassType, Row, Setting
<1>2. Counted(D, E)
  BY ReachNone DEF FillInit, Counted
<1>3. Sized(D)
  BY DEF FillInit, Sized, Row, Setting
<1> QED
  BY <1>1, <1>2, <1>3 DEF FillInit, FillInv, Cursors, CellsAreEntries, EntriesHaveCells, Ascending, Filling

\* A counted source adds one to the rows it reaches.
LEMMA CountKeeps ==
    ASSUME NEW D, NEW E, FillInv(D, E), CountSource(E[source])
    PROVE  FillInv(D, E)'
<1>0. Setting(D, E) /\ PassType(D) /\ Counted(D, E) /\ Sized(D) /\ Size = D /\ DOMAIN counts = Row(D)
  BY SizeIsDim DEF FillInv
<1>1. pass = "count" /\ pass' = "count" /\ source \in Row(D) /\ source' = source + 1
  BY <1>0 DEF CountSource, PassType, Row, Setting
<1>2. counts' = [r \in Row(D) |-> IF Hits(E[source], r) THEN counts[r] + 1 ELSE counts[r]]
  BY <1>0 DEF CountSource
<1>3. UNCHANGED <<sized, indptr, next, cells>>
  BY DEF CountSource
<1>4. PassType(D)'
  <2>1. counts' \in [Row(D) -> Nat]
    BY <1>0, <1>2 DEF PassType
  <2>2. source' \in 0..D
    BY <1>0, <1>1 DEF Row, Setting
  <2> QED
    BY <1>0, <1>1, <1>3, <2>1, <2>2 DEF PassType
<1>5. Counted(D, E)'
  <2> SUFFICES ASSUME NEW r \in Row(D) PROVE counts'[r] = Reached(E, r, source + 1)
    BY <1>1 DEF Counted
  <2>1. counts[r] = Reached(E, r, source)
    BY <1>0, <1>1 DEF Counted
  <2> QED
    BY <1>0, <1>1, <1>2, <2>1, ReachGrows
<1>6. Sized(D)'
  BY <1>0, <1>1, <1>3 DEF PassType, Sized, Row, Setting
<1>7. Setting(D, E)' /\ ~Filling'
  BY <1>0, <1>1 DEF Setting, Filling
<1> QED
  BY <1>4, <1>5, <1>6, <1>7 DEF FillInv, Cursors, CellsAreEntries, EntriesHaveCells, Ascending

\* Counting ends where every source is counted.
LEMMA SizingStarts ==
    ASSUME NEW D, NEW E, FillInv(D, E), StartSizing
    PROVE  FillInv(D, E)'
<1>0. Setting(D, E) /\ PassType(D) /\ Counted(D, E) /\ Sized(D) /\ Size = D
  BY SizeIsDim DEF FillInv
<1>1. pass = "count" /\ pass' = "size" /\ source = D
  BY <1>0 DEF StartSizing
<1>2. UNCHANGED <<source, counts, sized, indptr, next, cells>>
  BY DEF StartSizing
<1>3. PassType(D)' /\ Setting(D, E)' /\ ~Filling'
  BY <1>0, <1>1, <1>2 DEF PassType, Setting, Filling
<1>4. Counted(D, E)' /\ Sized(D)'
  BY <1>0, <1>1, <1>2 DEF Counted, Sized
<1> QED
  BY <1>3, <1>4 DEF FillInv, Cursors, CellsAreEntries, EntriesHaveCells, Ascending

\* A row pointer is the one before it and the count of its row.
LEMMA SizeKeeps ==
    ASSUME NEW D, NEW E, FillInv(D, E), SizeRow
    PROVE  FillInv(D, E)'
<1>0. Setting(D, E) /\ PassType(D) /\ Counted(D, E) /\ Sized(D) /\ Size = D
  BY SizeIsDim DEF FillInv
<1>1. pass = "size" /\ pass' = "size" /\ sized \in Row(D) /\ sized' = sized + 1
  BY <1>0 DEF SizeRow, PassType, Row, Setting
<1>2. indptr' = [indptr EXCEPT ![sized + 1] = indptr[sized] + counts[sized]]
  BY DEF SizeRow
<1>3. UNCHANGED <<pass, source, counts, next, cells>>
  BY DEF SizeRow
<1>4. counts[sized] \in Nat /\ indptr[sized] \in Nat
  BY <1>0, <1>1 DEF PassType, Row, Setting
<1>5. PassType(D)' /\ Setting(D, E)' /\ ~Filling'
  <2>1. sized' \in 0..D
    BY <1>0, <1>1 DEF Row, Setting
  <2>2. indptr[sized] + counts[sized] \in Nat /\ indptr \in [0..D -> Nat]
    BY <1>0, <1>4 DEF PassType
  <2>3. indptr' \in [0..D -> Nat]
    BY <1>2, <2>2
  <2> QED
    BY <1>0, <1>1, <1>3, <2>1, <2>3 DEF PassType, Setting, Filling
<1>6. Counted(D, E)'
  BY <1>0, <1>1, <1>3 DEF Counted
<1>7. Sized(D)'
  <2>0. /\ D \in Nat /\ sized \in 0..D - 1 /\ sized' = sized + 1
        /\ indptr \in [0..D -> Nat] /\ indptr' = [indptr EXCEPT ![sized + 1] = indptr[sized] + counts[sized]]
    BY <1>0, <1>1, <1>2 DEF PassType, Row, Setting
  <2>1. \A q \in 0..D : indptr'[q] = IF q = sized + 1 THEN indptr[sized] + counts[sized] ELSE indptr[q]
    BY <2>0
  <2>2. indptr'[0] = 0
    BY <1>0, <2>0, <2>1 DEF Sized
  <2>3. ASSUME NEW r \in Row(D), r < sized'
        PROVE  indptr'[r + 1] = indptr'[r] + counts'[r]
    <3>0. r \in 0..D - 1 /\ r < sized + 1 /\ r + 1 \in 0..D /\ r \in 0..D
      BY <2>0, <2>3 DEF Row
    <3>1. CASE r = sized
      BY <1>3, <2>0, <2>1, <3>0, <3>1
    <3>2. CASE r # sized
      <4>1. r < sized /\ indptr'[r + 1] = indptr[r + 1] /\ indptr'[r] = indptr[r]
        BY <2>0, <2>1, <3>0, <3>2
      <4>2. indptr[r + 1] = indptr[r] + counts[r]
        BY <1>0, <2>3, <4>1 DEF Sized
      <4> QED
        BY <1>3, <4>1, <4>2
    <3> QED
      BY <3>1, <3>2
  <2>4. ASSUME NEW q \in 0..sized', NEW r \in 0..sized', q <= r
        PROVE  indptr'[q] <= indptr'[r]
    <3>0. q \in 0..D /\ r \in 0..D /\ q \in Int /\ r \in Int /\ sized \in Int
      BY <2>0, <2>4
    <3>1. CASE r < sized + 1
      <4>1. indptr'[q] = indptr[q] /\ indptr'[r] = indptr[r]
        BY <2>0, <2>1, <2>4, <3>0, <3>1
      <4>2. q \in 0..sized /\ r \in 0..sized
        BY <2>0, <2>4, <3>1
      <4>3. indptr[q] <= indptr[r]
        BY <1>0, <2>4, <4>2 DEF Sized
      <4> QED
        BY <4>1, <4>3
    <3>2. CASE r = sized + 1 /\ q < r
      <4>1. indptr'[q] = indptr[q] /\ indptr'[r] = indptr[sized] + counts[sized]
        BY <2>0, <2>1, <2>4, <3>0, <3>2
      <4>2. q \in 0..sized /\ sized \in 0..sized /\ q <= sized
        BY <2>0, <2>4, <3>2
      <4>3. indptr[q] <= indptr[sized] /\ indptr[q] \in Nat
        BY <1>0, <2>0, <3>0, <4>2 DEF Sized
      <4> QED
        BY <1>4, <4>1, <4>3
    <3>3. CASE q = r
      <4>1. indptr' \in [0..D -> Nat]
        BY <1>5 DEF PassType
      <4>2. indptr'[q] \in Nat
        BY <3>0, <4>1
      <4> QED
        BY <3>3, <4>2
    <3> QED
      BY <2>0, <2>4, <3>1, <3>2, <3>3
  <2> QED
    BY <2>2, <2>3, <2>4 DEF Sized
<1> QED
  BY <1>5, <1>6, <1>7 DEF FillInv, Cursors, CellsAreEntries, EntriesHaveCells, Ascending

\* The second pass starts with cursors at the row pointers.
LEMMA FillStarts ==
    ASSUME NEW D, NEW E, FillInv(D, E), StartFill
    PROVE  FillInv(D, E)'
<1>0. Setting(D, E) /\ PassType(D) /\ Counted(D, E) /\ Sized(D) /\ Size = D /\ DOMAIN counts = Row(D)
  BY SizeIsDim DEF FillInv
<1>1. pass = "size" /\ pass' = "fill" /\ sized = D /\ source' = 0
  BY <1>0 DEF StartFill
<1>2. next' = [r \in Row(D) |-> indptr[r]] /\ cells' = [k \in 0..indptr[D] - 1 |-> Blank]
  BY <1>0 DEF StartFill
<1>3. UNCHANGED <<counts, sized, indptr>>
  BY DEF StartFill
<1>4. PassType(D)' /\ Setting(D, E)'
  <2>1. next' \in [Row(D) -> Nat] /\ source' \in 0..D
    BY <1>0, <1>1, <1>2 DEF PassType, Row, Setting
  <2> QED
    BY <1>0, <1>1, <1>3, <2>1 DEF PassType, Setting
<1>5. Counted(D, E)' /\ Sized(D)'
  BY <1>0, <1>1, <1>3 DEF Counted, Sized
<1>6. \A r \in Row(D) : next'[r] = indptr'[r] /\ indptr'[r] \in Nat /\ Span(r)' = {}
  BY <1>0, <1>2, <1>3 DEF PassType, Span, Row, Setting
<1>7. Cursors(D, E)'
  <2>1. \A r \in Row(D) : next'[r] = indptr'[r] + Reached(E, r, 0)
    BY <1>0, <1>6, ReachNone
  <2> QED
    BY <1>1, <1>2, <1>3, <2>1 DEF Cursors
<1>8. CellsAreEntries(D, E)' /\ Ascending(D)'
  BY <1>6 DEF CellsAreEntries, Ascending
<1>9. EntriesHaveCells(E)'
  BY <1>1 DEF EntriesHaveCells
<1> QED
  BY <1>4, <1>5, <1>7, <1>8, <1>9 DEF FillInv

\* A source fills the next cell of every row it reaches, and no other.
LEMMA FillKeeps ==
    ASSUME NEW D, NEW E, FillInv(D, E), FillSource(E[source])
    PROVE  FillInv(D, E)'
<1> DEFINE entries == E[source]
<1>0. /\ Setting(D, E) /\ PassType(D) /\ Counted(D, E) /\ Sized(D) /\ Cursors(D, E)
      /\ CellsAreEntries(D, E) /\ EntriesHaveCells(E) /\ Ascending(D)
      /\ Size = D /\ D \in Nat
  BY SizeIsDim DEF FillInv, Setting
<1>1. /\ pass = "fill" /\ pass' = "fill" /\ source \in Row(D) /\ source' = source + 1 /\ sized = D
      /\ Filling /\ Filling' /\ DOMAIN cells = 0..indptr[D] - 1
  BY <1>0 DEF FillSource, PassType, Row, Cursors, Filling
<1>2. UNCHANGED <<counts, sized, indptr>>
  BY DEF FillSource
<1>3. next' = [r \in Row(D) |-> IF Hits(entries, r) THEN next[r] + 1 ELSE next[r]]
  BY <1>0 DEF FillSource, PassType
<1>4. cells' = [k \in DOMAIN cells |->
                    IF \E e \in entries : next[e.row] = k
                    THEN [column |-> source,
                          value |-> (CHOOSE e \in entries : next[e.row] = k).value]
                    ELSE cells[k]]
  BY DEF FillSource
<1>5. (\A e \in entries : e.row \in Row(D)) /\ \A e, f \in entries : e.row = f.row => e = f
  BY <1>0, <1>1 DEF Setting
<1> HIDE DEF entries
<1>6. ASSUME NEW r \in Row(D)
      PROVE  /\ indptr[r] \in Nat /\ indptr[r + 1] \in Nat /\ next[r] \in Nat
             /\ indptr[r] <= next[r] /\ next[r] <= indptr[r + 1]
             /\ Hits(entries, r) => next[r] < indptr[r + 1]
             /\ r + 1 \in 0..D
  <2>1. r \in 0..D /\ r + 1 \in 0..D /\ r < sized
    BY <1>0, <1>1 DEF Row
  <2>2. indptr[r] \in Nat /\ indptr[r + 1] \in Nat /\ next[r] \in Nat
    BY <1>0, <2>1 DEF PassType
  <2>3. next[r] = indptr[r] + Reached(E, r, source) /\ indptr[r + 1] = indptr[r] + Reached(E, r, D)
    BY <1>0, <1>1, <2>1 DEF Cursors, Sized, Counted
  <2>4. source \in 0..D /\ source + 1 \in 0..D
    BY <1>0, <1>1 DEF Row
  <2>5. Reached(E, r, source) \in Nat /\ Reached(E, r, D) \in Nat /\ Reached(E, r, source) <= Reached(E, r, D)
    BY <1>0, <2>4, ReachBounded
  <2>6. Reached(E, r, source + 1) <= Reached(E, r, D)
    BY <1>0, <2>4, ReachBounded
  <2>7. Hits(entries, r) => Reached(E, r, source + 1) = Reached(E, r, source) + 1
    BY <1>0, <1>1, ReachGrows DEF entries
  <2> QED
    BY <2>1, <2>2, <2>3, <2>5, <2>6, <2>7
<1>7. ASSUME NEW q \in 0..D, NEW r \in 0..D, q <= r
      PROVE  indptr[q] <= indptr[r] /\ indptr[q] \in Nat /\ indptr[r] \in Nat
  BY <1>0, <1>1, <1>7 DEF Sized, PassType
<1>8. ASSUME NEW r \in Row(D), NEW k \in Span(r), NEW e \in entries
      PROVE  next[e.row] # k
  <2>1. e.row \in Row(D) /\ Hits(entries, e.row)
    BY <1>5 DEF Hits
  <2>2. k \in Int /\ indptr[r] <= k /\ k < next[r]
    BY <1>6 DEF Span
  <2>3. CASE e.row = r
    BY <1>6, <2>2, <2>3
  <2>4. CASE e.row < r
    <3>1. indptr[e.row + 1] <= indptr[r]
      BY <1>0, <1>6, <1>7, <2>1, <2>4 DEF Row
    <3> QED
      BY <1>6, <2>1, <2>2, <3>1
  <2>5. CASE r < e.row
    <3>1. indptr[r + 1] <= indptr[e.row]
      BY <1>0, <1>6, <1>7, <2>1, <2>5 DEF Row
    <3> QED
      BY <1>6, <2>1, <2>2, <3>1
  <2> QED
    BY <2>1, <2>3, <2>4, <2>5 DEF Row
<1>9. ASSUME NEW e \in entries, NEW f \in entries, next[e.row] = next[f.row]
      PROVE  e = f
  <2>1. e.row \in Row(D) /\ f.row \in Row(D) /\ Hits(entries, e.row) /\ Hits(entries, f.row)
    BY <1>5 DEF Hits
  <2>2. ~(e.row < f.row)
    <3> SUFFICES ASSUME e.row < f.row PROVE FALSE
      OBVIOUS
    <3>1. indptr[e.row + 1] <= indptr[f.row]
      BY <1>0, <1>6, <1>7, <2>1 DEF Row
    <3> QED
      BY <1>6, <1>9, <2>1, <3>1
  <2>3. ~(f.row < e.row)
    <3> SUFFICES ASSUME f.row < e.row PROVE FALSE
      OBVIOUS
    <3>1. indptr[f.row + 1] <= indptr[e.row]
      BY <1>0, <1>6, <1>7, <2>1 DEF Row
    <3> QED
      BY <1>6, <1>9, <2>1, <3>1
  <2>4. e.row = f.row
    BY <2>1, <2>2, <2>3 DEF Row
  <2> QED
    BY <1>5, <2>4
<1>10. ASSUME NEW r \in Row(D), NEW k \in Int, indptr[r] <= k, k < indptr[r + 1]
       PROVE  k \in DOMAIN cells
  <2>1. indptr[r + 1] <= indptr[D] /\ indptr[D] \in Nat
    BY <1>0, <1>6, <1>7 DEF Row
  <2> QED
    BY <1>1, <1>6, <1>10, <2>1
<1>11. ASSUME NEW e \in entries
       PROVE  cells'[next[e.row]] = Cell(source, e)
  <2>1. e.row \in Row(D) /\ Hits(entries, e.row)
    BY <1>5 DEF Hits
  <2>2. next[e.row] \in DOMAIN cells
    BY <1>6, <1>10, <2>1
  <2>3. (CHOOSE f \in entries : next[f.row] = next[e.row]) = e
    BY <1>9
  <2> QED
    BY <1>4, <2>2, <2>3 DEF Cell
<1>12. ASSUME NEW r \in Row(D), NEW k \in Span(r)
       PROVE  cells'[k] = cells[k]
  <2>1. k \in DOMAIN cells
    BY <1>6, <1>10 DEF Span
  <2> QED
    BY <1>4, <1>8, <2>1
<1>13. ASSUME NEW r \in Row(D)
       PROVE  /\ \A k \in Span(r)' : k \in Span(r) \/ (Hits(entries, r) /\ k = next[r])
              /\ Span(r) \subseteq Span(r)'
              /\ Hits(entries, r) => next[r] \in Span(r)'
              /\ \A k \in Span(r) : k < next[r]
  <2>1. next'[r] = (IF Hits(entries, r) THEN next[r] + 1 ELSE next[r]) /\ indptr'[r] = indptr[r]
    BY <1>2, <1>3
  <2> QED
    BY <1>6, <2>1 DEF Span
<1>14. PassType(D)' /\ Setting(D, E)'
  <2>1. next' \in [Row(D) -> Nat]
    BY <1>0, <1>3 DEF PassType
  <2>2. source' \in 0..D
    BY <1>0, <1>1 DEF Row
  <2> QED
    BY <1>0, <1>1, <1>2, <2>1, <2>2 DEF PassType, Setting
<1>15. Counted(D, E)' /\ Sized(D)'
  BY <1>0, <1>1, <1>2 DEF Counted, Sized
<1>16. Cursors(D, E)'
  <2>1. ASSUME NEW r \in Row(D)
        PROVE  next'[r] = indptr'[r] + Reached(E, r, source + 1)
    <3>1. next[r] = indptr[r] + Reached(E, r, source)
      BY <1>0, <1>1 DEF Cursors
    <3>2. Reached(E, r, source) \in Nat
          /\ Reached(E, r, source + 1) = IF Hits(entries, r) THEN Reached(E, r, source) + 1 ELSE Reached(E, r, source)
      BY <1>0, <1>1, ReachGrows DEF entries
    <3> QED
      BY <1>2, <1>3, <1>6, <3>1, <3>2
  <2>2. DOMAIN cells' = 0..indptr'[D] - 1
    BY <1>1, <1>2, <1>4
  <2> QED
    BY <1>1, <1>2, <2>1, <2>2 DEF Cursors
<1>17. CellsAreEntries(D, E)'
  <2> SUFFICES ASSUME NEW r \in Row(D), NEW k \in Span(r)'
               PROVE  \E c \in 0..source : \E e \in E[c] : e.row = r /\ cells'[k] = Cell(c, e)
    BY <1>1 DEF CellsAreEntries, Cell, Row
  <2>1. CASE k \in Span(r)
    <3>1. PICK c \in 0..source - 1 : \E e \in E[c] : e.row = r /\ cells[k] = Cell(c, e)
      BY <1>0, <1>1, <2>1 DEF CellsAreEntries
    <3>2. c \in 0..source
      BY <1>1 DEF Row
    <3> QED
      BY <1>12, <2>1, <3>1, <3>2
  <2>2. CASE Hits(entries, r) /\ k = next[r]
    <3>1. PICK e \in entries : e.row = r
      BY <2>2 DEF Hits
    <3>2. cells'[k] = Cell(source, e) /\ source \in 0..source /\ e \in E[source]
      BY <1>1, <1>11, <2>2, <3>1 DEF Row, entries
    <3> QED
      BY <3>1, <3>2
  <2> QED
    BY <1>13, <2>1, <2>2
<1>18. EntriesHaveCells(E)'
  <2> SUFFICES ASSUME NEW c \in 0..source, NEW e \in E[c]
               PROVE  \E k \in Span(e.row)' : cells'[k] = Cell(c, e)
    BY <1>1 DEF EntriesHaveCells, Cell, Row
  <2>0. e.row \in Row(D)
    BY <1>0, <1>1 DEF Setting, Row
  <2>1. CASE c = source
    <3>1. e \in entries /\ Hits(entries, e.row)
      BY <2>1 DEF entries, Hits
    <3> QED
      BY <1>11, <1>13, <2>0, <2>1, <3>1
  <2>2. CASE c # source
    <3>1. c \in 0..source - 1
      BY <1>1, <2>2 DEF Row
    <3>2. PICK k \in Span(e.row) : cells[k] = Cell(c, e)
      BY <1>0, <1>1, <3>1 DEF EntriesHaveCells
    <3> QED
      BY <1>12, <1>13, <2>0, <3>2
  <2> QED
    BY <2>1, <2>2
<1>19. Ascending(D)'
  <2> SUFFICES ASSUME NEW r \in Row(D), NEW j \in Span(r)', NEW k \in Span(r)', j < k
               PROVE  cells'[j].column < cells'[k].column
    BY DEF Ascending
  <2>1. CASE j \in Span(r) /\ k \in Span(r)
    BY <1>0, <1>1, <1>12, <2>1 DEF Ascending
  <2>2. CASE j \in Span(r) /\ Hits(entries, r) /\ k = next[r]
    <3>1. PICK c \in 0..source - 1 : \E e \in E[c] : e.row = r /\ cells[j] = Cell(c, e)
      BY <1>0, <1>1, <2>2 DEF CellsAreEntries
    <3>2. PICK f \in entries : f.row = r
      BY <2>2 DEF Hits
    <3>3. cells'[j].column = c
      BY <1>12, <2>2, <3>1 DEF Cell
    <3>4. cells'[k] = Cell(source, f)
      BY <1>11, <2>2, <3>2
    <3>5. cells'[k].column = source
      BY <3>4 DEF Cell
    <3> QED
      BY <1>1, <3>1, <3>3, <3>5 DEF Row
  <2>3. ~(j = next[r])
    <3>1. k \in Span(r) \/ k = next[r]
      BY <1>13
    <3>2. k \in Int /\ next[r] \in Int
      BY <1>6 DEF Span
    <3> QED
      BY <1>13, <3>1, <3>2
  <2> QED
    BY <1>13, <2>1, <2>2, <2>3
<1> QED
  BY <1>14, <1>15, <1>16, <1>17, <1>18, <1>19 DEF FillInv

\* The second pass ends where every source is written.
LEMMA FinishKeeps ==
    ASSUME NEW D, NEW E, FillInv(D, E), FinishFill
    PROVE  FillInv(D, E)'
<1>0. /\ Setting(D, E) /\ PassType(D) /\ Counted(D, E) /\ Sized(D) /\ Cursors(D, E)
      /\ CellsAreEntries(D, E) /\ EntriesHaveCells(E) /\ Ascending(D) /\ Size = D
  BY SizeIsDim DEF FillInv
<1>1. pass = "fill" /\ pass' = "full" /\ source = D /\ Filling /\ Filling'
  BY <1>0 DEF FinishFill, Filling
<1>2. UNCHANGED <<source, counts, sized, indptr, next, cells>>
  BY DEF FinishFill
<1>3. PassType(D)' /\ Setting(D, E)'
  BY <1>0, <1>1, <1>2 DEF PassType, Setting
<1>4. Counted(D, E)' /\ Sized(D)' /\ Cursors(D, E)'
  BY <1>0, <1>1, <1>2 DEF Counted, Sized, Cursors
<1>5. CellsAreEntries(D, E)' /\ EntriesHaveCells(E)' /\ Ascending(D)'
  BY <1>0, <1>1, <1>2 DEF CellsAreEntries, EntriesHaveCells, Ascending, Span, Cell
<1> QED
  BY <1>3, <1>4, <1>5 DEF FillInv

\* Nothing changes where the builder does not move.
LEMMA FillStutters ==
    ASSUME NEW D, NEW E, FillInv(D, E), UNCHANGED passVars
    PROVE  FillInv(D, E)'
<1>1. UNCHANGED <<pass, source, counts, sized, indptr, next, cells>>
  BY DEF passVars
<1>2. Setting(D, E)' /\ PassType(D)' /\ Counted(D, E)' /\ Sized(D)' /\ Cursors(D, E)'
  BY <1>1 DEF FillInv, Setting, PassType, Counted, Sized, Cursors, Filling
<1>3. CellsAreEntries(D, E)'
  BY <1>1 DEF FillInv, CellsAreEntries, Filling, Span, Cell
<1>4. EntriesHaveCells(E)'
  BY <1>1 DEF FillInv, EntriesHaveCells, Filling, Span, Cell
<1>5. Ascending(D)'
  BY <1>1 DEF FillInv, Ascending, Filling, Span
<1> QED
  BY <1>2, <1>3, <1>4, <1>5 DEF FillInv

\* The arrays are as the invariant has them throughout.
LEMMA FillInvariant == ASSUME NEW D, NEW E PROVE FillSpec(D, E) => []FillInv(D, E)
<1>1. FillInv(D, E) /\ [FillNext(E)]_passVars => FillInv(D, E)'
  BY CountKeeps, SizingStarts, SizeKeeps, FillStarts, FillKeeps, FinishKeeps, FillStutters
     DEF FillNext
<1> QED
  BY FillInitially, <1>1, PTL DEF FillSpec

-------------------------------------------------------------------------------
\* The invariant says that the second pass writes inside the cells counted for
\* a row, leaves none of them blank and keeps the columns of a row ascending.
LEMMA FilledFrom ==
    ASSUME NEW D, NEW E, FillInv(D, E)
    PROVE  FilledAsCounted
<1> SUFFICES ASSUME Filling, NEW r \in Row(D)
             PROVE  /\ indptr[r] <= next[r] /\ next[r] <= indptr[r + 1]
                    /\ pass = "full" => next[r] = indptr[r + 1]
                    /\ \A k \in Span(r) : cells[k] # Blank
                    /\ \A j, k \in Span(r) : j < k => cells[j].column < cells[k].column
  BY SizeIsDim DEF FilledAsCounted, FillInv, Filling, Span
<1>0. /\ Setting(D, E) /\ PassType(D) /\ Counted(D, E) /\ Sized(D) /\ Cursors(D, E)
      /\ CellsAreEntries(D, E) /\ Ascending(D) /\ D \in Nat
  BY DEF FillInv, Setting
<1>1. r \in 0..D /\ r + 1 \in 0..D /\ sized = D /\ source \in 0..D /\ r < sized
  BY <1>0 DEF Row, Cursors, PassType
<1>2. indptr[r] \in Nat /\ next[r] = indptr[r] + Reached(E, r, source)
  BY <1>0, <1>1 DEF Cursors, PassType
<1>3. pass # "count" /\ indptr[r + 1] = indptr[r] + Reached(E, r, D)
  BY <1>0, <1>1 DEF Sized, Counted, Filling
<1>4. /\ Reached(E, r, source) \in Nat /\ Reached(E, r, D) \in Nat
      /\ Reached(E, r, source) <= Reached(E, r, D)
  BY <1>0, <1>1, ReachBounded
<1>5. pass = "full" => source = D
  BY <1>0 DEF Cursors
<1>6. \A k \in Span(r) : cells[k] # Blank
  <2> SUFFICES ASSUME NEW k \in Span(r) PROVE cells[k] # Blank
    OBVIOUS
  <2>1. PICK c \in 0..source - 1 : \E e \in E[c] : cells[k] = Cell(c, e)
    BY <1>0 DEF CellsAreEntries
  <2>2. cells[k].column = c
    BY <2>1 DEF Cell
  <2> QED
    BY <1>1, <2>2 DEF Blank
<1>7. \A j, k \in Span(r) : j < k => cells[j].column < cells[k].column
  BY <1>0 DEF Ascending
<1> QED
  BY <1>2, <1>3, <1>4, <1>5, <1>6, <1>7

\* The arrays hold the matrix: once they are full, a cell of a row is an entry
\* of the row's source, and every entry has its cell.
Held(D, E) ==
    pass = "full" =>
        /\ \A r \in Row(D) : \A k \in indptr[r]..indptr[r + 1] - 1 :
              \E c \in Row(D) : \E e \in E[c] : e.row = r /\ cells[k] = Cell(c, e)
        /\ \A c \in Row(D) : \A e \in E[c] :
              \E k \in indptr[e.row]..indptr[e.row + 1] - 1 : cells[k] = Cell(c, e)

\* Full arrays hold every entry, and nothing else.
LEMMA HeldFrom ==
    ASSUME NEW D, NEW E, FillInv(D, E), FilledAsCounted
    PROVE  Held(D, E)
<1> SUFFICES ASSUME pass = "full" PROVE Held(D, E)
  BY DEF Held
<1>1. source = D /\ Filling /\ DOMAIN counts = Row(D)
  BY SizeIsDim DEF FillInv, Cursors, Filling
<1>2. \A r \in Row(D) : Span(r) = indptr[r]..indptr[r + 1] - 1
  BY <1>1 DEF FilledAsCounted, Span
<1>3. ASSUME NEW r \in Row(D), NEW k \in indptr[r]..indptr[r + 1] - 1
      PROVE  \E c \in Row(D) : \E e \in E[c] : e.row = r /\ cells[k] = Cell(c, e)
  <2>1. k \in Span(r)
    BY <1>2, <1>3
  <2>2. \E c \in 0..source - 1 : \E e \in E[c] : e.row = r /\ cells[k] = Cell(c, e)
    BY <1>1, <2>1 DEF FillInv, CellsAreEntries
  <2> QED
    BY <1>1, <2>2 DEF Row
<1>4. ASSUME NEW c \in Row(D), NEW e \in E[c]
      PROVE  \E k \in indptr[e.row]..indptr[e.row + 1] - 1 : cells[k] = Cell(c, e)
  <2>1. e.row \in Row(D)
    BY DEF FillInv, Setting
  <2> QED
    BY <1>1, <1>2, <2>1 DEF FillInv, EntriesHaveCells, Row
<1> QED
  BY <1>3, <1>4 DEF Held

\* Whatever the entries, the second pass fills every cell counted for a row.
THEOREM FilledCellByCell == ASSUME NEW D, NEW E PROVE FillSpec(D, E) => []FilledAsCounted
<1>1. FillInv(D, E) => FilledAsCounted
  BY FilledFrom
<1> QED
  BY FillInvariant, <1>1, PTL

\* What the two passes leave is the matrix and nothing else, for any number of
\* rows and any entries.
THEOREM ArraysHoldTheMatrix == ASSUME NEW D, NEW E PROVE FillSpec(D, E) => []Held(D, E)
<1>1. FillInv(D, E) /\ FilledAsCounted => Held(D, E)
  BY HeldFrom
<1> QED
  BY FillInvariant, FilledCellByCell, <1>1, PTL

-----------------------------------------------------------------------------
(* The columns that the passes are given                                   *)

\* The matrix of an operator in a sector, column by column, as the builder
\* aggregates it.
Columns(s, groups) == [i \in 0 .. s.dimension - 1 |-> Column(s, groups, i)]

\* An entry of a column: the group that makes it and the word it leads to.
LEMMA EntryMadeBy ==
  ASSUME NEW s, IsSector(s), NEW ts, NEW groups, Grouped(groups, ts),
         \A k \in 1 .. Len(ts) : ts[k].word.x \in SUBSET Qubits(s.nqubits),
         NEW i \in 0 .. s.dimension - 1, NEW e \in Column(s, groups, i)
  PROVE  \E g \in 1 .. Len(groups) :
            /\ Live(s, groups, SectorWord(s, i), g)
            /\ e = Hop(s, groups, SectorWord(s, i), g)
            /\ e.row \in 0 .. s.dimension - 1
            /\ SectorWord(s, e.row) = Xor(SectorWord(s, i), groups[g].x)
<1> DEFINE w == SectorWord(s, i)
<1>1. ~IsFailed(AggregatedAt(s, groups, i))
  BY DEF Column
<1>2. PICK g \in 1 .. Len(groups) : Live(s, groups, w, g) /\ e = Hop(s, groups, w, g)
  BY <1>1, ColumnIs
<1>3. Xor(w, groups[g].x) \in SectorWords(s)
  BY <1>1, <1>2, ColumnIs
<1>4. e.row = RankWords(s, Xor(w, groups[g].x))
  BY <1>2 DEF Hop
<1>5. e.row \in 0 .. s.dimension - 1 /\ SectorWord(s, e.row) = Xor(w, groups[g].x)
  BY <1>3, <1>4, SectorComplete
<1> QED
  BY <1>2, <1>5

\* Different entries of a column lie in different rows of the matrix.
LEMMA ColumnSetting ==
  ASSUME NEW s, IsSector(s), NEW ts, NEW groups, Grouped(groups, ts),
         \A k \in 1 .. Len(ts) : ts[k].word.x \in SUBSET Qubits(s.nqubits)
  PROVE  Setting(s.dimension, Columns(s, groups))
<1>1. s.dimension \in Nat
  BY SectorFacts
<1>2. \A c \in Row(s.dimension) : Columns(s, groups)[c] = Column(s, groups, c)
  BY DEF Columns, Row
<1>3. ASSUME NEW c \in Row(s.dimension), NEW e \in Column(s, groups, c)
      PROVE  e.row \in Row(s.dimension)
  BY EntryMadeBy DEF Row
<1>4. ASSUME NEW c \in Row(s.dimension), NEW e \in Column(s, groups, c), NEW f \in Column(s, groups, c),
             e.row = f.row
      PROVE  e = f
  <2>0. c \in 0 .. s.dimension - 1
    BY DEF Row
  <2>1. PICK g \in 1 .. Len(groups) :
            e = Hop(s, groups, SectorWord(s, c), g)
            /\ SectorWord(s, e.row) = Xor(SectorWord(s, c), groups[g].x)
    BY <2>0, EntryMadeBy
  <2>2. PICK h \in 1 .. Len(groups) :
            f = Hop(s, groups, SectorWord(s, c), h)
            /\ SectorWord(s, f.row) = Xor(SectorWord(s, c), groups[h].x)
    BY <2>0, EntryMadeBy
  <2>3. groups[g].x = groups[h].x
    BY <1>4, <2>1, <2>2, XorOnce
  <2>4. g = h
    BY <2>3 DEF Grouped
  <2> QED
    BY <2>1, <2>2, <2>4
<1> QED
  BY <1>1, <1>2, <1>3, <1>4 DEF Setting

\* The cells the first pass counts, over all rows, are no more than the bound:
\* an entry is a source that some group moves inside the sector.
LEMMA CountedWithinBound ==
  ASSUME NEW s, IsSector(s), NEW ts, NEW groups, Grouped(groups, ts),
         \A k \in 1 .. Len(ts) : ts[k].word.x \in SUBSET Qubits(s.nqubits),
         NEW f, \A r \in Row(s.dimension) : f[r] = Reached(Columns(s, groups), r, s.dimension)
  PROVE  SumFunctionOnSet(f, Row(s.dimension)) <= TransitionUpperBound(s, groups)
<1> DEFINE D == s.dimension
           I == 0 .. D - 1
           E == Columns(s, groups)
           N == Len(groups)
           R == {e \in I \X I : Hits(E[e[2]], e[1])}
           G(e) == CHOOSE g \in 1 .. N : SectorWord(s, e[1]) = Xor(SectorWord(s, e[2]), groups[g].x)
           T == {e \in (1 .. N) \X I : e[2] \in Moved(s, groups, e[1])}
           h == [e \in R |-> <<G(e), e[2]>>]
<1>1. D \in Nat /\ N \in Nat /\ IsFiniteSet(I) /\ IsFiniteSet(1 .. N) /\ DOMAIN groups = 1 .. N
  <2>1. D \in Nat /\ N \in Nat /\ DOMAIN groups = 1 .. N
    BY SectorFacts DEF Grouped
  <2> HIDE DEF D, N
  <2> QED
    BY <2>1, FS_Interval
<1>2. \A g \in 1 .. N : groups[g].x \in SUBSET Qubits(s.nqubits)
  <2> SUFFICES ASSUME NEW g \in 1 .. N PROVE groups[g].x \in SUBSET Qubits(s.nqubits)
    OBVIOUS
  <2>1. PICK k \in 1 .. Len(ts) : ts[k].word.x = groups[g].x
    BY DEF Grouped
  <2> QED
    BY <2>1
<1>3. \A r \in I : f[r] = Cardinality(PairedWith(R, r, I))
  <2> SUFFICES ASSUME NEW r \in I PROVE f[r] = Cardinality(PairedWith(R, r, I))
    OBVIOUS
  <2>1. PairedWith(R, r, I) = Reaching(E, r, D)
    BY DEF PairedWith, Reaching
  <2>2. f[r] = Reached(E, r, D)
    BY DEF Row
  <2> QED
    BY <2>1, <2>2 DEF Reached
<1>4. SumFunctionOnSet(f, I) = Cardinality(PairsIn(R, I, I)) /\ IsFiniteSet(PairsIn(R, I, I))
  <2> HIDE DEF R, I
  <2> QED
    BY <1>1, <1>3, PairsCounted
<1>5. PairsIn(R, I, I) = R
  BY DEF PairsIn
<1>6. ASSUME NEW e \in R
      PROVE  /\ e[1] \in I /\ e[2] \in I /\ e = <<e[1], e[2]>>
             /\ G(e) \in 1 .. N /\ SectorWord(s, e[1]) = Xor(SectorWord(s, e[2]), groups[G(e)].x)
  <2>1. e[1] \in I /\ e[2] \in I /\ e = <<e[1], e[2]>> /\ Hits(E[e[2]], e[1])
    OBVIOUS
  <2>2. E[e[2]] = Column(s, groups, e[2])
    BY <2>1 DEF Columns
  <2>3. PICK c \in Column(s, groups, e[2]) : c.row = e[1]
    BY <2>1, <2>2 DEF Hits
  <2>4. \E g \in 1 .. N : SectorWord(s, e[1]) = Xor(SectorWord(s, e[2]), groups[g].x)
    BY <2>1, <2>3, EntryMadeBy
  <2> QED
    BY <2>1, <2>4
<1>7. \A e \in R : h[e] = <<G(e), e[2]>>
  OBVIOUS
<1> HIDE DEF G, R
<1>8. \A e \in R : h[e] \in T
  <2> SUFFICES ASSUME NEW e \in R PROVE h[e] \in T
    OBVIOUS
  <2>1. /\ e[1] \in I /\ e[2] \in I /\ G(e) \in 1 .. N
        /\ SectorWord(s, e[1]) = Xor(SectorWord(s, e[2]), groups[G(e)].x)
    BY <1>6
  <2>2. Cardinality(SectorWord(s, e[1])) = s.particle_number
    BY <2>1, SectorNumbered DEF SectorWords, Chosen
  <2>3. e[2] \in Moved(s, groups, G(e))
    BY <2>1, <2>2 DEF Moved
  <2> QED
    BY <1>7, <2>1, <2>3
<1>9. \A e, d \in R : h[e] = h[d] => e = d
  <2> SUFFICES ASSUME NEW e \in R, NEW d \in R, h[e] = h[d] PROVE e = d
    OBVIOUS
  <2>1. G(e) = G(d) /\ e[2] = d[2]
    BY <1>7
  <2>2. SectorWord(s, e[1]) = SectorWord(s, d[1])
    BY <1>6, <2>1
  <2>3. RankWords(s, SectorWord(s, e[1])) = e[1] /\ RankWords(s, SectorWord(s, d[1])) = d[1]
    BY <1>6, SectorNumbered
  <2> QED
    BY <1>6, <2>1, <2>2, <2>3
<1>10. IsFiniteSet(T)
  <2>1. IsFiniteSet((1 .. N) \X I)
    <3> HIDE DEF N, I
    <3> QED
      BY <1>1, FS_Product
  <2> HIDE DEF N, I
  <2> QED
    BY <2>1, FS_Subset
<1>11. Cardinality(R) <= Cardinality(T)
  <2>1. OneToOne(h, R, T)
    <3> HIDE DEF h, T
    <3> QED
      BY <1>8, <1>9 DEF OneToOne
  <2> HIDE DEF h, T
  <2> QED
    BY <1>10, <2>1, FewerCount
<1>12. TransitionUpperBound(s, groups) = Cardinality(T)
  BY <1>1, <1>2, BoundCounts
<1>13. Row(s.dimension) = I
  BY DEF Row
<1> HIDE DEF T, I
<1> QED
  BY <1>4, <1>5, <1>11, <1>12, <1>13

\* The row pointers add up the counts of the rows before.
LEMMA PointersAddUp ==
  ASSUME NEW D \in Nat, NEW c, \A r \in Row(D) : c[r] \in Nat,
         NEW p, p[0] = 0, \A r \in Row(D) : p[r + 1] = p[r] + c[r]
  PROVE  \A k \in 0 .. D : p[k] = SumFunctionOnSet(c, Row(k)) /\ p[k] \in Nat
<1> DEFINE T == {k \in 0 .. D : p[k] = SumFunctionOnSet(c, Row(k)) /\ p[k] \in Nat}
<1>1. 0 \in T
  <2>1. Row(0) = {}
    BY DEF Row
  <2>2. p[0] = SumFunctionOnSet(c, Row(0)) /\ p[0] \in Nat /\ 0 \in 0 .. D
    BY <2>1, SumEmpty
  <2> QED
    BY <2>2
<1>2. ASSUME NEW k \in 1 .. D, k - 1 \in T PROVE k \in T
  <2> DEFINE j == k - 1
  <2>1. j \in Row(D) /\ j + 1 = k /\ j \in Nat /\ k \in 0 .. D
    BY DEF Row
  <2>2. p[j] = SumFunctionOnSet(c, Row(j)) /\ p[j] \in Nat
    BY <1>2
  <2>3. p[k] = p[j] + c[j] /\ c[j] \in Nat
    BY <2>1
  <2>4. Row(k) = Row(j) \cup {j} /\ j \notin Row(j)
    BY <2>1 DEF Row
  <2>5. IsFiniteSet(Row(k)) /\ IntOn(c, Row(k)) /\ j \in Row(k)
    <3>1. IsFiniteSet(Row(k))
      BY <2>1, FS_Interval DEF Row
    <3>2. \A r \in Row(k) : c[r] \in Int
      BY <2>1 DEF Row
    <3> QED
      BY <2>4, <3>1, <3>2 DEF IntOn
  <2>6. Row(k) \ {j} = Row(j)
    BY <2>4
  <2>7. SumFunctionOnSet(c, Row(k)) = c[j] + SumFunctionOnSet(c, Row(j))
    <3> HIDE DEF j
    <3> QED
      BY <2>5, <2>6, SumRemove
  <2> HIDE DEF j
  <2> QED
    BY <2>1, <2>2, <2>3, <2>7
<1>3. \A k \in 0 .. D : k \in T
  <2> HIDE DEF T
  <2> QED
    BY <1>1, <1>2, UpTo
<1> QED
  BY <1>3

\* While the second pass runs there are as many cells as the bound allows.
LEMMA CellsWithinBound ==
  ASSUME NEW s, IsSector(s), NEW ts, NEW groups, Grouped(groups, ts),
         \A k \in 1 .. Len(ts) : ts[k].word.x \in SUBSET Qubits(s.nqubits),
         FillInv(s.dimension, Columns(s, groups)), Filling
  PROVE  Cardinality(DOMAIN cells) <= TransitionUpperBound(s, groups)
<1> DEFINE D == s.dimension
           E == Columns(s, groups)
<1>1. /\ D \in Nat /\ PassType(D) /\ Counted(D, E) /\ Sized(D) /\ sized = D
      /\ DOMAIN cells = 0 .. indptr[D] - 1 /\ pass # "count"
  BY DEF FillInv, Setting, Cursors, Filling
<1>2. \A r \in Row(D) : counts[r] \in Nat /\ counts[r] = Reached(E, r, D)
  BY <1>1 DEF PassType, Counted
<1>3. indptr[0] = 0 /\ \A r \in Row(D) : indptr[r + 1] = indptr[r] + counts[r]
  BY <1>1 DEF Sized, Row
<1>4. indptr[D] = SumFunctionOnSet(counts, Row(D)) /\ indptr[D] \in Nat
  <2>1. \A k \in 0 .. D : indptr[k] = SumFunctionOnSet(counts, Row(k)) /\ indptr[k] \in Nat
    <3> HIDE DEF D, E
    <3> QED
      BY <1>1, <1>2, <1>3, PointersAddUp
  <2> QED
    BY <1>1, <2>1
<1>5. SumFunctionOnSet(counts, Row(D)) <= TransitionUpperBound(s, groups)
  BY <1>2, CountedWithinBound
<1>6. Cardinality(DOMAIN cells) = indptr[D]
  <2> DEFINE c == indptr[D]
  <2>0. c \in Nat /\ DOMAIN cells = 0 .. c - 1
    BY <1>1, <1>4
  <2> HIDE DEF c
  <2>1. CASE c = 0
    BY <2>0, <2>1, FS_EmptySet DEF c
  <2>2. CASE c # 0
    <3>1. 0 \in Int /\ c - 1 \in Int
      BY <2>0
    <3>2. Cardinality(0 .. c - 1) = IF 0 > c - 1 THEN 0 ELSE (c - 1) - 0 + 1
      BY <3>1, FS_Interval
    <3>3. Cardinality(0 .. c - 1) = c
      BY <2>0, <2>2, <3>2
    <3> QED
      BY <2>0, <3>3 DEF c
  <2> QED
    BY <2>1, <2>2
<1> QED
  BY <1>4, <1>5, <1>6

\* What a request fixes: its sector, the compiled terms of its operator, and
\* the matrix the two passes are to write.
SectorOf(r) == NewSector(r.operator.nqubits, r.particles)
GroupsOf(r) == CompileTerms(r.operator)
MatrixOf(r) == Columns(SectorOf(r), GroupsOf(r))

\* What a request fixes is as the lemmas on sectors need it.
LEMMA RequestFacts ==
  ASSUME NEW r \in Requests
  PROVE  /\ IsOperator(r.operator)
         /\ IsSector(SectorOf(r))
         /\ SectorOf(r).nqubits = r.operator.nqubits
         /\ SectorOf(r).particle_number = r.particles
         /\ Grouped(GroupsOf(r), r.operator.terms)
         /\ \A k \in 1 .. Len(r.operator.terms) :
              r.operator.terms[k].word.x \in SUBSET Qubits(SectorOf(r).nqubits)
         /\ Setting(SectorOf(r).dimension, MatrixOf(r))
<1>1. IsOperator(r.operator) /\ r.operator.nqubits \in Nat /\ r.particles \in 0 .. r.operator.nqubits
  BY RequestsAssumption DEF IsOperator
<1>2. /\ IsSector(SectorOf(r)) /\ SectorOf(r).nqubits = r.operator.nqubits
      /\ SectorOf(r).particle_number = r.particles
  BY <1>1, SectorIs DEF SectorOf
<1>3. /\ Grouped(GroupsOf(r), r.operator.terms)
      /\ \A k \in 1 .. Len(r.operator.terms) :
           r.operator.terms[k].word.x \in SUBSET Qubits(SectorOf(r).nqubits)
  BY <1>1, <1>2, CompiledGroups DEF GroupsOf
<1>4. Setting(SectorOf(r).dimension, MatrixOf(r))
  BY <1>2, <1>3, ColumnSetting DEF MatrixOf
<1> QED
  BY <1>1, <1>2, <1>3, <1>4

-----------------------------------------------------------------------------
(* What a step of the facade does to the builder: nothing, forget it, or   *)
(* one step of the two passes.                                             *)

Begun ==
  /\ StartCount(basis.dimension)
  /\ terms' = [groups |-> CompileTerms(request.operator)]
  /\ positions' = FirstPositions(basis)
Taken ==
  /\ source < Size /\ UNCHANGED terms
  /\ positions' = AdvancePositions(basis, positions)
  /\ ~IsFailed(AggregateSource(basis, terms.groups, positions))
  /\ \/ CountSource(AggregateSource(basis, terms.groups, positions).entries)
     \/ FillSource(AggregateSource(basis, terms.groups, positions).entries)
Turned ==
  /\ UNCHANGED terms
  /\ StartSizing \/ SizeRow \/ FinishFill \/ StartFill
  /\ positions' = IF pass' = "fill" THEN FirstPositions(basis) ELSE positions

\* Every action of the facade does one of these to the builder.
LEMMA BuilderSteps ==
  ASSUME Next
  PROVE  /\ UNCHANGED <<request, basis, reference>>
         /\ NoBuild \/ ForgetPasses \/ Begun \/ Taken \/ Turned
<1>1. PICK t \in Thread :
        \/ ConstructLazy(t) \/ ConstructEager(t) \/ FinishConstruction(t)
        \/ Start(t) \/ Apply(t) \/ ReadLazy(t) \/ ReadEager(t) \/ Acquire(t)
        \/ EnsureLazy(t) \/ ReturnLazy(t)
        \/ BeginBuild(t) \/ Aggregate(t) \/ Turn(t) \/ Install(t) \/ Materialize(t)
  BY DEF Next
<1>2. CASE ConstructLazy(t)
  BY <1>2 DEF ConstructLazy
<1>3. CASE ConstructEager(t)
  <2>1. UNCHANGED <<terms, positions, passVars>> \/ Begun
    BY <1>3 DEF ConstructEager, Begun
  <2> QED
    BY <1>3, <2>1 DEF ConstructEager, NoBuild
<1>4. CASE FinishConstruction(t)
  BY <1>4 DEF FinishConstruction
<1>5. CASE Start(t) \/ Apply(t) \/ ReadLazy(t) \/ ReadEager(t) \/ Acquire(t)
  BY <1>5 DEF Start, Apply, ReadLazy, ReadEager, Acquire
<1>6. CASE EnsureLazy(t) \/ ReturnLazy(t) \/ Materialize(t)
  BY <1>6 DEF EnsureLazy, ReturnLazy, Materialize
<1>7. CASE BeginBuild(t)
  <2>1. NoBuild \/ Begun
    BY <1>7 DEF BeginBuild, Begun
  <2> QED
    BY <1>7, <2>1 DEF BeginBuild
<1>8. CASE Aggregate(t)
  <2> DEFINE c == AggregateSource(basis, terms.groups, positions)
  <2>1. \/ ForgetPasses
        \/ /\ ~IsFailed(c) /\ (CountSource(c.entries) \/ FillSource(c.entries))
           /\ positions' = AdvancePositions(basis, positions) /\ UNCHANGED terms
    <3> HIDE DEF c
    <3> QED
      BY <1>8 DEF Aggregate, c
  <2> QED
    BY <1>8, <2>1 DEF Aggregate, Taken
<1>9. CASE Turn(t)
  BY <1>9 DEF Turn, Turned, facadeVars
<1>10. CASE Install(t)
  BY <1>10 DEF Install
<1> QED
  BY <1>1, <1>2, <1>3, <1>4, <1>5, <1>6, <1>7, <1>8, <1>9, <1>10

-----------------------------------------------------------------------------
(***************************************************************************)
(* The builder works on the matrix of the request: its arrays are those of *)
(* the two passes over it, and the iterator stands on the next source.     *)
(***************************************************************************)
Walking(r) ==
  pass \in {"count", "fill"} /\ source < SectorOf(r).dimension =>
    positions = Standing(SectorOf(r), source)
Writing(r) ==
  pass # "idle" =>
    /\ terms = [groups |-> GroupsOf(r)]
    /\ FillInv(SectorOf(r).dimension, MatrixOf(r))
    /\ Walking(r)
WriteInv(r) == request = r => basis = SectorOf(r) /\ Writing(r)

\* At first nothing is built.
LEMMA WriteInitially ==
  ASSUME NEW r \in Requests, Init
  PROVE  WriteInv(r)
  BY DEF Init, WriteInv, Writing, SectorOf

\* A build begins on rows of which nothing is counted.
LEMMA FillBegins ==
  ASSUME NEW D, NEW E
  PROVE  FillInit(D, E)' => FillInv(D, E)'
<1>1. FillInit(D, E) => FillInv(D, E)
  BY FillInitially
<1> QED
  BY <1>1, PTL

\* A build begins on the matrix of the request.
LEMMA BegunWrites ==
  ASSUME NEW r \in Requests, request = r, basis = SectorOf(r), Begun
  PROVE  Writing(r)'
<1> DEFINE D == SectorOf(r).dimension
           E == MatrixOf(r)
<1>1. Setting(D, E) /\ IsSector(SectorOf(r))
  BY RequestFacts
<1>2. /\ pass' = "count" /\ source' = 0 /\ sized' = 0
      /\ counts' = [k \in 0 .. D - 1 |-> 0]
      /\ indptr' = [k \in 0 .. D |-> 0]
      /\ next' = [k \in 0 .. D - 1 |-> 0]
      /\ cells' = [k \in {} |-> Blank]
  BY DEF Begun, StartCount
<1>3. FillInit(D, E)'
  BY <1>1, <1>2 DEF FillInit, Setting, Row
<1>4. FillInv(D, E)'
  <2> HIDE DEF D, E
  <2> QED
    BY <1>3, FillBegins
<1>5. terms' = [groups |-> GroupsOf(r)] /\ positions' = Standing(SectorOf(r), 0)
  BY <1>1, IteratorSteps DEF Begun, GroupsOf
<1> QED
  BY <1>2, <1>4, <1>5 DEF Writing, Walking

\* Where the iterator stands decides what a source adds.
LEMMA TakenIs ==
  ASSUME NEW r \in Requests, request = r, basis = SectorOf(r), Writing(r), pass # "idle", Taken
  PROVE  LET D == SectorOf(r).dimension
             E == MatrixOf(r)
         IN  /\ CountSource(E[source]) \/ FillSource(E[source])
             /\ source \in 0 .. D - 1 /\ source' = source + 1
             /\ positions = Standing(SectorOf(r), source)
             /\ ~IsFailed(AggregatedAt(SectorOf(r), GroupsOf(r), source))
<1> DEFINE D == SectorOf(r).dimension
           E == MatrixOf(r)
           s == SectorOf(r)
           c == AggregatedAt(s, GroupsOf(r), source)
<1>1. /\ terms = [groups |-> GroupsOf(r)] /\ FillInv(D, E) /\ Walking(r) /\ Size = D
      /\ source \in 0 .. D /\ D \in Nat
  BY SizeIsDim DEF Writing, FillInv, PassType, Setting
<1>2. source \in 0 .. D - 1 /\ source < D
  BY <1>1 DEF Taken
<1>3. pass \in {"count", "fill"}
  BY DEF Taken, CountSource, FillSource
<1>4. positions = Standing(s, source)
  BY <1>1, <1>2, <1>3 DEF Walking
<1>5. AggregateSource(basis, terms.groups, positions) = c
  BY <1>1, <1>4 DEF AggregatedAt
<1>6. ~IsFailed(c) /\ E[source] = c.entries
  <2>1. ~IsFailed(c)
    BY <1>5 DEF Taken
  <2>2. E[source] = Column(s, GroupsOf(r), source)
    BY <1>2 DEF MatrixOf, Columns
  <2> QED
    BY <2>1, <2>2 DEF Column
<1>7. CountSource(E[source]) \/ FillSource(E[source])
  <2> HIDE DEF c, E
  <2> QED
    BY <1>5, <1>6 DEF Taken
<1>8. source' = source + 1
  <2> HIDE DEF E
  <2> QED
    BY <1>7 DEF CountSource, FillSource
<1> QED
  BY <1>2, <1>4, <1>6, <1>7, <1>8

\* A source taken is a column of it.
LEMMA TakenWrites ==
  ASSUME NEW r \in Requests, request = r, basis = SectorOf(r), Writing(r), pass # "idle", Taken
  PROVE  Writing(r)'
<1> DEFINE D == SectorOf(r).dimension
           E == MatrixOf(r)
           s == SectorOf(r)
<1>1. /\ CountSource(E[source]) \/ FillSource(E[source])
      /\ source \in 0 .. D - 1 /\ source' = source + 1
      /\ positions = Standing(s, source)
  BY TakenIs
<1>2. FillInv(D, E)'
  <2>1. FillInv(D, E)
    BY DEF Writing
  <2> HIDE DEF D, E
  <2> QED
    BY <1>1, <2>1, CountKeeps, FillKeeps
<1>3. terms' = [groups |-> GroupsOf(r)]
  BY DEF Taken, Writing
<1>4. source' < D => positions' = Standing(s, source')
  <2>1. IsSector(s)
    BY RequestFacts
  <2>2. positions' = AdvancePositions(s, Standing(s, source))
    BY <1>1 DEF Taken
  <2>3. \A i \in 0 .. s.dimension - 1 : i + 1 < s.dimension =>
          AdvancePositions(s, Standing(s, i)) = Standing(s, i + 1)
    BY <2>1, IteratorSteps
  <2> QED
    BY <1>1, <2>2, <2>3
<1> QED
  BY <1>2, <1>3, <1>4 DEF Writing, Walking

\* Between the passes the iterator starts again.
LEMMA TurnedWrites ==
  ASSUME NEW r \in Requests, request = r, basis = SectorOf(r), Writing(r), pass # "idle", Turned
  PROVE  Writing(r)'
<1> DEFINE D == SectorOf(r).dimension
           E == MatrixOf(r)
           s == SectorOf(r)
<1>1. FillInv(D, E) /\ terms = [groups |-> GroupsOf(r)]
  BY DEF Writing
<1>2. FillInv(D, E)'
  <2> HIDE DEF D, E
  <2> QED
    BY <1>1, SizingStarts, SizeKeeps, FillStarts, FinishKeeps DEF Turned
<1>3. terms' = [groups |-> GroupsOf(r)]
  BY <1>1 DEF Turned
<1>4. Walking(r)'
  <2>1. positions' = IF pass' = "fill" THEN Standing(s, 0) ELSE positions
    <3>1. FirstPositions(s) = Standing(s, 0)
      BY RequestFacts, IteratorSteps
    <3> QED
      BY <3>1 DEF Turned
  <2>2. pass' \in {"size", "full"} \/ (pass' = "fill" /\ source' = 0)
    BY DEF Turned, StartSizing, SizeRow, FinishFill, StartFill
  <2> QED
    BY <2>1, <2>2 DEF Walking
<1> QED
  BY <1>2, <1>3, <1>4 DEF Writing

\* No step takes the builder away from the matrix of the request.
LEMMA WriteKeeps ==
  ASSUME NEW r \in Requests, WriteInv(r), [Next]_vars
  PROVE  WriteInv(r)'
<1> SUFFICES ASSUME request' = r PROVE basis' = SectorOf(r) /\ Writing(r)'
  BY DEF WriteInv
<1>1. CASE UNCHANGED vars
  <2>1. UNCHANGED <<request, basis, terms, positions, passVars>>
    BY <1>1 DEF vars, facadeVars
  <2>2. basis = SectorOf(r) /\ Writing(r)
    BY <2>1 DEF WriteInv
  <2>3. UNCHANGED <<pass, source>>
    BY <2>1 DEF passVars
  <2>4. FillInv(SectorOf(r).dimension, MatrixOf(r)) => FillInv(SectorOf(r).dimension, MatrixOf(r))'
    BY <2>1, FillStutters
  <2> QED
    BY <2>1, <2>2, <2>3, <2>4 DEF Writing, Walking
<1>2. CASE Next
  <2>1. /\ UNCHANGED <<request, basis>>
        /\ NoBuild \/ ForgetPasses \/ Begun \/ Taken \/ Turned
    BY <1>2, BuilderSteps
  <2>2. request = r /\ basis = SectorOf(r) /\ basis' = SectorOf(r) /\ Writing(r)
    BY <2>1 DEF WriteInv
  <2>3. CASE NoBuild
    <3>1. UNCHANGED <<terms, positions, passVars>>
      BY <2>3 DEF NoBuild
    <3>2. UNCHANGED <<pass, source>>
      BY <3>1 DEF passVars
    <3>3. FillInv(SectorOf(r).dimension, MatrixOf(r)) => FillInv(SectorOf(r).dimension, MatrixOf(r))'
      BY <3>1, FillStutters
    <3> QED
      BY <2>2, <3>1, <3>2, <3>3 DEF Writing, Walking
  <2>4. CASE ForgetPasses
    BY <2>2, <2>4 DEF ForgetPasses, Writing
  <2>5. CASE Begun
    BY <2>2, <2>5, BegunWrites
  <2>6. CASE Taken \/ Turned
    <3>1. pass # "idle"
      BY <2>6 DEF Taken, Turned, CountSource, FillSource, StartSizing, SizeRow, FinishFill, StartFill
    <3> QED
      BY <2>2, <2>6, <3>1, TakenWrites, TurnedWrites
  <2> QED
    BY <2>1, <2>2, <2>3, <2>4, <2>5, <2>6
<1> QED
  BY <1>1, <1>2

MatrixInv == request \in Requests /\ \A r \in Requests : WriteInv(r)

\* The invariant of the builder is inductive.
LEMMA MatrixKeeps ==
  ASSUME MatrixInv, [Next]_vars
  PROVE  MatrixInv'
<1>1. UNCHANGED request
  <2>1. CASE Next
    BY <2>1, BuilderSteps
  <2>2. CASE UNCHANGED vars
    BY <2>2 DEF vars, facadeVars
  <2> QED
    BY <2>1, <2>2
<1>2. ASSUME NEW r \in Requests PROVE WriteInv(r)'
  BY WriteKeeps DEF MatrixInv
<1> QED
  BY <1>1, <1>2 DEF MatrixInv

\* The builder is on the matrix of the request in every reachable state.
LEMMA MatrixInvariant == Spec => []MatrixInv
<1>1. Init => MatrixInv
  BY WriteInitially DEF Init, MatrixInv
<1>2. MatrixInv /\ [Next]_vars => MatrixInv'
  BY MatrixKeeps
<1> QED
  BY <1>1, <1>2, PTL DEF Spec

-----------------------------------------------------------------------------
\* The builder never fills more cells than the bound its memory was checked
\* with: transition_upper_bound.
THEOREM NoMoreThanEstimated == Spec => []BuildWithinEstimate
<1>1. MatrixInv => BuildWithinEstimate
  <2> SUFFICES ASSUME MatrixInv, Filling
               PROVE  Cardinality(DOMAIN cells) <= TransitionUpperBound(basis, terms.groups)
    BY DEF BuildWithinEstimate, Filling
  <2>0. PICK r \in Requests : request = r
    BY DEF MatrixInv
  <2>1. r \in Requests /\ basis = SectorOf(r) /\ Writing(r) /\ pass # "idle"
    BY <2>0 DEF MatrixInv, WriteInv, Filling
  <2>2. terms.groups = GroupsOf(r) /\ FillInv(SectorOf(r).dimension, Columns(SectorOf(r), GroupsOf(r)))
    BY <2>1 DEF Writing, MatrixOf
  <2>3. Cardinality(DOMAIN cells) <= TransitionUpperBound(SectorOf(r), GroupsOf(r))
    BY <2>1, <2>2, RequestFacts, CellsWithinBound
  <2> QED
    BY <2>1, <2>2, <2>3
<1> QED
  BY <1>1, MatrixInvariant, PTL

\* In the facade as by itself, the second pass fills the cells the first one
\* counted for every row, and the columns of a row ascend.
THEOREM FacadeFillsAsCounted == Spec => []FilledAsCounted
<1>1. MatrixInv => FilledAsCounted
  <2> SUFFICES ASSUME MatrixInv, pass # "idle" PROVE FilledAsCounted
    BY DEF FilledAsCounted
  <2>1. PICK r \in Requests : request = r
    BY DEF MatrixInv
  <2>2. FillInv(SectorOf(r).dimension, MatrixOf(r))
    BY <2>1 DEF MatrixInv, WriteInv, Writing
  <2> QED
    BY <2>2, FilledFrom
<1> QED
  BY <1>1, MatrixInvariant, PTL

-----------------------------------------------------------------------------
(* The matrix of a request                                                 *)

DimensionOf(r) == SectorOf(r).dimension
LeavesAt(r, j) == IsFailed(AggregatedAt(SectorOf(r), GroupsOf(r), j))

\* A square matrix of amplitudes, and the entries of one of its columns.
IsMatrix(m, n) ==
  /\ DOMAIN m = 1 .. n
  /\ \A i \in 1 .. n : DOMAIN m[i] = 1 .. n /\ \A j \in 1 .. n : m[i][j] \in Complex
EntriesAt(m, n, j) ==
  {[row |-> i, value |-> m[i + 1][j + 1]] : i \in {k \in 0 .. n - 1 : m[k + 1][j + 1] # Zero}}

\* The block of the reference, by the words of rows and columns.
LEMMA BlockIs ==
  ASSUME NEW r \in Requests
  PROVE  /\ DimensionOf(r) \in Nat \ {0}
         /\ IsMatrix(Restricted(r), DimensionOf(r))
         /\ \A i, j \in 0 .. DimensionOf(r) - 1 :
              Restricted(r)[i + 1][j + 1]
                = Entry(r.operator, SectorWord(SectorOf(r), i), SectorWord(SectorOf(r), j))
<1> DEFINE s == SectorOf(r)
           D == DimensionOf(r)
           op == r.operator
           M == WordsInOrder(op.nqubits, r.particles)
           m == Restricted(r)
<1>1. /\ IsSector(s) /\ IsOperator(op) /\ s.nqubits = op.nqubits /\ s.particle_number = r.particles
      /\ Grouped(GroupsOf(r), op.terms)
  BY RequestFacts
<1>2. D \in Nat \ {0}
  BY <1>1, IteratorSteps DEF DimensionOf
<1>3. DOMAIN M = 1 .. D /\ \A i \in 1 .. D : M[i] = SectorWord(s, i - 1)
  BY <1>1, OrderIs DEF DimensionOf
<1>4. m = [i \in 1 .. D |-> [j \in 1 .. D |-> Entry(op, M[i], M[j])]]
  BY <1>3 DEF Restricted
<1>5. \A i \in 1 .. D : M[i] \in SectorWords(s)
  BY <1>1, <1>2, <1>3, SectorNumbered DEF DimensionOf
<1>6. \A w \in SectorWords(s) : \A row : Entry(op, row, w) \in Complex
  BY <1>1, CompiledGroups, EntriesAre
<1>7. IsMatrix(m, D)
  BY <1>4, <1>5, <1>6 DEF IsMatrix
<1>8. ASSUME NEW i \in 0 .. D - 1, NEW j \in 0 .. D - 1
      PROVE  m[i + 1][j + 1] = Entry(op, SectorWord(s, i), SectorWord(s, j))
  <2>1. i + 1 \in 1 .. D /\ j + 1 \in 1 .. D /\ (i + 1) - 1 = i /\ (j + 1) - 1 = j
    BY <1>2
  <2>2. M[i + 1] = SectorWord(s, i) /\ M[j + 1] = SectorWord(s, j)
    BY <1>3, <2>1
  <2> QED
    BY <1>4, <2>1, <2>2
<1> QED
  BY <1>2, <1>7, <1>8

\* A group that does not cancel at a column is a matrix element that is not zero.
LEMMA LiveIs ==
  ASSUME NEW r \in Requests, NEW j \in 0 .. DimensionOf(r) - 1
  PROVE  LET s == SectorOf(r)
             groups == GroupsOf(r)
             w == SectorWord(s, j)
         IN  /\ w \in SectorWords(s)
             /\ \A g \in 1 .. Len(groups) :
                  /\ GroupValue(s, Active(s, w), groups[g]) = Entry(r.operator, Xor(w, groups[g].x), w)
                  /\ Live(s, groups, w, g) <=> Entry(r.operator, Xor(w, groups[g].x), w) # Zero
             /\ \A row : Entry(r.operator, row, w) # Zero =>
                  \E g \in 1 .. Len(groups) : row = Xor(w, groups[g].x)
<1> DEFINE s == SectorOf(r)
           groups == GroupsOf(r)
           w == SectorWord(s, j)
           op == r.operator
<1>1. /\ IsSector(s) /\ IsOperator(op) /\ op.nqubits = s.nqubits
      /\ Grouped(groups, op.terms)
  BY RequestFacts
<1>2. \A k \in 1 .. Len(op.terms) :
              /\ op.terms[k].word.x \in SUBSET Qubits(op.nqubits)
              /\ op.terms[k].word.z \in SUBSET Qubits(op.nqubits)
              /\ op.terms[k].coefficient \in Complex
  BY <1>1, CompiledGroups
<1>3. w \in SectorWords(s)
  BY <1>1, SectorNumbered DEF DimensionOf
<1> HIDE DEF s, groups, op, w
<1>4. /\ \A g \in 1 .. Len(groups) :
           GroupValue(s, Active(s, w), groups[g]) = Entry(op, Xor(w, groups[g].x), w)
      /\ \A row : Entry(op, row, w) # Zero => \E g \in 1 .. Len(groups) : row = Xor(w, groups[g].x)
  BY <1>1, <1>2, <1>3, EntriesAre
<1>5. \A g \in 1 .. Len(groups) :
           Live(s, groups, w, g) <=> Entry(op, Xor(w, groups[g].x), w) # Zero
  BY <1>4 DEF Live
<1> QED
  BY <1>3, <1>4, <1>5 DEF s, groups, op, w

\* What the builder aggregates at a column is the column of the block.
LEMMA ColumnOfBlock ==
  ASSUME NEW r \in Requests, NEW j \in 0 .. DimensionOf(r) - 1, ~LeavesAt(r, j)
  PROVE  /\ MatrixOf(r)[j] = EntriesAt(Restricted(r), DimensionOf(r), j)
         /\ AggregatedAt(SectorOf(r), GroupsOf(r), j).entries = EntriesAt(Restricted(r), DimensionOf(r), j)
<1> DEFINE s == SectorOf(r)
           D == DimensionOf(r)
           groups == GroupsOf(r)
           w == SectorWord(s, j)
           op == r.operator
           m == Restricted(r)
           C == Column(s, groups, j)
<1>1. /\ IsSector(s) /\ Grouped(groups, op.terms) /\ D = s.dimension /\ j \in 0 .. s.dimension - 1
      /\ \A k \in 1 .. Len(op.terms) : op.terms[k].word.x \in SUBSET Qubits(s.nqubits)
  BY RequestFacts DEF DimensionOf
<1>2. \A i \in 0 .. D - 1 : m[i + 1][j + 1] = Entry(op, SectorWord(s, i), w)
  BY BlockIs
<1>3. ASSUME NEW e \in C PROVE e \in EntriesAt(m, D, j)
  <2>1. PICK g \in 1 .. Len(groups) :
            /\ Live(s, groups, w, g) /\ e = Hop(s, groups, w, g)
            /\ e.row \in 0 .. D - 1 /\ SectorWord(s, e.row) = Xor(w, groups[g].x)
    BY <1>1, EntryMadeBy
  <2>2. m[e.row + 1][j + 1] = Entry(op, Xor(w, groups[g].x), w)
    BY <1>2, <2>1
  <2>3. /\ GroupValue(s, Active(s, w), groups[g]) = m[e.row + 1][j + 1]
        /\ m[e.row + 1][j + 1] # Zero
    BY <2>1, <2>2, LiveIs
  <2>4. e = [row |-> e.row, value |-> m[e.row + 1][j + 1]]
    BY <2>1, <2>3 DEF Hop
  <2> QED
    BY <2>1, <2>3, <2>4 DEF EntriesAt
<1>4. ASSUME NEW e \in EntriesAt(m, D, j) PROVE e \in C
  <2>1. PICK i \in 0 .. D - 1 : m[i + 1][j + 1] # Zero /\ e = [row |-> i, value |-> m[i + 1][j + 1]]
    BY DEF EntriesAt
  <2>2. PICK g \in 1 .. Len(groups) : SectorWord(s, i) = Xor(w, groups[g].x)
    BY <1>2, <2>1, LiveIs
  <2>3. Live(s, groups, w, g) /\ GroupValue(s, Active(s, w), groups[g]) = m[i + 1][j + 1]
    BY <1>2, <2>1, <2>2, LiveIs
  <2>4. RankWords(s, Xor(w, groups[g].x)) = i
    BY <1>1, <2>2, SectorNumbered
  <2>5. e = Hop(s, groups, w, g)
    BY <2>1, <2>3, <2>4 DEF Hop
  <2>6. Hop(s, groups, w, g) \in C
    BY <1>1, <2>3, ColumnIs DEF LeavesAt
  <2> QED
    BY <2>5, <2>6
<1>5. C = EntriesAt(m, D, j)
  <2> HIDE DEF C
  <2> QED
    BY <1>3, <1>4
<1>6. MatrixOf(r)[j] = C
  BY <1>1 DEF MatrixOf, Columns
<1>7. AggregatedAt(s, groups, j).entries = C
  BY DEF LeavesAt, Column
<1> QED
  BY <1>5, <1>6, <1>7

\* The operator leaves the sector exactly where the builder refuses a column.
LEMMA LeaksAre ==
  ASSUME NEW r \in Requests
  PROVE  /\ Leaks(r) <=> \E j \in 0 .. DimensionOf(r) - 1 : LeavesAt(r, j)
         /\ Leaks(r) \in BOOLEAN
         /\ \A j \in 0 .. DimensionOf(r) - 1 :
              LeavesAt(r, j) => AggregatedAt(SectorOf(r), GroupsOf(r), j) = Failed("SectorLeakage")
<1> DEFINE s == SectorOf(r)
           D == DimensionOf(r)
           groups == GroupsOf(r)
           op == r.operator
           M == WordsInOrder(op.nqubits, r.particles)
<1>1. /\ IsSector(s) /\ IsOperator(op) /\ s.nqubits = op.nqubits /\ s.particle_number = r.particles
      /\ Grouped(groups, op.terms) /\ D = s.dimension
      /\ \A k \in 1 .. Len(op.terms) : op.terms[k].word.x \in SUBSET Qubits(s.nqubits)
  BY RequestFacts DEF DimensionOf
<1>2. D \in Nat
  BY BlockIs
<1>3. DOMAIN M = 1 .. D /\ \A i \in 1 .. D : M[i] = SectorWord(s, i - 1)
  BY <1>1, OrderIs
<1>4. /\ \A column \in Range(M) : \E j \in 0 .. D - 1 : column = SectorWord(s, j)
      /\ \A j \in 0 .. D - 1 : SectorWord(s, j) \in Range(M)
  <2>1. ASSUME NEW column \in Range(M) PROVE \E j \in 0 .. D - 1 : column = SectorWord(s, j)
    <3>1. PICK i \in 1 .. D : column = M[i]
      BY <1>3 DEF Range
    <3>2. i - 1 \in 0 .. D - 1
      BY <1>2
    <3> QED
      BY <1>3, <3>1, <3>2
  <2>2. ASSUME NEW j \in 0 .. D - 1 PROVE SectorWord(s, j) \in Range(M)
    <3>1. j + 1 \in 1 .. D /\ (j + 1) - 1 = j
      BY <1>2
    <3>2. SectorWord(s, j) = M[j + 1]
      BY <1>3, <3>1
    <3> QED
      BY <1>3, <3>1, <3>2 DEF Range
  <2> QED
    BY <2>1, <2>2
<1>5. \A j \in 0 .. D - 1 : LeavesAt(r, j) <=>
        \E g \in 1 .. Len(groups) :
          /\ Live(s, groups, SectorWord(s, j), g)
          /\ Cardinality(Xor(SectorWord(s, j), groups[g].x)) # s.particle_number
  BY <1>1, ColumnIs DEF LeavesAt, Staying
<1> HIDE DEF s, D, groups, op, M
<1>6. ASSUME NEW column \in Range(M), NEW row \in SUBSET Qubits(op.nqubits),
             Cardinality(row) # s.particle_number, Entry(op, row, column) # Zero
      PROVE  \E j \in 0 .. D - 1 : LeavesAt(r, j)
  <2>1. PICK j \in 0 .. D - 1 : column = SectorWord(s, j)
    BY <1>4
  <2>2. PICK g \in 1 .. Len(groups) : row = Xor(column, groups[g].x)
    BY <1>6, <2>1, LiveIs DEF s, D, groups, op
  <2>3. Live(s, groups, SectorWord(s, j), g)
    BY <1>6, <2>1, <2>2, LiveIs DEF s, D, groups, op
  <2> QED
    BY <1>5, <1>6, <2>1, <2>2, <2>3
<1>7. ASSUME NEW j \in 0 .. D - 1, LeavesAt(r, j)
      PROVE  \E column \in Range(M), row \in SUBSET Qubits(op.nqubits) :
               Cardinality(row) # s.particle_number /\ Entry(op, row, column) # Zero
  <2> DEFINE w == SectorWord(s, j)
  <2>1. PICK g \in 1 .. Len(groups) :
          Live(s, groups, w, g) /\ Cardinality(Xor(w, groups[g].x)) # s.particle_number
    BY <1>5, <1>7
  <2>2. w \in SectorWords(s) /\ Entry(op, Xor(w, groups[g].x), w) # Zero
    BY <2>1, LiveIs DEF s, D, groups, op
  <2>3. groups[g].x \in SUBSET Qubits(op.nqubits)
    <3>1. PICK k \in 1 .. Len(op.terms) : op.terms[k].word.x = groups[g].x
      BY <1>1 DEF Grouped
    <3> QED
      BY <1>1, <3>1
  <2>4. Xor(w, groups[g].x) \in SUBSET Qubits(op.nqubits)
    BY <1>1, <2>2, <2>3 DEF SectorWords, Chosen, Xor
  <2> QED
    BY <1>4, <2>1, <2>2, <2>4
<1>8. Leaks(r) <=> \E column \in Range(M), row \in SUBSET Qubits(op.nqubits) :
               Cardinality(row) # s.particle_number /\ Entry(op, row, column) # Zero
  BY <1>1 DEF Leaks, M, op
<1>9. Leaks(r) \in BOOLEAN
  BY DEF Leaks
<1>10. \A j \in 0 .. D - 1 : LeavesAt(r, j) => AggregatedAt(s, groups, j) = Failed("SectorLeakage")
  BY <1>1, ColumnIs DEF LeavesAt, s, D, groups
<1> QED
  BY <1>6, <1>7, <1>8, <1>9, <1>10 DEF s, D, groups

-----------------------------------------------------------------------------
(* Products                                                                *)

\* The addition of a column to the output, and what it amounts to.
Adding(output, entries, value) ==
  [k \in DOMAIN output |->
     LET mine == {e \in entries : e.row = k - 1} IN
     IF mine = {} THEN output[k]
     ELSE Plus(output[k], Times((CHOOSE e \in mine : TRUE).value, value))]

\* The same, entry by entry of the output.
Added(m, n, output, j, value) == [i \in 1 .. n |-> Plus(output[i], Times(m[i][j], value))]

\* Adding a column of a matrix adds its entry in every row.
LEMMA AddingIs ==
  ASSUME NEW n \in Nat, NEW m, IsMatrix(m, n), NEW output \in [1 .. n -> Complex],
         NEW j \in 1 .. n, NEW value \in Complex
  PROVE  Adding(output, EntriesAt(m, n, j - 1), value) = Added(m, n, output, j, value)
<1> DEFINE E == EntriesAt(m, n, j - 1)
           mine(i) == {e \in E : e.row = i - 1}
<1>1. (j - 1) + 1 = j
  OBVIOUS
<1>2. ASSUME NEW i \in 1 .. n
      PROVE  /\ m[i][j] = Zero => mine(i) = {}
             /\ m[i][j] # Zero => mine(i) = {[row |-> i - 1, value |-> m[i][j]]}
  <2>1. ASSUME NEW e \in mine(i)
        PROVE  m[i][j] # Zero /\ e = [row |-> i - 1, value |-> m[i][j]]
    <3>1. PICK k \in 0 .. n - 1 : m[k + 1][j] # Zero /\ e = [row |-> k, value |-> m[k + 1][j]]
      BY <1>1 DEF EntriesAt
    <3>2. k = i - 1 /\ k + 1 = i
      BY <3>1
    <3> QED
      BY <3>1, <3>2
  <2>2. ASSUME m[i][j] # Zero PROVE [row |-> i - 1, value |-> m[i][j]] \in mine(i)
    <3>1. i - 1 \in 0 .. n - 1 /\ (i - 1) + 1 = i
      OBVIOUS
    <3> QED
      BY <1>1, <2>2, <3>1 DEF EntriesAt
  <2> HIDE DEF mine
  <2> QED
    BY <2>1, <2>2
<1>3. ASSUME NEW i \in 1 .. n
      PROVE  (IF mine(i) = {} THEN output[i]
              ELSE Plus(output[i], Times((CHOOSE e \in mine(i) : TRUE).value, value)))
             = Plus(output[i], Times(m[i][j], value))
  <2>1. output[i] \in Complex /\ m[i][j] \in Complex
    BY DEF IsMatrix
  <2>2. CASE m[i][j] = Zero
    <3>1. mine(i) = {} /\ Times(m[i][j], value) = Zero /\ Plus(output[i], Zero) = output[i]
      BY <1>2, <2>1, <2>2, ComplexFacts
    <3> HIDE DEF mine
    <3> QED
      BY <3>1
  <2>3. CASE m[i][j] # Zero
    <3>1. mine(i) = {[row |-> i - 1, value |-> m[i][j]]}
      BY <1>2, <2>3
    <3> DEFINE rec == [row |-> i - 1, value |-> m[i][j]]
    <3>4. rec.value = m[i][j]
      OBVIOUS
    <3>5. mine(i) = {rec}
      BY <3>1
    <3> HIDE DEF mine, rec
    <3>2. (CHOOSE e \in mine(i) : TRUE) = rec /\ mine(i) # {}
      BY <3>5
    <3> QED
      BY <3>2, <3>4
  <2> QED
    BY <2>2, <2>3
<1>4. DOMAIN output = 1 .. n
  OBVIOUS
<1>5. Adding(output, E, value) =
        [i \in 1 .. n |-> IF mine(i) = {} THEN output[i]
                          ELSE Plus(output[i], Times((CHOOSE e \in mine(i) : TRUE).value, value))]
  <2> HIDE DEF E
  <2> QED
    BY <1>4 DEF Adding
<1> HIDE DEF mine, E
<1>6. Adding(output, E, value) = [i \in 1 .. n |-> Plus(output[i], Times(m[i][j], value))]
  BY <1>3, <1>5
<1> QED
  BY <1>6 DEF E, Added

\* The part of a product that the first columns make.
Products(m, n, psi, i) == [j \in 1 .. n |-> Times(m[i][j], psi[j])]
Partial(m, n, psi, k) == [i \in 1 .. n |-> Total(1 .. k, Products(m, n, psi, i))]
PartialGrows(m, n, psi) ==
  \A k \in 1 .. n : Partial(m, n, psi, k) = Added(m, n, Partial(m, n, psi, k - 1), k, psi[k])

\* The parts of a product grow column by column to the whole.
LEMMA PartialIs ==
  ASSUME NEW n \in Nat, NEW m, IsMatrix(m, n), NEW psi \in [1 .. n -> Complex]
  PROVE  /\ Partial(m, n, psi, 0) = [i \in 1 .. n |-> Zero]
         /\ \A k \in 0 .. n : Partial(m, n, psi, k) \in [1 .. n -> Complex]
         /\ PartialGrows(m, n, psi)
         /\ Partial(m, n, psi, n) = Product(m, psi)
<1> DEFINE T(i) == Products(m, n, psi, i)
<1>1. ASSUME NEW i \in 1 .. n
      PROVE  DOMAIN T(i) = 1 .. n /\ \A j \in 1 .. n : T(i)[j] = Times(m[i][j], psi[j]) /\ T(i)[j] \in Complex
  <2>1. \A j \in 1 .. n : m[i][j] \in Complex /\ psi[j] \in Complex
    BY DEF IsMatrix
  <2> QED
    BY <2>1, ComplexFacts DEF Products
<1>2. ASSUME NEW i \in 1 .. n, NEW k \in 0 .. n
      PROVE  IsFiniteSet(1 .. k) /\ ComplexOn(T(i), 1 .. k)
  <2>1. IsFiniteSet(1 .. k)
    BY FS_Interval
  <2> HIDE DEF T
  <2> QED
    BY <1>1, <2>1 DEF ComplexOn
<1>3. Partial(m, n, psi, 0) = [i \in 1 .. n |-> Zero]
  <2>1. 1 .. 0 = {}
    OBVIOUS
  <2> QED
    BY <2>1, ComplexNone DEF Partial
<1>4. \A k \in 0 .. n : Partial(m, n, psi, k) \in [1 .. n -> Complex]
  <2> SUFFICES ASSUME NEW k \in 0 .. n, NEW i \in 1 .. n PROVE Total(1 .. k, T(i)) \in Complex
    BY DEF Partial
  <2>1. IsFiniteSet(1 .. k) /\ ComplexOn(T(i), 1 .. k)
    BY <1>2
  <2> HIDE DEF T
  <2> QED
    BY <2>1, ComplexParts
<1>5. ASSUME NEW k \in 1 .. n, NEW i \in 1 .. n
      PROVE  Total(1 .. k, T(i)) = Plus(Total(1 .. k - 1, T(i)), Times(m[i][k], psi[k]))
  <2>1. IsFiniteSet(1 .. k) /\ ComplexOn(T(i), 1 .. k) /\ k \in 1 .. k
    BY <1>2
  <2>2. (1 .. k) \ {k} = 1 .. k - 1
    OBVIOUS
  <2> DEFINE t == T(i)
  <2>3. t[k] = Times(m[i][k], psi[k]) /\ t[k] \in Complex
    BY <1>1
  <2> HIDE DEF t
  <2>4. Total(1 .. k, t) = Plus(t[k], Total((1 .. k) \ {k}, t)) /\ Total((1 .. k) \ {k}, t) \in Complex
    BY <2>1, ComplexRemove DEF t
  <2> DEFINE a == t[k]
             b == Total((1 .. k) \ {k}, t)
  <2>5. a \in Complex /\ b \in Complex
    BY <2>3, <2>4
  <2> HIDE DEF a, b
  <2>6. Plus(a, b) = Plus(b, a)
    BY <2>5, ComplexFacts
  <2>7. Total(1 .. k, t) = Plus(b, a) /\ a = Times(m[i][k], psi[k]) /\ b = Total(1 .. k - 1, t)
    BY <2>2, <2>3, <2>4, <2>6 DEF a, b
  <2> QED
    BY <2>7 DEF t
<1>6. ASSUME NEW k \in 1 .. n
      PROVE  Partial(m, n, psi, k)
               = [i \in 1 .. n |-> Plus(Partial(m, n, psi, k - 1)[i], Times(m[i][k], psi[k]))]
  BY <1>5 DEF Partial
<1>7. Partial(m, n, psi, n) = Product(m, psi)
  <2>1. DOMAIN m = 1 .. n /\ DOMAIN psi = 1 .. n
    BY DEF IsMatrix
  <2>2. Product(m, psi) = [i \in 1 .. n |-> TotalOf(T(i))]
    BY <2>1 DEF Product, Products
  <2>3. \A i \in 1 .. n : TotalOf(T(i)) = Total(1 .. n, T(i))
    BY <1>1 DEF TotalOf
  <2> HIDE DEF T
  <2>4. Product(m, psi) = [i \in 1 .. n |-> Total(1 .. n, T(i))]
    BY <2>2, <2>3
  <2> QED
    BY <2>4 DEF T, Partial
<1> QED
  BY <1>3, <1>4, <1>6, <1>7 DEF PartialGrows, Added

-----------------------------------------------------------------------------
(* The lazy product                                                        *)

\* One column of the walk over the sector, and the walk.
WalkStep(s, groups, psi, before, k) ==
  IF IsFailed(before) THEN before
  ELSE IF IsFailed(AggregateSource(s, groups, before.at)) THEN AggregateSource(s, groups, before.at)
  ELSE [at |-> AdvancePositions(s, before.at),
        output |-> Adding(before.output, AggregateSource(s, groups, before.at).entries, psi[k])]
WalkStart(s) == [at |-> FirstPositions(s), output |-> [k \in 1 .. s.dimension |-> Zero]]
WalkBody(s, groups, psi, g) ==
  [k \in 0 .. s.dimension |-> IF k = 0 THEN WalkStart(s) ELSE WalkStep(s, groups, psi, g[k - 1], k)]
Walk(s, groups, psi) == CHOOSE g : g = WalkBody(s, groups, psi, g)

\* LazyApply is this walk.
LEMMA LazyIsWalk ==
  ASSUME NEW s, NEW groups, NEW psi
  PROVE  LazyApply(s, groups, psi)
           = IF IsFailed(Walk(s, groups, psi)[s.dimension]) THEN Walk(s, groups, psi)[s.dimension]
             ELSE [vector |-> Walk(s, groups, psi)[s.dimension].output]
BY DEF LazyApply, Walk, WalkBody, WalkStart, WalkStep, Adding

\* Where the walk is before column k, and what it has added up: the part of
\* the product that the columns below k make, unless one of them leaves.
Walked(r) ==
  [k \in 0 .. DimensionOf(r) |->
     IF \E j \in 0 .. k - 1 : LeavesAt(r, j) THEN Failed("SectorLeakage")
     ELSE [at |-> IF k < DimensionOf(r) THEN Standing(SectorOf(r), k)
                  ELSE AdvancePositions(SectorOf(r), Standing(SectorOf(r), k - 1)),
           output |-> Partial(Restricted(r), DimensionOf(r), r.state, k)]]

\* The state of a request has an amplitude for every column.
LEMMA StateIs ==
  ASSUME NEW r \in Requests
  PROVE  r.state \in [1 .. DimensionOf(r) -> Complex]
<1>1. /\ r.operator.nqubits \in Nat /\ r.particles \in 0 .. r.operator.nqubits
      /\ r.state \in [1 .. ChooseCount(r.operator.nqubits, r.particles) -> Complex]
  BY RequestsAssumption
<1>2. DimensionOf(r) = ChooseCount(r.operator.nqubits, r.particles)
  BY <1>1 DEF DimensionOf, SectorOf, NewSector
<1> QED
  BY <1>1, <1>2

\* One column of the walk leads from the part before it to the next.
LEMMA WalkedSteps ==
  ASSUME NEW r \in Requests, NEW k \in 1 .. DimensionOf(r)
  PROVE  Walked(r)[k] = WalkStep(SectorOf(r), GroupsOf(r), r.state, Walked(r)[k - 1], k)
<1> DEFINE s == SectorOf(r)
           D == DimensionOf(r)
           groups == GroupsOf(r)
           m == Restricted(r)
           psi == r.state
           here == Walked(r)[k - 1]
<1>1. /\ IsSector(s) /\ D = s.dimension /\ D \in Nat \ {0} /\ IsMatrix(m, D)
      /\ k \in Int /\ k - 1 \in 0 .. D - 1 /\ k - 1 \in 0 .. D /\ (k - 1) + 1 = k /\ k \in 0 .. D
      /\ k \in 1 .. D
  BY RequestFacts, BlockIs DEF DimensionOf
<1>2. psi \in [1 .. D -> Complex]
  BY StateIs
<1>3. CASE \E j \in 0 .. (k - 1) - 1 : LeavesAt(r, j)
  <2>1. here = Failed("SectorLeakage")
    BY <1>1, <1>3 DEF Walked
  <2>2. \E j \in 0 .. k - 1 : LeavesAt(r, j)
    BY <1>1, <1>3
  <2>3. Walked(r)[k] = Failed("SectorLeakage")
    BY <1>1, <2>2 DEF Walked
  <2>4. IsFailed(Failed("SectorLeakage"))
    BY DEF IsFailed, Failed
  <2> QED
    BY <2>1, <2>3, <2>4 DEF WalkStep
<1>4. CASE ~\E j \in 0 .. (k - 1) - 1 : LeavesAt(r, j)
  <2> DEFINE c == AggregatedAt(s, groups, k - 1)
             partial == Partial(m, D, psi, k - 1)
  <2>1. here = [at |-> Standing(s, k - 1), output |-> partial]
    BY <1>1, <1>4 DEF Walked
  <2>2. ~IsFailed(here) /\ here.at = Standing(s, k - 1) /\ here.output = partial
    <3> HIDE DEF here, partial
    <3> QED
      BY <2>1 DEF IsFailed
  <2>3. AggregateSource(s, groups, here.at) = c
    BY <2>2 DEF AggregatedAt
  <2>4. IsFailed(c) <=> LeavesAt(r, k - 1)
    BY DEF LeavesAt
  <2>5. CASE LeavesAt(r, k - 1)
    <3>1. c = Failed("SectorLeakage")
      BY <1>1, <2>5, LeaksAre
    <3>2. \E j \in 0 .. k - 1 : LeavesAt(r, j)
      BY <1>1, <2>5
    <3>3. Walked(r)[k] = Failed("SectorLeakage")
      BY <1>1, <3>2 DEF Walked
    <3>4. WalkStep(s, groups, psi, here, k) = c
      <4> HIDE DEF here, c, s, groups
      <4> QED
        BY <2>2, <2>3, <2>4, <2>5 DEF WalkStep
    <3> QED
      BY <3>1, <3>3, <3>4
  <2>6. CASE ~LeavesAt(r, k - 1)
    <3>1. ~\E j \in 0 .. k - 1 : LeavesAt(r, j)
      BY <1>1, <1>4, <2>6
    <3>2. c.entries = EntriesAt(m, D, k - 1)
      BY <1>1, <2>6, ColumnOfBlock
    <3>3. partial \in [1 .. D -> Complex] /\ psi[k] \in Complex
      BY <1>1, <1>2, PartialIs
    <3>4. Adding(partial, EntriesAt(m, D, k - 1), psi[k]) = Added(m, D, partial, k, psi[k])
      <4> DEFINE value == psi[k]
                 out == partial
      <4>1. out \in [1 .. D -> Complex] /\ value \in Complex
        BY <3>3
      <4> HIDE DEF out, value, m, D
      <4>2. Adding(out, EntriesAt(m, D, k - 1), value) = Added(m, D, out, k, value)
        BY <1>1, <4>1, AddingIs
      <4> QED
        BY <4>2 DEF out, value
    <3>5. Partial(m, D, psi, k) = Added(m, D, partial, k, psi[k])
      <4>1. PartialGrows(m, D, psi)
        BY <1>1, <1>2, PartialIs
      <4> HIDE DEF m, D, psi
      <4> QED
        BY <1>1, <4>1 DEF PartialGrows
    <3>6. AdvancePositions(s, Standing(s, k - 1))
            = IF k < D THEN Standing(s, k) ELSE AdvancePositions(s, Standing(s, k - 1))
      <4>1. \A i \in 0 .. s.dimension - 1 : i + 1 < s.dimension =>
              AdvancePositions(s, Standing(s, i)) = Standing(s, i + 1)
        BY <1>1, IteratorSteps
      <4> QED
        BY <1>1, <4>1
    <3>7. Walked(r)[k] = [at |-> AdvancePositions(s, Standing(s, k - 1)),
                          output |-> Partial(m, D, psi, k)]
      BY <1>1, <3>1, <3>6 DEF Walked
    <3>8. WalkStep(s, groups, psi, here, k)
            = [at |-> AdvancePositions(s, Standing(s, k - 1)),
               output |-> Adding(partial, EntriesAt(m, D, k - 1), psi[k])]
      <4> HIDE DEF here, c, partial, m, D, s, groups
      <4> QED
        BY <2>2, <2>3, <2>4, <2>6, <3>2 DEF WalkStep
    <3> QED
      BY <3>4, <3>5, <3>7, <3>8
  <2> QED
    BY <2>5, <2>6
<1> QED
  BY <1>3, <1>4

\* The lazy product is the product with the block, unless the operator leaves.
LEMMA LazyIs ==
  ASSUME NEW r \in Requests
  PROVE  LazyApply(SectorOf(r), GroupsOf(r), r.state)
           = IF Leaks(r) THEN Failed("SectorLeakage")
             ELSE [vector |-> Product(Restricted(r), r.state)]
<1> DEFINE s == SectorOf(r)
           D == DimensionOf(r)
           groups == GroupsOf(r)
           m == Restricted(r)
           psi == r.state
           ideal == Walked(r)
           walk == Walk(s, groups, psi)
<1>1. /\ IsSector(s) /\ D = s.dimension /\ D \in Nat \ {0} /\ IsMatrix(m, D)
      /\ psi \in [1 .. D -> Complex]
  BY RequestFacts, BlockIs, StateIs DEF DimensionOf
<1>2. ideal[0] = WalkStart(s)
  <2>1. /\ 0 \in 0 .. D /\ 0 < D /\ ~\E j \in 0 .. 0 - 1 : LeavesAt(r, j)
        /\ Standing(s, 0) = FirstPositions(s)
    BY <1>1, IteratorSteps
  <2>2. Partial(m, D, psi, 0) = [i \in 1 .. D |-> Zero]
    BY <1>1, PartialIs
  <2> QED
    BY <1>1, <2>1, <2>2 DEF Walked, WalkStart
<1>3. \A k \in 1 .. D : ideal[k] = WalkStep(s, groups, psi, ideal[k - 1], k)
  BY WalkedSteps
<1>4. ideal = WalkBody(s, groups, psi, ideal)
  <2>1. \A k \in 0 .. D :
          ideal[k] = IF k = 0 THEN WalkStart(s) ELSE WalkStep(s, groups, psi, ideal[k - 1], k)
    <3> HIDE DEF ideal
    <3> QED
      BY <1>1, <1>2, <1>3
  <2>2. ideal = [k \in 0 .. D |-> ideal[k]]
    BY DEF Walked
  <2> HIDE DEF ideal
  <2> QED
    BY <1>1, <2>1, <2>2 DEF WalkBody
<1>5. walk = WalkBody(s, groups, psi, walk)
  <2> HIDE DEF ideal
  <2> QED
    BY <1>4 DEF Walk
<1>6. \A k \in 0 .. D : walk[k] = ideal[k]
  <2> DEFINE T == {k \in 0 .. D : walk[k] = ideal[k]}
  <2> HIDE DEF walk, ideal, s, D, groups, psi
  <2>1. 0 \in T
    <3>1. 0 \in 0 .. D
      BY <1>1
    <3>2. walk[0] = WalkStart(s)
      BY <1>1, <1>5, <3>1 DEF WalkBody
    <3> QED
      BY <1>2, <3>1, <3>2
  <2>2. ASSUME NEW k \in 1 .. D, k - 1 \in T PROVE k \in T
    <3>1. k \in 0 .. D /\ k # 0 /\ walk[k - 1] = ideal[k - 1]
      BY <1>1, <2>2
    <3>2. walk[k] = WalkStep(s, groups, psi, walk[k - 1], k)
      BY <1>1, <1>5, <3>1 DEF WalkBody
    <3> QED
      BY <1>3, <3>1, <3>2
  <2>3. D \in Nat
    BY <1>1
  <2> HIDE DEF T
  <2>4. \A k \in 0 .. D : k \in T
    BY <2>1, <2>2, <2>3, UpTo
  <2> QED
    BY <2>4 DEF T
<1>7. walk[D] = IF \E j \in 0 .. D - 1 : LeavesAt(r, j) THEN Failed("SectorLeakage")
                ELSE [at |-> AdvancePositions(s, Standing(s, D - 1)), output |-> Product(m, psi)]
  <2>1. D \in 0 .. D /\ ~(D < D)
    BY <1>1
  <2>2. Partial(m, D, psi, D) = Product(m, psi)
    BY <1>1, PartialIs
  <2>3. walk[D] = ideal[D]
    BY <1>6, <2>1
  <2>4. ideal[D] = IF \E j \in 0 .. D - 1 : LeavesAt(r, j) THEN Failed("SectorLeakage")
                   ELSE [at |-> AdvancePositions(s, Standing(s, D - 1)), output |-> Partial(m, D, psi, D)]
    BY <2>1 DEF Walked
  <2> QED
    BY <2>2, <2>3, <2>4
<1>8. Leaks(r) <=> \E j \in 0 .. D - 1 : LeavesAt(r, j)
  BY LeaksAre
<1>9. LazyApply(s, groups, psi) = IF IsFailed(walk[D]) THEN walk[D] ELSE [vector |-> walk[D].output]
  <2>1. LazyApply(s, groups, psi)
          = IF IsFailed(walk[s.dimension]) THEN walk[s.dimension] ELSE [vector |-> walk[s.dimension].output]
    BY LazyIsWalk
  <2> QED
    BY <1>1, <2>1
<1> HIDE DEF walk
<1>10. CASE Leaks(r)
  <2>1. walk[D] = Failed("SectorLeakage")
    BY <1>7, <1>8, <1>10
  <2>2. IsFailed(Failed("SectorLeakage"))
    BY DEF IsFailed, Failed
  <2> QED
    BY <1>9, <1>10, <2>1, <2>2
<1>11. CASE ~Leaks(r)
  <2>1. walk[D] = [at |-> AdvancePositions(s, Standing(s, D - 1)), output |-> Product(m, psi)]
    BY <1>7, <1>8, <1>11
  <2>2. ~IsFailed(walk[D]) /\ walk[D].output = Product(m, psi)
    BY <2>1 DEF IsFailed
  <2> QED
    BY <1>9, <1>11, <2>2
<1> QED
  BY <1>10, <1>11

-----------------------------------------------------------------------------
(* The graph that is built                                                 *)

\* The entries of row i of a graph: k of them, in ascending columns, are those
\* of row i of the matrix that are not zero.
RowHolds(g, n, m, i) ==
  /\ \A k \in RowEntries(g, i - 1) :
       g.columns[k] \in 0 .. n - 1 /\ g.values[k] = m[i][g.columns[k] + 1] /\ g.values[k] # Zero
  /\ \A j \in 1 .. n : m[i][j] # Zero => \E k \in RowEntries(g, i - 1) : g.columns[k] = j - 1
  /\ \A j, k \in RowEntries(g, i - 1) : j < k => g.columns[j] < g.columns[k]

\* Row pointers of n rows over their entries, one row behind the other.
PointersOf(g, n) ==
  /\ DOMAIN g.indptr = 1 .. n + 1 /\ g.indptr[1] = 0
  /\ \A i \in 1 .. n + 1 : g.indptr[i] \in Nat
  /\ \A i \in 1 .. n : g.indptr[i] <= g.indptr[i + 1]
  /\ DOMAIN g.columns = 1 .. g.indptr[n + 1] /\ DOMAIN g.values = 1 .. g.indptr[n + 1]

\* A graph that holds a matrix and nothing else.
HoldsMatrix(g, n, m) ==
  g.dimension = n /\ PointersOf(g, n) /\ \A i \in 1 .. n : RowHolds(g, n, m, i)

\* Every entry lies in a row.
LEMMA RowOfEntry ==
  ASSUME NEW n \in Nat, NEW p, p[0] = 0, \A i \in 0 .. n : p[i] \in Nat, NEW k \in 0 .. p[n] - 1
  PROVE  \E i \in 0 .. n - 1 : k \in p[i] .. p[i + 1] - 1
<1> DEFINE T == {q \in 0 .. n : k < p[q] => \E i \in 0 .. n - 1 : k \in p[i] .. p[i + 1] - 1}
<1>1. n \in 0 .. n /\ 0 \in 0 .. n /\ p[n] \in Nat /\ k \in Nat /\ k < p[n]
  <2>1. n \in 0 .. n /\ 0 \in 0 .. n
    OBVIOUS
  <2>2. p[n] \in Nat
    BY <2>1
  <2> QED
    BY <2>1, <2>2
<1>2. 0 \in T
  BY <1>1
<1>3. ASSUME NEW q \in 1 .. n, q - 1 \in T PROVE q \in T
  <2>1. q \in 0 .. n /\ q - 1 \in 0 .. n - 1 /\ (q - 1) + 1 = q /\ q - 1 \in 0 .. n
    OBVIOUS
  <2>2. p[q] \in Nat /\ p[q - 1] \in Nat
    BY <2>1
  <2> SUFFICES ASSUME k < p[q] PROVE \E i \in 0 .. n - 1 : k \in p[i] .. p[i + 1] - 1
    BY <2>1
  <2>3. CASE k < p[q - 1]
    BY <1>3, <2>3
  <2>4. CASE ~(k < p[q - 1])
    <3>1. k \in p[q - 1] .. p[(q - 1) + 1] - 1
      BY <1>1, <2>1, <2>2, <2>4
    <3> QED
      BY <2>1, <3>1
  <2> QED
    BY <2>3, <2>4
<1> HIDE DEF T
<1>4. \A q \in 0 .. n : q \in T
  BY <1>2, <1>3, UpTo
<1> QED
  BY <1>1, <1>4 DEF T

\* What both passes leave, when each source is a column of a matrix.
LEMMA FullArrays ==
  ASSUME NEW n \in Nat, NEW m, IsMatrix(m, n), NEW E, FillInv(n, E), pass = "full",
         \A j \in 0 .. n - 1 : E[j] = EntriesAt(m, n, j)
  PROVE  /\ Size = n /\ indptr[0] = 0
         /\ \A i \in 0 .. n : indptr[i] \in Nat
         /\ \A i \in 0 .. n - 1 : indptr[i] <= indptr[i + 1]
         /\ Cardinality(DOMAIN cells) = indptr[n]
         /\ \A i \in 0 .. n - 1 : \A k \in indptr[i] .. indptr[i + 1] - 1 :
              /\ cells[k].column \in 0 .. n - 1
              /\ cells[k].value = m[i + 1][cells[k].column + 1] /\ cells[k].value # Zero
         /\ \A i, j \in 0 .. n - 1 : m[i + 1][j + 1] # Zero =>
              \E k \in indptr[i] .. indptr[i + 1] - 1 : cells[k].column = j
         /\ \A i \in 0 .. n - 1 : \A j, k \in indptr[i] .. indptr[i + 1] - 1 :
              j < k => cells[j].column < cells[k].column
<1>1. /\ Setting(n, E) /\ PassType(n) /\ Sized(n) /\ Cursors(n, E) /\ Filling
      /\ Size = n /\ DOMAIN counts = Row(n)
  BY SizeIsDim DEF FillInv, Filling
<1>2. FilledAsCounted /\ Held(n, E)
  BY FilledFrom, HeldFrom
<1>3. /\ indptr[0] = 0 /\ \A i \in 0 .. n : indptr[i] \in Nat
      /\ sized = n /\ DOMAIN cells = 0 .. indptr[n] - 1
  BY <1>1 DEF PassType, Sized, Cursors
<1>4. \A i \in 0 .. n - 1 : indptr[i] <= indptr[i + 1]
  BY <1>1, <1>3 DEF Sized
<1>5. Cardinality(DOMAIN cells) = indptr[n]
  <2> DEFINE e == indptr[n]
  <2>1. e \in Nat
    BY <1>3
  <2> HIDE DEF e
  <2>2. Cardinality(0 .. e - 1) = e
    <3>1. CASE e = 0
      BY <3>1, FS_EmptySet
    <3>2. CASE e # 0
      BY <2>1, <3>2, FS_Interval
    <3> QED
      BY <3>1, <3>2
  <2> QED
    BY <1>3, <2>2 DEF e
<1>6. ASSUME NEW i \in 0 .. n - 1, NEW k \in indptr[i] .. indptr[i + 1] - 1
      PROVE  /\ cells[k].column \in 0 .. n - 1
             /\ cells[k].value = m[i + 1][cells[k].column + 1] /\ cells[k].value # Zero
  <2>1. PICK c \in 0 .. n - 1 : \E e \in E[c] : e.row = i /\ cells[k] = Cell(c, e)
    BY <1>2 DEF Held, Row
  <2>2. PICK e \in EntriesAt(m, n, c) : e.row = i /\ cells[k] = Cell(c, e)
    BY <2>1
  <2>3. PICK q \in 0 .. n - 1 : m[q + 1][c + 1] # Zero /\ e = [row |-> q, value |-> m[q + 1][c + 1]]
    BY DEF EntriesAt
  <2>4. q = i /\ e.value = m[i + 1][c + 1]
    BY <2>2, <2>3
  <2>5. cells[k].column = c /\ cells[k].value = m[i + 1][c + 1]
    BY <2>2, <2>4 DEF Cell
  <2> QED
    BY <2>3, <2>4, <2>5
<1>7. ASSUME NEW i \in 0 .. n - 1, NEW j \in 0 .. n - 1, m[i + 1][j + 1] # Zero
      PROVE  \E k \in indptr[i] .. indptr[i + 1] - 1 : cells[k].column = j
  <2> DEFINE e == [row |-> i, value |-> m[i + 1][j + 1]]
  <2>1. e \in E[j] /\ e.row = i
    BY <1>7 DEF EntriesAt
  <2> HIDE DEF e
  <2>2. PICK k \in indptr[e.row] .. indptr[e.row + 1] - 1 : cells[k] = Cell(j, e)
    BY <1>2, <2>1 DEF Held, Row
  <2> QED
    BY <2>1, <2>2 DEF Cell
<1>8. ASSUME NEW i \in 0 .. n - 1,
             NEW j \in indptr[i] .. indptr[i + 1] - 1, NEW k \in indptr[i] .. indptr[i + 1] - 1, j < k
      PROVE  cells[j].column < cells[k].column
  BY <1>1, <1>2, <1>8 DEF FilledAsCounted, Row
<1> QED
  BY <1>1, <1>3, <1>4, <1>5, <1>6, <1>7, <1>8

\* The graph of full arrays holds the matrix.
LEMMA BuiltHolds ==
  ASSUME NEW n \in Nat, NEW m, IsMatrix(m, n), NEW E, FillInv(n, E), pass = "full",
         \A j \in 0 .. n - 1 : E[j] = EntriesAt(m, n, j)
  PROVE  HoldsMatrix(BuiltGraph, n, m) /\ ~IsNone(BuiltGraph)
<1> DEFINE e == indptr[n]
           ip == [k \in 1 .. n + 1 |-> indptr[k - 1]]
           cols == [k \in 1 .. e |-> cells[k - 1].column]
           vals == [k \in 1 .. e |-> cells[k - 1].value]
           g == Graph(n, ip, cols, vals)
<1>1. /\ Size = n /\ indptr[0] = 0
      /\ \A i \in 0 .. n : indptr[i] \in Nat
      /\ \A i \in 0 .. n - 1 : indptr[i] <= indptr[i + 1]
      /\ Cardinality(DOMAIN cells) = e
  BY FullArrays
<1>2. /\ \A i \in 0 .. n - 1 : \A k \in indptr[i] .. indptr[i + 1] - 1 :
           /\ cells[k].column \in 0 .. n - 1
           /\ cells[k].value = m[i + 1][cells[k].column + 1] /\ cells[k].value # Zero
      /\ \A i, j \in 0 .. n - 1 : m[i + 1][j + 1] # Zero =>
           \E k \in indptr[i] .. indptr[i + 1] - 1 : cells[k].column = j
      /\ \A i \in 0 .. n - 1 : \A j, k \in indptr[i] .. indptr[i + 1] - 1 :
           j < k => cells[j].column < cells[k].column
  BY FullArrays
<1>3. e \in Nat
  BY <1>1
<1>4. /\ \A i \in 1 .. n + 1 : ip[i] = indptr[i - 1] /\ ip[i] \in Nat
      /\ ip[1] = 0 /\ ip[n + 1] = e
      /\ \A i \in 1 .. n : ip[i] <= ip[i + 1]
  <2>1. \A i \in 1 .. n + 1 : i - 1 \in 0 .. n /\ ip[i] = indptr[i - 1]
    OBVIOUS
  <2>2. \A i \in 1 .. n + 1 : ip[i] \in Nat
    BY <1>1, <2>1
  <2>3. ip[1] = 0 /\ ip[n + 1] = e
    BY <1>1
  <2>4. ASSUME NEW i \in 1 .. n PROVE ip[i] <= ip[i + 1]
    <3>1. i - 1 \in 0 .. n - 1 /\ (i - 1) + 1 = i /\ (i + 1) - 1 = i /\ i \in 1 .. n + 1 /\ i + 1 \in 1 .. n + 1
      OBVIOUS
    <3>2. indptr[i - 1] <= indptr[(i - 1) + 1]
      BY <1>1, <3>1
    <3>3. ip[i] = indptr[i - 1] /\ ip[i + 1] = indptr[i]
      BY <2>1, <3>1
    <3> QED
      BY <3>1, <3>2, <3>3
  <2> QED
    BY <2>1, <2>2, <2>3, <2>4
<1>5. /\ \A k \in 1 .. e : cols[k] = cells[k - 1].column /\ vals[k] = cells[k - 1].value
      /\ DOMAIN cols = 1 .. e /\ DOMAIN vals = 1 .. e /\ DOMAIN ip = 1 .. n + 1
      /\ Len(cols) = e /\ Len(vals) = e /\ Len(ip) = n + 1
  <2>1. DOMAIN cols = 1 .. e /\ DOMAIN vals = 1 .. e /\ DOMAIN ip = 1 .. n + 1
    OBVIOUS
  <2>2. Len(cols) = e /\ Len(vals) = e
    <3>1. cols = [k \in 1 .. e |-> cols[k]] /\ vals = [k \in 1 .. e |-> vals[k]]
      BY <2>1
    <3> HIDE DEF e, cols, vals
    <3> QED
      BY <1>3, <3>1, SeqOfFunction
  <2>3. Len(ip) = n + 1
    <3>1. ip = [k \in 1 .. n + 1 |-> ip[k]] /\ n + 1 \in Nat
      BY <2>1
    <3> HIDE DEF ip
    <3> QED
      BY <3>1, SeqOfFunction
  <2> QED
    BY <2>1, <2>2, <2>3
<1>6. \A k \in 1 .. e : cols[k] \in 0 .. n - 1
  <2> SUFFICES ASSUME NEW k \in 1 .. e PROVE cells[k - 1].column \in 0 .. n - 1
    BY <1>5
  <2>1. k - 1 \in 0 .. indptr[n] - 1
    BY <1>3
  <2>2. PICK i \in 0 .. n - 1 : k - 1 \in indptr[i] .. indptr[i + 1] - 1
    BY <1>1, <2>1, RowOfEntry
  <2> QED
    BY <1>2, <2>2
<1>7. BuiltGraph = TryNew(n, ip, cols, vals)
  BY <1>1 DEF BuiltGraph
<1>8. \A i \in 1 .. n : \A k \in ip[i] + 1 .. ip[i + 1] :
        k \in 1 .. e /\ k - 1 \in indptr[i - 1] .. indptr[(i - 1) + 1] - 1
  <2> SUFFICES ASSUME NEW i \in 1 .. n, NEW k \in ip[i] + 1 .. ip[i + 1]
               PROVE  k \in 1 .. e /\ k - 1 \in indptr[i - 1] .. indptr[(i - 1) + 1] - 1
    OBVIOUS
  <2>1. /\ i \in 1 .. n + 1 /\ i + 1 \in 1 .. n + 1 /\ (i + 1) - 1 = i /\ (i - 1) + 1 = i /\ i \in 0 .. n
    OBVIOUS
  <2>2. ip[i] = indptr[i - 1] /\ ip[i + 1] = indptr[i] /\ ip[i] \in Nat /\ ip[i + 1] \in Nat
    BY <1>4, <2>1
  <2>3. indptr[i] <= e
    <3>1. Sized(n) /\ sized = n
      BY DEF FillInv, Cursors, Filling
    <3>2. i \in 0 .. sized /\ n \in 0 .. sized /\ i <= n
      BY <3>1
    <3> QED
      BY <3>1, <3>2 DEF Sized
  <2>4. k \in Int /\ k >= indptr[i - 1] + 1 /\ k <= indptr[i] /\ indptr[i - 1] \in Nat /\ indptr[i] \in Nat
    BY <2>2
  <2> HIDE DEF ip, e
  <2> QED
    BY <1>3, <2>1, <2>3, <2>4
<1>9. \A i \in 1 .. n : RowHolds(g, n, m, i)
  <2> SUFFICES ASSUME NEW i \in 1 .. n PROVE RowHolds(g, n, m, i)
    OBVIOUS
  <2>1. /\ i - 1 \in 0 .. n - 1 /\ (i - 1) + 1 = i /\ (i - 1) + 2 = i + 1
        /\ i \in 1 .. n + 1 /\ i + 1 \in 1 .. n + 1 /\ (i + 1) - 1 = i
    OBVIOUS
  <2>2. /\ RowEntries(g, i - 1) = ip[i] + 1 .. ip[i + 1] /\ g.columns = cols /\ g.values = vals
    <3> HIDE DEF ip, cols, vals
    <3> QED
      BY <2>1 DEF RowEntries, Graph
  <2> DEFINE S == ip[i] + 1 .. ip[i + 1]
  <2>3. \A k \in S : /\ k \in 1 .. e /\ k - 1 \in indptr[i - 1] .. indptr[(i - 1) + 1] - 1
                     /\ cols[k] = cells[k - 1].column /\ vals[k] = cells[k - 1].value
    BY <1>5, <1>8
  <2>4. ASSUME NEW k \in S
        PROVE  cols[k] \in 0 .. n - 1 /\ vals[k] = m[i][cols[k] + 1] /\ vals[k] # Zero
    <3>1. /\ cells[k - 1].column \in 0 .. n - 1
          /\ cells[k - 1].value = m[(i - 1) + 1][cells[k - 1].column + 1] /\ cells[k - 1].value # Zero
      BY <1>2, <2>1, <2>3
    <3> QED
      BY <2>1, <2>3, <3>1
  <2>5. ASSUME NEW j \in 1 .. n, m[i][j] # Zero PROVE \E k \in S : cols[k] = j - 1
    <3>1. j - 1 \in 0 .. n - 1 /\ (j - 1) + 1 = j
      OBVIOUS
    <3>2. m[(i - 1) + 1][(j - 1) + 1] # Zero
      BY <2>1, <2>5, <3>1
    <3>3. PICK q \in indptr[i - 1] .. indptr[(i - 1) + 1] - 1 : cells[q].column = j - 1
      BY <1>2, <2>1, <3>1, <3>2
    <3>4. q + 1 \in S /\ (q + 1) - 1 = q
      <4>1. ip[i] = indptr[i - 1] /\ ip[i + 1] = indptr[(i - 1) + 1] /\ ip[i] \in Nat /\ ip[i + 1] \in Nat
        BY <1>4, <2>1
      <4> HIDE DEF ip
      <4> QED
        BY <4>1
    <3>5. cols[q + 1] = j - 1
      BY <2>3, <3>3, <3>4
    <3> QED
      BY <3>4, <3>5
  <2>6. ASSUME NEW j \in S, NEW k \in S, j < k PROVE cols[j] < cols[k]
    <3>1. j \in Int /\ k \in Int
      BY <2>3
    <3>2. j - 1 < k - 1
      BY <2>6, <3>1
    <3>3. cells[j - 1].column < cells[k - 1].column
      BY <1>2, <2>1, <2>3, <3>2
    <3> QED
      BY <2>3, <3>3
  <2> HIDE DEF g, ip, cols, vals
  <2> QED
    BY <2>2, <2>4, <2>5, <2>6 DEF RowHolds
<1>10. BuiltGraph = g
  <2>1. ~\E k \in 2 .. Len(ip) : ip[k - 1] > ip[k]
    <3> SUFFICES ASSUME NEW k \in 2 .. n + 1 PROVE ~(ip[k - 1] > ip[k])
      BY <1>5
    <3>1. k - 1 \in 1 .. n /\ (k - 1) + 1 = k /\ k \in 1 .. n + 1 /\ k - 1 \in 1 .. n + 1
      OBVIOUS
    <3>2. ip[k - 1] <= ip[(k - 1) + 1] /\ ip[k] \in Nat /\ ip[k - 1] \in Nat
      BY <1>4, <3>1
    <3> HIDE DEF ip
    <3> QED
      BY <3>1, <3>2
  <2>2. ~\E k \in DOMAIN cols : cols[k] >= n
    <3> HIDE DEF cols
    <3> QED
      BY <1>5, <1>6
  <2> HIDE DEF ip, cols, vals, e
  <2> QED
    BY <1>4, <1>5, <1>7, <2>1, <2>2 DEF TryNew
<1>11. PointersOf(g, n) /\ g.dimension = n
  <2> HIDE DEF ip, cols, vals, e
  <2> QED
    BY <1>4, <1>5 DEF PointersOf, Graph
<1>12. ~IsNone(g)
  <2> HIDE DEF ip, cols, vals
  <2> QED
    BY DEF IsNone, Graph
<1> HIDE DEF g
<1> QED
  BY <1>9, <1>10, <1>11, <1>12 DEF HoldsMatrix

-----------------------------------------------------------------------------
(* What is read from a graph that holds a matrix                           *)

\* No row begins behind the last entry.
LEMMA PointersBelow ==
  ASSUME NEW n \in Nat, NEW g, PointersOf(g, n)
  PROVE  \A i \in 1 .. n + 1 : g.indptr[i] <= g.indptr[n + 1]
<1> DEFINE p == g.indptr
           T == {q \in 0 .. n : p[n + 1 - q] <= p[n + 1]}
<1>1. /\ \A i \in 1 .. n + 1 : p[i] \in Nat
      /\ \A i \in 1 .. n : p[i] <= p[i + 1]
  BY DEF PointersOf
<1> HIDE DEF p
<1>2. 0 \in T
  <2>1. n + 1 \in 1 .. n + 1 /\ n + 1 - 0 = n + 1 /\ 0 \in 0 .. n
    OBVIOUS
  <2>2. p[n + 1] \in Nat
    BY <1>1, <2>1
  <2> QED
    BY <2>1, <2>2
<1>3. ASSUME NEW q \in 1 .. n, q - 1 \in T PROVE q \in T
  <2> DEFINE i == n + 1 - q
  <2>1. i \in 1 .. n /\ i \in 1 .. n + 1 /\ i + 1 \in 1 .. n + 1 /\ n + 1 \in 1 .. n + 1
        /\ n + 1 - (q - 1) = i + 1 /\ q \in 0 .. n
    OBVIOUS
  <2>2. p[i] \in Nat /\ p[i + 1] \in Nat /\ p[n + 1] \in Nat /\ p[i] <= p[i + 1]
    BY <1>1, <2>1
  <2>3. p[i + 1] <= p[n + 1]
    BY <1>3, <2>1
  <2>4. p[i] <= p[n + 1]
    BY <2>2, <2>3
  <2> QED
    BY <2>1, <2>4
<1>4. \A q \in 0 .. n : q \in T
  <2> HIDE DEF T
  <2> QED
    BY <1>2, <1>3, UpTo
<1>5. ASSUME NEW i \in 1 .. n + 1 PROVE p[i] <= p[n + 1]
  <2>1. n + 1 - i \in 0 .. n /\ n + 1 - (n + 1 - i) = i
    OBVIOUS
  <2> QED
    BY <1>4, <2>1
<1> QED
  BY <1>5 DEF p

\* The entries of a row: where they stand, and that no column comes twice.
RowIs(g, n, m, i) ==
  /\ RowEntries(g, i - 1) = g.indptr[i] + 1 .. g.indptr[i + 1]
  /\ IsFiniteSet(RowEntries(g, i - 1))
  /\ \A k \in RowEntries(g, i - 1) :
       /\ k \in DOMAIN g.columns /\ k \in DOMAIN g.values
       /\ g.columns[k] \in 0 .. n - 1 /\ g.columns[k] + 1 \in 1 .. n
       /\ g.values[k] = m[i][g.columns[k] + 1]
       /\ g.values[k] \in Complex /\ g.values[k] # Zero
  /\ \A j, k \in RowEntries(g, i - 1) : g.columns[j] = g.columns[k] => j = k
  /\ \A j \in 1 .. n : m[i][j] # Zero => \E k \in RowEntries(g, i - 1) : g.columns[k] = j - 1

\* The rows of a graph that holds a matrix are like this.
LEMMA RowFacts ==
  ASSUME NEW n \in Nat, NEW m, IsMatrix(m, n), NEW g, HoldsMatrix(g, n, m), NEW i \in 1 .. n
  PROVE  RowIs(g, n, m, i)
<1> DEFINE S == RowEntries(g, i - 1)
           p == g.indptr
<1>1. RowHolds(g, n, m, i) /\ PointersOf(g, n)
  BY DEF HoldsMatrix
<1>2. S = p[i] + 1 .. p[i + 1]
  <2>1. (i - 1) + 1 = i /\ (i - 1) + 2 = i + 1
    OBVIOUS
  <2> QED
    BY <2>1 DEF RowEntries
<1>3. /\ p[i] \in Nat /\ p[i + 1] \in Nat /\ p[n + 1] \in Nat /\ p[i + 1] <= p[n + 1]
      /\ DOMAIN g.columns = 1 .. p[n + 1] /\ DOMAIN g.values = 1 .. p[n + 1]
  <2>1. i \in 1 .. n + 1 /\ i + 1 \in 1 .. n + 1 /\ n + 1 \in 1 .. n + 1
    OBVIOUS
  <2> QED
    BY <1>1, <2>1, PointersBelow DEF PointersOf
<1>4. IsFiniteSet(S)
  <2>1. p[i] + 1 \in Int /\ p[i + 1] \in Int
    BY <1>3
  <2> QED
    BY <1>2, <2>1, FS_Interval
<1>5. ASSUME NEW k \in S PROVE k \in 1 .. p[n + 1] /\ k \in Int
  <2> HIDE DEF p
  <2> QED
    BY <1>2, <1>3
<1>6. ASSUME NEW k \in S
      PROVE  /\ g.columns[k] \in 0 .. n - 1 /\ g.columns[k] + 1 \in 1 .. n
             /\ g.values[k] = m[i][g.columns[k] + 1]
             /\ g.values[k] \in Complex /\ g.values[k] # Zero
  <2>1. g.columns[k] \in 0 .. n - 1 /\ g.values[k] = m[i][g.columns[k] + 1] /\ g.values[k] # Zero
    BY <1>1 DEF RowHolds
  <2>2. g.columns[k] + 1 \in 1 .. n
    BY <2>1
  <2>3. m[i][g.columns[k] + 1] \in Complex
    BY <2>2 DEF IsMatrix
  <2> QED
    BY <2>1, <2>2, <2>3
<1>7. ASSUME NEW j \in S, NEW k \in S, g.columns[j] = g.columns[k] PROVE j = k
  <2>1. j \in Int /\ k \in Int /\ g.columns[j] \in Int /\ g.columns[k] \in Int
    BY <1>5, <1>6
  <2>2. (j < k => g.columns[j] < g.columns[k]) /\ (k < j => g.columns[k] < g.columns[j])
    BY <1>1 DEF RowHolds
  <2> QED
    BY <1>7, <2>1, <2>2
<1>8. \A j \in 1 .. n : m[i][j] # Zero => \E k \in S : g.columns[k] = j - 1
  BY <1>1 DEF RowHolds
<1>9. \A k \in S : k \in DOMAIN g.columns /\ k \in DOMAIN g.values
  BY <1>3, <1>5
<1> QED
  BY <1>2, <1>4, <1>6, <1>7, <1>8, <1>9 DEF RowIs

\* A product with the graph is one with the matrix.
LEMMA GraphApplies ==
  ASSUME NEW n \in Nat, NEW m, IsMatrix(m, n), NEW g, HoldsMatrix(g, n, m),
         NEW psi \in [1 .. n -> Complex]
  PROVE  ApplyGraph(g, psi) = Product(m, psi)
<1>1. ASSUME NEW i \in 1 .. n
      PROVE  Total(RowEntries(g, i - 1),
                   [k \in DOMAIN g.columns |-> Times(g.values[k], psi[g.columns[k] + 1])])
             = TotalOf([k \in DOMAIN psi |-> Times(m[i][k], psi[k])])
  <2> DEFINE S == RowEntries(g, i - 1)
             A == {j \in 1 .. n : m[i][j] # Zero}
             f == [k \in DOMAIN psi |-> Times(m[i][k], psi[k])]
             e == [k \in DOMAIN g.columns |-> Times(g.values[k], psi[g.columns[k] + 1])]
             h == [k \in S |-> g.columns[k] + 1]
  <2>1. RowIs(g, n, m, i)
    BY RowFacts
  <2>2. /\ DOMAIN f = 1 .. n
        /\ \A k \in 1 .. n : f[k] = Times(m[i][k], psi[k]) /\ f[k] \in Complex
        /\ \A k \in (1 .. n) \ A : f[k] = Zero
    <3>1. DOMAIN psi = 1 .. n /\ \A k \in 1 .. n : psi[k] \in Complex /\ m[i][k] \in Complex
      BY DEF IsMatrix
    <3>2. \A k \in 1 .. n : f[k] = Times(m[i][k], psi[k])
      BY <3>1
    <3>3. \A k \in 1 .. n : Times(m[i][k], psi[k]) \in Complex /\ Times(Zero, psi[k]) = Zero
      BY <3>1, ComplexFacts
    <3> HIDE DEF f
    <3>4. DOMAIN f = 1 .. n
      BY <3>1 DEF f
    <3> QED
      BY <3>2, <3>3, <3>4
  <2>3. IsFiniteSet(1 .. n) /\ ComplexOn(f, 1 .. n) /\ A \in SUBSET (1 .. n)
    <3>1. IsFiniteSet(1 .. n)
      BY FS_Interval
    <3> HIDE DEF f
    <3> QED
      BY <2>2, <3>1 DEF ComplexOn
  <2>4. TotalOf(f) = Total(A, f)
    <3> DEFINE I == 1 .. n
    <3>1. IsFiniteSet(I) /\ ComplexOn(f, I) /\ A \in SUBSET I /\ \A k \in I \ A : f[k] = Zero
      BY <2>2, <2>3
    <3>2. DOMAIN f = I
      BY <2>2
    <3> HIDE DEF f, A, I
    <3>3. Total(I, f) = Total(A, f)
      BY <3>1, ComplexRestrict
    <3> QED
      BY <3>2, <3>3 DEF TotalOf
  <2>5. IsFiniteSet(A) /\ ComplexOn(f, A) /\ IsFiniteSet(S)
    <3>1. IsFiniteSet(A)
      BY <2>3, FS_Subset
    <3>2. ComplexOn(f, A)
      BY <2>3 DEF ComplexOn
    <3> QED
      BY <2>1, <3>1, <3>2 DEF RowIs
  <2>6. Numbers(h, S, A)
    <3>1. ASSUME NEW k \in S PROVE h[k] \in A
      BY <2>1 DEF RowIs
    <3>2. ASSUME NEW j \in S, NEW k \in S, h[j] = h[k] PROVE j = k
      <4>1. g.columns[j] \in 0 .. n - 1 /\ g.columns[k] \in 0 .. n - 1
        BY <2>1 DEF RowIs
      <4>2. g.columns[j] + 1 = g.columns[k] + 1
        BY <3>2
      <4>3. g.columns[j] = g.columns[k]
        BY <4>1, <4>2
      <4> QED
        BY <2>1, <4>3 DEF RowIs
    <3>3. ASSUME NEW j \in A PROVE \E k \in S : h[k] = j
      <4>1. PICK k \in S : g.columns[k] = j - 1
        BY <2>1 DEF RowIs
      <4>2. h[k] = j
        BY <4>1
      <4> QED
        BY <4>2
    <3> HIDE DEF S, A, h
    <3> QED
      BY <3>1, <3>2, <3>3 DEF Numbers
  <2>7. Along(e, f, h, S)
    <3> SUFFICES ASSUME NEW k \in S PROVE e[k] = f[h[k]]
      BY DEF Along
    <3>1. /\ k \in DOMAIN g.columns /\ g.columns[k] + 1 \in 1 .. n
          /\ g.values[k] = m[i][g.columns[k] + 1]
      BY <2>1 DEF RowIs
    <3>2. f[g.columns[k] + 1] = Times(m[i][g.columns[k] + 1], psi[g.columns[k] + 1])
      BY <2>2, <3>1
    <3> QED
      BY <3>1, <3>2
  <2> HIDE DEF S, A, f, e, h
  <2>8. Total(S, e) = Total(A, f)
    BY <2>5, <2>6, <2>7, ComplexReindex
  <2> QED
    BY <2>4, <2>8 DEF S, f, e
<1>2. g.dimension = n /\ DOMAIN m = 1 .. n
  BY DEF HoldsMatrix, IsMatrix
<1> QED
  BY <1>1, <1>2 DEF ApplyGraph, Product

\* The dense matrix read from the graph is the matrix.
LEMMA GraphIsDense ==
  ASSUME NEW n \in Nat, NEW m, IsMatrix(m, n), NEW g, HoldsMatrix(g, n, m),
         m = [i \in 1 .. n |-> [j \in 1 .. n |-> m[i][j]]]
  PROVE  Dense(g) = m
<1>1. ASSUME NEW i \in 1 .. n, NEW j \in 1 .. n
      PROVE  Total({e \in RowEntries(g, i - 1) : g.columns[e] = j - 1}, g.values) = m[i][j]
  <2> DEFINE S == RowEntries(g, i - 1)
             here == {e \in S : g.columns[e] = j - 1}
  <2>1. RowIs(g, n, m, i)
    BY RowFacts
  <2>2. m[i][j] \in Complex
    BY DEF IsMatrix
  <2>3. CASE m[i][j] = Zero
    <3>1. here = {}
      <4> SUFFICES ASSUME NEW k \in S, g.columns[k] = j - 1 PROVE FALSE
        OBVIOUS
      <4>1. g.values[k] = m[i][g.columns[k] + 1] /\ g.values[k] # Zero
        BY <2>1 DEF RowIs
      <4>2. g.columns[k] + 1 = j
        OBVIOUS
      <4> QED
        BY <2>3, <4>1, <4>2
    <3>2. Total({}, g.values) = Zero
      BY ComplexNone
    <3> HIDE DEF here
    <3> QED
      BY <2>3, <3>1, <3>2 DEF here
  <2>4. CASE m[i][j] # Zero
    <3>1. PICK k \in S : g.columns[k] = j - 1
      BY <2>1, <2>4 DEF RowIs
    <3>2. here = {k}
      BY <2>1, <3>1 DEF RowIs
    <3>3. g.columns[k] + 1 = j
      BY <3>1
    <3>4. g.values[k] = m[i][j] /\ g.values[k] \in Complex
      BY <2>1, <3>3 DEF RowIs
    <3> DEFINE v == g.values
    <3> HIDE DEF here, v
    <3>5. Total({k}, v) = v[k]
      BY <3>4, ComplexOne DEF v
    <3> QED
      BY <3>2, <3>4, <3>5 DEF here, v
  <2> QED
    BY <2>3, <2>4
<1>2. g.dimension = n
  BY DEF HoldsMatrix
<1>3. Dense(g) = [i \in 1 .. n |-> [j \in 1 .. n |-> m[i][j]]]
  BY <1>1, <1>2 DEF Dense
<1> QED
  BY <1>3

\* The entries of the rows are those of the matrix that are not zero.
LEMMA EntriesOfRows ==
  ASSUME NEW n \in Nat, NEW m, IsMatrix(m, n), NEW g, HoldsMatrix(g, n, m)
  PROVE  UNION {{<<i, g.columns[k] + 1, g.values[k]>> : k \in g.indptr[i] + 1 .. g.indptr[i + 1]} :
                i \in 1 .. n}
         = NonZeros(m)
<1> DEFINE row(i) == {<<i, g.columns[k] + 1, g.values[k]>> : k \in g.indptr[i] + 1 .. g.indptr[i + 1]}
           all == UNION {row(i) : i \in 1 .. n}
<1>1. \A i \in 1 .. n : RowIs(g, n, m, i)
  BY RowFacts
<1>2. DOMAIN m = 1 .. n
  BY DEF IsMatrix
<1>3. ASSUME NEW x \in all PROVE x \in NonZeros(m)
  <2>1. PICK i \in 1 .. n : x \in row(i)
    OBVIOUS
  <2>2. PICK k \in g.indptr[i] + 1 .. g.indptr[i + 1] : x = <<i, g.columns[k] + 1, g.values[k]>>
    BY <2>1
  <2> DEFINE j == g.columns[k] + 1
  <2>3. j \in 1 .. n /\ g.values[k] = m[i][j] /\ g.values[k] # Zero
    BY <1>1 DEF RowIs
  <2> HIDE DEF j
  <2>4. x = <<i, j, m[i][j]>> /\ m[i][j] # Zero
    BY <2>2, <2>3 DEF j
  <2>5. x \in {<<p, q, m[p][q]>> : p \in DOMAIN m, q \in DOMAIN m}
    BY <1>2, <2>3, <2>4
  <2>6. x \notin {<<p, q, Zero>> : p \in DOMAIN m, q \in DOMAIN m}
    BY <2>4
  <2> QED
    BY <2>5, <2>6 DEF NonZeros
<1>4. ASSUME NEW x \in NonZeros(m) PROVE x \in all
  <2>1. PICK i \in 1 .. n, j \in 1 .. n : x = <<i, j, m[i][j]>> /\ m[i][j] # Zero
    <3>1. PICK i \in 1 .. n, j \in 1 .. n : x = <<i, j, m[i][j]>>
      BY <1>2 DEF NonZeros
    <3>2. m[i][j] # Zero
      <4> SUFFICES ASSUME m[i][j] = Zero PROVE FALSE
        OBVIOUS
      <4>1. x = <<i, j, Zero>>
        BY <3>1
      <4> QED
        BY <1>2, <4>1 DEF NonZeros
    <3> QED
      BY <3>1, <3>2
  <2>5. RowIs(g, n, m, i)
    BY <1>1
  <2>6. RowEntries(g, i - 1) = g.indptr[i] + 1 .. g.indptr[i + 1]
    BY <2>5 DEF RowIs
  <2>7. \E k \in RowEntries(g, i - 1) : g.columns[k] = j - 1
    BY <2>1, <2>5 DEF RowIs
  <2>2. PICK k \in g.indptr[i] + 1 .. g.indptr[i + 1] : g.columns[k] = j - 1
    BY <2>6, <2>7
  <2>3. g.columns[k] + 1 = j /\ g.values[k] = m[i][j]
    <3>1. g.columns[k] + 1 = j
      BY <2>2
    <3>2. k \in RowEntries(g, i - 1)
      BY <2>6
    <3>3. g.values[k] = m[i][g.columns[k] + 1]
      BY <2>5, <3>2 DEF RowIs
    <3> QED
      BY <3>1, <3>3
  <2>4. x \in row(i)
    BY <2>1, <2>3
  <2> QED
    BY <2>4
<1>5. all = NonZeros(m)
  <2> HIDE DEF all
  <2> QED
    BY <1>3, <1>4
<1> QED
  BY <1>5

-----------------------------------------------------------------------------
(* What is handed to a thread                                              *)

\* The rows of the coordinate form: the number of a row as often as the row
\* has entries.
RowNumbers(g) ==
  [r \in 1 .. g.dimension |-> [k \in 1 .. g.indptr[r + 1] - g.indptr[r] |-> r - 1]]

\* The coordinate form numbers every entry with its row.
LEMMA CooRows ==
  ASSUME NEW n \in Nat, NEW g, g.dimension = n, PointersOf(g, n)
  PROVE  /\ \A i \in 1 .. n : \A k \in g.indptr[i] + 1 .. g.indptr[i + 1] :
              FlattenSeq(RowNumbers(g))[k] = i - 1
         /\ \A k \in DOMAIN g.values : \E i \in 1 .. n : k \in g.indptr[i] + 1 .. g.indptr[i + 1]
<1> DEFINE p == g.indptr
           seqs == RowNumbers(g)
           start == [q \in 0 .. n |-> p[q + 1]]
           flat == FlattenSeq(seqs)
<1>1. /\ p[1] = 0 /\ \A i \in 1 .. n + 1 : p[i] \in Nat
      /\ \A i \in 1 .. n : p[i] <= p[i + 1] /\ p[i] \in Nat /\ p[i + 1] \in Nat
      /\ DOMAIN g.values = 1 .. p[n + 1]
  BY DEF PointersOf
<1>2. \A i \in 1 .. n : /\ seqs[i] = [k \in 1 .. p[i + 1] - p[i] |-> i - 1]
                        /\ Len(seqs[i]) = p[i + 1] - p[i] /\ seqs[i] \in Seq(Int)
                        /\ \A k \in 1 .. p[i + 1] - p[i] : seqs[i][k] = i - 1
  <2> SUFFICES ASSUME NEW i \in 1 .. n
               PROVE  /\ seqs[i] = [k \in 1 .. p[i + 1] - p[i] |-> i - 1]
                      /\ Len(seqs[i]) = p[i + 1] - p[i] /\ seqs[i] \in Seq(Int)
                      /\ \A k \in 1 .. p[i + 1] - p[i] : seqs[i][k] = i - 1
    OBVIOUS
  <2> DEFINE l == p[i + 1] - p[i]
             f == [k \in 1 .. l |-> i - 1]
  <2>1. l \in Nat
    BY <1>1
  <2>2. seqs[i] = f
    BY DEF RowNumbers
  <2> HIDE DEF l
  <2>3. f = [k \in 1 .. l |-> f[k]] /\ f \in [1 .. l -> Int] /\ \A k \in 1 .. l : f[k] = i - 1
    OBVIOUS
  <2> HIDE DEF f, seqs
  <2>4. Len(f) = l
    BY <2>1, <2>3, SeqOfFunction
  <2>5. f \in Seq(Int)
    BY <2>1, <2>3
  <2> QED
    BY <2>2, <2>3, <2>4, <2>5 DEF l, f
<1>3. seqs \in Seq(Seq(Int)) /\ Len(seqs) = n
  <2>1. seqs = [i \in 1 .. n |-> seqs[i]]
    BY DEF RowNumbers
  <2> HIDE DEF seqs
  <2>2. seqs \in [1 .. n -> Seq(Int)]
    BY <1>2, <2>1
  <2>3. seqs \in Seq(Seq(Int))
    BY <2>2
  <2> QED
    BY <2>1, <2>3, SeqOfFunction
<1>4. \A q \in 0 .. n : start[q] = p[q + 1] /\ start[q] \in Nat
  <2> SUFFICES ASSUME NEW q \in 0 .. n PROVE start[q] = p[q + 1] /\ start[q] \in Nat
    OBVIOUS
  <2>1. q + 1 \in 1 .. n + 1
    OBVIOUS
  <2> QED
    BY <1>1, <2>1
<1>5. \A i \in 1 .. n : start[i - 1] = p[i] /\ start[i] = p[i + 1]
  <2> SUFFICES ASSUME NEW i \in 1 .. n PROVE start[i - 1] = p[i] /\ start[i] = p[i + 1]
    OBVIOUS
  <2>1. i - 1 \in 0 .. n /\ i \in 0 .. n /\ (i - 1) + 1 = i
    OBVIOUS
  <2> QED
    BY <1>4, <2>1
<1>6. start[0] = 0 /\ start[n] = p[n + 1]
  BY <1>1, <1>4
<1> HIDE DEF p, seqs, start
<1>7. Begins(start, seqs)
  <2> SUFFICES ASSUME NEW i \in 1 .. n PROVE start[i] = start[i - 1] + Len(seqs[i])
    BY <1>3, <1>6 DEF Begins
  <2>1. p[i] \in Nat /\ p[i + 1] \in Nat
    BY <1>1
  <2>2. start[i - 1] = p[i] /\ start[i] = p[i + 1] /\ Len(seqs[i]) = p[i + 1] - p[i]
    BY <1>2, <1>5
  <2> QED
    BY <2>1, <2>2
<1>8. PartsAt(start, seqs, flat)
  BY <1>3, <1>7, FlattenParts
<1>9. ASSUME NEW i \in 1 .. n, NEW k \in p[i] + 1 .. p[i + 1]
      PROVE  flat[k] = i - 1
  <2>1. p[i] \in Nat /\ p[i + 1] \in Nat
    BY <1>1
  <2>2. k - p[i] \in 1 .. p[i + 1] - p[i] /\ p[i] + (k - p[i]) = k
    BY <2>1
  <2>3. Len(seqs[i]) = p[i + 1] - p[i] /\ seqs[i][k - p[i]] = i - 1 /\ start[i - 1] = p[i]
    BY <1>2, <1>5, <2>2
  <2> HIDE DEF flat
  <2>4. flat[start[i - 1] + (k - p[i])] = seqs[i][k - p[i]]
    BY <1>3, <1>8, <2>2, <2>3 DEF PartsAt
  <2> QED
    BY <2>2, <2>3, <2>4
<1>10. ASSUME NEW k \in 1 .. p[n + 1] PROVE \E i \in 1 .. n : k \in p[i] + 1 .. p[i + 1]
  <2>1. k - 1 \in 0 .. start[n] - 1
    <3>1. start[n] = p[n + 1] /\ start[n] \in Nat
      BY <1>4, <1>6
    <3> QED
      BY <3>1
  <2>2. PICK i \in 0 .. n - 1 : k - 1 \in start[i] .. start[i + 1] - 1
    BY <1>4, <1>6, <2>1, RowOfEntry
  <2>3. i + 1 \in 1 .. n /\ (i + 1) - 1 = i
    OBVIOUS
  <2>4. start[i] = p[i + 1] /\ start[i + 1] = p[(i + 1) + 1] /\ p[i + 1] \in Nat /\ p[(i + 1) + 1] \in Nat
    BY <1>1, <1>5, <2>3
  <2>5. k \in p[i + 1] + 1 .. p[(i + 1) + 1]
    BY <2>2, <2>4
  <2> QED
    BY <2>3, <2>5
<1> QED
  BY <1>1, <1>9, <1>10 DEF p, seqs

\* So its entries are those of the matrix that are not zero.
LEMMA EntriesOfCoo ==
  ASSUME NEW n \in Nat, NEW m, IsMatrix(m, n), NEW g, HoldsMatrix(g, n, m)
  PROVE  {<<FlattenSeq(RowNumbers(g))[k] + 1, g.columns[k] + 1, g.values[k]>> : k \in DOMAIN g.values}
         = NonZeros(m)
<1> DEFINE rows == FlattenSeq(RowNumbers(g))
           all == {<<rows[k] + 1, g.columns[k] + 1, g.values[k]>> : k \in DOMAIN g.values}
           row(i) == {<<i, g.columns[k] + 1, g.values[k]>> : k \in g.indptr[i] + 1 .. g.indptr[i + 1]}
<1>1. /\ \A i \in 1 .. n : \A k \in g.indptr[i] + 1 .. g.indptr[i + 1] : rows[k] = i - 1
      /\ \A k \in DOMAIN g.values : \E i \in 1 .. n : k \in g.indptr[i] + 1 .. g.indptr[i + 1]
  <2>1. g.dimension = n /\ PointersOf(g, n)
    BY DEF HoldsMatrix
  <2> QED
    BY <2>1, CooRows
<1>2. \A i \in 1 .. n : \A k \in g.indptr[i] + 1 .. g.indptr[i + 1] : k \in DOMAIN g.values
  <2> SUFFICES ASSUME NEW i \in 1 .. n, NEW k \in g.indptr[i] + 1 .. g.indptr[i + 1]
               PROVE  k \in DOMAIN g.values
    OBVIOUS
  <2>1. RowIs(g, n, m, i)
    BY RowFacts
  <2>2. k \in RowEntries(g, i - 1)
    BY <2>1 DEF RowIs
  <2> QED
    BY <2>1, <2>2 DEF RowIs
<1>3. UNION {row(i) : i \in 1 .. n} = NonZeros(m)
  BY EntriesOfRows
<1> HIDE DEF rows
<1>4. ASSUME NEW i \in 1 .. n, NEW k \in g.indptr[i] + 1 .. g.indptr[i + 1] PROVE rows[k] + 1 = i
  <2>1. rows[k] = i - 1
    BY <1>1
  <2> QED
    BY <2>1
<1>5. ASSUME NEW x \in all PROVE x \in UNION {row(i) : i \in 1 .. n}
  <2>1. PICK k \in DOMAIN g.values : x = <<rows[k] + 1, g.columns[k] + 1, g.values[k]>>
    OBVIOUS
  <2>2. PICK i \in 1 .. n : k \in g.indptr[i] + 1 .. g.indptr[i + 1]
    BY <1>1
  <2>3. x = <<i, g.columns[k] + 1, g.values[k]>>
    BY <1>4, <2>1, <2>2
  <2> QED
    BY <2>2, <2>3
<1>6. ASSUME NEW x \in UNION {row(i) : i \in 1 .. n} PROVE x \in all
  <2>1. PICK i \in 1 .. n : x \in row(i)
    OBVIOUS
  <2>2. PICK k \in g.indptr[i] + 1 .. g.indptr[i + 1] : x = <<i, g.columns[k] + 1, g.values[k]>>
    BY <2>1
  <2>3. x = <<rows[k] + 1, g.columns[k] + 1, g.values[k]>> /\ k \in DOMAIN g.values
    BY <1>2, <1>4, <2>2
  <2> QED
    BY <2>3
<1>7. all = NonZeros(m)
  <2> HIDE DEF all, row
  <2> QED
    BY <1>3, <1>5, <1>6
<1> QED
  BY <1>7 DEF rows

\* An answer that is the block of the operator, or a refusal with its reason.
Right(a, r) ==
  CASE IsFailed(a) -> a.error = "MemoryLimit" \/ (a.error = "SectorLeakage" /\ Leaks(r))
    [] "vector" \in DOMAIN a -> a.vector = Product(Restricted(r), r.state) /\ ~Leaks(r)
    [] "matrix" \in DOMAIN a -> a.matrix = Restricted(r)
    [] "rows" \in DOMAIN a ->
         {<<a.rows[k] + 1, a.columns[k] + 1, a.values[k]>> : k \in DOMAIN a.values} = NonZeros(Restricted(r))
    [] OTHER ->
         UNION {{<<i, a.columns[k] + 1, a.values[k]>> : k \in a.indptr[i] + 1 .. a.indptr[i + 1]} :
                i \in DOMAIN Restricted(r)} = NonZeros(Restricted(r))

\* A refusal for memory is right; one for leakage if the operator leaves.
LEMMA RefusalsAreRight ==
  ASSUME NEW r
  PROVE  Right(Failed("MemoryLimit"), r) /\ (Leaks(r) => Right(Failed("SectorLeakage"), r))
BY DEF Right, Failed, IsFailed

\* The product with the block is right, unless the operator leaves.
LEMMA ProductIsRight ==
  ASSUME NEW r, ~Leaks(r)
  PROVE  Right([vector |-> Product(Restricted(r), r.state)], r)
<1> DEFINE v == Product(Restricted(r), r.state)
           a == [vector |-> v]
<1>1. "vector" \in DOMAIN a /\ ~IsFailed(a) /\ a.vector = v
  <2> HIDE DEF v
  <2> QED
    BY DEF IsFailed
<1> HIDE DEF a
<1> QED
  BY <1>1 DEF Right, a

\* What is read from a graph that holds the block is right in every form.
LEMMA GraphIsRight ==
  ASSUME NEW r \in Requests, NEW g, HoldsMatrix(g, DimensionOf(r), Restricted(r)), ~Leaks(r)
  PROVE  /\ Right([vector |-> ApplyGraph(g, r.state)], r)
         /\ Right([matrix |-> Dense(g)], r)
         /\ \A limit : Right(CooArrays(g, limit), r) /\ Right(CsrArrays(g, limit), r)
<1> DEFINE n == DimensionOf(r)
           m == Restricted(r)
<1>1. n \in Nat /\ IsMatrix(m, n) /\ r.state \in [1 .. n -> Complex] /\ DOMAIN m = 1 .. n
  BY BlockIs, StateIs DEF IsMatrix
<1>2. Right([vector |-> ApplyGraph(g, r.state)], r)
  <2>1. ApplyGraph(g, r.state) = Product(m, r.state)
    BY <1>1, GraphApplies
  <2> QED
    BY <2>1, ProductIsRight
<1>3. Right([matrix |-> Dense(g)], r)
  <2>1. Dense(g) = m
    <3>1. m = [i \in 1 .. n |-> [j \in 1 .. n |-> m[i][j]]]
      <4> DEFINE M == WordsInOrder(r.operator.nqubits, r.particles)
      <4>1. DOMAIN m = DOMAIN M /\ m = [i \in DOMAIN M |-> [j \in DOMAIN M |-> m[i][j]]]
        BY DEF Restricted
      <4> HIDE DEF M, m
      <4> QED
        BY <1>1, <4>1
    <3> HIDE DEF n, m
    <3> QED
      BY <1>1, <3>1, GraphIsDense DEF n, m
  <2> DEFINE a == [matrix |-> m]
  <2>2. "matrix" \in DOMAIN a /\ "vector" \notin DOMAIN a /\ "rows" \notin DOMAIN a
        /\ ~IsFailed(a) /\ a.matrix = m
    <3> HIDE DEF m
    <3> QED
      BY DEF IsFailed
  <2> HIDE DEF a
  <2>3. Right(a, r)
    BY <2>2 DEF Right
  <2> QED
    BY <2>1, <2>3 DEF a
<1>4. ASSUME NEW limit PROVE Right(CooArrays(g, limit), r)
  <2> DEFINE rows == FlattenSeq(RowNumbers(g))
             a == [rows |-> rows, columns |-> g.columns, values |-> g.values]
  <2>1. CooArrays(g, limit) = Failed("MemoryLimit") \/ CooArrays(g, limit) = a
    BY DEF CooArrays, RowNumbers
  <2>2. {<<rows[k] + 1, g.columns[k] + 1, g.values[k]>> : k \in DOMAIN g.values} = NonZeros(m)
    BY <1>1, EntriesOfCoo
  <2>3. /\ "rows" \in DOMAIN a /\ "matrix" \notin DOMAIN a /\ "vector" \notin DOMAIN a /\ ~IsFailed(a)
        /\ a.rows = rows /\ a.columns = g.columns /\ a.values = g.values
    <3> HIDE DEF rows
    <3> QED
      BY DEF IsFailed
  <2> HIDE DEF a, rows
  <2>4. {<<a.rows[k] + 1, a.columns[k] + 1, a.values[k]>> : k \in DOMAIN a.values} = NonZeros(m)
    BY <2>2, <2>3
  <2>5. Right(a, r)
    BY <2>3, <2>4 DEF Right
  <2> QED
    BY <2>1, <2>5, RefusalsAreRight
<1>5. ASSUME NEW limit PROVE Right(CsrArrays(g, limit), r)
  <2> DEFINE a == [indptr |-> g.indptr, columns |-> g.columns, values |-> g.values]
  <2>1. CsrArrays(g, limit) = Failed("MemoryLimit") \/ CsrArrays(g, limit) = a
    BY DEF CsrArrays
  <2>2. UNION {{<<i, g.columns[k] + 1, g.values[k]>> : k \in g.indptr[i] + 1 .. g.indptr[i + 1]} :
               i \in DOMAIN m} = NonZeros(m)
    <3>1. UNION {{<<i, g.columns[k] + 1, g.values[k]>> : k \in g.indptr[i] + 1 .. g.indptr[i + 1]} :
                 i \in 1 .. n} = NonZeros(m)
      BY <1>1, EntriesOfRows
    <3> QED
      BY <1>1, <3>1
  <2>3. /\ "rows" \notin DOMAIN a /\ "matrix" \notin DOMAIN a /\ "vector" \notin DOMAIN a /\ ~IsFailed(a)
        /\ a.indptr = g.indptr /\ a.columns = g.columns /\ a.values = g.values
    BY DEF IsFailed
  <2> HIDE DEF a
  <2>4. UNION {{<<i, a.columns[k] + 1, a.values[k]>> : k \in a.indptr[i] + 1 .. a.indptr[i + 1]} :
               i \in DOMAIN m} = NonZeros(m)
    BY <2>2, <2>3
  <2>5. Right(a, r)
    BY <2>3, <2>4 DEF Right
  <2> QED
    BY <2>1, <2>5, RefusalsAreRight
<1> QED
  BY <1>2, <1>3, <1>4, <1>5

-----------------------------------------------------------------------------
(* The facade                                                              *)

\* No column the builder has behind it leaves the sector.
Legal(r) ==
  pass # "idle" =>
    \A j \in 0 .. (IF pass = "count" THEN source ELSE DimensionOf(r)) - 1 : ~LeavesAt(r, j)

\* What the caches hold when they hold something.
Caches(r) ==
  /\ IsNone(lazy) \/ lazy = [groups |-> GroupsOf(r)]
  /\ IsNone(eager) \/ (HoldsMatrix(eager, DimensionOf(r), Restricted(r)) /\ ~Leaks(r))
  /\ storage \in {"absent", "lazy", "eager"}
  /\ storage = "lazy" => ~IsNone(lazy)
  /\ storage = "eager" => ~IsNone(eager)

\* A thread finds the cache it was sent to, and was answered rightly.
Served(r, t) ==
  /\ pc[t] = "apply" => storage # "absent"
  /\ pc[t] = "lazy_check" => ~IsNone(lazy)
  /\ pc[t] = "materialize" => ~IsNone(eager)
  /\ IsNone(answer[t]) \/ Right(answer[t], r)

Serving(r) ==
  /\ reference = [matrix |-> Restricted(r), leaks |-> Leaks(r)]
  /\ DOMAIN pc = Thread /\ DOMAIN answer = Thread
  /\ Legal(r) /\ Caches(r) /\ \A t \in Thread : Served(r, t)
ServeInv(r) == request = r => Serving(r)

\* At first nothing is cached and nobody was answered.
LEMMA ServeInitially ==
  ASSUME NEW r \in Requests, Init
  PROVE  ServeInv(r)
<1> SUFFICES ASSUME request = r PROVE Serving(r)
  BY DEF ServeInv
<1>1. IsNone(None)
  BY DEF IsNone, None
<1>2. Legal(r) /\ Caches(r)
  BY <1>1 DEF Init, Legal, Caches
<1>3. \A t \in Thread : Served(r, t)
  BY <1>1 DEF Init, Served
<1>4. /\ reference = [matrix |-> Restricted(r), leaks |-> Leaks(r)]
      /\ DOMAIN pc = Thread /\ DOMAIN answer = Thread
  BY DEF Init
<1> QED
  BY <1>2, <1>3, <1>4 DEF Serving

-----------------------------------------------------------------------------
\* A step of the builder has no column behind it that leaves.
LEMMA LegalKeeps ==
  ASSUME NEW r \in Requests, request = r, basis = SectorOf(r), Writing(r), Legal(r), Next
  PROVE  Legal(r)'
<1> DEFINE D == DimensionOf(r)
<1>1. NoBuild \/ ForgetPasses \/ Begun \/ Taken \/ Turned
  BY BuilderSteps
<1>2. CASE NoBuild
  BY <1>2 DEF NoBuild, passVars, Legal
<1>3. CASE ForgetPasses
  BY <1>3 DEF ForgetPasses, Legal
<1>4. CASE Begun
  <2>1. pass' = "count" /\ source' = 0
    BY <1>4 DEF Begun, StartCount
  <2> QED
    BY <2>1 DEF Legal
<1>5. CASE Taken
  <2>1. pass # "idle" /\ pass \in {"count", "fill"}
    BY <1>5 DEF Taken, CountSource, FillSource
  <2>2. /\ CountSource(MatrixOf(r)[source]) \/ FillSource(MatrixOf(r)[source])
        /\ source \in 0 .. D - 1 /\ source' = source + 1
        /\ ~LeavesAt(r, source)
    BY <1>5, <2>1, TakenIs DEF DimensionOf, LeavesAt
  <2>3. pass' = pass
    BY <2>2 DEF CountSource, FillSource
  <2>4. CASE pass = "count"
    <3>1. \A j \in 0 .. source - 1 : ~LeavesAt(r, j)
      BY <2>1, <2>4 DEF Legal
    <3>2. ASSUME NEW j \in 0 .. source' - 1 PROVE ~LeavesAt(r, j)
      <4>1. j = source \/ j \in 0 .. source - 1
        BY <2>2
      <4> QED
        BY <2>2, <3>1, <4>1
    <3> QED
      BY <2>3, <2>4, <3>2 DEF Legal
  <2>5. CASE pass # "count"
    BY <2>1, <2>3, <2>5 DEF Legal
  <2> QED
    BY <2>4, <2>5
<1>6. CASE Turned
  <2>1. CASE StartSizing
    <3>1. pass = "count" /\ pass' = "size" /\ source = Size
      BY <2>1 DEF StartSizing
    <3>2. Size = D
      BY <3>1, SizeIsDim DEF Writing, FillInv, DimensionOf
    <3> QED
      BY <3>1, <3>2 DEF Legal
  <2>2. CASE SizeRow \/ FinishFill \/ StartFill
    <3>1. pass \in {"size", "fill"} /\ pass' \in {"size", "fill", "full"}
      BY <2>2 DEF SizeRow, FinishFill, StartFill
    <3> QED
      BY <3>1 DEF Legal
  <2> QED
    BY <1>6, <2>1, <2>2 DEF Turned
<1> QED
  BY <1>1, <1>2, <1>3, <1>4, <1>5, <1>6

\* A full pass is a graph of the block.
LEMMA FullIsRight ==
  ASSUME NEW r \in Requests, Writing(r), Legal(r), pass = "full"
  PROVE  HoldsMatrix(BuiltGraph, DimensionOf(r), Restricted(r)) /\ ~IsNone(BuiltGraph) /\ ~Leaks(r)
<1> DEFINE n == DimensionOf(r)
           m == Restricted(r)
           E == MatrixOf(r)
<1>1. n \in Nat /\ IsMatrix(m, n)
  BY BlockIs
<1>2. \A j \in 0 .. n - 1 : ~LeavesAt(r, j)
  BY DEF Legal
<1>3. \A j \in 0 .. n - 1 : E[j] = EntriesAt(m, n, j)
  BY <1>2, ColumnOfBlock
<1>4. FillInv(n, E)
  BY DEF Writing, DimensionOf
<1>5. ~Leaks(r)
  BY <1>2, LeaksAre
<1> HIDE DEF n, m, E
<1>6. HoldsMatrix(BuiltGraph, n, m) /\ ~IsNone(BuiltGraph)
  BY <1>1, <1>3, <1>4, BuiltHolds
<1> QED
  BY <1>5, <1>6 DEF n, m

-----------------------------------------------------------------------------
\* What a step of thread t must show: the caches stay as they should be and
\* are never emptied, and t is served.
Steps(r, t) ==
  /\ Caches(r)'
  /\ storage # "absent" => storage' # "absent"
  /\ ~IsNone(lazy) => ~IsNone(lazy)'
  /\ ~IsNone(eager) => ~IsNone(eager)'
  /\ pc' = pc \/ \E label : Go(t, label)
  /\ answer' = answer \/ \E made : answer' = [answer EXCEPT ![t] = made]
  /\ Served(r, t)'

\* Such a step leaves every thread served.
LEMMA StepServes ==
  ASSUME NEW r \in Requests, Serving(r), NEW t \in Thread, Steps(r, t)
  PROVE  /\ DOMAIN pc' = Thread /\ DOMAIN answer' = Thread
         /\ \A u \in Thread : Served(r, u)'
<1>1. DOMAIN pc = Thread /\ DOMAIN answer = Thread /\ \A u \in Thread : Served(r, u)
  BY DEF Serving
<1>2. DOMAIN pc' = Thread /\ \A u \in Thread \ {t} : pc'[u] = pc[u]
  BY <1>1 DEF Steps, Go
<1>3. DOMAIN answer' = Thread /\ \A u \in Thread \ {t} : answer'[u] = answer[u]
  BY <1>1 DEF Steps
<1>4. ASSUME NEW u \in Thread \ {t} PROVE Served(r, u)'
  <2>1. Served(r, u)
    BY <1>1
  <2>2. pc'[u] = pc[u] /\ answer'[u] = answer[u]
    BY <1>2, <1>3
  <2>3. pc[u] = "apply" => storage' # "absent"
    BY <2>1 DEF Steps, Served
  <2>4. /\ pc[u] = "lazy_check" => ~IsNone(lazy)'
        /\ pc[u] = "materialize" => ~IsNone(eager)'
    BY <2>1 DEF Steps, Served
  <2>5. IsNone(answer[u]) \/ Right(answer[u], r)
    BY <2>1 DEF Served
  <2> QED
    BY <2>2, <2>3, <2>4, <2>5 DEF Served
<1>5. Served(r, t)'
  BY DEF Steps
<1> QED
  BY <1>2, <1>3, <1>4, <1>5

\* The same for a step that leaves the caches alone and sends t elsewhere.
LEMMA MoveSteps ==
  ASSUME NEW r \in Requests, Serving(r), NEW t \in Thread, UNCHANGED <<storage, lazy, eager, answer>>,
         NEW label, Go(t, label),
         label = "apply" => storage # "absent",
         label = "lazy_check" => ~IsNone(lazy), label = "materialize" => ~IsNone(eager)
  PROVE  Steps(r, t)
<1>1. pc'[t] = label
  BY DEF Serving, Go
<1>2. Caches(r)'
  BY DEF Serving, Caches
<1>3. Served(r, t)
  BY DEF Serving
<1>4. Served(r, t)'
  BY <1>1, <1>3 DEF Served
<1> QED
  BY <1>2, <1>4 DEF Steps

\* For one that ends the call of t, with a right answer.
LEMMA DoneSteps ==
  ASSUME NEW r \in Requests, Serving(r), NEW t \in Thread, UNCHANGED <<storage, lazy, eager>>,
         NEW made, Done(t, made), Right(made, r)
  PROVE  Steps(r, t)
<1>1. pc'[t] = "done" /\ answer'[t] = made
  BY DEF Serving, Go, Done
<1>2. Caches(r)'
  BY DEF Serving, Caches
<1>3. Served(r, t)'
  BY <1>1 DEF Served
<1> QED
  BY <1>2, <1>3 DEF Steps, Done

\* Every action of the facade is such a step of its thread.
LEMMA ActionServes ==
  ASSUME NEW r \in Requests, request = r, basis = SectorOf(r), Writing(r), Serving(r), NEW t \in Thread,
         \/ ConstructLazy(t) \/ ConstructEager(t) \/ FinishConstruction(t)
         \/ Start(t) \/ Apply(t) \/ ReadLazy(t) \/ ReadEager(t) \/ Acquire(t)
         \/ EnsureLazy(t) \/ ReturnLazy(t)
         \/ BeginBuild(t) \/ Aggregate(t) \/ Turn(t) \/ Install(t) \/ Materialize(t)
  PROVE  Steps(r, t)
<1> DEFINE refusal == Failed("MemoryLimit")
           leakage == Failed("SectorLeakage")
<1>0. Right(refusal, r) /\ (Leaks(r) => Right(leakage, r))
  BY RefusalsAreRight
<1>e. /\ IsNone(eager) \/ (HoldsMatrix(eager, DimensionOf(r), Restricted(r)) /\ ~Leaks(r))
      /\ IsNone(lazy) \/ lazy = [groups |-> GroupsOf(r)]
  BY DEF Serving, Caches
<1>g. ~IsNone(eager) => /\ Right([vector |-> ApplyGraph(eager, r.state)], r)
                        /\ Right([matrix |-> Dense(eager)], r)
                        /\ \A limit : Right(CooArrays(eager, limit), r) /\ Right(CsrArrays(eager, limit), r)
  BY <1>e, GraphIsRight
<1>l. ~IsNone(lazy) => lazy.groups = GroupsOf(r) /\ Right(LazyApply(basis, lazy.groups, r.state), r)
  <2> SUFFICES ASSUME ~IsNone(lazy)
               PROVE  lazy.groups = GroupsOf(r) /\ Right(LazyApply(basis, lazy.groups, r.state), r)
    OBVIOUS
  <2>1. lazy.groups = GroupsOf(r)
    BY <1>e
  <2>2. LazyApply(basis, lazy.groups, r.state)
          = IF Leaks(r) THEN leakage ELSE [vector |-> Product(Restricted(r), r.state)]
    BY <2>1, LazyIs
  <2> HIDE DEF leakage
  <2>3. CASE Leaks(r)
    BY <1>0, <2>1, <2>2, <2>3
  <2>4. CASE ~Leaks(r)
    BY <2>1, <2>2, <2>4, ProductIsRight
  <2> QED
    BY <2>3, <2>4
<1> HIDE DEF refusal, leakage
<1>c. ~IsNone([groups |-> GroupsOf(r)])
  BY DEF IsNone
<1>1. CASE ConstructLazy(t)
  <2>1. /\ lazy' = [groups |-> GroupsOf(r)] /\ storage' = "lazy"
        /\ UNCHANGED <<eager, pc, answer>> /\ \A u \in Thread : pc[u] = "idle"
    BY <1>1 DEF ConstructLazy, GroupsOf
  <2>2. Caches(r)' /\ ~IsNone(lazy)'
    BY <1>c, <1>e, <2>1 DEF Caches
  <2>3. Served(r, t)'
    <3>1. Served(r, t)
      BY DEF Serving
    <3> QED
      BY <2>1, <3>1 DEF Served
  <2> QED
    BY <2>1, <2>2, <2>3 DEF Steps
<1>2. CASE ConstructEager(t)
  <2>1. UNCHANGED <<storage, lazy, eager>>
    BY <1>2 DEF ConstructEager
  <2>2. Done(t, refusal) \/ (Go(t, "constructing") /\ UNCHANGED answer)
    BY <1>2 DEF ConstructEager, refusal
  <2> QED
    BY <1>0, <2>1, <2>2, MoveSteps, DoneSteps
<1>3. CASE FinishConstruction(t)
  <2>1. /\ pass = "full" /\ eager' = BuiltGraph /\ storage' = "eager" /\ Go(t, "idle")
        /\ UNCHANGED <<lazy, answer>>
    BY <1>3 DEF FinishConstruction
  <2>2. HoldsMatrix(BuiltGraph, DimensionOf(r), Restricted(r)) /\ ~IsNone(BuiltGraph) /\ ~Leaks(r)
    BY <2>1, FullIsRight DEF Serving
  <2>3. Caches(r)' /\ ~IsNone(eager)'
    <3> DEFINE graph == BuiltGraph
    <3> HIDE DEF graph
    <3>1. eager' = graph /\ HoldsMatrix(graph, DimensionOf(r), Restricted(r)) /\ ~IsNone(graph)
      BY <2>1, <2>2 DEF graph
    <3> QED
      BY <1>e, <2>1, <2>2, <3>1 DEF Caches
  <2>4. Served(r, t)'
    <3>1. pc'[t] = "idle" /\ answer'[t] = answer[t] /\ Served(r, t)
      BY <2>1 DEF Go, Serving
    <3> QED
      BY <3>1 DEF Served
  <2> QED
    BY <2>1, <2>3, <2>4 DEF Steps
<1>4. CASE Start(t)
  <2>1. storage # "absent" /\ UNCHANGED <<storage, lazy, eager, answer>>
    BY <1>4 DEF Start
  <2>2. \E label \in {"apply", "lazy_read", "eager_read"} : Go(t, label)
    BY <1>4 DEF Start
  <2> QED
    BY <2>1, <2>2, MoveSteps
<1>5. CASE Apply(t)
  <2>1. UNCHANGED <<storage, lazy, eager>> /\ pc[t] = "apply"
    BY <1>5 DEF Apply
  <2>2. storage # "absent"
    BY <2>1 DEF Serving, Served
  <2>3. IsNone(eager) => ~IsNone(lazy)
    BY <2>2 DEF Serving, Caches
  <2>4. \/ Done(t, refusal)
        \/ ~IsNone(eager) /\ Done(t, [vector |-> ApplyGraph(eager, r.state)])
        \/ IsNone(eager) /\ Done(t, LazyApply(basis, lazy.groups, r.state))
    BY <1>5 DEF Apply, refusal
  <2> QED
    BY <1>0, <1>g, <1>l, <2>1, <2>3, <2>4, DoneSteps
<1>6. CASE ReadLazy(t)
  <2>1. UNCHANGED <<storage, lazy, eager, answer>>
    BY <1>6 DEF ReadLazy
  <2>2. Go(t, "lazy_wait") \/ (~IsNone(lazy) /\ Go(t, "lazy_check"))
    BY <1>6 DEF ReadLazy
  <2> QED
    BY <2>1, <2>2, MoveSteps
<1>7. CASE ReadEager(t)
  <2>1. UNCHANGED <<storage, lazy, eager>>
    BY <1>7 DEF ReadEager
  <2>2. \/ Go(t, "eager_wait") /\ UNCHANGED answer
        \/ Done(t, refusal)
        \/ ~IsNone(eager) /\ Go(t, "materialize") /\ UNCHANGED answer
    BY <1>7 DEF ReadEager, refusal
  <2> QED
    BY <1>0, <2>1, <2>2, MoveSteps, DoneSteps
<1>8. CASE Acquire(t)
  <2>1. UNCHANGED <<storage, lazy, eager, answer>>
    BY <1>8 DEF Acquire
  <2>2. Go(t, "lazy_locked") \/ Go(t, "eager_locked")
    BY <1>8 DEF Acquire
  <2> QED
    BY <2>1, <2>2, MoveSteps
<1>9. CASE EnsureLazy(t)
  <2>1. UNCHANGED <<storage, eager>>
    BY <1>9 DEF EnsureLazy
  <2>2. \/ ~IsNone(lazy) /\ Go(t, "lazy_check") /\ UNCHANGED <<lazy, answer>>
        \/ Done(t, refusal) /\ UNCHANGED lazy
        \/ lazy' = [groups |-> GroupsOf(r)] /\ Go(t, "lazy_check") /\ UNCHANGED answer
    BY <1>9 DEF EnsureLazy, GroupsOf, refusal
  <2>3. CASE ~IsNone(lazy) /\ Go(t, "lazy_check") /\ UNCHANGED <<lazy, answer>>
    BY <2>1, <2>3, MoveSteps
  <2>4. CASE Done(t, refusal) /\ UNCHANGED lazy
    BY <1>0, <2>1, <2>4, DoneSteps
  <2>5. CASE lazy' = [groups |-> GroupsOf(r)] /\ Go(t, "lazy_check") /\ UNCHANGED answer
    <3>1. ~IsNone(lazy)'
      BY <1>c, <2>5
    <3>2. Caches(r)'
      BY <2>1, <2>5, <3>1 DEF Serving, Caches
    <3>3. Served(r, t)'
      <4>1. pc'[t] = "lazy_check" /\ answer'[t] = answer[t] /\ Served(r, t)
        BY <2>5 DEF Go, Serving
      <4> QED
        BY <3>1, <4>1 DEF Served
    <3> QED
      BY <2>1, <2>5, <3>1, <3>2, <3>3 DEF Steps
  <2> QED
    BY <2>2, <2>3, <2>4, <2>5
<1>10. CASE ReturnLazy(t)
  <2>1. UNCHANGED <<storage, lazy, eager>> /\ pc[t] = "lazy_check"
    BY <1>10 DEF ReturnLazy
  <2>2. ~IsNone(lazy)
    BY <2>1 DEF Serving, Served
  <2>3. Done(t, refusal) \/ Done(t, LazyApply(basis, lazy.groups, r.state))
    BY <1>10 DEF ReturnLazy, refusal
  <2> QED
    BY <1>0, <1>l, <2>1, <2>2, <2>3, DoneSteps
<1>11. CASE BeginBuild(t)
  <2>1. UNCHANGED <<storage, lazy, eager>>
    BY <1>11 DEF BeginBuild
  <2>2. \/ ~IsNone(eager) /\ Go(t, "materialize") /\ UNCHANGED answer
        \/ Done(t, refusal)
        \/ Go(t, "building") /\ UNCHANGED answer
    BY <1>11 DEF BeginBuild, refusal
  <2> QED
    BY <1>0, <2>1, <2>2, MoveSteps, DoneSteps
<1>12. CASE Aggregate(t)
  <2> DEFINE c == AggregateSource(basis, terms.groups, positions)
  <2>1. UNCHANGED <<storage, lazy, eager>> /\ source < Size
    BY <1>12 DEF Aggregate
  <2>2. \/ IsFailed(c) /\ pass \in {"count", "fill"} /\ Done(t, c)
        \/ UNCHANGED <<pc, answer>>
    <3> HIDE DEF c
    <3> QED
      BY <1>12 DEF Aggregate, c
  <2>3. CASE IsFailed(c) /\ pass \in {"count", "fill"} /\ Done(t, c)
    <3> DEFINE D == SectorOf(r).dimension
    <3>1. /\ terms = [groups |-> GroupsOf(r)] /\ FillInv(D, MatrixOf(r)) /\ Walking(r)
      BY <2>3 DEF Writing
    <3>2. Size = D /\ source \in 0 .. D /\ D \in Nat
      BY <3>1, SizeIsDim DEF FillInv, PassType, Setting
    <3>3. source \in 0 .. D - 1 /\ positions = Standing(SectorOf(r), source)
      BY <2>1, <2>3, <3>1, <3>2 DEF Walking
    <3>4. c = AggregatedAt(SectorOf(r), GroupsOf(r), source)
      BY <3>1, <3>3 DEF AggregatedAt
    <3>5. LeavesAt(r, source) /\ source \in 0 .. DimensionOf(r) - 1
      BY <2>3, <3>3, <3>4 DEF LeavesAt, DimensionOf
    <3>6. Leaks(r) /\ c = leakage
      BY <3>4, <3>5, LeaksAre DEF leakage
    <3>7. Right(c, r)
      BY <1>0, <3>6
    <3> HIDE DEF c
    <3> QED
      BY <2>1, <2>3, <3>7, DoneSteps
  <2>4. CASE UNCHANGED <<pc, answer>>
    BY <2>1, <2>4 DEF Serving, Caches, Served, Steps
  <2> QED
    BY <2>2, <2>3, <2>4
<1>13. CASE Turn(t)
  <2>1. UNCHANGED <<storage, lazy, eager, pc, answer>>
    BY <1>13 DEF Turn, facadeVars
  <2> QED
    BY <2>1 DEF Serving, Caches, Served, Steps
<1>14. CASE Install(t)
  <2>1. UNCHANGED <<storage, lazy>> /\ pass = "full"
    BY <1>14 DEF Install
  <2>2. \/ Done(t, refusal) /\ UNCHANGED eager
        \/ eager' = BuiltGraph /\ Go(t, "materialize") /\ UNCHANGED answer
    BY <1>14 DEF Install, refusal
  <2>3. CASE Done(t, refusal) /\ UNCHANGED eager
    BY <1>0, <2>1, <2>3, DoneSteps
  <2>4. CASE eager' = BuiltGraph /\ Go(t, "materialize") /\ UNCHANGED answer
    <3>1. HoldsMatrix(BuiltGraph, DimensionOf(r), Restricted(r)) /\ ~IsNone(BuiltGraph) /\ ~Leaks(r)
      BY <2>1, FullIsRight DEF Serving
    <3>2. HoldsMatrix(eager', DimensionOf(r), Restricted(r)) /\ ~IsNone(eager)'
      BY <2>4, <3>1
    <3>3. Caches(r)'
      BY <2>1, <3>1, <3>2 DEF Serving, Caches
    <3>4. Served(r, t)'
      <4>1. pc'[t] = "materialize" /\ answer'[t] = answer[t] /\ Served(r, t)
        BY <2>4 DEF Go, Serving
      <4> QED
        BY <3>2, <4>1 DEF Served
    <3> QED
      BY <2>1, <2>4, <3>2, <3>3, <3>4 DEF Steps
  <2> QED
    BY <2>2, <2>3, <2>4
<1>15. CASE Materialize(t)
  <2>1. UNCHANGED <<storage, lazy, eager>> /\ pc[t] = "materialize"
    BY <1>15 DEF Materialize
  <2>2. ~IsNone(eager)
    BY <2>1 DEF Serving, Served
  <2>3. \/ Done(t, refusal) \/ Done(t, [matrix |-> Dense(eager)])
        \/ \E limit : Done(t, CooArrays(eager, limit)) \/ Done(t, CsrArrays(eager, limit))
        \/ Done(t, [vector |-> ApplyGraph(eager, r.state)])
    BY <1>15 DEF Materialize, refusal
  <2> QED
    BY <1>0, <1>g, <2>1, <2>2, <2>3, DoneSteps
<1> QED
  BY <1>1, <1>2, <1>3, <1>4, <1>5, <1>6, <1>7, <1>8, <1>9, <1>10, <1>11, <1>12, <1>13, <1>14, <1>15

\* No step leaves a thread without its cache, or answers it wrongly.
LEMMA ServeKeeps ==
  ASSUME NEW r \in Requests, WriteInv(r), ServeInv(r), [Next]_vars
  PROVE  ServeInv(r)'
<1> SUFFICES ASSUME request' = r PROVE Serving(r)'
  BY DEF ServeInv
<1>1. CASE UNCHANGED vars
  <2>1. UNCHANGED <<request, reference, storage, lazy, eager, pc, answer, pass, source>>
    BY <1>1 DEF vars, facadeVars, passVars
  <2>2. Serving(r)
    BY <2>1 DEF ServeInv
  <2>3. Legal(r)' /\ Caches(r)'
    BY <2>1, <2>2 DEF Serving, Legal, Caches
  <2>4. \A t \in Thread : Served(r, t)'
    BY <2>1, <2>2 DEF Serving, Served
  <2> QED
    BY <2>1, <2>2, <2>3, <2>4 DEF Serving
<1>2. CASE Next
  <2>1. UNCHANGED <<request, reference>>
    BY <1>2, BuilderSteps
  <2>2. request = r /\ Serving(r) /\ basis = SectorOf(r) /\ Writing(r)
    BY <2>1 DEF ServeInv, WriteInv
  <2>3. Legal(r)'
    BY <1>2, <2>2, LegalKeeps DEF Serving
  <2>4. PICK t \in Thread : Steps(r, t)
    BY <1>2, <2>2, ActionServes DEF Next
  <2>5. /\ DOMAIN pc' = Thread /\ DOMAIN answer' = Thread
        /\ \A u \in Thread : Served(r, u)'
    BY <2>2, <2>4, StepServes
  <2>6. Caches(r)'
    BY <2>4 DEF Steps
  <2> QED
    BY <2>1, <2>2, <2>3, <2>5, <2>6 DEF Serving
<1> QED
  BY <1>1, <1>2

AnswerInv == MatrixInv /\ \A r \in Requests : ServeInv(r)

\* The invariant of the facade is inductive.
LEMMA AnswerKeeps ==
  ASSUME AnswerInv, [Next]_vars
  PROVE  AnswerInv'
<1>1. MatrixInv'
  BY MatrixKeeps DEF AnswerInv
<1>2. ASSUME NEW r \in Requests PROVE ServeInv(r)'
  BY ServeKeeps DEF AnswerInv, MatrixInv
<1> QED
  BY <1>1, <1>2 DEF AnswerInv

\* It holds in every reachable state.
LEMMA AnswerInvariant == Spec => []AnswerInv
<1>1. Init => AnswerInv
  BY WriteInitially, ServeInitially DEF Init, MatrixInv, AnswerInv
<1>2. AnswerInv /\ [Next]_vars => AnswerInv'
  BY AnswerKeeps
<1> QED
  BY <1>1, <1>2, PTL DEF Spec

\* Whatever thread asks in whatever form, it is handed the block of the
\* operator's matrix in the sector; a refusal that is not about memory means
\* that the operator leaves the sector.
THEOREM AnswersAreTheBlock == Spec => []AnswersAreTheRestriction
<1>1. AnswerInv => AnswersAreTheRestriction
  <2> SUFFICES ASSUME AnswerInv PROVE AnswersAreTheRestriction
    OBVIOUS
  <2>1. PICK r \in Requests : request = r
    BY DEF AnswerInv, MatrixInv
  <2>2. Serving(r)
    BY <2>1 DEF AnswerInv, ServeInv
  <2>3. reference.matrix = Restricted(r) /\ reference.leaks = Leaks(r)
    BY <2>2 DEF Serving
  <2>4. \A t \in Thread : ~IsNone(answer[t]) => Right(answer[t], r)
    BY <2>2 DEF Serving, Served
  <2> QED
    BY <2>1, <2>3, <2>4 DEF AnswersAreTheRestriction, Right
<1> QED
  BY <1>1, AnswerInvariant, PTL
=============================================================================
