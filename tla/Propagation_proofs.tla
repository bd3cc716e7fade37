------------------------- MODULE Propagation_proofs -------------------------
(***************************************************************************)
(* What the kernels of a gate tape return, for any number of wires, any    *)
(* term sequence and any validated operation: well-formed terms, the       *)
(* coefficients of the operation's matrix applied to those of the input,   *)
(* distinct words out of words in key order, and no more terms than the    *)
(* branch factor allows.  Then a call of a propagation engine, for every   *)
(* tape, observable, cutoff, checkpoint interval and limit: what the       *)
(* reverse pass works on, the types of what a call keeps, its budget, the  *)
(* gradient, and that it follows the recurrence.                           *)
(***************************************************************************)
EXTENDS Propagation, FoldLemmas

---------------------------------------------------------------------------
(* Words and their order                                                   *)

WordsOn(n) == [0 .. n - 1 -> Codes]

\* There are finitely many words.
LEMMA WordsFinite == IsFiniteSet(Wires) /\ IsFiniteSet(Words)
<1> DEFINE T == {n \in Nat : IsFiniteSet(WordsOn(n))}
<1>1. 0 \in T
  <2> DEFINE e == [q \in {} |-> 0]
  <2>1. 0 .. 0 - 1 = {}
    OBVIOUS
  <2>2. WordsOn(0) = [{} -> Codes]
    BY <2>1 DEF WordsOn
  <2>3. \A f \in [{} -> Codes] : f = e
    OBVIOUS
  <2>4. WordsOn(0) \in SUBSET {e}
    BY <2>2, <2>3
  <2>5. IsFiniteSet(WordsOn(0))
    <3> HIDE DEF e
    <3>1. IsFiniteSet({e})
      BY FS_Singleton
    <3> QED BY <2>4, <3>1, FS_Subset
  <2> QED BY <2>5
<1>2. ASSUME NEW n \in Nat, n \in T PROVE n + 1 \in T
  <2> DEFINE P == WordsOn(n) \X Codes
             parts == [f \in WordsOn(n + 1) |-> <<[q \in 0 .. n - 1 |-> f[q]], f[n]>>]
  <2>1. IsFiniteSet(P)
    <3>1. IsFiniteSet(Codes)
      <4>1. IsFiniteSet(0 .. n + 3)
        BY FS_Interval
      <4>2. Codes \in SUBSET (0 .. n + 3)
        BY DEF Codes
      <4> QED BY <4>1, <4>2, FS_Subset
    <3> QED BY <1>2, <3>1, FS_Product
  <2>2. parts \in Injection(WordsOn(n + 1), P)
    <3>1. WordsOn(n + 1) = [0 .. n -> Codes]
      BY DEF WordsOn
    <3>2. parts \in [WordsOn(n + 1) -> P]
      BY <3>1 DEF WordsOn
    <3>3. ASSUME NEW f \in WordsOn(n + 1), NEW g \in WordsOn(n + 1), parts[f] = parts[g]
          PROVE  f = g
      <4>1. /\ [q \in 0 .. n - 1 |-> f[q]] = [q \in 0 .. n - 1 |-> g[q]]
            /\ f[n] = g[n]
        BY <3>3
      <4>2. \A q \in 0 .. n - 1 : f[q] = g[q]
        BY <4>1
      <4>3. \A q \in 0 .. n : q = n \/ q \in 0 .. n - 1
        OBVIOUS
      <4> QED BY <3>1, <4>1, <4>2, <4>3
    <3> QED BY <3>2, <3>3, Zenon DEF Injection, IsInjective
  <2>3. IsFiniteSet(WordsOn(n + 1))
    <3> HIDE DEF P, parts
    <3> QED BY <2>1, <2>2, FS_Injection
  <2> QED BY <2>3
<1>3. NQubits \in T
  <2> HIDE DEF T
  <2> QED BY <1>1, <1>2, NatInd, NQubitsAssumption
<1>4. IsFiniteSet(Wires)
  BY FS_Interval, NQubitsAssumption DEF Wires
<1> QED BY <1>3, <1>4 DEF Words, WordsOn, Wires

\* A weight is a natural number.
LEMMA WeightNat == \A w \in Words : Weight(w) \in Nat
<1> SUFFICES ASSUME NEW w \in Words PROVE Weight(w) \in Nat
  OBVIOUS
<1>1. XMask(w) \cup ZMask(w) \in SUBSET Wires
  BY DEF XMask, ZMask
<1>2. IsFiniteSet(XMask(w) \cup ZMask(w))
  BY <1>1, WordsFinite, FS_Subset
<1> QED BY <1>2, FS_CardinalityType DEF Weight

\* Masks are ordered strictly and totally.
LEMMA MaskOrder ==
  /\ \A a \in SUBSET Wires : ~MaskLess(a, a)
  /\ \A a, b \in SUBSET Wires : a # b => MaskLess(a, b) \/ MaskLess(b, a)
  /\ \A a, b, c \in SUBSET Wires : MaskLess(a, b) /\ MaskLess(b, c) => MaskLess(a, c)
<1>1. ASSUME NEW a \in SUBSET Wires, NEW b \in SUBSET Wires, a # b
      PROVE  MaskLess(a, b) \/ MaskLess(b, a)
  <2> DEFINE D == (a \ b) \cup (b \ a)
  <2>1. D # {} /\ D \subseteq 0 .. NQubits
    BY <1>1, NQubitsAssumption DEF Wires
  <2>2. PICK q \in D : \A k \in D : k <= q
    <3> HIDE DEF D
    <3> QED BY <2>1, Greatest, NQubitsAssumption
  <2>3. \A r \in Wires : r > q => r \notin D
    BY <2>2, <2>1, NQubitsAssumption DEF Wires
  <2> QED BY <2>2, <2>3 DEF MaskLess
<1>2. ASSUME NEW a \in SUBSET Wires, NEW b \in SUBSET Wires, NEW c \in SUBSET Wires,
             MaskLess(a, b), MaskLess(b, c)
      PROVE  MaskLess(a, c)
  <2>1. PICK p \in b \ a : \A r \in Wires : r > p => (r \in a <=> r \in b)
    BY <1>2 DEF MaskLess
  <2>2. PICK q \in c \ b : \A r \in Wires : r > q => (r \in b <=> r \in c)
    BY <1>2 DEF MaskLess
  <2>3. p \in Int /\ q \in Int /\ p \in Wires /\ q \in Wires /\ p # q
    BY NQubitsAssumption DEF Wires
  <2>4. CASE p > q
    <3>1. p \in c \ a
      BY <2>1, <2>2, <2>3, <2>4
    <3>2. \A r \in Wires : r > p => (r \in a <=> r \in c)
      BY <2>1, <2>2, <2>3, <2>4, NQubitsAssumption DEF Wires
    <3> QED BY <3>1, <3>2 DEF MaskLess
  <2>5. CASE q > p
    <3>1. q \in c \ a
      BY <2>1, <2>2, <2>3, <2>5
    <3>2. \A r \in Wires : r > q => (r \in a <=> r \in c)
      BY <2>1, <2>2, <2>3, <2>5, NQubitsAssumption DEF Wires
    <3> QED BY <3>1, <3>2 DEF MaskLess
  <2> QED BY <2>3, <2>4, <2>5
<1>3. \A a \in SUBSET Wires : ~MaskLess(a, a)
  BY DEF MaskLess
<1>4. \A a, b \in SUBSET Wires : a # b => MaskLess(a, b) \/ MaskLess(b, a)
  BY <1>1
<1>5. \A a, b, c \in SUBSET Wires : MaskLess(a, b) /\ MaskLess(b, c) => MaskLess(a, c)
  BY <1>2
<1> QED BY <1>3, <1>4, <1>5

\* The masks of a word determine it.
LEMMA MasksOfWord ==
  ASSUME NEW v \in Words, NEW w \in Words
  PROVE  /\ XMask(v) \in SUBSET Wires /\ ZMask(v) \in SUBSET Wires
         /\ XMask(v) = XMask(w) /\ ZMask(v) = ZMask(w) => v = w
<1>1. XMask(v) \in SUBSET Wires /\ ZMask(v) \in SUBSET Wires
  BY DEF XMask, ZMask
<1>2. ASSUME XMask(v) = XMask(w), ZMask(v) = ZMask(w) PROVE v = w
  <2>1. ASSUME NEW q \in Wires PROVE v[q] = w[q]
    <3>1. v[q] \in {0, 1, 2, 3} /\ w[q] \in {0, 1, 2, 3}
      BY DEF Words, Codes
    <3>2. (v[q] \in {1, 2} <=> w[q] \in {1, 2}) /\ (v[q] \in {2, 3} <=> w[q] \in {2, 3})
      BY <1>2 DEF XMask, ZMask
    <3> QED BY <3>1, <3>2
  <2> QED BY <2>1 DEF Words
<1> QED BY <1>1, <1>2

\* So are words.
LEMMA KeyOrder ==
  /\ \A v \in Words : ~KeyLess(v, v)
  /\ \A v, w \in Words : v # w => KeyLess(v, w) \/ KeyLess(w, v)
  /\ \A u, v, w \in Words : KeyLess(u, v) /\ KeyLess(v, w) => KeyLess(u, w)
<1>1. \A v \in Words : ~KeyLess(v, v)
  BY MaskOrder, MasksOfWord DEF KeyLess
<1>2. \A v, w \in Words : v # w => KeyLess(v, w) \/ KeyLess(w, v)
  BY MaskOrder, MasksOfWord DEF KeyLess
<1>3. ASSUME NEW u \in Words, NEW v \in Words, NEW w \in Words, KeyLess(u, v), KeyLess(v, w)
      PROVE  KeyLess(u, w)
  <2>1. /\ XMask(u) \in SUBSET Wires /\ XMask(v) \in SUBSET Wires /\ XMask(w) \in SUBSET Wires
        /\ ZMask(u) \in SUBSET Wires /\ ZMask(v) \in SUBSET Wires /\ ZMask(w) \in SUBSET Wires
    BY MasksOfWord
  <2> QED BY <1>3, <2>1, MaskOrder DEF KeyLess
<1>4. \A u, v, w \in Words : KeyLess(u, v) /\ KeyLess(v, w) => KeyLess(u, w)
  BY <1>3
<1> QED BY <1>1, <1>2, <1>4

Before(keys, k) == {j \in keys : KeyLess(j, k)}

\* Terms in strictly increasing key order.
Ordered(ts) ==
  \A i, j \in 1 .. Len(ts) : i < j => KeyLess(ts[i].key, ts[j].key)

\* A set of words has as many words before a word as its place says.
LEMMA RankOfWord ==
  ASSUME NEW keys \in SUBSET Words
  PROVE  /\ IsFiniteSet(keys) /\ Cardinality(keys) \in Nat
         /\ \A k \in keys : Cardinality(Before(keys, k)) \in 0 .. Cardinality(keys) - 1
         /\ \A j, k \in keys : KeyLess(j, k) =>
              Cardinality(Before(keys, j)) < Cardinality(Before(keys, k))
         /\ \A n \in 0 .. Cardinality(keys) - 1 :
              \E k \in keys : Cardinality(Before(keys, k)) = n
<1>1. IsFiniteSet(keys) /\ Cardinality(keys) \in Nat
  BY WordsFinite, FS_Subset, FS_CardinalityType
<1>2. \A k \in keys : /\ IsFiniteSet(Before(keys, k))
                      /\ Cardinality(Before(keys, k)) \in Nat
                      /\ Cardinality(Before(keys, k)) < Cardinality(keys)
  <2> SUFFICES ASSUME NEW k \in keys
               PROVE  /\ IsFiniteSet(Before(keys, k))
                      /\ Cardinality(Before(keys, k)) \in Nat
                      /\ Cardinality(Before(keys, k)) < Cardinality(keys)
    OBVIOUS
  <2>1. Before(keys, k) \in SUBSET keys /\ k \notin Before(keys, k)
    BY KeyOrder DEF Before
  <2>2. /\ IsFiniteSet(Before(keys, k))
        /\ Cardinality(Before(keys, k)) <= Cardinality(keys)
        /\ Cardinality(keys) = Cardinality(Before(keys, k)) => keys = Before(keys, k)
    BY <1>1, <2>1, FS_Subset
  <2>3. Cardinality(Before(keys, k)) \in Nat
    BY <2>2, FS_CardinalityType
  <2> QED BY <1>1, <2>1, <2>2, <2>3
<1>3. ASSUME NEW j \in keys, NEW k \in keys, KeyLess(j, k)
      PROVE  Cardinality(Before(keys, j)) < Cardinality(Before(keys, k))
  <2>1. Before(keys, j) \in SUBSET Before(keys, k)
    BY <1>3, KeyOrder DEF Before
  <2>2. j \in Before(keys, k) /\ j \notin Before(keys, j)
    BY <1>3, KeyOrder DEF Before
  <2>3. /\ Cardinality(Before(keys, j)) <= Cardinality(Before(keys, k))
        /\ Cardinality(Before(keys, k)) = Cardinality(Before(keys, j)) =>
             Before(keys, k) = Before(keys, j)
    BY <1>2, <2>1, FS_Subset
  <2> QED BY <1>2, <2>2, <2>3
<1>4. ASSUME NEW n \in 0 .. Cardinality(keys) - 1
      PROVE  \E k \in keys : Cardinality(Before(keys, k)) = n
  <2> DEFINE places == 0 .. Cardinality(keys) - 1
             rank == [k \in keys |-> Cardinality(Before(keys, k))]
  <2>1. rank \in Injection(keys, places)
    <3>1. rank \in [keys -> places]
      BY <1>1, <1>2
    <3>2. ASSUME NEW j \in keys, NEW k \in keys, rank[j] = rank[k] PROVE j = k
      <4>1. Cardinality(Before(keys, j)) = Cardinality(Before(keys, k))
        BY <3>2
      <4>2. ~KeyLess(j, k) /\ ~KeyLess(k, j)
        BY <1>2, <1>3, <4>1
      <4> QED BY <4>2, KeyOrder
    <3> QED BY <3>1, <3>2, Zenon DEF Injection, IsInjective
  <2>2. IsFiniteSet(places) /\ Cardinality(places) = Cardinality(keys)
    <3>1. \A top \in Int : /\ IsFiniteSet(0 .. top)
                           /\ Cardinality(0 .. top) = IF 0 > top THEN 0 ELSE top - 0 + 1
      BY FS_Interval
    <3>2. PICK top \in Int : top = Cardinality(keys) - 1
      BY <1>1
    <3>3. Cardinality(0 .. top) = top + 1 /\ IsFiniteSet(0 .. top)
      BY <1>1, <3>1, <3>2
    <3> QED BY <1>1, <3>2, <3>3
  <2>3. rank \in Surjection(keys, places)
    <3> HIDE DEF rank, places
    <3> QED BY <2>1, <2>2, FS_Injection
  <2>4. \E k \in keys : rank[k] = n
    <3>1. n \in places
      OBVIOUS
    <3> HIDE DEF rank, places
    <3> QED BY <2>3, <3>1 DEF Surjection
  <2> QED BY <2>4
<1>5. \A k \in keys : Cardinality(Before(keys, k)) \in 0 .. Cardinality(keys) - 1
  BY <1>1, <1>2
<1> QED BY <1>1, <1>3, <1>4, <1>5

\* InKeyOrder lists every word of a set once, in increasing order.
LEMMA KeysInOrder ==
  ASSUME NEW keys \in SUBSET Words, NEW n, n = Cardinality(keys)
  PROVE  /\ n \in Nat
         /\ InKeyOrder(keys) \in [1 .. n -> keys]
         /\ \A i, j \in 1 .. n : i < j => KeyLess(InKeyOrder(keys)[i], InKeyOrder(keys)[j])
         /\ \A k \in keys : \E i \in 1 .. n : InKeyOrder(keys)[i] = k
<1> DEFINE order == InKeyOrder(keys)
<1>1. order = [i \in 1 .. n |-> CHOOSE k \in keys : Cardinality(Before(keys, k)) = i - 1]
  BY DEF InKeyOrder, Before
<1>2. n \in Nat
  BY RankOfWord
<1>3. ASSUME NEW i \in 1 .. n
      PROVE  order[i] \in keys /\ Cardinality(Before(keys, order[i])) = i - 1
  <2>1. i - 1 \in 0 .. n - 1
    BY <1>2
  <2>2. \E k \in keys : Cardinality(Before(keys, k)) = i - 1
    BY <2>1, RankOfWord
  <2>3. order[i] = CHOOSE k \in keys : Cardinality(Before(keys, k)) = i - 1
    BY <1>1
  <2> HIDE DEF order
  <2> QED BY <2>2, <2>3
<1>4. order \in [1 .. n -> keys]
  BY <1>1, <1>3
<1>5. ASSUME NEW i \in 1 .. n, NEW j \in 1 .. n, i < j PROVE KeyLess(order[i], order[j])
  <2>1. order[i] \in keys /\ order[j] \in keys
    BY <1>3
  <2>2. Cardinality(Before(keys, order[i])) < Cardinality(Before(keys, order[j]))
    BY <1>2, <1>3, <1>5
  <2>3. order[i] # order[j]
    BY <1>2, <2>2, <1>3, <1>5
  <2>4. ~KeyLess(order[j], order[i])
    <3>1. ASSUME KeyLess(order[j], order[i]) PROVE FALSE
      <4>1. Cardinality(Before(keys, order[j])) < Cardinality(Before(keys, order[i]))
        BY <2>1, <3>1, RankOfWord
      <4> QED BY <1>2, <1>3, <1>5, <4>1
    <3> QED BY <3>1
  <2> QED BY <2>1, <2>3, <2>4, KeyOrder
<1>6. ASSUME NEW k \in keys PROVE \E i \in 1 .. n : order[i] = k
  <2> DEFINE i == Cardinality(Before(keys, k)) + 1
  <2>1. i \in 1 .. n /\ i - 1 = Cardinality(Before(keys, k))
    BY RankOfWord
  <2>2. order[i] \in keys /\ Cardinality(Before(keys, order[i])) = Cardinality(Before(keys, k))
    BY <1>3, <2>1
  <2> HIDE DEF i, order
  <2>3. order[i] = k
    <3>1. ~KeyLess(order[i], k) /\ ~KeyLess(k, order[i])
      <4>1. Cardinality(Before(keys, k)) \in Int
        BY RankOfWord
      <4> QED BY <2>2, <4>1, RankOfWord
    <3> QED BY <2>2, <3>1, KeyOrder
  <2> QED BY <2>1, <2>3
<1> QED BY <1>2, <1>4, <1>5, <1>6

---------------------------------------------------------------------------
(* Term sequences                                                          *)

\* A term has a word and an integer coefficient.
LEMMA TermParts ==
  /\ \A t \in Terms : t.key \in Words /\ t.c \in Int
  /\ \A key \in Words, c \in Int :
       Term(key, c) \in Terms /\ Term(key, c).key = key /\ Term(key, c).c = c
<1>1. ASSUME NEW t \in Terms PROVE t.key \in Words /\ t.c \in Int
  BY DEF Terms
<1>2. ASSUME NEW key \in Words, NEW c \in Int
      PROVE  Term(key, c) \in Terms /\ Term(key, c).key = key /\ Term(key, c).c = c
  BY DEF Terms, Term
<1> QED BY <1>1, <1>2

\* What a term gives the coefficient of w.
Coefficient(w) == [t \in Terms |-> IF t.key = w THEN t.c ELSE 0]

\* The weights a cutoff lets through.
Cut(w, cutoff, c) == IF Weight(w) <= cutoff THEN c ELSE 0

\* Collect adds up coefficients.
LEMMA CollectIs ==
  ASSUME NEW ts \in Seq(Terms), NEW w
  PROVE  /\ IntOn(Coefficient(w), Terms)
         /\ Collect(ts, w) = SumAlong(Coefficient(w), ts)
         /\ Collect(ts, w) \in Int
<1> DEFINE f == Coefficient(w)
           g == [i \in DOMAIN ts |-> IF ts[i].key = w THEN ts[i].c ELSE 0]
<1>1. IntOn(f, Terms)
  BY DEF IntOn, Coefficient, Terms
<1>2. Collect(ts, w) = SumFunctionOnSet(g, 1 .. Len(ts))
  <2>1. DOMAIN g = 1 .. Len(ts)
    OBVIOUS
  <2>2. Collect(ts, w) = SumFunction(g)
    BY DEF Collect, SumOver
  <2> QED BY <2>1, <2>2 DEF SumFunction
<1>3. \A i \in 1 .. Len(ts) : g[i] = f[ts[i]]
  BY DEF Coefficient
<1>4. SumFunctionOnSet(g, 1 .. Len(ts)) = SumAlong(f, ts)
  <2> HIDE DEF f, g
  <2> QED BY <1>1, <1>3, TotalIs
<1>5. SumAlong(f, ts) \in Int
  <2> HIDE DEF f
  <2> QED BY <1>1, TotalInt
<1> QED BY <1>1, <1>2, <1>4, <1>5

\* A word that does not occur has no coefficient.
LEMMA CollectOutside ==
  ASSUME NEW ts \in Seq(Terms), NEW w, w \notin KeysOf(ts)
  PROVE  Collect(ts, w) = 0
<1> DEFINE f == Coefficient(w)
           v == ValuesAlong(f, ts)
<1>1. \A i \in 1 .. Len(ts) : v[i] = 0
  BY DEF ValuesAlong, Coefficient, KeysOf
<1>2. IsFiniteSet(1 .. Len(ts))
  BY FS_Interval
<1>3. SumAlong(f, ts) = 0
  <2> HIDE DEF v
  <2>1. SumFunctionOnSet(v, 1 .. Len(ts)) = 0
    BY <1>1, <1>2, SumZero
  <2> QED BY <2>1 DEF v, SumAlong
<1> QED BY <1>3, CollectIs

\* A word that occurs once has the coefficient of its term.
LEMMA CollectOnce ==
  ASSUME NEW ts \in Seq(Terms), NEW i \in 1 .. Len(ts),
         \A j \in 1 .. Len(ts) : ts[j].key = ts[i].key => j = i
  PROVE  Collect(ts, ts[i].key) = ts[i].c
<1> DEFINE w == ts[i].key
           f == Coefficient(w)
           v == ValuesAlong(f, ts)
<1>1. IntOn(f, Terms) /\ Collect(ts, w) = SumAlong(f, ts)
  BY CollectIs
<1>2. IsFiniteSet(1 .. Len(ts)) /\ IntOn(v, 1 .. Len(ts))
  <2> HIDE DEF f
  <2> QED BY <1>1, TotalInt
<1>3. \A j \in (1 .. Len(ts)) \ {i} : v[j] = 0
  BY DEF ValuesAlong, Coefficient
<1>4. v[i] = ts[i].c /\ v[i] \in Int
  <2>1. v[i] = ts[i].c
    BY DEF ValuesAlong, Coefficient
  <2>2. v[i] \in Int
    BY <1>2 DEF IntOn
  <2> QED BY <2>1, <2>2
<1>5. {i} \in SUBSET (1 .. Len(ts))
  OBVIOUS
<1>6. SumFunctionOnSet(v, 1 .. Len(ts)) = SumFunctionOnSet(v, {i})
  <2> HIDE DEF v
  <2> QED BY <1>2, <1>3, <1>5, SumRestrict
<1>7. SumFunctionOnSet(v, {i}) = v[i]
  <2> HIDE DEF v
  <2> QED BY <1>4, SumOfOne
<1>8. SumAlong(f, ts) = v[i]
  <2>1. SumAlong(f, ts) = SumFunctionOnSet(v, 1 .. Len(ts))
    BY DEF SumAlong
  <2> HIDE DEF v, f
  <2> QED BY <2>1, <1>6, <1>7
<1> QED BY <1>1, <1>4, <1>8

\* Retain projects: heavy words lose their coefficient, the others keep theirs.
LEMMA Retained ==
  ASSUME NEW ts \in Seq(Terms), NEW cutoff \in Int
  PROVE  /\ Retain(ts, cutoff) \in Seq(Terms)
         /\ Len(Retain(ts, cutoff)) <= Len(ts)
         /\ \A w \in KeysOf(Retain(ts, cutoff)) : Weight(w) <= cutoff
         /\ \A w \in Words : Collect(Retain(ts, cutoff), w) = Cut(w, cutoff, Collect(ts, w))
         /\ \E index :
              /\ \A j \in 1 .. Len(Retain(ts, cutoff)) :
                   index[j] \in 1 .. Len(ts) /\ Retain(ts, cutoff)[j] = ts[index[j]]
              /\ \A j, k \in 1 .. Len(Retain(ts, cutoff)) : j < k => index[j] < index[k]
<1> DEFINE places == {i \in DOMAIN ts : ts[i].c # 0 /\ Weight(ts[i].key) <= cutoff}
           kept == Kept(ts, places)
<1>1. Retain(ts, cutoff) = kept
  BY DEF Retain, KeepIf
<1>2. /\ kept \in Seq(Terms) /\ Len(kept) <= Len(ts)
      /\ \E index : KeepsAt(kept, Len(ts), ts, places, index)
  <2> HIDE DEF places
  <2> QED BY KeptElements
<1>3. \E index : /\ \A j \in 1 .. Len(kept) : index[j] \in 1 .. Len(ts) /\ index[j] \in places
                                             /\ kept[j] = ts[index[j]]
                 /\ \A j, k \in 1 .. Len(kept) : j < k => index[j] < index[k]
  <2> HIDE DEF places, kept
  <2> QED BY <1>2 DEF KeepsAt
<1>4. \A w \in KeysOf(kept) : Weight(w) <= cutoff
  <2> SUFFICES ASSUME NEW j \in 1 .. Len(kept) PROVE Weight(kept[j].key) <= cutoff
    BY <1>2 DEF KeysOf
  <2> QED BY <1>3
<1>5. ASSUME NEW w \in Words PROVE Collect(kept, w) = Cut(w, cutoff, Collect(ts, w))
  <2> DEFINE f == Coefficient(w)
             v == ValuesAlong(f, ts)
             h == [i \in 1 .. Len(ts) |-> IF i \in places THEN f[ts[i]] ELSE 0]
  <2>1. /\ IntOn(f, Terms) /\ Collect(ts, w) = SumAlong(f, ts)
        /\ Collect(kept, w) = SumAlong(f, kept)
    BY <1>2, CollectIs
  <2>2. SumAlong(f, kept) = SumFunctionOnSet(h, 1 .. Len(ts))
    <3>1. \A i \in 1 .. Len(ts) : h[i] = IF i \in places THEN f[ts[i]] ELSE 0
      OBVIOUS
    <3> HIDE DEF f, h, places
    <3> QED BY <2>1, <3>1, TotalKept
  <2>3. /\ IsFiniteSet(1 .. Len(ts)) /\ IntOn(v, 1 .. Len(ts))
        /\ SumAlong(f, ts) = SumFunctionOnSet(v, 1 .. Len(ts))
    <3> HIDE DEF f
    <3> QED BY <2>1, TotalInt DEF SumAlong
  <2>4. CASE Weight(w) <= cutoff
    <3>1. Agree(v, h, 1 .. Len(ts))
      <4>1. ASSUME NEW i \in 1 .. Len(ts) PROVE v[i] = h[i]
        <5>1. v[i] = IF ts[i].key = w THEN ts[i].c ELSE 0
          BY DEF ValuesAlong, Coefficient
        <5>2. h[i] = IF i \in places THEN (IF ts[i].key = w THEN ts[i].c ELSE 0) ELSE 0
          BY DEF Coefficient
        <5>3. i \in places <=> ts[i].c # 0 /\ Weight(ts[i].key) <= cutoff
          OBVIOUS
        <5> HIDE DEF v, h, places
        <5> QED BY <2>4, <5>1, <5>2, <5>3
      <4> QED BY <4>1 DEF Agree
    <3>2. SumFunctionOnSet(v, 1 .. Len(ts)) = SumFunctionOnSet(h, 1 .. Len(ts))
      <4> HIDE DEF v, h
      <4> QED BY <2>3, <3>1, SumEqual
    <3> HIDE DEF v, h, f, kept
    <3> QED BY <2>1, <2>2, <2>3, <2>4, <3>2 DEF Cut
  <2>5. CASE ~(Weight(w) <= cutoff)
    <3>1. \A i \in 1 .. Len(ts) : h[i] = 0
      <4>1. ASSUME NEW i \in 1 .. Len(ts) PROVE h[i] = 0
        <5>1. h[i] = IF i \in places THEN (IF ts[i].key = w THEN ts[i].c ELSE 0) ELSE 0
          BY DEF Coefficient
        <5>2. i \in places => Weight(ts[i].key) <= cutoff
          OBVIOUS
        <5> HIDE DEF h, places
        <5> QED BY <2>5, <5>1, <5>2
      <4> QED BY <4>1
    <3>2. SumFunctionOnSet(h, 1 .. Len(ts)) = 0
      <4> HIDE DEF h
      <4> QED BY <2>3, <3>1, SumZero
    <3> HIDE DEF v, h, f, kept
    <3> QED BY <2>1, <2>2, <2>5, <3>2 DEF Cut
  <2> QED BY <2>4, <2>5
<1> HIDE DEF kept, places
<1> QED BY <1>1, <1>2, <1>3, <1>4, <1>5

NoKeyTwice(ts) ==
  \A i, j \in 1 .. Len(ts) : ts[i].key = ts[j].key => i = j

\* There are finitely many words in a term sequence, at most one per term.
LEMMA KeysCounted ==
  ASSUME NEW ts \in Seq(Terms)
  PROVE  /\ KeysOf(ts) \in SUBSET Words
         /\ IsFiniteSet(KeysOf(ts)) /\ Cardinality(KeysOf(ts)) \in Nat
         /\ Cardinality(KeysOf(ts)) <= Len(ts)
         /\ NoKeyTwice(ts) <=> Distinct(ts)
<1> DEFINE n == Len(ts)
           keys == KeysOf(ts)
           f == [i \in 1 .. n |-> ts[i].key]
<1>1. KeysOf(ts) \in SUBSET Words
  BY TermParts DEF KeysOf
<1>2. f \in Surjection(1 .. n, keys)
  <2>1. f \in [1 .. n -> keys]
    BY DEF KeysOf
  <2>2. \A k \in keys : \E i \in 1 .. n : f[i] = k
    BY DEF KeysOf
  <2> HIDE DEF f, keys
  <2> QED BY <2>1, <2>2 DEF Surjection
<1>3. n \in Nat /\ IsFiniteSet(1 .. n) /\ Cardinality(1 .. n) = n
  <2>1. n \in Nat
    OBVIOUS
  <2> HIDE DEF n
  <2>2. \A top \in Int : /\ IsFiniteSet(1 .. top)
                         /\ Cardinality(1 .. top) = IF 1 > top THEN 0 ELSE top - 1 + 1
    BY FS_Interval
  <2> QED BY <2>1, <2>2
<1>4. /\ IsFiniteSet(keys) /\ Cardinality(keys) <= n
      /\ Cardinality(keys) = n <=> f \in Injection(1 .. n, keys)
  <2> HIDE DEF f, keys, n
  <2> QED BY <1>2, <1>3, FS_Surjection
<1>5. NoKeyTwice(ts) <=> f \in Injection(1 .. n, keys)
  <2>1. f \in [1 .. n -> keys]
    BY DEF KeysOf
  <2>2. \A i \in 1 .. n : f[i] = ts[i].key
    OBVIOUS
  <2> HIDE DEF f
  <2>3. NoKeyTwice(ts) <=> \A i, j \in 1 .. n : f[i] = f[j] => i = j
    BY <2>2 DEF NoKeyTwice
  <2> HIDE DEF keys, n
  <2> QED BY <2>1, <2>3 DEF Injection, IsInjective
<1>6. Cardinality(keys) \in Nat
  BY <1>4, FS_CardinalityType
<1> QED BY <1>1, <1>4, <1>5, <1>6 DEF Distinct

\* In key order no word occurs twice.
LEMMA OrderedIsDistinct ==
  ASSUME NEW ts \in Seq(Terms), Ordered(ts)
  PROVE  NoKeyTwice(ts)
<1> SUFFICES ASSUME NEW i \in 1 .. Len(ts), NEW j \in 1 .. Len(ts),
                    ts[i].key = ts[j].key, i # j
             PROVE  FALSE
  BY DEF NoKeyTwice
<1>1. KeyLess(ts[i].key, ts[j].key) \/ KeyLess(ts[j].key, ts[i].key)
  BY DEF Ordered
<1>2. ts[i].key \in Words
  BY TermParts
<1> QED BY <1>1, <1>2, KeyOrder

\* Projecting keeps order and distinctness.
LEMMA RetainOrder ==
  ASSUME NEW ts \in Seq(Terms), NEW cutoff \in Int
  PROVE  /\ Ordered(ts) => Ordered(Retain(ts, cutoff))
         /\ NoKeyTwice(ts) => NoKeyTwice(Retain(ts, cutoff))
<1> DEFINE kept == Retain(ts, cutoff)
<1>1. PICK index :
        /\ \A j \in 1 .. Len(kept) : index[j] \in 1 .. Len(ts) /\ kept[j] = ts[index[j]]
        /\ \A j, k \in 1 .. Len(kept) : j < k => index[j] < index[k]
  BY Retained
<1>2. kept \in Seq(Terms)
  BY Retained
<1> HIDE DEF kept
<1>3. ASSUME Ordered(ts) PROVE Ordered(kept)
  BY <1>1, <1>3 DEF Ordered
<1>4. ASSUME NoKeyTwice(ts) PROVE NoKeyTwice(kept)
  <2> SUFFICES ASSUME NEW i \in 1 .. Len(kept), NEW j \in 1 .. Len(kept),
                      kept[i].key = kept[j].key, i # j
               PROVE  FALSE
    BY DEF NoKeyTwice
  <2>1. index[i] = index[j]
    BY <1>1, <1>4 DEF NoKeyTwice
  <2>2. i < j \/ j < i
    BY <1>2
  <2> QED BY <1>1, <2>1, <2>2
<1> QED BY <1>3, <1>4 DEF kept

\* Aggregate returns the projected sums of the contributions, in key order.
LEMMA Aggregated ==
  ASSUME NEW ts \in Seq(Terms), NEW cutoff \in Int
  PROVE  /\ Aggregate(ts, cutoff) \in Seq(Terms)
         /\ Len(Aggregate(ts, cutoff)) <= Len(ts)
         /\ \A w \in KeysOf(Aggregate(ts, cutoff)) : Weight(w) <= cutoff
         /\ \A w \in Words :
              Collect(Aggregate(ts, cutoff), w) = Cut(w, cutoff, Collect(ts, w))
         /\ Ordered(Aggregate(ts, cutoff))
<1> DEFINE keys == KeysOf(ts)
           n == Cardinality(keys)
           order == InKeyOrder(keys)
           sums == [i \in 1 .. n |-> Term(order[i], Collect(ts, order[i]))]
<1>1. keys \in SUBSET Words /\ n \in Nat /\ n <= Len(ts)
  BY KeysCounted
<1>2. /\ order \in [1 .. n -> keys]
      /\ \A i, j \in 1 .. n : i < j => KeyLess(order[i], order[j])
      /\ \A k \in keys : \E i \in 1 .. n : order[i] = k
  <2> HIDE DEF keys
  <2> QED BY <1>1, KeysInOrder
<1>3. Aggregate(ts, cutoff) = Retain(sums, cutoff)
  <2>1. DOMAIN order = 1 .. n
    BY <1>2
  <2> HIDE DEF n
  <2> QED BY <2>1 DEF Aggregate
<1>4. \A i \in 1 .. n : /\ sums[i] \in Terms /\ sums[i].key = order[i]
                        /\ sums[i].c = Collect(ts, order[i])
  <2> SUFFICES ASSUME NEW i \in 1 .. n
               PROVE  /\ sums[i] \in Terms /\ sums[i].key = order[i]
                      /\ sums[i].c = Collect(ts, order[i])
    OBVIOUS
  <2>1. order[i] \in Words
    BY <1>1, <1>2
  <2>2. Collect(ts, order[i]) \in Int
    BY CollectIs
  <2>3. sums[i] = [key |-> order[i], c |-> Collect(ts, order[i])]
    BY DEF Term
  <2> HIDE DEF sums, order, n, keys
  <2> QED BY <2>1, <2>2, <2>3 DEF Terms
<1>5. sums \in Seq(Terms) /\ Len(sums) = n
  BY <1>1, <1>4
<1>6. Ordered(sums)
  <2> HIDE DEF sums, order, n
  <2> QED BY <1>2, <1>4, <1>5 DEF Ordered
<1>7. KeysOf(sums) = keys
  <2> HIDE DEF sums, order, n, keys
  <2> QED BY <1>2, <1>4, <1>5 DEF KeysOf
<1>8. ASSUME NEW w \in Words PROVE Collect(sums, w) = Collect(ts, w)
  <2>1. CASE w \notin keys
    <3>1. w \notin KeysOf(sums)
      BY <1>7, <2>1
    <3>2. Collect(sums, w) = 0
      <4> HIDE DEF sums
      <4> QED BY <1>5, <3>1, CollectOutside
    <3>3. Collect(ts, w) = 0
      BY <2>1, CollectOutside
    <3> QED BY <3>2, <3>3
  <2>2. CASE w \in keys
    <3>1. PICK i \in 1 .. n : order[i] = w
      BY <1>2, <2>2
    <3> HIDE DEF sums, order, n, keys
    <3>2. NoKeyTwice(sums)
      BY <1>5, <1>6, OrderedIsDistinct
    <3>3. i \in 1 .. Len(sums) /\ \A j \in 1 .. Len(sums) : sums[j].key = sums[i].key => j = i
      BY <1>5, <3>1, <3>2 DEF NoKeyTwice
    <3>4. Collect(sums, sums[i].key) = sums[i].c
      BY <1>5, <3>3, CollectOnce
    <3> QED BY <1>4, <3>1, <3>4
  <2> QED BY <2>1, <2>2
<1> HIDE DEF sums, order, n, keys
<1>9. \A w \in Words : Collect(Retain(sums, cutoff), w) = Cut(w, cutoff, Collect(ts, w))
  BY <1>5, <1>8, Retained
<1>10. /\ Retain(sums, cutoff) \in Seq(Terms)
       /\ Len(Retain(sums, cutoff)) <= Len(sums)
       /\ \A w \in KeysOf(Retain(sums, cutoff)) : Weight(w) <= cutoff
       /\ Ordered(Retain(sums, cutoff))
  BY <1>5, <1>6, Retained, RetainOrder
<1>11. Len(Retain(sums, cutoff)) <= Len(ts)
  BY <1>1, <1>5, <1>10
<1> QED BY <1>3, <1>9, <1>10, <1>11

---------------------------------------------------------------------------
(* The merge of amplitude damping                                          *)

\* What is left of a sequence when its next index is i, for the coefficient of w.
Rest(ts, i, w) == From(Coefficient(w), ts, i)

MergeStates(base, extras) ==
  [i : 1 .. Len(base) + 1, j : 1 .. Len(extras) + 1, pushed : Seq(Terms)]

\* Every term pushed comes before the term at index i of terms, and those after it.
AllBefore(pushed, ts, i) ==
  \A p \in 1 .. Len(pushed), k \in i .. Len(ts) : KeyLess(pushed[p].key, ts[k].key)

\* After n turns of the merge: nothing is lost, nothing appears, order stays.
MergeInv(base, extras, n, s) ==
  /\ s \in MergeStates(base, extras)
  /\ Len(s.pushed) <= (s.i - 1) + (s.j - 1)
  /\ s.i > Len(base) \/ s.j > Len(extras) \/ n <= (s.i - 1) + (s.j - 1)
  /\ KeysOf(s.pushed) \subseteq KeysOf(base) \cup KeysOf(extras)
  /\ \A w \in Words :
       Collect(s.pushed, w) + Rest(base, s.i, w) + Rest(extras, s.j, w)
         = Collect(base, w) + Collect(extras, w)
  /\ Ordered(base) /\ Ordered(extras) =>
       Ordered(s.pushed) /\ AllBefore(s.pushed, base, s.i) /\ AllBefore(s.pushed, extras, s.j)

\* A term more.
LEMMA Pushed ==
  ASSUME NEW ts \in Seq(Terms), NEW t \in Terms
  PROVE  /\ Append(ts, t) \in Seq(Terms)
         /\ Len(Append(ts, t)) = Len(ts) + 1
         /\ \A i \in 1 .. Len(ts) : Append(ts, t)[i] = ts[i]
         /\ Append(ts, t)[Len(ts) + 1] = t
         /\ KeysOf(Append(ts, t)) = KeysOf(ts) \cup {t.key}
         /\ \A w \in Words :
              Collect(Append(ts, t), w) = Collect(ts, w) + Coefficient(w)[t]
         /\ Ordered(ts) /\ (\A i \in 1 .. Len(ts) : KeyLess(ts[i].key, t.key)) =>
              Ordered(Append(ts, t))
<1> DEFINE more == Append(ts, t)
<1>1. /\ more \in Seq(Terms) /\ Len(more) = Len(ts) + 1 /\ Len(ts) \in Nat
      /\ \A i \in 1 .. Len(ts) : more[i] = ts[i]
      /\ more[Len(ts) + 1] = t
  OBVIOUS
<1>2. \A w \in Words : Collect(more, w) = Collect(ts, w) + Coefficient(w)[t]
  <2> SUFFICES ASSUME NEW w \in Words
               PROVE  Collect(more, w) = Collect(ts, w) + Coefficient(w)[t]
    OBVIOUS
  <2>1. IntOn(Coefficient(w), Terms) /\ Collect(ts, w) = SumAlong(Coefficient(w), ts)
    BY CollectIs
  <2>2. Collect(more, w) = SumAlong(Coefficient(w), more)
    BY <1>1, CollectIs
  <2>3. SumAlong(Coefficient(w), more) = SumAlong(Coefficient(w), ts) + Coefficient(w)[t]
    BY <2>1, TotalAppend
  <2> QED BY <2>1, <2>2, <2>3
<1> HIDE DEF more
<1>3. KeysOf(more) = KeysOf(ts) \cup {t.key}
  <2>1. DOMAIN more = 1 .. Len(ts) + 1 /\ DOMAIN ts = 1 .. Len(ts)
    BY <1>1
  <2>2. \A i \in 1 .. Len(ts) + 1 : i \in 1 .. Len(ts) \/ i = Len(ts) + 1
    BY <1>1
  <2>3. Len(ts) + 1 \in 1 .. Len(ts) + 1 /\ 1 .. Len(ts) \subseteq 1 .. Len(ts) + 1
    BY <1>1
  <2> QED BY <1>1, <2>1, <2>2, <2>3 DEF KeysOf
<1>4. ASSUME Ordered(ts), \A i \in 1 .. Len(ts) : KeyLess(ts[i].key, t.key)
      PROVE  Ordered(more)
  <2> SUFFICES ASSUME NEW i \in 1 .. Len(more), NEW j \in 1 .. Len(more), i < j
               PROVE  KeyLess(more[i].key, more[j].key)
    BY DEF Ordered
  <2>1. i \in 1 .. Len(ts) /\ more[i] = ts[i]
    BY <1>1
  <2>2. j \in 1 .. Len(ts) \/ j = Len(ts) + 1
    BY <1>1
  <2> QED BY <1>1, <1>4, <2>1, <2>2 DEF Ordered
<1> QED BY <1>1, <1>2, <1>3, <1>4 DEF more

\* A turn keeps the invariant.
LEMMA MergeTurnKeeps ==
  ASSUME NEW base \in Seq(Terms), NEW extras \in Seq(Terms), NEW n \in Nat, NEW s,
         MergeInv(base, extras, n, s)
  PROVE  MergeInv(base, extras, n + 1, MergeTurn(base, extras, s))
<1> DEFINE b == base[s.i]
           e == extras[s.j]
           t == MergeTurn(base, extras, s)
<1>1. /\ s \in MergeStates(base, extras)
      /\ s.i \in 1 .. Len(base) + 1 /\ s.j \in 1 .. Len(extras) + 1 /\ s.pushed \in Seq(Terms)
      /\ Len(base) \in Nat /\ Len(extras) \in Nat /\ Len(s.pushed) \in Nat
  BY DEF MergeInv, MergeStates
<1>0. /\ Len(s.pushed) <= (s.i - 1) + (s.j - 1)
      /\ s.i > Len(base) \/ s.j > Len(extras) \/ n <= (s.i - 1) + (s.j - 1)
  BY DEF MergeInv
<1>7. /\ s.i \in Int /\ s.j \in Int /\ Len(s.pushed) \in Int /\ n \in Int
      /\ Len(base) \in Int /\ Len(extras) \in Int
  BY <1>1
<1>2. CASE s.i > Len(base) \/ s.j > Len(extras)
  <2>1. t = s
    BY <1>2 DEF MergeTurn
  <2> QED BY <1>2, <2>1 DEF MergeInv
<1>3. ASSUME ~(s.i > Len(base) \/ s.j > Len(extras))
      PROVE  /\ s.i \in 1 .. Len(base) /\ s.j \in 1 .. Len(extras)
             /\ b \in Terms /\ e \in Terms
             /\ \A w \in Words :
                  /\ Rest(base, s.i, w) = Coefficient(w)[b] + Rest(base, s.i + 1, w)
                  /\ Rest(extras, s.j, w) = Coefficient(w)[e] + Rest(extras, s.j + 1, w)
                  /\ Coefficient(w)[b] \in Int /\ Coefficient(w)[e] \in Int
                  /\ Rest(base, s.i + 1, w) \in Int /\ Rest(extras, s.j + 1, w) \in Int
                  /\ Collect(s.pushed, w) \in Int
                  /\ Collect(base, w) \in Int /\ Collect(extras, w) \in Int
             /\ b.key \in KeysOf(base) /\ e.key \in KeysOf(extras)
  <2>1. s.i \in 1 .. Len(base) /\ s.j \in 1 .. Len(extras)
    BY <1>1, <1>3
  <2>2. b \in Terms /\ e \in Terms
    BY <2>1
  <2>3. ASSUME NEW w \in Words
        PROVE  /\ Rest(base, s.i, w) = Coefficient(w)[b] + Rest(base, s.i + 1, w)
               /\ Rest(extras, s.j, w) = Coefficient(w)[e] + Rest(extras, s.j + 1, w)
               /\ Coefficient(w)[b] \in Int /\ Coefficient(w)[e] \in Int
               /\ Rest(base, s.i + 1, w) \in Int /\ Rest(extras, s.j + 1, w) \in Int
               /\ Collect(s.pushed, w) \in Int
               /\ Collect(base, w) \in Int /\ Collect(extras, w) \in Int
    <3>1. IntOn(Coefficient(w), Terms)
      BY CollectIs
    <3>2. s.i + 1 \in 1 .. Len(base) + 1 /\ s.j + 1 \in 1 .. Len(extras) + 1
          /\ s.i <= Len(base) /\ s.j <= Len(extras)
      BY <1>1, <2>1
    <3>3. Collect(s.pushed, w) \in Int /\ Collect(base, w) \in Int /\ Collect(extras, w) \in Int
      BY <1>1, CollectIs
    <3>4. /\ From(Coefficient(w), base, s.i) =
               Coefficient(w)[b] + From(Coefficient(w), base, s.i + 1)
          /\ Coefficient(w)[b] \in Int
      BY <1>1, <3>1, <3>2, FromNext
    <3>5. /\ From(Coefficient(w), extras, s.j) =
               Coefficient(w)[e] + From(Coefficient(w), extras, s.j + 1)
          /\ Coefficient(w)[e] \in Int
      BY <1>1, <3>1, <3>2, FromNext
    <3>6. From(Coefficient(w), base, s.i + 1) \in Int /\ From(Coefficient(w), extras, s.j + 1) \in Int
      BY <1>1, <3>1, <3>2, FromNext
    <3> QED BY <3>3, <3>4, <3>5, <3>6 DEF Rest
  <2>4. b.key \in KeysOf(base) /\ e.key \in KeysOf(extras)
    BY <2>1 DEF KeysOf
  <2> QED BY <2>1, <2>2, <2>3, <2>4
<1>4. ASSUME ~(s.i > Len(base) \/ s.j > Len(extras)), KeyLess(b.key, e.key)
      PROVE  MergeInv(base, extras, n + 1, t)
  <2> DEFINE more == Append(s.pushed, b)
  <2>1. t = [s EXCEPT !.i = s.i + 1, !.pushed = more]
    BY <1>4 DEF MergeTurn
  <2>2. /\ s.i \in 1 .. Len(base) /\ s.j \in 1 .. Len(extras) /\ b \in Terms /\ e \in Terms
        /\ \A w \in Words :
             /\ Rest(base, s.i, w) = Coefficient(w)[b] + Rest(base, s.i + 1, w)
             /\ Coefficient(w)[b] \in Int /\ Rest(base, s.i + 1, w) \in Int
             /\ Collect(s.pushed, w) \in Int
        /\ b.key \in KeysOf(base)
    BY <1>3, <1>4
  <2>3. /\ more \in Seq(Terms) /\ Len(more) = Len(s.pushed) + 1
        /\ \A p \in 1 .. Len(s.pushed) : more[p] = s.pushed[p]
        /\ more[Len(s.pushed) + 1] = b
        /\ KeysOf(more) = KeysOf(s.pushed) \cup {b.key}
        /\ \A w \in Words : Collect(more, w) = Collect(s.pushed, w) + Coefficient(w)[b]
        /\ Ordered(s.pushed) /\ (\A p \in 1 .. Len(s.pushed) : KeyLess(s.pushed[p].key, b.key)) =>
             Ordered(more)
    BY <1>1, <2>2, Pushed
  <2>4. t \in MergeStates(base, extras) /\ t.i = s.i + 1 /\ t.j = s.j /\ t.pushed = more
    <3>1. s.i + 1 \in 1 .. Len(base) + 1
      BY <1>1, <2>2
    <3> HIDE DEF more, t
    <3> QED BY <1>1, <2>1, <2>3, <3>1 DEF MergeStates
  <2> HIDE DEF more, t
  <2>5. Len(t.pushed) <= (t.i - 1) + (t.j - 1)
    <3>1. Len(t.pushed) = Len(s.pushed) + 1
      BY <2>3, <2>4
    <3>2. t.i = s.i + 1 /\ t.j = s.j
      BY <2>4
    <3> QED BY <1>0, <1>7, <3>1, <3>2
  <2>6. n + 1 <= (t.i - 1) + (t.j - 1)
    BY <1>0, <1>1, <1>4, <2>4
  <2>7. KeysOf(t.pushed) \subseteq KeysOf(base) \cup KeysOf(extras)
    BY <2>2, <2>3, <2>4 DEF MergeInv
  <2>8. ASSUME NEW w \in Words
        PROVE  Collect(t.pushed, w) + Rest(base, t.i, w) + Rest(extras, t.j, w)
                 = Collect(base, w) + Collect(extras, w)
    <3>1. Collect(s.pushed, w) + Rest(base, s.i, w) + Rest(extras, s.j, w)
            = Collect(base, w) + Collect(extras, w)
      BY DEF MergeInv
    <3>2. Rest(extras, s.j, w) \in Int
      <4>1. IntOn(Coefficient(w), Terms)
        BY CollectIs
      <4> QED BY <1>1, <4>1, FromNext DEF Rest
    <3> QED BY <2>2, <2>3, <2>4, <3>1, <3>2
  <2>9. ASSUME Ordered(base), Ordered(extras)
        PROVE  Ordered(t.pushed) /\ AllBefore(t.pushed, base, t.i) /\ AllBefore(t.pushed, extras, t.j)
    <3>1. Ordered(s.pushed) /\ AllBefore(s.pushed, base, s.i) /\ AllBefore(s.pushed, extras, s.j)
      BY <2>9 DEF MergeInv
    <3>2. Ordered(more)
      <4>1. \A p \in 1 .. Len(s.pushed) : KeyLess(s.pushed[p].key, b.key)
        <5>1. s.i \in s.i .. Len(base)
          BY <1>1, <2>2
        <5> QED BY <3>1, <5>1 DEF AllBefore
      <4> QED BY <2>3, <3>1, <4>1
    <3>3. \A p \in 1 .. Len(more) : p \in 1 .. Len(s.pushed) \/ p = Len(s.pushed) + 1
      BY <1>1, <2>3
    <3>4. AllBefore(more, base, s.i + 1)
      <4> SUFFICES ASSUME NEW p \in 1 .. Len(more), NEW k \in s.i + 1 .. Len(base)
                   PROVE  KeyLess(more[p].key, base[k].key)
        BY DEF AllBefore
      <4>1. KeyLess(b.key, base[k].key)
        BY <1>1, <2>2, <2>9 DEF Ordered
      <4>2. k \in s.i .. Len(base)
        BY <1>1
      <4> QED BY <2>3, <3>1, <3>3, <4>1, <4>2 DEF AllBefore
    <3>5. AllBefore(more, extras, s.j)
      <4> SUFFICES ASSUME NEW p \in 1 .. Len(more), NEW k \in s.j .. Len(extras)
                   PROVE  KeyLess(more[p].key, extras[k].key)
        BY DEF AllBefore
      <4>1. k = s.j \/ KeyLess(e.key, extras[k].key)
        BY <1>1, <2>2, <2>9 DEF Ordered
      <4>2. extras[k] \in Terms /\ extras[k].key \in Words /\ b.key \in Words /\ e.key \in Words
        <5>1. k \in 1 .. Len(extras)
          BY <1>1
        <5> QED BY <2>2, <5>1, TermParts
      <4>3. KeyLess(b.key, extras[k].key)
        BY <1>4, <4>1, <4>2, KeyOrder
      <4> QED BY <2>3, <3>1, <3>3, <4>3 DEF AllBefore
    <3> QED BY <2>4, <3>2, <3>4, <3>5
  <2> QED BY <2>4, <2>5, <2>6, <2>7, <2>8, <2>9 DEF MergeInv
<1>5. ASSUME ~(s.i > Len(base) \/ s.j > Len(extras)), ~KeyLess(b.key, e.key),
             KeyLess(e.key, b.key)
      PROVE  MergeInv(base, extras, n + 1, t)
  <2> DEFINE more == Append(s.pushed, e)
  <2>1. t = [s EXCEPT !.j = s.j + 1, !.pushed = more]
    BY <1>5 DEF MergeTurn
  <2>2. /\ s.i \in 1 .. Len(base) /\ s.j \in 1 .. Len(extras) /\ b \in Terms /\ e \in Terms
        /\ \A w \in Words :
             /\ Rest(extras, s.j, w) = Coefficient(w)[e] + Rest(extras, s.j + 1, w)
             /\ Coefficient(w)[e] \in Int /\ Rest(extras, s.j + 1, w) \in Int
             /\ Collect(s.pushed, w) \in Int
        /\ e.key \in KeysOf(extras)
    BY <1>3, <1>5
  <2>3. /\ more \in Seq(Terms) /\ Len(more) = Len(s.pushed) + 1
        /\ \A p \in 1 .. Len(s.pushed) : more[p] = s.pushed[p]
        /\ more[Len(s.pushed) + 1] = e
        /\ KeysOf(more) = KeysOf(s.pushed) \cup {e.key}
        /\ \A w \in Words : Collect(more, w) = Collect(s.pushed, w) + Coefficient(w)[e]
        /\ Ordered(s.pushed) /\ (\A p \in 1 .. Len(s.pushed) : KeyLess(s.pushed[p].key, e.key)) =>
             Ordered(more)
    BY <1>1, <2>2, Pushed
  <2>4. t \in MergeStates(base, extras) /\ t.i = s.i /\ t.j = s.j + 1 /\ t.pushed = more
    <3>1. s.j + 1 \in 1 .. Len(extras) + 1
      BY <1>1, <2>2
    <3> HIDE DEF more, t
    <3> QED BY <1>1, <2>1, <2>3, <3>1 DEF MergeStates
  <2> HIDE DEF more, t
  <2>5. Len(t.pushed) <= (t.i - 1) + (t.j - 1)
    <3>1. Len(t.pushed) = Len(s.pushed) + 1
      BY <2>3, <2>4
    <3>2. t.i = s.i /\ t.j = s.j + 1
      BY <2>4
    <3> QED BY <1>0, <1>7, <3>1, <3>2
  <2>6. n + 1 <= (t.i - 1) + (t.j - 1)
    <3>1. t.i = s.i /\ t.j = s.j + 1
      BY <2>4
    <3>2. n <= (s.i - 1) + (s.j - 1)
      BY <1>0, <1>5
    <3> QED BY <1>7, <3>1, <3>2
  <2>7. KeysOf(t.pushed) \subseteq KeysOf(base) \cup KeysOf(extras)
    BY <2>2, <2>3, <2>4 DEF MergeInv
  <2>8. ASSUME NEW w \in Words
        PROVE  Collect(t.pushed, w) + Rest(base, t.i, w) + Rest(extras, t.j, w)
                 = Collect(base, w) + Collect(extras, w)
    <3>1. Collect(s.pushed, w) + Rest(base, s.i, w) + Rest(extras, s.j, w)
            = Collect(base, w) + Collect(extras, w)
      BY DEF MergeInv
    <3>2. Rest(base, s.i, w) \in Int
      <4>1. IntOn(Coefficient(w), Terms)
        BY CollectIs
      <4> QED BY <1>1, <4>1, FromNext DEF Rest
    <3>3. /\ Collect(t.pushed, w) = Collect(s.pushed, w) + Coefficient(w)[e]
          /\ Rest(base, t.i, w) = Rest(base, s.i, w)
          /\ Rest(extras, t.j, w) = Rest(extras, s.j + 1, w)
      BY <2>3, <2>4
    <3>4. /\ Rest(extras, s.j, w) = Coefficient(w)[e] + Rest(extras, s.j + 1, w)
          /\ Coefficient(w)[e] \in Int /\ Rest(extras, s.j + 1, w) \in Int
          /\ Collect(s.pushed, w) \in Int
      BY <2>2
    <3> QED BY <3>1, <3>2, <3>3, <3>4
  <2>9. ASSUME Ordered(base), Ordered(extras)
        PROVE  Ordered(t.pushed) /\ AllBefore(t.pushed, base, t.i) /\ AllBefore(t.pushed, extras, t.j)
    <3>1. Ordered(s.pushed) /\ AllBefore(s.pushed, base, s.i) /\ AllBefore(s.pushed, extras, s.j)
      BY <2>9 DEF MergeInv
    <3>2. Ordered(more)
      <4>1. \A p \in 1 .. Len(s.pushed) : KeyLess(s.pushed[p].key, e.key)
        <5>1. s.j \in s.j .. Len(extras)
          BY <1>1, <2>2
        <5> QED BY <3>1, <5>1 DEF AllBefore
      <4> QED BY <2>3, <3>1, <4>1
    <3>3. \A p \in 1 .. Len(more) : p \in 1 .. Len(s.pushed) \/ p = Len(s.pushed) + 1
      BY <1>1, <2>3
    <3>4. AllBefore(more, extras, s.j + 1)
      <4> SUFFICES ASSUME NEW p \in 1 .. Len(more), NEW k \in s.j + 1 .. Len(extras)
                   PROVE  KeyLess(more[p].key, extras[k].key)
        BY DEF AllBefore
      <4>1. KeyLess(e.key, extras[k].key)
        BY <1>1, <2>2, <2>9 DEF Ordered
      <4>2. k \in s.j .. Len(extras)
        BY <1>1
      <4> QED BY <2>3, <3>1, <3>3, <4>1, <4>2 DEF AllBefore
    <3>5. AllBefore(more, base, s.i)
      <4> SUFFICES ASSUME NEW p \in 1 .. Len(more), NEW k \in s.i .. Len(base)
                   PROVE  KeyLess(more[p].key, base[k].key)
        BY DEF AllBefore
      <4>1. k = s.i \/ KeyLess(b.key, base[k].key)
        BY <1>1, <2>2, <2>9 DEF Ordered
      <4>2. base[k] \in Terms /\ base[k].key \in Words /\ b.key \in Words /\ e.key \in Words
        <5>1. k \in 1 .. Len(base)
          BY <1>1
        <5> QED BY <2>2, <5>1, TermParts
      <4>3. KeyLess(e.key, base[k].key)
        BY <1>5, <4>1, <4>2, KeyOrder
      <4> QED BY <2>3, <3>1, <3>3, <4>3 DEF AllBefore
    <3> QED BY <2>4, <3>2, <3>4, <3>5
  <2> QED BY <2>4, <2>5, <2>6, <2>7, <2>8, <2>9 DEF MergeInv
<1>6. ASSUME ~(s.i > Len(base) \/ s.j > Len(extras)), ~KeyLess(b.key, e.key),
             ~KeyLess(e.key, b.key)
      PROVE  MergeInv(base, extras, n + 1, t)
  <2> DEFINE both == Term(b.key, b.c + e.c)
             more == IF b.c + e.c = 0 THEN s.pushed ELSE Append(s.pushed, both)
  <2>1. t = [i |-> s.i + 1, j |-> s.j + 1, pushed |-> more]
    BY <1>6 DEF MergeTurn
  <2>2. /\ s.i \in 1 .. Len(base) /\ s.j \in 1 .. Len(extras) /\ b \in Terms /\ e \in Terms
        /\ \A w \in Words :
             /\ Rest(base, s.i, w) = Coefficient(w)[b] + Rest(base, s.i + 1, w)
             /\ Rest(extras, s.j, w) = Coefficient(w)[e] + Rest(extras, s.j + 1, w)
             /\ Coefficient(w)[b] \in Int /\ Coefficient(w)[e] \in Int
             /\ Rest(base, s.i + 1, w) \in Int /\ Rest(extras, s.j + 1, w) \in Int
             /\ Collect(s.pushed, w) \in Int
        /\ b.key \in KeysOf(base)
    BY <1>3, <1>6
  <2>3. b.key \in Words /\ e.key \in Words /\ b.c \in Int /\ e.c \in Int
    BY <2>2, TermParts
  <2>4. b.key = e.key
    BY <1>6, <2>3, KeyOrder
  <2>5. both \in Terms /\ both.key = b.key /\ both.c = b.c + e.c
    BY <2>3, TermParts
  <2>6. \A w \in Words : Coefficient(w)[both] = Coefficient(w)[b] + Coefficient(w)[e]
    <3> HIDE DEF both
    <3> QED BY <2>2, <2>3, <2>4, <2>5 DEF Coefficient
  <2> HIDE DEF both
  <2>7. /\ Append(s.pushed, both) \in Seq(Terms)
        /\ Len(Append(s.pushed, both)) = Len(s.pushed) + 1
        /\ \A p \in 1 .. Len(s.pushed) : Append(s.pushed, both)[p] = s.pushed[p]
        /\ Append(s.pushed, both)[Len(s.pushed) + 1] = both
        /\ KeysOf(Append(s.pushed, both)) = KeysOf(s.pushed) \cup {both.key}
        /\ \A w \in Words :
             Collect(Append(s.pushed, both), w) = Collect(s.pushed, w) + Coefficient(w)[both]
        /\ Ordered(s.pushed) /\ (\A p \in 1 .. Len(s.pushed) : KeyLess(s.pushed[p].key, both.key)) =>
             Ordered(Append(s.pushed, both))
    BY <1>1, <2>5, Pushed
  <2>8. \A w \in Words : b.c + e.c = 0 => Coefficient(w)[both] = 0
    BY <2>5 DEF Coefficient
  <2>9. /\ more \in Seq(Terms) /\ Len(more) <= Len(s.pushed) + 1 /\ Len(more) \in Nat
        /\ KeysOf(more) \subseteq KeysOf(s.pushed) \cup {b.key}
        /\ \A w \in Words :
             Collect(more, w) = Collect(s.pushed, w) + Coefficient(w)[b] + Coefficient(w)[e]
    <3>1. CASE b.c + e.c = 0
      <4>1. more = s.pushed
        BY <3>1
      <4>2. \A w \in Words : Coefficient(w)[b] + Coefficient(w)[e] = 0
        BY <2>6, <2>8, <3>1
      <4>3. ASSUME NEW w \in Words
            PROVE  Collect(s.pushed, w)
                     = Collect(s.pushed, w) + Coefficient(w)[b] + Coefficient(w)[e]
        <5>1. /\ Coefficient(w)[b] \in Int /\ Coefficient(w)[e] \in Int
              /\ Collect(s.pushed, w) \in Int
          BY <2>2
        <5>2. Coefficient(w)[b] + Coefficient(w)[e] = 0
          BY <4>2
        <5> QED BY <5>1, <5>2
      <4> HIDE DEF more
      <4> QED BY <1>1, <4>1, <4>3
    <3>2. CASE b.c + e.c # 0
      <4>1. more = Append(s.pushed, both)
        BY <3>2
      <4>2. ASSUME NEW w \in Words
            PROVE  Collect(more, w) = Collect(s.pushed, w) + Coefficient(w)[b] + Coefficient(w)[e]
        <5>1. /\ Coefficient(w)[b] \in Int /\ Coefficient(w)[e] \in Int
              /\ Collect(s.pushed, w) \in Int
          BY <2>2
        <5>2. Collect(more, w) = Collect(s.pushed, w) + Coefficient(w)[both]
          BY <2>7, <4>1
        <5>3. Coefficient(w)[both] = Coefficient(w)[b] + Coefficient(w)[e]
          BY <2>6
        <5> QED BY <5>1, <5>2, <5>3
      <4> HIDE DEF more
      <4> QED BY <1>1, <2>5, <2>7, <4>1, <4>2
    <3> QED BY <3>1, <3>2
  <2>10. t \in MergeStates(base, extras) /\ t.i = s.i + 1 /\ t.j = s.j + 1 /\ t.pushed = more
    <3>1. s.i + 1 \in 1 .. Len(base) + 1 /\ s.j + 1 \in 1 .. Len(extras) + 1
      BY <1>1, <2>2
    <3> HIDE DEF more, t
    <3> QED BY <1>1, <2>1, <2>9, <3>1 DEF MergeStates
  <2>11. ASSUME Ordered(base), Ordered(extras)
        PROVE  Ordered(more) /\ AllBefore(more, base, s.i + 1) /\ AllBefore(more, extras, s.j + 1)
    <3>1. Ordered(s.pushed) /\ AllBefore(s.pushed, base, s.i) /\ AllBefore(s.pushed, extras, s.j)
      BY <2>11 DEF MergeInv
    <3>2. \A p \in 1 .. Len(s.pushed) : KeyLess(s.pushed[p].key, both.key)
      <4>1. s.i \in s.i .. Len(base)
        BY <1>1, <2>2
      <4> QED BY <2>5, <3>1, <4>1 DEF AllBefore
    <3>3. \A k \in s.i + 1 .. Len(base) : k \in s.i .. Len(base) /\ KeyLess(both.key, base[k].key)
      BY <1>1, <2>2, <2>5, <2>11 DEF Ordered
    <3>4. \A k \in s.j + 1 .. Len(extras) :
            k \in s.j .. Len(extras) /\ KeyLess(both.key, extras[k].key)
      BY <1>1, <2>2, <2>4, <2>5, <2>11 DEF Ordered
    <3>5. CASE b.c + e.c = 0
      <4>1. more = s.pushed
        BY <3>5
      <4> HIDE DEF more
      <4> QED BY <3>1, <3>3, <3>4, <4>1 DEF AllBefore
    <3>6. CASE b.c + e.c # 0
      <4>1. more = Append(s.pushed, both)
        BY <3>6
      <4> HIDE DEF more
      <4>2. \A p \in 1 .. Len(more) : p \in 1 .. Len(s.pushed) \/ p = Len(s.pushed) + 1
        <5>1. Len(more) = Len(s.pushed) + 1
          BY <2>7, <4>1
        <5> QED BY <1>1, <5>1
      <4>3. \A p \in 1 .. Len(more) :
              (p \in 1 .. Len(s.pushed) /\ more[p] = s.pushed[p]) \/ more[p] = both
        BY <2>7, <4>1, <4>2
      <4>4. Ordered(more)
        BY <2>7, <3>1, <3>2, <4>1
      <4>5. AllBefore(more, base, s.i + 1)
        BY <3>1, <3>3, <4>3 DEF AllBefore
      <4>6. AllBefore(more, extras, s.j + 1)
        BY <3>1, <3>4, <4>3 DEF AllBefore
      <4> QED BY <4>4, <4>5, <4>6
    <3> QED BY <3>5, <3>6
  <2> HIDE DEF more, t
  <2>12. Len(t.pushed) <= (t.i - 1) + (t.j - 1)
    <3>1. Len(t.pushed) <= Len(s.pushed) + 1 /\ Len(t.pushed) \in Nat
      BY <2>9, <2>10
    <3>2. t.i = s.i + 1 /\ t.j = s.j + 1
      BY <2>10
    <3>3. Len(s.pushed) <= (s.i - 1) + (s.j - 1)
      BY <1>0
    <3>4. \A l, m, x, y \in Int : l <= (x - 1) + (y - 1) /\ m <= l + 1 =>
                                 m <= (x + 1 - 1) + (y + 1 - 1)
      OBVIOUS
    <3>5. Len(t.pushed) \in Int /\ Len(t.pushed) <= Len(s.pushed) + 1
      BY <3>1
    <3>6. Len(t.pushed) <= (s.i + 1 - 1) + (s.j + 1 - 1)
      BY <1>7, <3>3, <3>4, <3>5
    <3> QED BY <1>7, <3>2, <3>6
  <2>13. n + 1 <= (t.i - 1) + (t.j - 1)
    BY <1>0, <1>1, <1>6, <2>10
  <2>14. KeysOf(t.pushed) \subseteq KeysOf(base) \cup KeysOf(extras)
    BY <2>2, <2>9, <2>10 DEF MergeInv
  <2>15. ASSUME NEW w \in Words
        PROVE  Collect(t.pushed, w) + Rest(base, t.i, w) + Rest(extras, t.j, w)
                 = Collect(base, w) + Collect(extras, w)
    <3>1. Collect(s.pushed, w) + Rest(base, s.i, w) + Rest(extras, s.j, w)
            = Collect(base, w) + Collect(extras, w)
      BY DEF MergeInv
    <3>2. /\ Collect(t.pushed, w) = Collect(s.pushed, w) + Coefficient(w)[b] + Coefficient(w)[e]
          /\ Rest(base, t.i, w) = Rest(base, s.i + 1, w)
          /\ Rest(extras, t.j, w) = Rest(extras, s.j + 1, w)
      BY <2>9, <2>10
    <3>3. /\ Rest(base, s.i, w) = Coefficient(w)[b] + Rest(base, s.i + 1, w)
          /\ Rest(extras, s.j, w) = Coefficient(w)[e] + Rest(extras, s.j + 1, w)
          /\ Coefficient(w)[b] \in Int /\ Coefficient(w)[e] \in Int
          /\ Rest(base, s.i + 1, w) \in Int /\ Rest(extras, s.j + 1, w) \in Int
          /\ Collect(s.pushed, w) \in Int
      BY <2>2
    <3> QED BY <3>1, <3>2, <3>3
  <2> QED BY <2>10, <2>11, <2>12, <2>13, <2>14, <2>15 DEF MergeInv
<1> QED BY <1>2, <1>4, <1>5, <1>6

\* The merge stays within its states.
LEMMA MergeTurnType ==
  ASSUME NEW base \in Seq(Terms), NEW extras \in Seq(Terms), NEW s \in MergeStates(base, extras)
  PROVE  MergeTurn(base, extras, s) \in MergeStates(base, extras)
<1> DEFINE b == base[s.i]
           e == extras[s.j]
           t == MergeTurn(base, extras, s)
<1>1. /\ s.i \in 1 .. Len(base) + 1 /\ s.j \in 1 .. Len(extras) + 1 /\ s.pushed \in Seq(Terms)
      /\ Len(base) \in Nat /\ Len(extras) \in Nat
  BY DEF MergeStates
<1>2. CASE s.i > Len(base) \/ s.j > Len(extras)
  BY <1>2 DEF MergeTurn
<1>3. CASE ~(s.i > Len(base) \/ s.j > Len(extras))
  <2>1. /\ b \in Terms /\ e \in Terms
        /\ s.i + 1 \in 1 .. Len(base) + 1 /\ s.j + 1 \in 1 .. Len(extras) + 1
    BY <1>1, <1>3
  <2>2. /\ Append(s.pushed, b) \in Seq(Terms) /\ Append(s.pushed, e) \in Seq(Terms)
        /\ Append(s.pushed, Term(b.key, b.c + e.c)) \in Seq(Terms)
    <3>1. Term(b.key, b.c + e.c) \in Terms
      BY <2>1, TermParts
    <3> HIDE DEF b, e
    <3> QED BY <1>1, <2>1, <3>1
  <2>3. CASE KeyLess(b.key, e.key)
    <3>1. t = [s EXCEPT !.i = s.i + 1, !.pushed = Append(s.pushed, b)]
      BY <1>3, <2>3 DEF MergeTurn
    <3> HIDE DEF b, e, t
    <3> QED BY <1>1, <2>1, <2>2, <3>1 DEF MergeStates, t
  <2>4. CASE ~KeyLess(b.key, e.key) /\ KeyLess(e.key, b.key)
    <3>1. t = [s EXCEPT !.j = s.j + 1, !.pushed = Append(s.pushed, e)]
      BY <1>3, <2>4 DEF MergeTurn
    <3> HIDE DEF b, e, t
    <3> QED BY <1>1, <2>1, <2>2, <3>1 DEF MergeStates, t
  <2>5. CASE ~KeyLess(b.key, e.key) /\ ~KeyLess(e.key, b.key)
    <3>1. t = [i |-> s.i + 1, j |-> s.j + 1,
               pushed |-> IF b.c + e.c = 0 THEN s.pushed
                          ELSE Append(s.pushed, Term(b.key, b.c + e.c))]
      BY <1>3, <2>5 DEF MergeTurn
    <3> HIDE DEF b, e, t
    <3> QED BY <1>1, <2>1, <2>2, <3>1 DEF MergeStates, t
  <2> QED BY <2>3, <2>4, <2>5
<1> QED BY <1>2, <1>3

\* Sequences one after the other.
LEMMA TermsJoined ==
  ASSUME NEW a \in Seq(Terms), NEW b \in Seq(Terms)
  PROVE  /\ a \o b \in Seq(Terms) /\ Len(a \o b) = Len(a) + Len(b)
         /\ KeysOf(a \o b) \subseteq KeysOf(a) \cup KeysOf(b)
         /\ \A w \in Words : Collect(a \o b, w) = Collect(a, w) + Collect(b, w)
         /\ \A i \in 1 .. Len(a \o b) : \/ \E k \in 1 .. Len(a) : (a \o b)[i] = a[k]
                                        \/ \E k \in 1 .. Len(b) : (a \o b)[i] = b[k]
         /\ Ordered(a) /\ Ordered(b)
            /\ (\A j \in 1 .. Len(a), k \in 1 .. Len(b) : KeyLess(a[j].key, b[k].key)) =>
              Ordered(a \o b)
<1> DEFINE m == Len(a)
           n == Len(b)
           c == a \o b
<1>1. /\ c \in Seq(Terms) /\ Len(c) = m + n
      /\ \A i \in 1 .. m : c[i] = a[i]
      /\ \A i \in 1 .. n : c[m + i] = b[i]
  BY ConcatProperties
<1>2. m \in Nat /\ n \in Nat
  OBVIOUS
<1>3. ASSUME NEW w \in Words PROVE Collect(c, w) = Collect(a, w) + Collect(b, w)
  <2>1. /\ IntOn(Coefficient(w), Terms) /\ Collect(c, w) = SumAlong(Coefficient(w), c)
        /\ Collect(a, w) = SumAlong(Coefficient(w), a) /\ Collect(b, w) = SumAlong(Coefficient(w), b)
    BY <1>1, CollectIs
  <2> QED BY <2>1, TotalConcat
<1> HIDE DEF c, m, n
<1>4. ASSUME NEW i \in 1 .. m + n
      PROVE  \/ i \in 1 .. m /\ c[i] = a[i]
             \/ i > m /\ i - m \in 1 .. n /\ c[i] = b[i - m]
  <2>1. CASE i \in 1 .. m
    <3>1. c[i] = a[i]
      BY <1>1, <2>1
    <3> QED BY <2>1, <3>1
  <2>2. CASE i \notin 1 .. m
    <3>1. i > m /\ i - m \in 1 .. n /\ m + (i - m) = i
      BY <1>2, <2>2
    <3> QED BY <1>1, <3>1
  <2> QED BY <2>1, <2>2
<1>5. \A i \in 1 .. m + n : (\E k \in 1 .. m : c[i] = a[k]) \/ (\E k \in 1 .. n : c[i] = b[k])
  BY <1>4
<1>6. KeysOf(c) \subseteq KeysOf(a) \cup KeysOf(b)
  <2>1. DOMAIN c = 1 .. m + n /\ DOMAIN a = 1 .. m /\ DOMAIN b = 1 .. n
    BY <1>1 DEF m, n
  <2> QED BY <1>5, <2>1 DEF KeysOf
<1>7. ASSUME Ordered(a), Ordered(b),
             \A j \in 1 .. m, k \in 1 .. n : KeyLess(a[j].key, b[k].key)
      PROVE  Ordered(c)
  <2> SUFFICES ASSUME NEW i \in 1 .. m + n, NEW j \in 1 .. m + n, i < j
               PROVE  KeyLess(c[i].key, c[j].key)
    BY <1>1 DEF Ordered
  <2>1. CASE i \in 1 .. m /\ j \in 1 .. m
    BY <1>1, <1>7, <2>1 DEF Ordered, m
  <2>2. CASE i \in 1 .. m /\ j \notin 1 .. m
    <3>1. c[i] = a[i]
      BY <1>1, <2>2
    <3>2. j - m \in 1 .. n /\ c[j] = b[j - m]
      BY <1>4, <2>2
    <3> QED BY <1>7, <2>2, <3>1, <3>2
  <2>3. CASE i \notin 1 .. m
    <3>1. /\ i > m /\ i - m \in 1 .. n /\ c[i] = b[i - m]
          /\ j > m /\ j - m \in 1 .. n /\ c[j] = b[j - m]
      BY <1>2, <1>4, <2>3
    <3>2. i - m < j - m
      BY <1>2
    <3> QED BY <1>7, <3>1, <3>2 DEF Ordered, n
  <2> QED BY <2>1, <2>2, <2>3
<1> QED BY <1>1, <1>3, <1>5, <1>6, <1>7 DEF c, m, n

TailFrom(ts, i) == SubSeq(ts, i, Len(ts))

\* The tail of a sequence.
LEMMA TailTerms ==
  ASSUME NEW ts \in Seq(Terms), NEW i \in 1 .. Len(ts) + 1
  PROVE  /\ TailFrom(ts, i) \in Seq(Terms) /\ Len(TailFrom(ts, i)) = Len(ts) + 1 - i
         /\ KeysOf(TailFrom(ts, i)) \subseteq KeysOf(ts)
         /\ \A w \in Words : Collect(TailFrom(ts, i), w) = Rest(ts, i, w)
         /\ Ordered(ts) => Ordered(TailFrom(ts, i))
         /\ \A pushed : AllBefore(pushed, ts, i) =>
              \A p \in 1 .. Len(pushed), k \in 1 .. Len(TailFrom(ts, i)) :
                KeyLess(pushed[p].key, TailFrom(ts, i)[k].key)
<1> DEFINE n == Len(ts)
           tail == TailFrom(ts, i)
           m == n + 1 - i
<1>1. /\ tail \in Seq(Terms) /\ Len(tail) = m
      /\ \A k \in 1 .. m : tail[k] = ts[i + k - 1]
  BY TailOfSeq DEF TailFrom
<1>2. n \in Nat /\ i \in Int /\ m \in Nat
  OBVIOUS
<1> HIDE DEF tail
<1>3. \A k \in 1 .. m : i + k - 1 \in i .. n /\ i + k - 1 \in 1 .. n
  BY <1>2
<1>4. ASSUME NEW w \in Words PROVE Collect(tail, w) = Rest(ts, i, w)
  <2>1. IntOn(Coefficient(w), Terms) /\ Collect(tail, w) = SumAlong(Coefficient(w), tail)
    BY <1>1, CollectIs
  <2> QED BY <2>1, TotalTail DEF Rest, tail, TailFrom
<1>5. KeysOf(tail) \subseteq KeysOf(ts)
  <2>1. DOMAIN tail = 1 .. m /\ DOMAIN ts = 1 .. n
    BY <1>1
  <2> HIDE DEF m, n
  <2> QED BY <1>1, <1>3, <2>1 DEF KeysOf
<1>6. ASSUME Ordered(ts) PROVE Ordered(tail)
  <2> SUFFICES ASSUME NEW j \in 1 .. m, NEW k \in 1 .. m, j < k
               PROVE  KeyLess(tail[j].key, tail[k].key)
    BY <1>1 DEF Ordered
  <2>1. i + j - 1 < i + k - 1
    BY <1>2
  <2> HIDE DEF m
  <2> QED BY <1>1, <1>3, <1>6, <2>1 DEF Ordered
<1>7. ASSUME NEW pushed, AllBefore(pushed, ts, i),
             NEW p \in 1 .. Len(pushed), NEW k \in 1 .. m
      PROVE  KeyLess(pushed[p].key, tail[k].key)
  BY <1>1, <1>3, <1>7 DEF AllBefore
<1> QED BY <1>1, <1>4, <1>5, <1>6, <1>7 DEF tail

\* What is pushed and what is left of two sequences is no longer than both.
LEMMA Spare ==
  ASSUME NEW p \in Int, NEW x \in Int, NEW y \in Int, NEW m \in Int, NEW n \in Int,
         p <= (x - 1) + (y - 1)
  PROVE  (p + (m + 1 - x)) + (n + 1 - y) <= m + n
OBVIOUS

\* MergeSplit returns the sums of two term sequences, and in key order if they are.
LEMMA Merged ==
  ASSUME NEW base \in Seq(Terms), NEW extras \in Seq(Terms)
  PROVE  /\ MergeSplit(base, extras) \in Seq(Terms)
         /\ Len(MergeSplit(base, extras)) <= Len(base) + Len(extras)
         /\ KeysOf(MergeSplit(base, extras)) \subseteq KeysOf(base) \cup KeysOf(extras)
         /\ \A w \in Words : Collect(MergeSplit(base, extras), w)
                               = Collect(base, w) + Collect(extras, w)
         /\ Ordered(base) /\ Ordered(extras) => Ordered(MergeSplit(base, extras))
<1> DEFINE N == Len(base) + Len(extras)
           first == [i |-> 1, j |-> 1, pushed |-> <<>>]
           Body(g) == [n \in 0 .. N |-> IF n = 0 THEN first ELSE MergeTurn(base, extras, g[n - 1])]
           merge == CHOOSE g : g = Body(g)
           V == MergeStates(base, extras)
           turns == [k \in 1 .. N |-> [s \in V |-> MergeTurn(base, extras, s)]]
           last == merge[N]
           tailB == TailFrom(base, last.i)
           tailE == TailFrom(extras, last.j)
<1>1. MergeSplit(base, extras) = last.pushed \o tailB \o tailE
  BY DEF MergeSplit, TailFrom
<1>2. N \in Nat /\ Len(base) \in Nat /\ Len(extras) \in Nat
  OBVIOUS
<1>3. first \in V
  BY <1>2 DEF MergeStates
<1>4. turns \in [1 .. N -> [V -> V]]
  BY MergeTurnType
<1>5. PICK g : g = Body(g)
  <2>1. PICK g : IsChain(g, N, V, first, turns)
    <3> HIDE DEF N, V, first, turns
    <3> QED BY <1>2, <1>3, <1>4, Chain
  <2>2. \A k \in 1 .. N : g[k] = MergeTurn(base, extras, g[k - 1])
    <3> SUFFICES ASSUME NEW k \in 1 .. N PROVE g[k] = MergeTurn(base, extras, g[k - 1])
      OBVIOUS
    <3>1. k - 1 \in 0 .. N
      BY <1>2
    <3>2. g[k - 1] \in V /\ g[k] = turns[k][g[k - 1]]
      BY <2>1, <3>1 DEF IsChain
    <3> HIDE DEF V
    <3> QED BY <3>2
  <2>3. g \in [0 .. N -> V] /\ g[0] = first
    BY <2>1 DEF IsChain
  <2>4. \A n \in 0 .. N : g[n] = IF n = 0 THEN first ELSE MergeTurn(base, extras, g[n - 1])
    <3> SUFFICES ASSUME NEW n \in 0 .. N
                 PROVE  g[n] = IF n = 0 THEN first ELSE MergeTurn(base, extras, g[n - 1])
      OBVIOUS
    <3>1. n # 0 => n \in 1 .. N
      BY <1>2
    <3> HIDE DEF first, N
    <3> QED BY <2>2, <2>3, <3>1
  <2> HIDE DEF V, first, N
  <2>5. g = Body(g)
    BY <2>3, <2>4
  <2> QED BY <2>5
<1>6. merge = Body(merge)
  <2> HIDE DEF Body
  <2> QED BY <1>5
<1> HIDE DEF merge
<1>7. merge[0] = first /\ \A k \in 1 .. N : merge[k] = MergeTurn(base, extras, merge[k - 1])
  <2>1. \A n \in 0 .. N : merge[n] = Body(merge)[n]
    BY <1>6
  <2> HIDE DEF first
  <2> QED BY <1>2, <2>1
<1> DEFINE T == {n \in 0 .. N : MergeInv(base, extras, n, merge[n])}
<1>8. 0 \in T
  <2>1. /\ first \in MergeStates(base, extras) /\ first.i = 1 /\ first.j = 1
        /\ first.pushed = <<>>
    BY <1>3
  <2> HIDE DEF first
  <2>2. Len(first.pushed) = 0 /\ first.pushed \in Seq(Terms)
    BY <2>1
  <2>3. KeysOf(first.pushed) = {}
    BY <2>1, <2>2 DEF KeysOf
  <2>4. ASSUME NEW w \in Words
        PROVE  Collect(first.pushed, w) + Rest(base, first.i, w) + Rest(extras, first.j, w)
                 = Collect(base, w) + Collect(extras, w)
    <3>1. Collect(first.pushed, w) = 0
      BY <2>2, <2>3, CollectOutside
    <3>2. /\ Rest(base, 1, w) = Collect(base, w) /\ Rest(extras, 1, w) = Collect(extras, w)
          /\ Collect(base, w) \in Int /\ Collect(extras, w) \in Int
      BY CollectIs, FromEnds DEF Rest
    <3> QED BY <2>1, <3>1, <3>2
  <2>5. Ordered(first.pushed) /\ AllBefore(first.pushed, base, first.i)
        /\ AllBefore(first.pushed, extras, first.j)
    BY <2>2 DEF Ordered, AllBefore
  <2>6. Len(first.pushed) <= (first.i - 1) + (first.j - 1) /\ 0 <= (first.i - 1) + (first.j - 1)
    BY <2>1, <2>2
  <2>7. MergeInv(base, extras, 0, first)
    BY <2>1, <2>3, <2>4, <2>5, <2>6 DEF MergeInv
  <2>8. MergeInv(base, extras, 0, merge[0])
    BY <1>7, <2>7
  <2> QED BY <1>2, <2>8
<1>9. ASSUME NEW k \in 1 .. N, k - 1 \in T PROVE k \in T
  <2>1. k - 1 \in Nat /\ k - 1 + 1 = k /\ k \in 0 .. N
    BY <1>2
  <2>2. MergeInv(base, extras, k - 1, merge[k - 1])
    BY <1>9
  <2>3. MergeInv(base, extras, k - 1 + 1, MergeTurn(base, extras, merge[k - 1]))
    BY <2>1, <2>2, MergeTurnKeeps
  <2> QED BY <1>7, <2>1, <2>3
<1>10. MergeInv(base, extras, N, last)
  <2>1. \A k \in 0 .. N : k \in T
    <3> HIDE DEF T, N
    <3> QED BY <1>2, <1>8, <1>9, UpTo
  <2> QED BY <1>2, <2>1
<1> HIDE DEF last
<1>11. /\ last.i \in 1 .. Len(base) + 1 /\ last.j \in 1 .. Len(extras) + 1
       /\ last.pushed \in Seq(Terms)
       /\ Len(last.pushed) <= (last.i - 1) + (last.j - 1)
       /\ last.i > Len(base) \/ last.j > Len(extras) \/ N <= (last.i - 1) + (last.j - 1)
       /\ KeysOf(last.pushed) \subseteq KeysOf(base) \cup KeysOf(extras)
  BY <1>10 DEF MergeInv, MergeStates
<1>12. /\ tailB \in Seq(Terms) /\ Len(tailB) = Len(base) + 1 - last.i
       /\ KeysOf(tailB) \subseteq KeysOf(base)
       /\ \A w \in Words : Collect(tailB, w) = Rest(base, last.i, w)
       /\ Ordered(base) => Ordered(tailB)
       /\ AllBefore(last.pushed, base, last.i) =>
            \A p \in 1 .. Len(last.pushed), k \in 1 .. Len(tailB) :
              KeyLess(last.pushed[p].key, tailB[k].key)
  BY <1>11, TailTerms
<1>13. /\ tailE \in Seq(Terms) /\ Len(tailE) = Len(extras) + 1 - last.j
       /\ KeysOf(tailE) \subseteq KeysOf(extras)
       /\ \A w \in Words : Collect(tailE, w) = Rest(extras, last.j, w)
       /\ Ordered(extras) => Ordered(tailE)
       /\ AllBefore(last.pushed, extras, last.j) =>
            \A p \in 1 .. Len(last.pushed), k \in 1 .. Len(tailE) :
              KeyLess(last.pushed[p].key, tailE[k].key)
  BY <1>11, TailTerms
<1> DEFINE two == last.pushed \o tailB
           result == two \o tailE
<1> HIDE DEF tailB, tailE
<1>14. /\ two \in Seq(Terms) /\ Len(two) = Len(last.pushed) + Len(tailB)
       /\ KeysOf(two) \subseteq KeysOf(last.pushed) \cup KeysOf(tailB)
       /\ \A w \in Words : Collect(two, w) = Collect(last.pushed, w) + Collect(tailB, w)
       /\ \A i \in 1 .. Len(two) : \/ \E k \in 1 .. Len(last.pushed) : two[i] = last.pushed[k]
                                   \/ \E k \in 1 .. Len(tailB) : two[i] = tailB[k]
       /\ Ordered(last.pushed) /\ Ordered(tailB)
          /\ (\A j \in 1 .. Len(last.pushed), k \in 1 .. Len(tailB) :
                KeyLess(last.pushed[j].key, tailB[k].key)) => Ordered(two)
  BY <1>11, <1>12, TermsJoined
<1> HIDE DEF two
<1>15. /\ result \in Seq(Terms) /\ Len(result) = Len(two) + Len(tailE)
       /\ KeysOf(result) \subseteq KeysOf(two) \cup KeysOf(tailE)
       /\ \A w \in Words : Collect(result, w) = Collect(two, w) + Collect(tailE, w)
       /\ Ordered(two) /\ Ordered(tailE)
          /\ (\A j \in 1 .. Len(two), k \in 1 .. Len(tailE) : KeyLess(two[j].key, tailE[k].key)) =>
            Ordered(result)
  BY <1>13, <1>14, TermsJoined
<1> HIDE DEF result
<1>16. Len(result) <= Len(base) + Len(extras)
  <2>1. Len(result) = Len(two) + Len(tailE) /\ Len(two) = Len(last.pushed) + Len(tailB)
    BY <1>14, <1>15
  <2>2. Len(tailB) = Len(base) + 1 - last.i /\ Len(tailE) = Len(extras) + 1 - last.j
    BY <1>12, <1>13
  <2>3. Len(last.pushed) <= (last.i - 1) + (last.j - 1)
    BY <1>11
  <2>4. PICK p \in Int : p = Len(last.pushed)
    BY <1>11
  <2>5. PICK x \in Int, y \in Int : x = last.i /\ y = last.j
    BY <1>11
  <2>6. PICK m \in Int, n \in Int : m = Len(base) /\ n = Len(extras)
    BY <1>2
  <2>7. Len(tailB) = m + 1 - x /\ Len(tailE) = n + 1 - y
    BY ONLY <2>2, <2>5, <2>6
  <2>8. Len(result) = (p + (m + 1 - x)) + (n + 1 - y)
    <3>1. Len(two) = p + (m + 1 - x)
      BY ONLY <2>1, <2>4, <2>7
    <3> QED BY ONLY <2>1, <2>7, <3>1
  <2>9. p <= (x - 1) + (y - 1)
    BY ONLY <2>3, <2>4, <2>5
  <2>10. (p + (m + 1 - x)) + (n + 1 - y) <= m + n
    BY <2>9, Spare
  <2> QED BY ONLY <2>6, <2>8, <2>10
<1>17. KeysOf(result) \subseteq KeysOf(base) \cup KeysOf(extras)
  BY <1>11, <1>12, <1>13, <1>14, <1>15
<1>18. ASSUME NEW w \in Words PROVE Collect(result, w) = Collect(base, w) + Collect(extras, w)
  <2>1. Collect(last.pushed, w) + Rest(base, last.i, w) + Rest(extras, last.j, w)
          = Collect(base, w) + Collect(extras, w)
    BY <1>10 DEF MergeInv
  <2>2. Collect(result, w) = Collect(two, w) + Collect(tailE, w)
    BY <1>15
  <2>3. Collect(two, w) = Collect(last.pushed, w) + Collect(tailB, w)
    BY <1>14
  <2>4. Collect(tailB, w) = Rest(base, last.i, w) /\ Collect(tailE, w) = Rest(extras, last.j, w)
    BY <1>12, <1>13
  <2> QED BY <2>1, <2>2, <2>3, <2>4
<1>19. ASSUME Ordered(base), Ordered(extras) PROVE Ordered(result)
  <2>1. /\ Ordered(last.pushed) /\ AllBefore(last.pushed, base, last.i)
        /\ AllBefore(last.pushed, extras, last.j)
    BY <1>10, <1>19 DEF MergeInv
  <2>2. Ordered(two) /\ Ordered(tailE)
    BY <1>12, <1>13, <1>14, <1>19, <2>1
  <2>3. 1 .. Len(tailB) = {} \/ 1 .. Len(tailE) = {}
    <3>1. last.i > Len(base) \/ last.j > Len(extras)
      BY <1>2, <1>11
    <3>2. Len(tailB) = Len(base) + 1 - last.i /\ Len(tailE) = Len(extras) + 1 - last.j
      BY <1>12, <1>13
    <3>3. last.i \in Int /\ last.j \in Int
      BY <1>11
    <3> QED BY <1>2, <3>1, <3>2, <3>3
  <2>4. ASSUME NEW j \in 1 .. Len(two), NEW k \in 1 .. Len(tailE)
        PROVE  KeyLess(two[j].key, tailE[k].key)
    <3>1. PICK p \in 1 .. Len(last.pushed) : two[j] = last.pushed[p]
      BY <1>14, <2>3
    <3> QED BY <1>13, <2>1, <3>1
  <2> QED BY <1>15, <2>2, <2>4
<1>20. MergeSplit(base, extras) = result
  BY <1>1 DEF result, two, tailB, tailE, last
<1> QED BY <1>15, <1>16, <1>17, <1>18, <1>19, <1>20

\* A sum over words, the terms of a sequence first: each word of it has its coefficient.
WeighedBy(entry) == [t \in Terms |-> t.c * entry[t.key]]
Image(ts, entry) == SumFunctionOnSet([v \in Words |-> Collect(ts, v) * entry[v]], Words)

\* A sum over the terms of a sequence is a sum over the words.
LEMMA ByWords ==
  ASSUME NEW ts \in Seq(Terms), NEW entry, IntOn(entry, Words)
  PROVE  /\ IntOn(WeighedBy(entry), Terms)
         /\ SumAlong(WeighedBy(entry), ts) = Image(ts, entry)
         /\ Image(ts, entry) \in Int
<1> DEFINE S == 1 .. Len(ts)
           f == WeighedBy(entry)
           r == ValuesAlong(f, ts)
           c == [v \in Words |-> Collect(ts, v) * entry[v]]
           part(i, v) == IF ts[i].key = v THEN ts[i].c * entry[v] ELSE 0
           row == [i \in S |-> [v \in Words |-> part(i, v)]]
           col == [v \in Words |-> [i \in S |-> part(i, v)]]
<1>1. IntOn(f, Terms)
  <2>1. ASSUME NEW t \in Terms PROVE f[t] \in Int
    <3>1. t.c \in Int /\ entry[t.key] \in Int
      BY TermParts DEF IntOn
    <3>2. f[t] = t.c * entry[t.key]
      BY DEF WeighedBy
    <3> QED BY <3>1, <3>2
  <2> QED BY <2>1 DEF IntOn
<1>2. IsFiniteSet(S) /\ IntOn(r, S)
  <2> HIDE DEF f
  <2> QED BY <1>1, TotalInt
<1>3. IsFiniteSet(Words)
  BY WordsFinite
<1>4. \A i \in S : ts[i] \in Terms /\ ts[i].key \in Words /\ ts[i].c \in Int
  BY TermParts
<1>5. \A i \in S, v \in Words : part(i, v) \in Int
  <2> SUFFICES ASSUME NEW i \in S, NEW v \in Words PROVE part(i, v) \in Int
    OBVIOUS
  <2>1. ts[i].c \in Int /\ entry[v] \in Int
    BY <1>4 DEF IntOn
  <2> QED BY <2>1
<1>6. Transposed(row, col, S, Words)
  <2>1. ASSUME NEW i \in S, NEW v \in Words
        PROVE  row[i][v] \in Int /\ col[v][i] = row[i][v]
    BY <1>5
  <2> HIDE DEF row, col
  <2> QED BY <2>1 DEF Transposed
<1>7. SumsOf(r, row, S, Words)
  <2> SUFFICES ASSUME NEW i \in S PROVE r[i] = SumFunctionOnSet(row[i], Words)
    BY DEF SumsOf
  <2> DEFINE g == row[i]
             key == ts[i].key
  <2>1. /\ key \in Words /\ g[key] = ts[i].c * entry[key]
        /\ \A v \in Words \ {key} : g[v] = 0
    BY <1>4
  <2>2. IntOn(g, Words)
    BY <1>5 DEF IntOn
  <2>3. r[i] = ts[i].c * entry[key]
    BY <1>4 DEF ValuesAlong, WeighedBy
  <2> HIDE DEF g, key, r
  <2>4. SumFunctionOnSet(g, Words) = SumFunctionOnSet(g, {key})
    <3>1. {key} \in SUBSET Words
      BY <2>1
    <3> QED BY <1>3, <2>1, <2>2, <3>1, SumRestrict
  <2>5. SumFunctionOnSet(g, {key}) = g[key]
    <3>1. g[key] \in Int
      BY <2>1, <2>2 DEF IntOn
    <3> QED BY <3>1, SumOfOne
  <2> QED BY <2>1, <2>3, <2>4, <2>5 DEF g
<1>8. SumsOf(c, col, Words, S)
  <2> SUFFICES ASSUME NEW v \in Words PROVE c[v] = SumFunctionOnSet(col[v], S)
    BY DEF SumsOf
  <2> DEFINE g == col[v]
             e == Coefficient(v)
             h == ValuesAlong(e, ts)
  <2>1. IntOn(e, Terms) /\ Collect(ts, v) = SumAlong(e, ts) /\ Collect(ts, v) \in Int
    BY CollectIs
  <2>2. IntOn(h, S)
    <3> HIDE DEF e
    <3> QED BY <2>1, TotalInt
  <2>3. entry[v] \in Int
    BY DEF IntOn
  <2>4. Scales(g, entry[v], h, S)
    <3>1. ASSUME NEW i \in S PROVE g[i] = entry[v] * h[i]
      <4>1. h[i] = IF ts[i].key = v THEN ts[i].c ELSE 0
        BY <1>4 DEF ValuesAlong, Coefficient
      <4>2. g[i] = part(i, v)
        OBVIOUS
      <4>3. ts[i].c \in Int
        BY <1>4
      <4>4. CASE ts[i].key = v
        <5>1. h[i] = ts[i].c /\ g[i] = ts[i].c * entry[v]
          BY <4>1, <4>2, <4>4
        <5> HIDE DEF g, h
        <5> QED BY <2>3, <4>3, <5>1
      <4>5. CASE ts[i].key # v
        <5>1. h[i] = 0 /\ g[i] = 0
          BY <4>1, <4>2, <4>5
        <5> HIDE DEF g, h
        <5> QED BY <2>3, <5>1
      <4> QED BY <4>4, <4>5
    <3> HIDE DEF g, h
    <3> QED BY <3>1 DEF Scales
  <2>5. SumFunctionOnSet(g, S) = entry[v] * SumFunctionOnSet(h, S)
    <3> HIDE DEF g, h
    <3> QED BY <1>2, <2>2, <2>3, <2>4, SumScale
  <2>6. SumAlong(e, ts) = SumFunctionOnSet(h, S)
    BY DEF SumAlong
  <2>7. c[v] = Collect(ts, v) * entry[v]
    OBVIOUS
  <2> HIDE DEF h, c, e
  <2> QED BY <2>1, <2>3, <2>5, <2>6, <2>7
<1>9. SumFunctionOnSet(r, S) = SumFunctionOnSet(c, Words)
  <2> HIDE DEF r, c, row, col, S
  <2> QED BY <1>2, <1>3, <1>6, <1>7, <1>8, SumSwap
<1>10. SumAlong(f, ts) = SumFunctionOnSet(r, S) /\ Image(ts, entry) = SumFunctionOnSet(c, Words)
  BY DEF SumAlong, Image
<1>11. SumFunctionOnSet(r, S) \in Int
  <2> HIDE DEF r, S
  <2> QED BY <1>2, SumInt
<1> QED BY <1>1, <1>9, <1>10, <1>11

\* out has what each term becomes: Moves for one term, Feeds for several.
Moves(out, ts, entry, w) ==
  \A i \in 1 .. Len(ts) : Coefficient(w)[out[i]] = ts[i].c * entry[ts[i].key]
Feeds(seqs, ts, entry, w) ==
  \A i \in 1 .. Len(ts) : Collect(seqs[i], w) = ts[i].c * entry[ts[i].key]

\* Terms that become one term each.
LEMMA MapCollect ==
  ASSUME NEW ts \in Seq(Terms), NEW out \in Seq(Terms), Len(out) = Len(ts), NEW w,
         NEW entry, IntOn(entry, Words), Moves(out, ts, entry, w)
  PROVE  Collect(out, w) = Image(ts, entry)
<1> DEFINE f == WeighedBy(entry)
           g == ValuesAlong(Coefficient(w), out)
<1>1. IntOn(f, Terms) /\ SumAlong(f, ts) = Image(ts, entry)
  BY ByWords
<1>2. ASSUME NEW i \in 1 .. Len(ts) PROVE g[i] = f[ts[i]]
  <2>1. g[i] = Coefficient(w)[out[i]]
    BY DEF ValuesAlong
  <2>2. ts[i] \in Terms
    OBVIOUS
  <2>3. f[ts[i]] = ts[i].c * entry[ts[i].key]
    BY <2>2 DEF WeighedBy
  <2> QED BY <2>1, <2>3 DEF Moves
<1>3. SumFunctionOnSet(g, 1 .. Len(ts)) = SumAlong(f, ts)
  <2> HIDE DEF f, g
  <2> QED BY <1>1, <1>2, TotalIs
<1>4. Collect(out, w) = SumFunctionOnSet(g, 1 .. Len(ts))
  BY CollectIs DEF SumAlong
<1> QED BY <1>1, <1>3, <1>4

\* Terms that become a sequence of terms each.
LEMMA FlatCollect ==
  ASSUME NEW ts \in Seq(Terms), NEW seqs \in Seq(Seq(Terms)), Len(seqs) = Len(ts), NEW w,
         NEW entry, IntOn(entry, Words), Feeds(seqs, ts, entry, w)
  PROVE  /\ FlattenSeq(seqs) \in Seq(Terms)
         /\ Collect(FlattenSeq(seqs), w) = Image(ts, entry)
<1> DEFINE f == WeighedBy(entry)
           e == Coefficient(w)
           h == [i \in 1 .. Len(ts) |-> Collect(seqs[i], w)]
           flat == FlattenSeq(seqs)
<1>1. IntOn(f, Terms) /\ SumAlong(f, ts) = Image(ts, entry)
  BY ByWords
<1>2. flat \in Seq(Terms)
  BY FlattenElements
<1>3. \A i \in 1 .. Len(ts) : h[i] = f[ts[i]]
  <2> SUFFICES ASSUME NEW i \in 1 .. Len(ts) PROVE h[i] = f[ts[i]]
    OBVIOUS
  <2>1. h[i] = Collect(seqs[i], w)
    OBVIOUS
  <2>2. ts[i] \in Terms
    OBVIOUS
  <2>3. f[ts[i]] = ts[i].c * entry[ts[i].key]
    BY <2>2 DEF WeighedBy
  <2> QED BY <2>1, <2>3 DEF Feeds
<1>4. SumFunctionOnSet(h, 1 .. Len(ts)) = SumAlong(f, ts)
  <2> HIDE DEF f, h
  <2> QED BY <1>1, <1>3, TotalIs
<1>5. IntOn(e, Terms) /\ Collect(flat, w) = SumAlong(e, flat)
  BY <1>2, CollectIs
<1>6. \A i \in 1 .. Len(seqs) : h[i] = SumAlong(e, seqs[i])
  <2> SUFFICES ASSUME NEW i \in 1 .. Len(seqs) PROVE h[i] = SumAlong(e, seqs[i])
    OBVIOUS
  <2>1. seqs[i] \in Seq(Terms)
    BY ElementOfSeq
  <2>2. Collect(seqs[i], w) = SumAlong(e, seqs[i])
    BY <2>1, CollectIs
  <2> QED BY <2>2
<1>7. SumAlong(e, flat) = SumFunctionOnSet(h, 1 .. Len(seqs))
  <2> HIDE DEF e, h
  <2> QED BY <1>5, <1>6, TotalFlatten
<1> HIDE DEF f, e, h
<1> QED BY <1>1, <1>2, <1>4, <1>5, <1>7

---------------------------------------------------------------------------
(* Operations                                                              *)

Supplied(op, values) ==
  IsOperation(op) /\ \A i \in 1 .. Len(RefsOf(op)) : IsScalar(Resolve(op.refs[i], values))

OneScalar(op, values) == IsScalar(Resolve(op.refs[1], values)) /\ AreRefs(op.refs, 1)

\* An operation by kind.
LEMMA Kinds ==
  ASSUME NEW op, NEW values, Supplied(op, values)
  PROVE  /\ op.kind \in {"clifford1", "clifford2", "rotation", "ptm", "depolarizing",
                         "phasedamping", "amplitudedamping"}
         /\ op.kind = "clifford1" =>
              op.gate \in {"x", "y", "z", "h", "s", "sdg"} /\ OneWire(op.wires)
         /\ op.kind = "clifford2" => op.gate \in {"cnot", "cz", "swap"} /\ TwoWires(op.wires)
         /\ op.kind = "rotation" =>
              /\ op.axis \in 1 .. 3
              /\ OneWire(op.wires) \/ TwoWires(op.wires)
              /\ AreRefs(op.refs, 1) /\ IsScalar(Resolve(op.refs[1], values))
         /\ op.kind = "ptm" =>
              /\ \/ OneWire(op.wires) /\ Len(op.rows) = 4
                 \/ TwoWires(op.wires) /\ Len(op.rows) = 16
              /\ op.rows \in Seq(Seq((0 .. Len(op.rows) - 1) \X (Int \ {0})))
         /\ op.kind = "depolarizing" =>
              /\ OneWire(op.wires) /\ AreRefs(op.refs, 3)
              /\ \A i \in 1 .. 3 : IsScalar(Resolve(op.refs[i], values))
         /\ op.kind = "phasedamping" =>
              /\ OneWire(op.wires) /\ AreRefs(op.refs, 1)
              /\ IsScalar(Resolve(op.refs[1], values))
         /\ op.kind = "amplitudedamping" =>
              /\ OneWire(op.wires) /\ AreRefs(op.refs, 2)
              /\ \A i \in 1 .. 2 : IsScalar(Resolve(op.refs[i], values))
<1>1. IsOperation(op)
  BY DEF Supplied
<1>2. op.kind \in {"clifford1", "clifford2", "rotation", "ptm", "depolarizing",
                   "phasedamping", "amplitudedamping"}
  BY <1>1 DEF IsOperation
<1>3. \A i \in 1 .. Len(RefsOf(op)) : IsScalar(Resolve(op.refs[i], values))
  BY DEF Supplied
<1>4. op.kind = "clifford1" => op.gate \in {"x", "y", "z", "h", "s", "sdg"} /\ OneWire(op.wires)
  BY <1>1 DEF IsOperation
<1>5. op.kind = "clifford2" => op.gate \in {"cnot", "cz", "swap"} /\ TwoWires(op.wires)
  BY <1>1 DEF IsOperation
<1>6. op.kind = "rotation" => /\ op.axis \in 1 .. 3
                              /\ OneWire(op.wires) \/ TwoWires(op.wires)
                              /\ AreRefs(op.refs, 1)
  BY <1>1 DEF IsOperation
<1>7. op.kind = "ptm" => /\ \/ OneWire(op.wires) /\ Len(op.rows) = 4
                            \/ TwoWires(op.wires) /\ Len(op.rows) = 16
                         /\ op.rows \in Seq(Seq((0 .. Len(op.rows) - 1) \X (Int \ {0})))
  BY <1>1 DEF IsOperation
<1>8. op.kind = "depolarizing" => OneWire(op.wires) /\ AreRefs(op.refs, 3)
  BY <1>1 DEF IsOperation
<1>9. op.kind = "phasedamping" => OneWire(op.wires) /\ AreRefs(op.refs, 1)
  BY <1>1 DEF IsOperation
<1>10. op.kind = "amplitudedamping" => OneWire(op.wires) /\ AreRefs(op.refs, 2)
  BY <1>1 DEF IsOperation
<1>11. op.kind \in {"rotation", "depolarizing", "phasedamping", "amplitudedamping"} =>
         RefsOf(op) = op.refs
  BY DEF RefsOf
<1>12. \A n : AreRefs(op.refs, n) => Len(op.refs) = n
  BY DEF AreRefs
<1>13. op.kind = "rotation" => IsScalar(Resolve(op.refs[1], values))
  <2> SUFFICES ASSUME op.kind = "rotation" PROVE IsScalar(Resolve(op.refs[1], values))
    OBVIOUS
  <2>1. Len(RefsOf(op)) = 1
    BY <1>6, <1>11, <1>12
  <2> QED BY <1>3, <2>1
<1>14. op.kind = "depolarizing" => \A i \in 1 .. 3 : IsScalar(Resolve(op.refs[i], values))
  <2> SUFFICES ASSUME op.kind = "depolarizing"
               PROVE  \A i \in 1 .. 3 : IsScalar(Resolve(op.refs[i], values))
    OBVIOUS
  <2>1. Len(RefsOf(op)) = 3
    BY <1>8, <1>11, <1>12
  <2> QED BY <1>3, <2>1
<1>15. op.kind = "phasedamping" => IsScalar(Resolve(op.refs[1], values))
  <2> SUFFICES ASSUME op.kind = "phasedamping" PROVE IsScalar(Resolve(op.refs[1], values))
    OBVIOUS
  <2>1. Len(RefsOf(op)) = 1
    BY <1>9, <1>11, <1>12
  <2> QED BY <1>3, <2>1
<1>16. op.kind = "amplitudedamping" => \A i \in 1 .. 2 : IsScalar(Resolve(op.refs[i], values))
  <2> SUFFICES ASSUME op.kind = "amplitudedamping"
               PROVE  \A i \in 1 .. 2 : IsScalar(Resolve(op.refs[i], values))
    OBVIOUS
  <2>1. Len(RefsOf(op)) = 2
    BY <1>10, <1>11, <1>12
  <2> QED BY <1>3, <2>1
<1> QED BY <1>2, <1>4, <1>5, <1>6, <1>7, <1>8, <1>9, <1>10, <1>13, <1>14, <1>15, <1>16

\* The conjugation tables permute the local words, up to a sign.
LEMMA CliffordTables ==
  /\ \A g \in {"x", "y", "z", "h", "s", "sdg"}, k \in 1 .. 4 :
       Clifford1Code[g][k] \in Codes /\ Clifford1Sign[g][k] \in Int
  /\ \A g \in {"x", "y", "z", "h", "s", "sdg"}, j, k \in 1 .. 4 :
       Clifford1Code[g][j] = Clifford1Code[g][k] => j = k
  /\ \A g \in {"cnot", "cz", "swap"}, k \in 1 .. 16 :
       /\ Clifford2Table[g][k][1] \in Codes /\ Clifford2Table[g][k][2] \in Codes
       /\ Clifford2Table[g][k][3] \in Int
  /\ \A g \in {"cnot", "cz", "swap"}, j, k \in 1 .. 16 :
       /\ Clifford2Table[g][j][1] = Clifford2Table[g][k][1]
       /\ Clifford2Table[g][j][2] = Clifford2Table[g][k][2]
       => j = k
<1>1. ASSUME NEW k \in 1 .. 4 PROVE k = 1 \/ k = 2 \/ k = 3 \/ k = 4
  OBVIOUS
<1>2. \A g \in {"x", "y", "z", "h", "s", "sdg"}, k \in 1 .. 4 :
       Clifford1Code[g][k] \in Codes /\ Clifford1Sign[g][k] \in Int
  BY <1>1 DEF Clifford1Code, Clifford1Sign, Codes
<1>3. \A g \in {"x", "y", "z", "h", "s", "sdg"}, j, k \in 1 .. 4 :
       Clifford1Code[g][j] = Clifford1Code[g][k] => j = k
  BY <1>1 DEF Clifford1Code
<1> DEFINE cnot == Clifford2Table["cnot"]
           cz == Clifford2Table["cz"]
           swap == Clifford2Table["swap"]
<1>4. \A k \in 1 .. 16 : swap[k] = <<(k - 1) % 4, (k - 1) \div 4, 1>>
  BY DEF Clifford2Table
<1>5. ASSUME NEW k \in 1 .. 16
      PROVE  cnot[k][1] \in Codes /\ cnot[k][2] \in Codes /\ cnot[k][3] \in Int
  BY DEF Clifford2Table, Codes
<1>6. ASSUME NEW k \in 1 .. 16
      PROVE  cz[k][1] \in Codes /\ cz[k][2] \in Codes /\ cz[k][3] \in Int
  BY DEF Clifford2Table, Codes
<1>7. ASSUME NEW j \in 1 .. 16, NEW k \in 1 .. 16, cnot[j][1] = cnot[k][1], cnot[j][2] = cnot[k][2]
      PROVE  j = k
  BY <1>7 DEF Clifford2Table
<1>8. ASSUME NEW j \in 1 .. 16, NEW k \in 1 .. 16, cz[j][1] = cz[k][1], cz[j][2] = cz[k][2]
      PROVE  j = k
  BY <1>8 DEF Clifford2Table
<1> HIDE DEF cnot, cz, swap
<1>9. ASSUME NEW k \in 1 .. 16
      PROVE  swap[k][1] \in Codes /\ swap[k][2] \in Codes /\ swap[k][3] \in Int
  <2>1. (k - 1) % 4 \in 0 .. 3 /\ (k - 1) \div 4 \in 0 .. 3
    OBVIOUS
  <2> QED BY <1>4, <2>1 DEF Codes
<1>10. ASSUME NEW j \in 1 .. 16, NEW k \in 1 .. 16, swap[j][1] = swap[k][1],
              swap[j][2] = swap[k][2]
       PROVE  j = k
  <2>1. (j - 1) % 4 = (k - 1) % 4 /\ (j - 1) \div 4 = (k - 1) \div 4
    BY <1>4, <1>10
  <2> QED BY <2>1
<1>11. \A g \in {"cnot", "cz", "swap"}, k \in 1 .. 16 :
       /\ Clifford2Table[g][k][1] \in Codes /\ Clifford2Table[g][k][2] \in Codes
       /\ Clifford2Table[g][k][3] \in Int
  BY <1>5, <1>6, <1>9 DEF cnot, cz, swap
<1>12. \A g \in {"cnot", "cz", "swap"}, j, k \in 1 .. 16 :
       /\ Clifford2Table[g][j][1] = Clifford2Table[g][k][1]
       /\ Clifford2Table[g][j][2] = Clifford2Table[g][k][2]
       => j = k
  BY <1>7, <1>8, <1>10 DEF cnot, cz, swap
<1> QED BY <1>2, <1>3, <1>11, <1>12

\* A Clifford image is a word with a sign.
LEMMA CliffordImageType ==
  ASSUME NEW op, NEW values, Supplied(op, values), op.kind \in {"clifford1", "clifford2"},
         NEW v \in Words
  PROVE  CliffordImage(op, v) \in Terms
<1>1. CASE op.kind = "clifford1"
  <2>1. PICK q \in Wires : op.wires = <<q>>
    BY <1>1, Kinds DEF OneWire
  <2>2. v[q] \in Codes /\ v[q] + 1 \in 1 .. 4 /\ op.wires[1] = q
    BY <2>1 DEF Words, Codes
  <2>3. op.gate \in {"x", "y", "z", "h", "s", "sdg"}
    BY <1>1, Kinds
  <2>4. /\ Clifford1Code[op.gate][v[q] + 1] \in Codes
        /\ Clifford1Sign[op.gate][v[q] + 1] \in Int
    BY <2>2, <2>3, CliffordTables
  <2>5. [v EXCEPT ![q] = Clifford1Code[op.gate][v[q] + 1]] \in Words
    BY <2>4 DEF Words
  <2> QED BY <1>1, <2>2, <2>4, <2>5 DEF CliffordImage, Terms, Term
<1>2. CASE op.kind = "clifford2"
  <2>1. PICK p \in Wires, q \in Wires : p # q /\ op.wires = <<p, q>>
    BY <1>2, Kinds DEF TwoWires
  <2>2. v[p] \in 0 .. 3 /\ v[q] \in 0 .. 3 /\ op.wires[1] = p /\ op.wires[2] = q
    BY <2>1 DEF Words, Codes
  <2> DEFINE k == 4 * v[p] + v[q] + 1
  <2>3. k \in 1 .. 16
    BY <2>2
  <2>4. op.gate \in {"cnot", "cz", "swap"}
    BY <1>2, Kinds
  <2> DEFINE image == Clifford2Table[op.gate][k]
  <2>5. image[1] \in Codes /\ image[2] \in Codes /\ image[3] \in Int
    BY <2>3, <2>4, CliffordTables
  <2>6. CliffordImage(op, v) = Term([v EXCEPT ![p] = image[1], ![q] = image[2]], image[3])
    BY <1>2, <2>2 DEF CliffordImage
  <2> HIDE DEF image
  <2>7. [v EXCEPT ![p] = image[1], ![q] = image[2]] \in Words
    BY <2>5 DEF Words
  <2> QED BY <2>5, <2>6, <2>7, TermParts
<1> QED BY <1>1, <1>2

\* Different words have different Clifford images.
LEMMA CliffordInjective ==
  ASSUME NEW op, NEW values, Supplied(op, values), op.kind \in {"clifford1", "clifford2"},
         NEW v \in Words, NEW w \in Words, CliffordImage(op, v).key = CliffordImage(op, w).key
  PROVE  v = w
<1>1. CASE op.kind = "clifford1"
  <2>1. PICK q \in Wires : op.wires = <<q>>
    BY <1>1, Kinds DEF OneWire
  <2>2. v[q] + 1 \in 1 .. 4 /\ w[q] + 1 \in 1 .. 4 /\ op.wires[1] = q
    BY <2>1 DEF Words, Codes
  <2>3. op.gate \in {"x", "y", "z", "h", "s", "sdg"}
    BY <1>1, Kinds
  <2> DEFINE a == Clifford1Code[op.gate][v[q] + 1]
             b == Clifford1Code[op.gate][w[q] + 1]
  <2>4. [v EXCEPT ![q] = a] = [w EXCEPT ![q] = b]
    BY <1>1, <2>2 DEF CliffordImage, Term
  <2> HIDE DEF a, b
  <2>5. a = b /\ \A r \in Wires : r # q => v[r] = w[r]
    BY <2>4 DEF Words
  <2>6. v[q] + 1 = w[q] + 1
    BY <2>2, <2>3, <2>5, CliffordTables DEF a, b
  <2>7. v[q] = w[q]
    BY <2>6 DEF Words, Codes
  <2> QED BY <2>5, <2>7 DEF Words
<1>2. CASE op.kind = "clifford2"
  <2>1. PICK p \in Wires, q \in Wires : p # q /\ op.wires = <<p, q>>
    BY <1>2, Kinds DEF TwoWires
  <2>2. /\ v[p] \in 0 .. 3 /\ v[q] \in 0 .. 3 /\ w[p] \in 0 .. 3 /\ w[q] \in 0 .. 3
        /\ op.wires[1] = p /\ op.wires[2] = q
    BY <2>1 DEF Words, Codes
  <2> DEFINE j == 4 * v[p] + v[q] + 1
             k == 4 * w[p] + w[q] + 1
             a == Clifford2Table[op.gate][j]
             b == Clifford2Table[op.gate][k]
  <2>3. j \in 1 .. 16 /\ k \in 1 .. 16
    BY <2>2
  <2>4. op.gate \in {"cnot", "cz", "swap"}
    BY <1>2, Kinds
  <2>5. /\ CliffordImage(op, v) = Term([v EXCEPT ![p] = a[1], ![q] = a[2]], a[3])
        /\ CliffordImage(op, w) = Term([w EXCEPT ![p] = b[1], ![q] = b[2]], b[3])
    BY <1>2, <2>2 DEF CliffordImage
  <2> HIDE DEF a, b, j, k
  <2>6. [v EXCEPT ![p] = a[1], ![q] = a[2]] = [w EXCEPT ![p] = b[1], ![q] = b[2]]
    BY <2>5 DEF Term
  <2>7. a[1] = b[1] /\ a[2] = b[2] /\ \A r \in Wires : r # p /\ r # q => v[r] = w[r]
    BY <2>1, <2>6 DEF Words
  <2>8. j = k
    <3>1. /\ Clifford2Table[op.gate][j][1] = Clifford2Table[op.gate][k][1]
          /\ Clifford2Table[op.gate][j][2] = Clifford2Table[op.gate][k][2]
      BY <2>7 DEF a, b
    <3> QED BY <2>3, <2>4, <3>1, CliffordTables
  <2>9. v[p] = w[p] /\ v[q] = w[q]
    BY <2>2, <2>8 DEF j, k
  <2> QED BY <2>7, <2>9 DEF Words
<1> QED BY <1>1, <1>2

\* A scalar's numbers.
LEMMA ScalarParts ==
  ASSUME NEW x, IsScalar(x)
  PROVE  /\ x.cos \in Int /\ x.sin \in Int /\ x.norm \in Int
         /\ x.root \in 0 .. 2 /\ x.prob \in 0 .. 2
BY DEF IsScalar

\* A product with a generator is a word.
LEMMA ProductType ==
  ASSUME NEW axis \in 1 .. 3, NEW wires, NEW v \in Words
  PROVE  Product(axis, wires, v) \in Words
<1>1. \A q \in Wires : v[q] \in 0 .. 3
  BY DEF Words, Codes
<1>2. \A a \in 1 .. 3, b \in 0 .. 3 : LocalCode(a, b) \in 0 .. 3
  BY DEF LocalCode
<1>3. \A q \in Wires :
        (IF q \in Range(wires) THEN LocalCode(axis, v[q]) ELSE v[q]) \in 0 .. 3
  BY <1>1, <1>2
<1> QED BY <1>3 DEF Product, Words, Codes

\* Its phase is an exponent of i.
LEMMA PhaseType ==
  ASSUME NEW axis \in 1 .. 3, NEW wires, OneWire(wires) \/ TwoWires(wires), NEW v \in Words
  PROVE  ProductPhase(axis, wires, v) \in 0 .. 3
<1> DEFINE f == [q \in Wires |-> LocalPhase(axis, v[q])]
           g == [i \in DOMAIN wires |-> LocalPhase(axis, v[wires[i]])]
<1>1. wires \in Seq(Wires)
  <2>1. \A p, q \in Wires : <<q>> \in Seq(Wires) /\ <<p, q>> \in Seq(Wires)
    OBVIOUS
  <2> QED BY <2>1 DEF OneWire, TwoWires
<1>2. IntOn(f, Wires)
  <2>1. \A b : LocalPhase(axis, b) \in Int
    BY DEF LocalPhase
  <2> QED BY <2>1 DEF IntOn
<1>3. \A i \in 1 .. Len(wires) : g[i] = f[wires[i]]
  BY <1>1
<1>4. DOMAIN g = 1 .. Len(wires)
  BY <1>1
<1>5. SumOver(wires, LAMBDA q : LocalPhase(axis, v[q])) = SumFunction(g)
  BY DEF SumOver
<1> HIDE DEF f, g
<1>6. SumFunctionOnSet(g, 1 .. Len(wires)) = SumAlong(f, wires) /\ SumAlong(f, wires) \in Int
  BY <1>1, <1>2, <1>3, TotalIs, TotalInt
<1>7. SumOver(wires, LAMBDA q : LocalPhase(axis, v[q])) \in Int
  BY <1>4, <1>5, <1>6 DEF SumFunction
<1> QED BY <1>7 DEF ProductPhase

\* What a transfer matrix row makes of a word.
LEMMA PtmType ==
  ASSUME NEW op, NEW values, Supplied(op, values), op.kind = "ptm", NEW t \in Terms
  PROVE  /\ PtmContributions(op, t) \in Seq(Terms)
         /\ Len(PtmContributions(op, t)) = Len(PtmRow(op, t.key))
         /\ LocalIndex(t.key, op.wires) + 1 \in 1 .. Len(op.rows)
         /\ \A i \in 1 .. Len(PtmRow(op, t.key)) :
              /\ PtmRow(op, t.key)[i][2] \in Int
              /\ PtmContributions(op, t)[i].key
                   = WithLocal(t.key, op.wires, PtmRow(op, t.key)[i][1])
              /\ PtmContributions(op, t)[i].c = t.c * PtmRow(op, t.key)[i][2]
<1> DEFINE n == Len(op.rows)
           row == PtmRow(op, t.key)
<1>1. t.key \in Words /\ t.c \in Int
  BY TermParts
<1>2. op.rows \in Seq(Seq((0 .. n - 1) \X (Int \ {0})))
  BY Kinds
<1>3. LocalIndex(t.key, op.wires) + 1 \in 1 .. n
      /\ \A index \in 0 .. n - 1 : WithLocal(t.key, op.wires, index) \in Words
  <2>1. CASE OneWire(op.wires) /\ n = 4
    <3>1. PICK q \in Wires : op.wires = <<q>>
      BY <2>1 DEF OneWire
    <3>2. t.key[q] \in 0 .. 3 /\ Len(op.wires) = 1 /\ op.wires[1] = q
      BY <1>1, <3>1 DEF Words, Codes
    <3>3. LocalIndex(t.key, op.wires) = t.key[q]
      BY <3>2 DEF LocalIndex
    <3>4. ASSUME NEW index \in 0 .. 3 PROVE WithLocal(t.key, op.wires, index) \in Words
      <4>1. WithLocal(t.key, op.wires, index) = [t.key EXCEPT ![q] = index]
        BY <3>2 DEF WithLocal
      <4> QED BY <1>1, <4>1 DEF Words, Codes
    <3> HIDE DEF n
    <3> QED BY <2>1, <3>2, <3>3, <3>4
  <2>2. CASE TwoWires(op.wires) /\ n = 16
    <3>1. PICK p \in Wires, q \in Wires : p # q /\ op.wires = <<p, q>>
      BY <2>2 DEF TwoWires
    <3>2. /\ t.key[p] \in 0 .. 3 /\ t.key[q] \in 0 .. 3 /\ Len(op.wires) = 2
          /\ op.wires[1] = p /\ op.wires[2] = q
      BY <1>1, <3>1 DEF Words, Codes
    <3>3. LocalIndex(t.key, op.wires) = 4 * t.key[p] + t.key[q]
      BY <3>2 DEF LocalIndex
    <3>4. ASSUME NEW index \in 0 .. 15 PROVE WithLocal(t.key, op.wires, index) \in Words
      <4>1. WithLocal(t.key, op.wires, index)
              = [t.key EXCEPT ![p] = index \div 4, ![q] = index % 4]
        BY <3>2 DEF WithLocal
      <4>2. index \div 4 \in 0 .. 3 /\ index % 4 \in 0 .. 3
        OBVIOUS
      <4> QED BY <1>1, <4>1, <4>2 DEF Words, Codes
    <3> HIDE DEF n
    <3> QED BY <2>2, <3>2, <3>3, <3>4
  <2> QED BY <2>1, <2>2, Kinds
<1>4. row \in Seq((0 .. n - 1) \X (Int \ {0}))
  <2> HIDE DEF n
  <2> QED BY <1>2, <1>3 DEF PtmRow, n
<1> HIDE DEF row, n
<1>5. PtmContributions(op, t) =
        [i \in 1 .. Len(row) |-> Term(WithLocal(t.key, op.wires, row[i][1]), t.c * row[i][2])]
  BY <1>4 DEF PtmContributions, row
<1>6. ASSUME NEW i \in 1 .. Len(row)
      PROVE  /\ PtmContributions(op, t)[i] \in Terms /\ row[i][2] \in Int
             /\ PtmContributions(op, t)[i].key = WithLocal(t.key, op.wires, row[i][1])
             /\ PtmContributions(op, t)[i].c = t.c * row[i][2]
  <2>1. row[i] \in (0 .. n - 1) \X (Int \ {0})
    BY <1>4
  <2>2. row[i][1] \in 0 .. n - 1 /\ row[i][2] \in Int
    BY <2>1
  <2>3. t.c * row[i][2] \in Int
    BY <1>1, <2>2
  <2>4. PtmContributions(op, t)[i] = Term(WithLocal(t.key, op.wires, row[i][1]), t.c * row[i][2])
    BY <1>5
  <2>5. WithLocal(t.key, op.wires, row[i][1]) \in Words
    BY <1>3, <2>2
  <2> QED BY <2>2, <2>3, <2>4, <2>5, TermParts
<1>7. Len(row) \in Nat
  BY <1>4
<1>8. PtmContributions(op, t) \in Seq(Terms) /\ Len(PtmContributions(op, t)) = Len(row)
  <2> DEFINE out == PtmContributions(op, t)
  <2>1. out = [i \in 1 .. Len(row) |-> out[i]]
    BY <1>5
  <2> HIDE DEF out
  <2> QED BY <1>6, <1>7, <2>1 DEF out
<1> QED BY <1>3, <1>6, <1>8 DEF row, n

---------------------------------------------------------------------------
(* Edges and the matrix of an operation                                    *)

EdgeSet == [key : Words, m : Int, d : Seq(Int \X Int)]
\* What an edge gives the entry of w.
EdgeWeight(w) == [e \in EdgeSet |-> IF e.key = w THEN e.m ELSE 0]

\* An edge has a word, an integer and a derivative by slots.
LEMMA EdgeParts ==
  /\ \A e \in EdgeSet : e.key \in Words /\ e.m \in Int /\ e.d \in Seq(Int \X Int)
  /\ \A key \in Words, m \in Int, d \in Seq(Int \X Int) :
       /\ Edge(key, m, d) \in EdgeSet
       /\ Edge(key, m, d).key = key /\ Edge(key, m, d).m = m /\ Edge(key, m, d).d = d
<1>1. ASSUME NEW e \in EdgeSet PROVE e.key \in Words /\ e.m \in Int /\ e.d \in Seq(Int \X Int)
  BY DEF EdgeSet
<1>2. ASSUME NEW key \in Words, NEW m \in Int, NEW d \in Seq(Int \X Int)
      PROVE  /\ Edge(key, m, d) \in EdgeSet
             /\ Edge(key, m, d).key = key /\ Edge(key, m, d).m = m /\ Edge(key, m, d).d = d
  BY DEF EdgeSet, Edge
<1> QED BY <1>1, <1>2

\* An entry adds up the edges to a word.
LEMMA EntryIs ==
  ASSUME NEW op, NEW values, NEW v, Edges(op, v, values) \in Seq(EdgeSet), NEW w
  PROVE  /\ IntOn(EdgeWeight(w), EdgeSet)
         /\ Entry(op, values, v, w) = SumAlong(EdgeWeight(w), Edges(op, v, values))
         /\ Entry(op, values, v, w) \in Int
<1> DEFINE edges == Edges(op, v, values)
           f == EdgeWeight(w)
           g == [i \in DOMAIN edges |-> IF edges[i].key = w THEN edges[i].m ELSE 0]
<1>1. IntOn(f, EdgeSet)
  BY EdgeParts DEF IntOn, EdgeWeight
<1>2. Entry(op, values, v, w) = SumFunctionOnSet(g, 1 .. Len(edges))
  <2>1. DOMAIN g = 1 .. Len(edges)
    OBVIOUS
  <2>2. Entry(op, values, v, w) = SumFunction(g)
    BY DEF Entry, SumOver
  <2> QED BY <2>1, <2>2 DEF SumFunction
<1>3. \A i \in 1 .. Len(edges) : g[i] = f[edges[i]]
  BY DEF EdgeWeight
<1> HIDE DEF f, g, edges
<1>4. SumFunctionOnSet(g, 1 .. Len(edges)) = SumAlong(f, edges) /\ SumAlong(f, edges) \in Int
  BY <1>1, <1>3, TotalIs, TotalInt DEF edges
<1> QED BY <1>1, <1>2, <1>4 DEF f, edges

\* Derivatives by reference become derivatives by slot.
LEMMA ForSlotsType ==
  ASSUME NEW op, NEW n \in Nat, AreRefs(op.refs, n), NEW derivatives \in Seq((1 .. n) \X Int)
  PROVE  ForSlots(op, derivatives) \in Seq(Int \X Int)
<1> DEFINE places == {i \in DOMAIN derivatives : op.refs[derivatives[i][1]].slot # NoSlot}
           dynamic == Kept(derivatives, places)
<1>1. dynamic \in Seq((1 .. n) \X Int)
  <2> HIDE DEF places
  <2> QED BY KeptElements
<1>2. ForSlots(op, derivatives) =
        [i \in DOMAIN dynamic |-> <<op.refs[dynamic[i][1]].slot, dynamic[i][2]>>]
  BY DEF ForSlots, KeepIf
<1> HIDE DEF dynamic
<1>3. \A i \in 1 .. n : op.refs[i].slot \in Int
  BY DEF AreRefs, IsRef, NoSlot
<1>4. ASSUME NEW i \in 1 .. Len(dynamic)
      PROVE  <<op.refs[dynamic[i][1]].slot, dynamic[i][2]>> \in Int \X Int
  <2>1. dynamic[i] \in (1 .. n) \X Int
    BY <1>1
  <2>2. dynamic[i][1] \in 1 .. n /\ dynamic[i][2] \in Int
    BY <2>1
  <2> QED BY <1>3, <2>2
<1>5. DOMAIN dynamic = 1 .. Len(dynamic) /\ Len(dynamic) \in Nat
  BY <1>1
<1> QED BY <1>2, <1>4, <1>5

\* A short term sequence collected.
LEMMA CollectShort ==
  ASSUME NEW t \in Terms, NEW u \in Terms, NEW w
  PROVE  /\ <<t>> \in Seq(Terms) /\ <<t, u>> \in Seq(Terms)
         /\ Collect(<<t>>, w) = IF t.key = w THEN t.c ELSE 0
         /\ Collect(<<t, u>>, w) = Coefficient(w)[t] + Coefficient(w)[u]
<1>1. <<t>> \in Seq(Terms) /\ <<t, u>> \in Seq(Terms)
  OBVIOUS
<1>2. /\ IntOn(Coefficient(w), Terms)
      /\ Collect(<<t>>, w) = SumAlong(Coefficient(w), <<t>>)
      /\ Collect(<<t, u>>, w) = SumAlong(Coefficient(w), <<t, u>>)
  BY <1>1, CollectIs
<1>3. /\ Collect(<<t>>, w) = Coefficient(w)[t]
      /\ Collect(<<t, u>>, w) = Coefficient(w)[t] + Coefficient(w)[u]
  BY <1>2, TotalShort
<1>4. \A x \in Terms : Coefficient(w)[x] = IF x.key = w THEN x.c ELSE 0
  BY DEF Coefficient
<1> QED BY <1>1, <1>3, <1>4

\* So is an entry of at most two edges.
LEMMA EntryShort ==
  ASSUME NEW op, NEW values, NEW v, NEW e \in EdgeSet, NEW f \in EdgeSet, NEW w
  PROVE  /\ Edges(op, v, values) = <<e>> =>
              /\ Edges(op, v, values) \in Seq(EdgeSet)
              /\ Entry(op, values, v, w) = IF e.key = w THEN e.m ELSE 0
         /\ Edges(op, v, values) = <<e, f>> =>
              /\ Edges(op, v, values) \in Seq(EdgeSet)
              /\ Entry(op, values, v, w) =
                   (IF e.key = w THEN e.m ELSE 0) + (IF f.key = w THEN f.m ELSE 0)
<1> DEFINE edges == Edges(op, v, values)
<1>1. \A x \in EdgeSet : EdgeWeight(w)[x] = IF x.key = w THEN x.m ELSE 0
  BY DEF EdgeWeight
<1>2. <<e>> \in Seq(EdgeSet) /\ <<e, f>> \in Seq(EdgeSet)
  OBVIOUS
<1>3. IntOn(EdgeWeight(w), EdgeSet)
  BY EdgeParts DEF IntOn, EdgeWeight
<1>4. /\ SumAlong(EdgeWeight(w), <<e>>) = EdgeWeight(w)[e]
      /\ SumAlong(EdgeWeight(w), <<e, f>>) = EdgeWeight(w)[e] + EdgeWeight(w)[f]
  BY <1>3, TotalShort
<1>5. edges \in Seq(EdgeSet) => Entry(op, values, v, w) = SumAlong(EdgeWeight(w), edges)
  BY EntryIs
<1> HIDE DEF edges
<1>6. ASSUME edges = <<e>>
      PROVE  edges \in Seq(EdgeSet) /\ Entry(op, values, v, w) = IF e.key = w THEN e.m ELSE 0
  BY <1>1, <1>2, <1>4, <1>5, <1>6
<1>7. ASSUME edges = <<e, f>>
      PROVE  /\ edges \in Seq(EdgeSet)
             /\ Entry(op, values, v, w) =
                  (IF e.key = w THEN e.m ELSE 0) + (IF f.key = w THEN f.m ELSE 0)
  BY <1>1, <1>2, <1>4, <1>5, <1>7
<1> QED BY <1>6, <1>7 DEF edges
\* Clifford operations: one edge, to the image.
LEMMA CliffordEdges ==
  ASSUME NEW op, NEW values, Supplied(op, values), op.kind \in {"clifford1", "clifford2"},
         NEW v \in Words
  PROVE  /\ Edges(op, v, values) \in Seq(EdgeSet)
         /\ \A w \in Words : Entry(op, values, v, w) = Coefficient(w)[CliffordImage(op, v)]
<1> DEFINE image == CliffordImage(op, v)
           none == <<>>
           e == Edge(image.key, image.c, none)
<1>1. Edges(op, v, values) = <<e>>
  BY Zenon DEF Edges
<1>2. image \in Terms /\ image.key \in Words /\ image.c \in Int
  BY CliffordImageType, TermParts
<1>3. none \in Seq(Int \X Int)
  OBVIOUS
<1> HIDE DEF image, none
<1>4. e \in EdgeSet /\ e.key = image.key /\ e.m = image.c
  BY <1>2, <1>3, EdgeParts
<1> HIDE DEF e
<1>5. ASSUME NEW w \in Words
      PROVE  /\ Edges(op, v, values) \in Seq(EdgeSet)
             /\ Entry(op, values, v, w) = IF e.key = w THEN e.m ELSE 0
  BY <1>1, <1>4, EntryShort
<1>6. \A w \in Words : Coefficient(w)[image] = IF e.key = w THEN e.m ELSE 0
  BY <1>2, <1>4 DEF Coefficient
<1> QED BY <1>5, <1>6 DEF image

\* Arithmetic that the kernels need.
LEMMA Products ==
  ASSUME NEW a \in Int, NEW b \in Int, NEW c \in Int
  PROVE  /\ a * (b + c) = a * b + a * c /\ a * b * c = a * (b * c) /\ a * b = b * a
         /\ a * 0 = 0 /\ 0 * a = 0 /\ a * b \in Int /\ 1 * a = a
OBVIOUS

\* A rotation contributes to each word the term's coefficient times the entry.
LEMMA RotationKernel ==
  ASSUME NEW op, NEW values, Supplied(op, values), op.kind = "rotation", NEW t \in Terms
  PROVE  /\ Edges(op, t.key, values) \in Seq(EdgeSet)
         /\ RotationContributions(op, t, Resolve(op.refs[1], values)) \in Seq(Terms)
         /\ Len(RotationContributions(op, t, Resolve(op.refs[1], values))) <= 2
         /\ \A w \in Words :
              Collect(RotationContributions(op, t, Resolve(op.refs[1], values)), w)
                = t.c * Entry(op, values, t.key, w)
<1> DEFINE angle == Resolve(op.refs[1], values)
           v == t.key
           exponent == ProductPhase(op.axis, op.wires, v)
           sign == PhaseSign(exponent)
           product == Product(op.axis, op.wires, v)
           edges == Edges(op, v, values)
           out == RotationContributions(op, t, angle)
           none == <<>>
           toCos == ForSlots(op, <<<<1, -angle.sin>>>>)
           toSin == ForSlots(op, <<<<1, angle.cos * sign>>>>)
<1>1. v \in Words /\ t.c \in Int
  BY TermParts
<1>2. /\ op.axis \in 1 .. 3 /\ (OneWire(op.wires) \/ TwoWires(op.wires))
      /\ AreRefs(op.refs, 1) /\ IsScalar(angle)
  BY Kinds
<1>3. exponent \in 0 .. 3 /\ sign \in Int /\ product \in Words
  <2>1. exponent \in 0 .. 3 /\ product \in Words
    BY <1>1, <1>2, PhaseType, ProductType
  <2> HIDE DEF exponent, product
  <2> QED BY <2>1 DEF PhaseSign
<1>4. angle.cos \in Int /\ angle.sin \in Int /\ angle.norm \in Int
  <2> HIDE DEF angle
  <2> QED BY <1>2, ScalarParts
<1>5. edges = RotationEdges(op, v, angle)
  BY Zenon DEF Edges
<1>6. edges = IF ~Anticommutes(exponent) THEN <<Edge(v, angle.norm, none)>>
              ELSE <<Edge(v, angle.cos, toCos), Edge(product, angle.sin * sign, toSin)>>
  BY <1>5 DEF RotationEdges
<1>7. out = IF ~Anticommutes(exponent) THEN <<Term(v, t.c * angle.norm)>>
            ELSE <<Term(v, t.c * angle.cos)>> \o
                 (IF angle.sin = 0 THEN <<>>
                  ELSE <<Term(product, t.c * angle.sin * sign)>>)
  BY DEF RotationContributions
<1> HIDE DEF sign, exponent, product
<1>8. none \in Seq(Int \X Int) /\ toCos \in Seq(Int \X Int) /\ toSin \in Seq(Int \X Int)
  <2>1. -angle.sin \in Int /\ angle.cos * sign \in Int
    BY <1>3, <1>4
  <2>2. \A x \in Int : <<<<1, x>>>> \in Seq((1 .. 1) \X Int)
    OBVIOUS
  <2>3. <<<<1, -angle.sin>>>> \in Seq((1 .. 1) \X Int)
        /\ <<<<1, angle.cos * sign>>>> \in Seq((1 .. 1) \X Int)
    BY <2>1, <2>2
  <2>4. toCos \in Seq(Int \X Int) /\ toSin \in Seq(Int \X Int)
    BY <1>2, <2>3, ForSlotsType
  <2> QED BY <2>4
<1> HIDE DEF angle, edges, out, none, toCos, toSin, v
<1>9. CASE ~Anticommutes(exponent)
  <2> DEFINE e == Edge(v, angle.norm, none)
             u == Term(v, t.c * angle.norm)
  <2>1. e \in EdgeSet /\ e.key = v /\ e.m = angle.norm
    BY <1>1, <1>4, <1>8, EdgeParts
  <2>2. u \in Terms /\ u.key = v /\ u.c = t.c * angle.norm
    BY <1>1, <1>4, TermParts
  <2>3. edges = <<e>> /\ out = <<u>>
    BY <1>6, <1>7, <1>9
  <2> HIDE DEF e, u
  <2>4. out \in Seq(Terms) /\ Len(out) <= 2
    BY <2>2, <2>3
  <2>5. ASSUME NEW w \in Words
        PROVE  edges \in Seq(EdgeSet) /\ Collect(out, w) = t.c * Entry(op, values, v, w)
    <3>1. edges \in Seq(EdgeSet) /\ Entry(op, values, v, w) = IF v = w THEN angle.norm ELSE 0
      BY <2>1, <2>3, EntryShort DEF edges
    <3>2. Collect(out, w) = IF v = w THEN t.c * angle.norm ELSE 0
      BY <2>2, <2>3, CollectShort
    <3> QED BY <1>1, <3>1, <3>2
  <2> QED BY <1>1, <2>4, <2>5 DEF edges, out, angle, v
<1>10. CASE Anticommutes(exponent)
  <2> DEFINE e == Edge(v, angle.cos, toCos)
             f == Edge(product, angle.sin * sign, toSin)
             u == Term(v, t.c * angle.cos)
             x == Term(product, t.c * angle.sin * sign)
  <2>1. e \in EdgeSet /\ e.key = v /\ e.m = angle.cos
    BY <1>1, <1>4, <1>8, EdgeParts
  <2>2. f \in EdgeSet /\ f.key = product /\ f.m = angle.sin * sign
    <3>1. angle.sin * sign \in Int
      BY <1>3, <1>4
    <3> QED BY <1>3, <1>8, <3>1, EdgeParts
  <2>3. u \in Terms /\ u.key = v /\ u.c = t.c * angle.cos
    <3>1. t.c * angle.cos \in Int
      BY <1>1, <1>4
    <3> QED BY <1>1, <3>1, TermParts
  <2>4. x \in Terms /\ x.key = product /\ x.c = t.c * angle.sin * sign
    <3>1. t.c * angle.sin * sign \in Int
      BY <1>1, <1>3, <1>4
    <3> QED BY <1>3, <3>1, TermParts
  <2>5. edges = <<e, f>> /\ out = <<u>> \o (IF angle.sin = 0 THEN <<>> ELSE <<x>>)
    BY <1>6, <1>7, <1>10
  <2> HIDE DEF e, f, u, x
  <2>6. out = IF angle.sin = 0 THEN <<u>> ELSE <<u, x>>
    <3>1. <<u>> \o <<>> = <<u>> /\ <<u>> \o <<x>> = <<u, x>>
      BY <2>3, <2>4, ShortConcat
    <3> QED BY <2>5, <3>1
  <2>7. out \in Seq(Terms) /\ Len(out) <= 2
    <3>1. <<u>> \in Seq(Terms) /\ <<u, x>> \in Seq(Terms) /\ Len(<<u>>) = 1 /\ Len(<<u, x>>) = 2
      BY <2>3, <2>4
    <3> QED BY <2>6, <3>1
  <2>8. ASSUME NEW w \in Words
        PROVE  edges \in Seq(EdgeSet) /\ Collect(out, w) = t.c * Entry(op, values, v, w)
    <3> DEFINE a == IF v = w THEN angle.cos ELSE 0
               b == IF product = w THEN angle.sin * sign ELSE 0
    <3>1. edges \in Seq(EdgeSet) /\ Entry(op, values, v, w) = a + b
      BY <2>1, <2>2, <2>5, EntryShort DEF edges
    <3>2. a \in Int /\ b \in Int
      BY <1>3, <1>4
    <3>3. t.c * (a + b) = t.c * a + t.c * b
      <4> HIDE DEF a, b
      <4> QED BY <1>1, <3>2, Products
    <3>4. t.c * a = IF v = w THEN t.c * angle.cos ELSE 0
      BY <1>1, Products
    <3>5. t.c * b = IF product = w THEN t.c * angle.sin * sign ELSE 0
      BY <1>1, <1>3, <1>4, Products
    <3> HIDE DEF a, b
    <3>6. CASE angle.sin = 0
      <4>1. Collect(out, w) = IF v = w THEN t.c * angle.cos ELSE 0
        BY <2>3, <2>6, <3>6, CollectShort
      <4>2. t.c * angle.sin * sign = 0
        BY <1>1, <1>3, <3>6
      <4>3. t.c * b = 0
        BY <3>5, <4>2
      <4>4. t.c * a \in Int
        BY <1>1, <3>2
      <4>5. t.c * Entry(op, values, v, w) = t.c * a
        BY <3>1, <3>3, <4>3, <4>4
      <4> QED BY <3>1, <3>4, <4>1, <4>5
    <3>7. CASE angle.sin # 0
      <4>1. Collect(out, w) = (IF v = w THEN t.c * angle.cos ELSE 0)
                              + (IF product = w THEN t.c * angle.sin * sign ELSE 0)
        <5>1. out = <<u, x>>
          BY <2>6, <3>7
        <5>2. Collect(<<u, x>>, w) = Coefficient(w)[u] + Coefficient(w)[x]
          BY <2>3, <2>4, CollectShort
        <5>3. Coefficient(w)[u] = IF v = w THEN t.c * angle.cos ELSE 0
          BY <2>3 DEF Coefficient
        <5>4. Coefficient(w)[x] = IF product = w THEN t.c * angle.sin * sign ELSE 0
          BY <2>4 DEF Coefficient
        <5> QED BY <5>1, <5>2, <5>3, <5>4
      <4>2. Collect(out, w) = t.c * a + t.c * b
        BY <3>4, <3>5, <4>1
      <4> QED BY <3>1, <3>3, <4>2
    <3> QED BY <3>6, <3>7
  <2> QED BY <1>1, <2>7, <2>8 DEF edges, out, angle, v
<1> QED BY <1>9, <1>10

\* A transfer matrix contributes to each word the term's coefficient times the entry.
LEMMA PtmKernel ==
  ASSUME NEW op, NEW values, Supplied(op, values), op.kind = "ptm", NEW t \in Terms
  PROVE  /\ Edges(op, t.key, values) \in Seq(EdgeSet)
         /\ PtmContributions(op, t) \in Seq(Terms)
         /\ \A w \in Words :
              Collect(PtmContributions(op, t), w) = t.c * Entry(op, values, t.key, w)
<1> DEFINE v == t.key
           one == Term(v, 1)
           row == PtmRow(op, v)
           k == Len(row)
           unit == PtmContributions(op, one)
           out == PtmContributions(op, t)
           edges == Edges(op, v, values)
           none == <<>>
<1>1. v \in Words /\ t.c \in Int
  BY TermParts
<1>2. one \in Terms /\ one.key = v /\ one.c = 1
  <2> HIDE DEF v
  <2> QED BY <1>1, TermParts
<1>3. /\ out \in Seq(Terms) /\ Len(out) = k
      /\ \A i \in 1 .. k : /\ row[i][2] \in Int
                           /\ out[i].key = WithLocal(v, op.wires, row[i][1])
                           /\ out[i].c = t.c * row[i][2]
  BY PtmType
<1>4. /\ unit \in Seq(Terms) /\ Len(unit) = k
      /\ \A i \in 1 .. k : /\ unit[i].key = WithLocal(v, op.wires, row[i][1])
                           /\ unit[i].c = 1 * row[i][2]
  <2>1. /\ unit \in Seq(Terms) /\ Len(unit) = Len(PtmRow(op, one.key))
        /\ \A i \in 1 .. Len(PtmRow(op, one.key)) :
             /\ unit[i].key = WithLocal(one.key, op.wires, PtmRow(op, one.key)[i][1])
             /\ unit[i].c = one.c * PtmRow(op, one.key)[i][2]
    <3> HIDE DEF one
    <3> QED BY <1>2, PtmType
  <2> HIDE DEF one
  <2> QED BY <1>2, <2>1
<1>5. edges = [i \in DOMAIN unit |-> Edge(unit[i].key, unit[i].c, none)]
  BY Zenon DEF Edges
<1>6. none \in Seq(Int \X Int)
  OBVIOUS
<1> HIDE DEF unit, out, edges, row, none, one, v
<1>7. DOMAIN unit = 1 .. k /\ k \in Nat
  BY <1>4
<1>8. ASSUME NEW i \in 1 .. k
      PROVE  /\ edges[i] \in EdgeSet /\ edges[i].key = out[i].key /\ edges[i].m = row[i][2]
             /\ out[i].c = t.c * row[i][2] /\ row[i][2] \in Int
  <2>1. unit[i] \in Terms
    BY <1>4
  <2>2. unit[i].key \in Words /\ unit[i].c \in Int
    BY <2>1, TermParts
  <2>3. edges[i] = Edge(unit[i].key, unit[i].c, none)
    BY <1>5, <1>7
  <2>4. edges[i] \in EdgeSet /\ edges[i].key = unit[i].key /\ edges[i].m = unit[i].c
    BY <1>6, <2>2, <2>3, EdgeParts
  <2>5. unit[i].key = out[i].key /\ unit[i].c = row[i][2]
    BY <1>3, <1>4
  <2> QED BY <1>3, <2>4, <2>5
<1>9. edges \in Seq(EdgeSet) /\ Len(edges) = k
  <2>1. edges = [i \in 1 .. k |-> edges[i]]
    BY <1>5, <1>7
  <2> HIDE DEF k
  <2> QED BY <1>7, <1>8, <2>1
<1>10. ASSUME NEW w \in Words PROVE Collect(out, w) = t.c * Entry(op, values, v, w)
  <2> DEFINE S == 1 .. k
             ev == ValuesAlong(EdgeWeight(w), edges)
             cv == ValuesAlong(Coefficient(w), out)
  <2>1. /\ IntOn(EdgeWeight(w), EdgeSet)
        /\ Entry(op, values, v, w) = SumAlong(EdgeWeight(w), edges)
    BY <1>9, EntryIs DEF edges
  <2>2. Collect(out, w) = SumAlong(Coefficient(w), out)
    BY <1>3, CollectIs
  <2>3. IsFiniteSet(S) /\ IntOn(ev, S)
    BY <1>9, <2>1, TotalInt
  <2>4. Scales(cv, t.c, ev, S)
    <3>1. ASSUME NEW i \in S PROVE cv[i] = t.c * ev[i]
      <4>1. ev[i] = IF edges[i].key = w THEN edges[i].m ELSE 0
        BY <1>8, <1>9 DEF ValuesAlong, EdgeWeight
      <4>2. cv[i] = IF out[i].key = w THEN out[i].c ELSE 0
        BY <1>3 DEF ValuesAlong, Coefficient
      <4> HIDE DEF ev, cv
      <4> QED BY <1>1, <1>8, <4>1, <4>2
    <3> HIDE DEF ev, cv
    <3> QED BY <3>1 DEF Scales
  <2>5. SumFunctionOnSet(cv, S) = t.c * SumFunctionOnSet(ev, S)
    <3> HIDE DEF ev, cv, S
    <3> QED BY <1>1, <2>3, <2>4, SumScale
  <2> QED BY <1>3, <1>9, <2>1, <2>2, <2>5 DEF SumAlong
<1> QED BY <1>3, <1>9, <1>10 DEF out, edges, v

\* The factors of the channels that scale words.
LEMMA MultiplierType ==
  ASSUME NEW op, NEW values, Supplied(op, values),
         op.kind \in {"depolarizing", "phasedamping", "amplitudedamping"}
  PROVE  \A code \in 0 .. 3 : Multipliers(op, values)[code + 1] \in Int
<1> DEFINE v(i) == Resolve(op.refs[i], values)
<1>0. \A code \in 0 .. 3 : code + 1 \in 1 .. 4
  OBVIOUS
<1>1. CASE op.kind = "depolarizing"
  <2>1. Multipliers(op, values) = <<1, 1 - (v(2).prob + v(3).prob), 1 - (v(1).prob + v(3).prob),
                                    1 - (v(1).prob + v(2).prob)>>
    BY <1>1, Zenon DEF Multipliers
  <2>2. /\ v(1).prob \in Int /\ v(2).prob \in Int /\ v(3).prob \in Int
    <3>1. \A i \in 1 .. 3 : IsScalar(v(i))
      BY <1>1, Kinds
    <3>2. IsScalar(v(1)) /\ IsScalar(v(2)) /\ IsScalar(v(3))
      BY <3>1
    <3> HIDE DEF v
    <3> QED BY <3>2, ScalarParts
  <2> HIDE DEF v
  <2>3. Multipliers(op, values) \in [1 .. 4 -> Int]
    BY <2>1, <2>2
  <2> QED BY <1>0, <2>3
<1>2. CASE op.kind = "phasedamping"
  <2>1. Multipliers(op, values) = <<2, v(1).root, v(1).root, 2>>
    BY <1>2, Zenon DEF Multipliers
  <2>2. v(1).root \in Int
    <3>1. IsScalar(v(1))
      BY <1>2, Kinds
    <3> HIDE DEF v
    <3> QED BY <3>1, ScalarParts
  <2> HIDE DEF v
  <2>3. Multipliers(op, values) \in [1 .. 4 -> Int]
    BY <2>1, <2>2
  <2> QED BY <1>0, <2>3
<1>3. CASE op.kind = "amplitudedamping"
  <2>1. Multipliers(op, values) = <<4, 2 * v(1).root, 2 * v(1).root, v(1).root * v(1).root>>
    BY <1>3, Zenon DEF Multipliers
  <2>2. v(1).root \in Int
    <3>1. \A i \in 1 .. 2 : IsScalar(v(i))
      BY <1>3, Kinds
    <3>2. IsScalar(v(1))
      BY <3>1
    <3> HIDE DEF v
    <3> QED BY <3>2, ScalarParts
  <2>3. 2 * v(1).root \in Int /\ v(1).root * v(1).root \in Int
    BY <2>2
  <2> HIDE DEF v
  <2>4. Multipliers(op, values) \in [1 .. 4 -> Int]
    BY <2>1, <2>3
  <2> QED BY <1>0, <2>4
<1> QED BY <1>1, <1>2, <1>3

\* Derivatives of a root are by reference 1.
LEMMA RootDerivativeType ==
  ASSUME NEW code, NEW root \in 0 .. 2, NEW denominator \in Int
  PROVE  RootDerivative(code, root, denominator) \in Seq((1 .. 1) \X Int)
<1>1. <<>> \in Seq((1 .. 1) \X Int)
  OBVIOUS
<1>2. \A x \in Int : <<<<1, x>>>> \in Seq((1 .. 1) \X Int)
  OBVIOUS
<1>3. root # 0 => -(denominator \div root) \in Int
  OBVIOUS
<1> QED BY <1>1, <1>2, <1>3 DEF RootDerivative

\* The factor of a word's own code.
Factor(op, values, v) == Multipliers(op, values)[v[op.wires[1]] + 1]
\* The word with I where it has Z.
Lowered(op, v) == [v EXCEPT ![op.wires[1]] = 0]

\* The wire of a channel.
LEMMA ChannelWire ==
  ASSUME NEW op, NEW values, Supplied(op, values),
         op.kind \in {"depolarizing", "phasedamping", "amplitudedamping"}, NEW v \in Words
  PROVE  /\ op.wires[1] \in Wires /\ v[op.wires[1]] \in 0 .. 3
         /\ Lowered(op, v) \in Words /\ Factor(op, values, v) \in Int
         /\ op.kind = "amplitudedamping" => SplitMultiplier(op, values) \in Int
         /\ Resolve(op.refs[1], values).root \in 0 .. 2
<1>1. PICK q \in Wires : op.wires = <<q>>
  BY Kinds DEF OneWire
<1>2. op.wires[1] = q /\ v[q] \in 0 .. 3
  BY <1>1 DEF Words, Codes
<1>3. Lowered(op, v) \in Words
  BY <1>2 DEF Lowered, Words, Codes
<1>4. Factor(op, values, v) \in Int
  BY <1>2, MultiplierType DEF Factor
<1>5. IsScalar(Resolve(op.refs[1], values))
  <2>1. CASE op.kind = "depolarizing"
    <3>1. \A i \in 1 .. 3 : IsScalar(Resolve(op.refs[i], values))
      BY <2>1, Kinds
    <3> QED BY <3>1
  <2>2. CASE op.kind = "phasedamping"
    BY <2>2, Kinds
  <2>3. CASE op.kind = "amplitudedamping"
    <3>1. \A i \in 1 .. 2 : IsScalar(Resolve(op.refs[i], values))
      BY <2>3, Kinds
    <3> QED BY <3>1
  <2> QED BY <2>1, <2>2, <2>3
<1>6. Resolve(op.refs[1], values).root \in 0 .. 2
  BY <1>5, ScalarParts
<1>7. ASSUME op.kind = "amplitudedamping" PROVE SplitMultiplier(op, values) \in Int
  <2>1. IsScalar(Resolve(op.refs[2], values))
    <3>1. \A i \in 1 .. 2 : IsScalar(Resolve(op.refs[i], values))
      BY <1>7, Kinds
    <3> QED BY <3>1
  <2> DEFINE r == Resolve(op.refs[1], values).root
             p == Resolve(op.refs[2], values).prob
  <2>2. r \in Int /\ p \in Int
    BY <1>6, <2>1, ScalarParts
  <2>3. SplitMultiplier(op, values) = (4 - r * r) * (p - 1)
    BY DEF SplitMultiplier
  <2> HIDE DEF r, p
  <2>4. 4 - r * r \in Int /\ p - 1 \in Int
    BY <2>2
  <2> QED BY <2>3, <2>4, Products
<1> QED BY <1>1, <1>2, <1>3, <1>4, <1>6, <1>7

\* Depolarizing and phase damping: one edge, back to the word.
LEMMA ScaleEdges ==
  ASSUME NEW op, NEW values, Supplied(op, values), op.kind \in {"depolarizing", "phasedamping"},
         NEW v \in Words
  PROVE  /\ Edges(op, v, values) \in Seq(EdgeSet)
         /\ \A w \in Words :
              Entry(op, values, v, w) = IF v = w THEN Factor(op, values, v) ELSE 0
<1> DEFINE code == v[op.wires[1]]
           m == Multipliers(op, values)[code + 1]
           root == Resolve(op.refs[1], values).root
           others == KeepIf(<<<<1, -2>>, <<2, -2>>, <<3, -2>>>>,
                            LAMBDA d : code # 0 /\ d[1] # code)
           back == RootDerivative(code, root, 2)
<1>1. /\ m \in Int /\ m = Factor(op, values, v) /\ root \in 0 .. 2
  BY ChannelWire DEF Factor
<1>2. Edges(op, v, values) = ChannelEdges(op, v, values)
  BY Zenon DEF Edges
<1>3. PICK d \in Seq(Int \X Int) : Edges(op, v, values) = <<Edge(v, m, d)>>
  <2>1. CASE op.kind = "depolarizing"
    <3>1. ChannelEdges(op, v, values) = <<Edge(v, m, ForSlots(op, others))>>
      BY <2>1, Zenon DEF ChannelEdges
    <3>2. others \in Seq((1 .. 3) \X Int)
      <4> DEFINE all == <<<<1, -2>>, <<2, -2>>, <<3, -2>>>>
                 places == {i \in DOMAIN all : code # 0 /\ all[i][1] # code}
      <4>1. all \in Seq((1 .. 3) \X Int)
        OBVIOUS
      <4>2. others = Kept(all, places)
        BY DEF KeepIf
      <4> HIDE DEF all, places, others
      <4> QED BY <4>1, <4>2, KeptElements
    <3>3. AreRefs(op.refs, 3) /\ 3 \in Nat
      BY <2>1, Kinds
    <3> HIDE DEF others
    <3>4. ForSlots(op, others) \in Seq(Int \X Int)
      BY <3>2, <3>3, ForSlotsType
    <3> QED BY <1>2, <3>1, <3>4
  <2>2. CASE op.kind = "phasedamping"
    <3>1. ChannelEdges(op, v, values) = <<Edge(v, m, ForSlots(op, back))>>
      BY <2>2, Zenon DEF ChannelEdges
    <3>2. back \in Seq((1 .. 1) \X Int)
      <4> HIDE DEF code, root
      <4> QED BY <1>1, RootDerivativeType
    <3>3. AreRefs(op.refs, 1) /\ 1 \in Nat
      BY <2>2, Kinds
    <3> HIDE DEF back
    <3>4. ForSlots(op, back) \in Seq(Int \X Int)
      BY <3>2, <3>3, ForSlotsType
    <3> QED BY <1>2, <3>1, <3>4
  <2> QED BY <2>1, <2>2
<1> HIDE DEF m
<1> DEFINE e == Edge(v, m, d)
<1>4. e \in EdgeSet /\ e.key = v /\ e.m = m
  BY <1>1, <1>3, EdgeParts
<1> HIDE DEF e
<1>5. ASSUME NEW w \in Words
      PROVE  /\ Edges(op, v, values) \in Seq(EdgeSet)
             /\ Entry(op, values, v, w) = IF e.key = w THEN e.m ELSE 0
  <2>1. Edges(op, v, values) = <<e>>
    BY <1>3 DEF e
  <2> QED BY <1>4, <2>1, EntryShort
<1> QED BY <1>1, <1>4, <1>5

\* The entry of an amplitude damping's base, and of its extras.
BaseEntry(op, values, w) ==
  [v \in Words |-> IF v = w THEN Factor(op, values, v) ELSE 0]
ExtraEntry(op, values, w) ==
  [v \in Words |-> IF v[op.wires[1]] = 3 /\ Lowered(op, v) = w
                   THEN SplitMultiplier(op, values) ELSE 0]

\* Amplitude damping: back to the word, and from Z to I.
LEMMA DampingEdges ==
  ASSUME NEW op, NEW values, Supplied(op, values), op.kind = "amplitudedamping", NEW v \in Words
  PROVE  /\ Edges(op, v, values) \in Seq(EdgeSet)
         /\ \A w \in Words :
              Entry(op, values, v, w) = BaseEntry(op, values, w)[v] + ExtraEntry(op, values, w)[v]
<1> DEFINE code == v[op.wires[1]]
           m == Multipliers(op, values)[code + 1]
           root == Resolve(op.refs[1], values).root
           prob == Resolve(op.refs[2], values).prob
           split == SplitMultiplier(op, values)
           low == [v EXCEPT ![op.wires[1]] = 0]
           toLow == <<<<1, 4 * (prob - 1)>>, <<2, 2 * (4 - root * root)>>>>
           toSelf == <<<<1, -4>>>>
           back == RootDerivative(code, root, 4)
<1>1. /\ m \in Int /\ m = Factor(op, values, v) /\ root \in 0 .. 2 /\ split \in Int
      /\ low \in Words /\ low = Lowered(op, v)
  BY ChannelWire DEF Factor, Lowered
<1>2. Edges(op, v, values) = ChannelEdges(op, v, values)
  BY Zenon DEF Edges
<1>3. AreRefs(op.refs, 2) /\ 2 \in Nat
  BY Kinds
<1>4. prob \in Int
  <2>1. IsScalar(Resolve(op.refs[2], values))
    <3>1. \A i \in 1 .. 2 : IsScalar(Resolve(op.refs[i], values))
      BY Kinds
    <3> QED BY <3>1
  <2> QED BY <2>1, ScalarParts
<1>5. CASE code = 3
  <2>1. ChannelEdges(op, v, values) =
          <<Edge(low, split, ForSlots(op, toLow)), Edge(v, m, ForSlots(op, toSelf))>>
    BY <1>5, Zenon DEF ChannelEdges
  <2>2. toLow \in Seq((1 .. 2) \X Int) /\ toSelf \in Seq((1 .. 2) \X Int)
    <3>1. 4 * (prob - 1) \in Int /\ 2 * (4 - root * root) \in Int
      <4>1. root * root \in Int
        BY <1>1
      <4> QED BY <1>4, <4>1
    <3>2. \A x, y \in Int : /\ <<<<1, x>>, <<2, y>>>> \in Seq((1 .. 2) \X Int)
                            /\ <<<<1, x>>>> \in Seq((1 .. 2) \X Int)
      OBVIOUS
    <3>3. -4 \in Int
      OBVIOUS
    <3> QED BY <3>1, <3>2, <3>3
  <2> HIDE DEF toLow, toSelf
  <2>3. ForSlots(op, toLow) \in Seq(Int \X Int) /\ ForSlots(op, toSelf) \in Seq(Int \X Int)
    BY <1>3, <2>2, ForSlotsType
  <2> DEFINE e == Edge(low, split, ForSlots(op, toLow))
             f == Edge(v, m, ForSlots(op, toSelf))
  <2>4. /\ e \in EdgeSet /\ e.key = low /\ e.m = split
        /\ f \in EdgeSet /\ f.key = v /\ f.m = m
    <3> HIDE DEF low, split, m
    <3> QED BY <1>1, <2>3, EdgeParts
  <2>5. Edges(op, v, values) = <<e, f>>
    BY <1>2, <2>1
  <2> HIDE DEF e, f
  <2>6. ASSUME NEW w \in Words
        PROVE  /\ Edges(op, v, values) \in Seq(EdgeSet)
               /\ Entry(op, values, v, w) =
                    (IF e.key = w THEN e.m ELSE 0) + (IF f.key = w THEN f.m ELSE 0)
    BY <2>4, <2>5, EntryShort
  <2>7. ASSUME NEW w \in Words
        PROVE  Entry(op, values, v, w) = BaseEntry(op, values, w)[v] + ExtraEntry(op, values, w)[v]
    <3>1. BaseEntry(op, values, w)[v] = IF f.key = w THEN f.m ELSE 0
      BY <1>1, <2>4 DEF BaseEntry
    <3>2. ExtraEntry(op, values, w)[v] = IF e.key = w THEN e.m ELSE 0
      BY <1>1, <1>5, <2>4 DEF ExtraEntry
    <3>3. e.m \in Int /\ f.m \in Int
      BY <1>1, <2>4
    <3>4. (IF e.key = w THEN e.m ELSE 0) \in Int /\ (IF f.key = w THEN f.m ELSE 0) \in Int
      BY <3>3
    <3>5. \A a, b \in Int : a + b = b + a
      OBVIOUS
    <3> QED BY <2>6, <3>1, <3>2, <3>4, <3>5
  <2> QED BY <2>6, <2>7
<1>6. CASE code # 3
  <2>1. ChannelEdges(op, v, values) = <<Edge(v, m, ForSlots(op, back))>>
    BY <1>6, Zenon DEF ChannelEdges
  <2>2. back \in Seq((1 .. 2) \X Int)
    <3>1. back \in Seq((1 .. 1) \X Int)
      <4> HIDE DEF code, root
      <4> QED BY <1>1, RootDerivativeType
    <3> HIDE DEF back
    <3> QED BY <3>1
  <2> HIDE DEF back
  <2>3. ForSlots(op, back) \in Seq(Int \X Int)
    BY <1>3, <2>2, ForSlotsType
  <2> DEFINE e == Edge(v, m, ForSlots(op, back))
  <2>4. e \in EdgeSet /\ e.key = v /\ e.m = m
    <3> HIDE DEF m
    <3> QED BY <1>1, <2>3, EdgeParts
  <2>5. Edges(op, v, values) = <<e>>
    BY <1>2, <2>1
  <2> HIDE DEF e
  <2>6. ASSUME NEW w \in Words
        PROVE  /\ Edges(op, v, values) \in Seq(EdgeSet)
               /\ Entry(op, values, v, w) = IF e.key = w THEN e.m ELSE 0
    BY <2>4, <2>5, EntryShort
  <2>7. ASSUME NEW w \in Words
        PROVE  Entry(op, values, v, w) = BaseEntry(op, values, w)[v] + ExtraEntry(op, values, w)[v]
    <3>1. BaseEntry(op, values, w)[v] = IF e.key = w THEN e.m ELSE 0
      BY <1>1, <2>4 DEF BaseEntry
    <3>2. ExtraEntry(op, values, w)[v] = 0
      BY <1>6 DEF ExtraEntry
    <3>3. (IF e.key = w THEN e.m ELSE 0) \in Int
      BY <1>1, <2>4
    <3> QED BY <2>6, <3>1, <3>2, <3>3
  <2> QED BY <2>6, <2>7
<1> QED BY <1>5, <1>6

---------------------------------------------------------------------------
(* Kernels                                                                 *)

EntryTo(op, values, w) == [v \in Words |-> Entry(op, values, v, w)]

\* A scaling keeps the words, so their order and distinctness.
LEMMA ScaledKernel ==
  ASSUME NEW op, NEW values, Supplied(op, values),
         op.kind \in {"depolarizing", "phasedamping", "amplitudedamping"},
         NEW ts \in Seq(Terms), NEW cutoff \in Int
  PROVE  /\ ScaledTerms(op, ts, values, cutoff) \in Seq(Terms)
         /\ Len(ScaledTerms(op, ts, values, cutoff)) <= Len(ts)
         /\ \A w \in KeysOf(ScaledTerms(op, ts, values, cutoff)) : Weight(w) <= cutoff
         /\ \A w \in Words : Collect(ScaledTerms(op, ts, values, cutoff), w)
                               = Cut(w, cutoff, Image(ts, BaseEntry(op, values, w)))
         /\ Ordered(ts) => Ordered(ScaledTerms(op, ts, values, cutoff))
<1> DEFINE out == [i \in DOMAIN ts |->
                     Term(ts[i].key,
                          ts[i].c * Multipliers(op, values)[ts[i].key[op.wires[1]] + 1])]
<1>1. ASSUME NEW i \in 1 .. Len(ts)
      PROVE  /\ out[i] \in Terms /\ out[i].key = ts[i].key /\ ts[i].key \in Words
             /\ out[i].c = ts[i].c * Factor(op, values, ts[i].key)
             /\ Factor(op, values, ts[i].key) \in Int
  <2>1. ts[i].key \in Words /\ ts[i].c \in Int
    BY TermParts
  <2>2. Factor(op, values, ts[i].key) \in Int
    BY <2>1, ChannelWire
  <2>3. out[i] = Term(ts[i].key, ts[i].c * Factor(op, values, ts[i].key))
    BY DEF Factor
  <2>4. ts[i].c * Factor(op, values, ts[i].key) \in Int
    BY <2>1, <2>2
  <2> HIDE DEF out
  <2> QED BY <2>1, <2>2, <2>3, <2>4, TermParts
<1>2. out = [i \in 1 .. Len(ts) |-> out[i]] /\ Len(ts) \in Nat
  OBVIOUS
<1>3. ScaledTerms(op, ts, values, cutoff) = Retain(out, cutoff)
  BY DEF ScaledTerms
<1> HIDE DEF out
<1>4. out \in Seq(Terms) /\ Len(out) = Len(ts)
  BY <1>1, <1>2
<1>5. ASSUME NEW w \in Words PROVE Collect(out, w) = Image(ts, BaseEntry(op, values, w))
  <2> DEFINE entry == BaseEntry(op, values, w)
  <2>1. IntOn(entry, Words)
    <3>1. \A v \in Words : Factor(op, values, v) \in Int
      BY ChannelWire
    <3> QED BY <3>1 DEF IntOn, BaseEntry
  <2>2. Moves(out, ts, entry, w)
    <3> SUFFICES ASSUME NEW i \in 1 .. Len(ts)
                 PROVE  Coefficient(w)[out[i]] = ts[i].c * entry[ts[i].key]
      BY DEF Moves
    <3>1. Coefficient(w)[out[i]] = IF out[i].key = w THEN out[i].c ELSE 0
      BY <1>1 DEF Coefficient
    <3>2. entry[ts[i].key] = IF ts[i].key = w THEN Factor(op, values, ts[i].key) ELSE 0
      BY <1>1 DEF BaseEntry
    <3>3. ts[i].c \in Int
      BY TermParts
    <3> HIDE DEF entry
    <3>4. CASE ts[i].key = w
      BY <1>1, <3>1, <3>2, <3>4
    <3>5. CASE ts[i].key # w
      BY <1>1, <3>1, <3>2, <3>3, <3>5
    <3> QED BY <3>4, <3>5
  <2> HIDE DEF entry
  <2>3. Collect(out, w) = Image(ts, entry)
    BY <1>4, <2>1, <2>2, MapCollect
  <2> QED BY <2>3 DEF entry
<1>6. Ordered(ts) => Ordered(out)
  BY <1>1, <1>4 DEF Ordered
<1>7. /\ Retain(out, cutoff) \in Seq(Terms)
      /\ Len(Retain(out, cutoff)) <= Len(out)
      /\ \A w \in KeysOf(Retain(out, cutoff)) : Weight(w) <= cutoff
      /\ \A w \in Words : Collect(Retain(out, cutoff), w) = Cut(w, cutoff, Collect(out, w))
  BY <1>4, Retained
<1>8. Ordered(out) => Ordered(Retain(out, cutoff))
  BY <1>4, RetainOrder
<1> QED BY <1>3, <1>4, <1>5, <1>6, <1>7, <1>8

\* What an amplitude damping moves from Z to I.
LEMMA SplitKernel ==
  ASSUME NEW op, NEW values, Supplied(op, values), op.kind = "amplitudedamping",
         NEW ts \in Seq(Terms)
  PROVE  /\ SplitContributions(op, ts, values) \in Seq(Terms)
         /\ Len(SplitContributions(op, ts, values)) <= Len(ts)
         /\ \A w \in Words : /\ IntOn(ExtraEntry(op, values, w), Words)
                             /\ Collect(SplitContributions(op, ts, values), w)
                                  = Image(ts, ExtraEntry(op, values, w))
<1> DEFINE places == {i \in DOMAIN ts : ts[i].key[op.wires[1]] = 3}
           zs == Kept(ts, places)
           split == SplitMultiplier(op, values)
           out == SplitContributions(op, ts, values)
<1>1. zs \in Seq(Terms) /\ Len(zs) <= Len(ts)
  <2> HIDE DEF places
  <2> QED BY KeptElements
<1>2. out = [i \in DOMAIN zs |-> Term(Lowered(op, zs[i].key), zs[i].c * split)]
  BY DEF SplitContributions, KeepIf, Lowered
<1> HIDE DEF zs, out
<1>3. DOMAIN zs = 1 .. Len(zs) /\ Len(zs) \in Nat
  BY <1>1
<1>4. split \in Int
  <2>1. \A v \in Words : SplitMultiplier(op, values) \in Int
    BY ChannelWire
  <2>2. \E v : v \in Words
    <3>1. [q \in Wires |-> 0] \in Words
      BY DEF Words, Codes
    <3> QED BY <3>1
  <2> QED BY <2>1, <2>2
<1> HIDE DEF split
<1>5. ASSUME NEW i \in 1 .. Len(zs)
      PROVE  /\ out[i] \in Terms /\ out[i].key = Lowered(op, zs[i].key)
             /\ out[i].c = zs[i].c * split /\ zs[i] \in Terms
  <2>1. zs[i] \in Terms /\ zs[i].key \in Words /\ zs[i].c \in Int
    <3>1. zs[i] \in Terms
      BY <1>1
    <3> QED BY <3>1, TermParts
  <2>2. Lowered(op, zs[i].key) \in Words /\ zs[i].c * split \in Int
    BY <1>4, <2>1, ChannelWire
  <2>3. out[i] = Term(Lowered(op, zs[i].key), zs[i].c * split)
    BY <1>2, <1>3
  <2> QED BY <2>1, <2>2, <2>3, TermParts
<1>6. out \in Seq(Terms) /\ Len(out) = Len(zs)
  <2>1. out = [i \in 1 .. Len(zs) |-> out[i]]
    BY <1>2, <1>3
  <2> QED BY <1>3, <1>5, <2>1
<1>7. ASSUME NEW w \in Words
      PROVE  /\ IntOn(ExtraEntry(op, values, w), Words)
             /\ Collect(out, w) = Image(ts, ExtraEntry(op, values, w))
  <2> DEFINE entry == ExtraEntry(op, values, w)
             f == [t \in Terms |-> IF Lowered(op, t.key) = w THEN t.c * split ELSE 0]
             g == WeighedBy(entry)
             h == ValuesAlong(g, ts)
             c == ValuesAlong(Coefficient(w), out)
  <2>1. IntOn(entry, Words)
    BY <1>4 DEF IntOn, ExtraEntry, split
  <2>2. IntOn(f, Terms)
    <3>1. \A t \in Terms : t.c * split \in Int
      BY <1>4, TermParts
    <3> QED BY <3>1 DEF IntOn
  <2>3. \A i \in 1 .. Len(zs) : c[i] = f[zs[i]]
    <3> SUFFICES ASSUME NEW i \in 1 .. Len(zs) PROVE c[i] = f[zs[i]]
      OBVIOUS
    <3>1. c[i] = IF out[i].key = w THEN out[i].c ELSE 0
      BY <1>5, <1>6 DEF ValuesAlong, Coefficient
    <3>2. f[zs[i]] = IF Lowered(op, zs[i].key) = w THEN zs[i].c * split ELSE 0
      BY <1>5
    <3> HIDE DEF c, f
    <3> QED BY <1>5, <3>1, <3>2
  <2>4. ASSUME NEW i \in 1 .. Len(ts) PROVE h[i] = IF i \in places THEN f[ts[i]] ELSE 0
    <3>1. ts[i] \in Terms /\ ts[i].key \in Words /\ ts[i].c \in Int
      BY TermParts
    <3>2. h[i] = ts[i].c * entry[ts[i].key]
      BY <3>1 DEF ValuesAlong, WeighedBy
    <3>3. entry[ts[i].key] = IF ts[i].key[op.wires[1]] = 3 /\ Lowered(op, ts[i].key) = w
                                THEN split ELSE 0
      BY <3>1 DEF ExtraEntry, split
    <3>4. f[ts[i]] = IF Lowered(op, ts[i].key) = w THEN ts[i].c * split ELSE 0
      BY <3>1
    <3>5. i \in places <=> ts[i].key[op.wires[1]] = 3
      OBVIOUS
    <3> HIDE DEF h, entry, f, places
    <3>6. CASE ts[i].key[op.wires[1]] = 3 /\ Lowered(op, ts[i].key) = w
      BY <3>2, <3>3, <3>4, <3>5, <3>6
    <3>7. CASE ~(ts[i].key[op.wires[1]] = 3 /\ Lowered(op, ts[i].key) = w)
      <4>1. h[i] = 0
        BY <3>1, <3>2, <3>3, <3>7
      <4> QED BY <3>4, <3>5, <3>7, <4>1
    <3> QED BY <3>6, <3>7
  <2>5. IntOn(g, Terms) /\ SumAlong(g, ts) = Image(ts, entry)
    BY <2>1, ByWords
  <2>6. SumAlong(f, zs) = SumFunctionOnSet(h, 1 .. Len(ts))
    <3> HIDE DEF f, h, places
    <3> QED BY <2>2, <2>4, TotalKept DEF zs
  <2>7. SumFunctionOnSet(c, 1 .. Len(zs)) = SumAlong(f, zs)
    <3> HIDE DEF f, c
    <3> QED BY <1>1, <2>2, <2>3, TotalIs
  <2>8. Collect(out, w) = SumFunctionOnSet(c, 1 .. Len(zs))
    BY <1>6, CollectIs DEF SumAlong
  <2>9. SumAlong(g, ts) = SumFunctionOnSet(h, 1 .. Len(ts))
    BY DEF SumAlong
  <2> QED BY <2>1, <2>5, <2>6, <2>7, <2>8, <2>9
<1> QED BY <1>1, <1>6, <1>7 DEF out

\* Clifford operations keep words distinct.
LEMMA CliffordKernel ==
  ASSUME NEW op, NEW values, Supplied(op, values), op.kind \in {"clifford1", "clifford2"},
         NEW ts \in Seq(Terms), NEW cutoff \in Int
  PROVE  /\ CliffordTerms(op, ts, cutoff) \in Seq(Terms)
         /\ Len(CliffordTerms(op, ts, cutoff)) <= Len(ts)
         /\ \A w \in KeysOf(CliffordTerms(op, ts, cutoff)) : Weight(w) <= cutoff
         /\ \A w \in Words : Collect(CliffordTerms(op, ts, cutoff), w)
                               = Cut(w, cutoff, Image(ts, EntryTo(op, values, w)))
         /\ NoKeyTwice(ts) => NoKeyTwice(CliffordTerms(op, ts, cutoff))
<1> DEFINE out == [i \in DOMAIN ts |->
                     LET image == CliffordImage(op, ts[i].key)
                     IN  Term(image.key, image.c * ts[i].c)]
           image(i) == CliffordImage(op, ts[i].key)
<1>1. ASSUME NEW i \in 1 .. Len(ts)
      PROVE  /\ out[i] \in Terms /\ out[i].key = image(i).key /\ ts[i].key \in Words
             /\ out[i].c = image(i).c * ts[i].c /\ image(i) \in Terms
             /\ ts[i].c \in Int /\ image(i).c \in Int
  <2>1. ts[i].key \in Words /\ ts[i].c \in Int
    BY TermParts
  <2>2. image(i) \in Terms
    BY <2>1, CliffordImageType
  <2>3. out[i] = Term(image(i).key, image(i).c * ts[i].c)
    OBVIOUS
  <2> HIDE DEF out, image
  <2>4. image(i).key \in Words /\ image(i).c \in Int
    BY <2>2, TermParts
  <2>5. image(i).c * ts[i].c \in Int
    BY <2>1, <2>4
  <2> QED BY <2>1, <2>2, <2>3, <2>4, <2>5, TermParts
<1>2. out = [i \in 1 .. Len(ts) |-> out[i]] /\ Len(ts) \in Nat
  OBVIOUS
<1>3. CliffordTerms(op, ts, cutoff) = Retain(out, cutoff)
  BY DEF CliffordTerms
<1> HIDE DEF out
<1>4. out \in Seq(Terms) /\ Len(out) = Len(ts)
  BY <1>1, <1>2
<1>5. ASSUME NEW w \in Words PROVE Collect(out, w) = Image(ts, EntryTo(op, values, w))
  <2> DEFINE entry == EntryTo(op, values, w)
  <2>1. \A v \in Words : entry[v] = Coefficient(w)[CliffordImage(op, v)]
    BY CliffordEdges DEF EntryTo
  <2>2. IntOn(entry, Words)
    <3>1. \A t \in Terms : Coefficient(w)[t] \in Int
      BY TermParts DEF Coefficient
    <3>2. \A v \in Words : CliffordImage(op, v) \in Terms
      BY CliffordImageType
    <3> HIDE DEF entry
    <3> QED BY <2>1, <3>1, <3>2 DEF IntOn
  <2>3. Moves(out, ts, entry, w)
    <3> SUFFICES ASSUME NEW i \in 1 .. Len(ts)
                 PROVE  Coefficient(w)[out[i]] = ts[i].c * entry[ts[i].key]
      BY DEF Moves
    <3>1. Coefficient(w)[out[i]] = IF out[i].key = w THEN out[i].c ELSE 0
      BY <1>1 DEF Coefficient
    <3>2. entry[ts[i].key] = Coefficient(w)[image(i)]
      BY <1>1, <2>1
    <3>3. Coefficient(w)[image(i)] = IF image(i).key = w THEN image(i).c ELSE 0
      BY <1>1 DEF Coefficient
    <3> HIDE DEF entry, image
    <3>4. CASE image(i).key = w
      <4>1. image(i).c * ts[i].c = ts[i].c * image(i).c
        BY <1>1
      <4> QED BY <1>1, <3>1, <3>2, <3>3, <3>4, <4>1
    <3>5. CASE image(i).key # w
      <4>1. ts[i].c * 0 = 0
        BY <1>1
      <4> QED BY <1>1, <3>1, <3>2, <3>3, <3>5, <4>1
    <3> QED BY <3>4, <3>5
  <2> HIDE DEF entry
  <2>4. Collect(out, w) = Image(ts, entry)
    BY <1>4, <2>2, <2>3, MapCollect
  <2> QED BY <2>4 DEF entry
<1>6. ASSUME NoKeyTwice(ts) PROVE NoKeyTwice(out)
  <2> SUFFICES ASSUME NEW i \in 1 .. Len(ts), NEW j \in 1 .. Len(ts),
                      out[i].key = out[j].key
               PROVE  i = j
    BY <1>4 DEF NoKeyTwice
  <2>1. CliffordImage(op, ts[i].key).key = CliffordImage(op, ts[j].key).key
        /\ ts[i].key \in Words /\ ts[j].key \in Words
    BY <1>1
  <2>2. ts[i].key = ts[j].key
    BY <2>1, CliffordInjective
  <2> QED BY <1>6, <2>2 DEF NoKeyTwice
<1>7. /\ Retain(out, cutoff) \in Seq(Terms)
      /\ Len(Retain(out, cutoff)) <= Len(out)
      /\ \A w \in KeysOf(Retain(out, cutoff)) : Weight(w) <= cutoff
      /\ \A w \in Words : Collect(Retain(out, cutoff), w) = Cut(w, cutoff, Collect(out, w))
  BY <1>4, Retained
<1>8. NoKeyTwice(out) => NoKeyTwice(Retain(out, cutoff))
  BY <1>4, RetainOrder
<1> QED BY <1>3, <1>4, <1>5, <1>6, <1>7, <1>8

\* Every word has well-formed edges, so integer entries.
LEMMA EdgesType ==
  ASSUME NEW op, NEW values, Supplied(op, values)
  PROVE  /\ \A v \in Words : Edges(op, v, values) \in Seq(EdgeSet)
         /\ \A w : IntOn(EntryTo(op, values, w), Words)
<1>1. ASSUME NEW v \in Words PROVE Edges(op, v, values) \in Seq(EdgeSet)
  <2> DEFINE t == Term(v, 0)
  <2>1. t \in Terms /\ t.key = v
    BY TermParts
  <2> HIDE DEF t
  <2>2. CASE op.kind \in {"clifford1", "clifford2"}
    BY <2>2, CliffordEdges
  <2>3. CASE op.kind = "rotation"
    <3>1. Edges(op, t.key, values) \in Seq(EdgeSet)
      BY <2>1, <2>3, RotationKernel
    <3> QED BY <2>1, <3>1
  <2>4. CASE op.kind = "ptm"
    <3>1. Edges(op, t.key, values) \in Seq(EdgeSet)
      BY <2>1, <2>4, PtmKernel
    <3> QED BY <2>1, <3>1
  <2>5. CASE op.kind \in {"depolarizing", "phasedamping"}
    BY <2>5, ScaleEdges
  <2>6. CASE op.kind = "amplitudedamping"
    BY <2>6, DampingEdges
  <2> QED BY <2>2, <2>3, <2>4, <2>5, <2>6, Kinds
<1>2. ASSUME NEW w PROVE IntOn(EntryTo(op, values, w), Words)
  <2>1. \A v \in Words : Entry(op, values, v, w) \in Int
    BY <1>1, EntryIs
  <2> QED BY <2>1 DEF IntOn, EntryTo
<1> QED BY <1>1, <1>2

AtMost(seqs, m) == \A i \in 1 .. Len(seqs) : Len(seqs[i]) <= m
FeedsAll(seqs, ts, op, values) ==
  \A w \in Words : Feeds(seqs, ts, EntryTo(op, values, w), w)

\* Aggregated contributions of every term.
LEMMA AggregateKernel ==
  ASSUME NEW op, NEW values, Supplied(op, values),
         NEW ts \in Seq(Terms), NEW cutoff \in Int, NEW m \in Nat,
         NEW seqs \in Seq(Seq(Terms)), Len(seqs) = Len(ts), AtMost(seqs, m),
         FeedsAll(seqs, ts, op, values)
  PROVE  /\ Aggregate(FlattenSeq(seqs), cutoff) \in Seq(Terms)
         /\ Len(Aggregate(FlattenSeq(seqs), cutoff)) <= Len(ts) * m
         /\ \A w \in KeysOf(Aggregate(FlattenSeq(seqs), cutoff)) : Weight(w) <= cutoff
         /\ \A w \in Words : Collect(Aggregate(FlattenSeq(seqs), cutoff), w)
                               = Cut(w, cutoff, Image(ts, EntryTo(op, values, w)))
         /\ NoKeyTwice(Aggregate(FlattenSeq(seqs), cutoff))
<1> DEFINE flat == FlattenSeq(seqs)
           out == Aggregate(flat, cutoff)
<1>1. flat \in Seq(Terms)
  BY FlattenElements
<1>2. Len(flat) <= Len(ts) * m
  BY FlattenBound DEF AtMost
<1>3. ASSUME NEW w \in Words PROVE Collect(flat, w) = Image(ts, EntryTo(op, values, w))
  <2>1. IntOn(EntryTo(op, values, w), Words)
    BY EdgesType
  <2>2. Feeds(seqs, ts, EntryTo(op, values, w), w)
    BY DEF FeedsAll
  <2> QED BY <2>1, <2>2, FlatCollect
<1> HIDE DEF flat
<1>4. /\ out \in Seq(Terms) /\ Len(out) <= Len(flat)
      /\ \A w \in KeysOf(out) : Weight(w) <= cutoff
      /\ \A w \in Words : Collect(out, w) = Cut(w, cutoff, Collect(flat, w))
      /\ Ordered(out)
  BY <1>1, Aggregated
<1> HIDE DEF out
<1>5. NoKeyTwice(out)
  BY <1>4, OrderedIsDistinct
<1>6. Len(out) <= Len(ts) * m
  <2>1. Len(out) \in Int /\ Len(flat) \in Int /\ Len(ts) * m \in Int
    <3>1. Len(ts) \in Int /\ m \in Int
      OBVIOUS
    <3>2. Len(ts) * m \in Int
      BY <3>1, Products
    <3> QED BY <1>1, <1>4, <3>2
  <2>2. \A a, b, c \in Int : a <= b /\ b <= c => a <= c
    OBVIOUS
  <2> QED BY <1>2, <1>4, <2>1, <2>2
<1> QED BY <1>3, <1>4, <1>5, <1>6 DEF out, flat

\* The longest row of a transfer matrix.
LEMMA LongestRow ==
  ASSUME NEW op, NEW values, Supplied(op, values), op.kind = "ptm"
  PROVE  /\ BranchFactor(op) \in Nat
         /\ \A i \in 1 .. Len(op.rows) : Len(op.rows[i]) <= BranchFactor(op)
<1> DEFINE n == Len(op.rows)
           L == {Len(op.rows[i]) : i \in DOMAIN op.rows}
           len == [i \in 1 .. n |-> Len(op.rows[i])]
<1>1. /\ op.rows \in Seq(Seq((0 .. n - 1) \X (Int \ {0}))) /\ n \in Nat \ {0}
  <2>1. op.rows \in Seq(Seq((0 .. n - 1) \X (Int \ {0})))
    BY Kinds
  <2>2. n = 4 \/ n = 16
    BY Kinds
  <2> QED BY <2>1, <2>2
<1>2. DOMAIN op.rows = 1 .. n
  BY <1>1
<1>3. \A i \in 1 .. n : len[i] = Len(op.rows[i]) /\ len[i] \in Nat
  BY <1>1, ElementOfSeq
<1>4. BranchFactor(op) = CHOOSE m \in L : \A i \in DOMAIN op.rows : Len(op.rows[i]) <= m
  BY Zenon DEF BranchFactor
<1> HIDE DEF n, len
<1>5. IsFiniteSet(1 .. n)
  BY <1>1, FS_Interval
<1> DEFINE top == SumFunctionOnSet(len, 1 .. n)
<1>6. top \in Nat /\ \A i \in 1 .. n : len[i] <= top
  BY <1>3, <1>5, SumNat
<1> HIDE DEF top
<1>7. L \subseteq 0 .. top /\ L # {}
  <2>1. \A i \in 1 .. n : Len(op.rows[i]) \in 0 .. top
    BY <1>3, <1>6
  <2>2. 1 \in 1 .. n
    BY <1>1
  <2> QED BY <1>2, <2>1, <2>2
<1>8. \E m \in L : \A k \in L : k <= m
  <2> HIDE DEF L
  <2> QED BY <1>6, <1>7, Greatest
<1>9. \E m \in L : \A i \in DOMAIN op.rows : Len(op.rows[i]) <= m
  BY <1>8
<1>10. BranchFactor(op) \in L /\ \A i \in DOMAIN op.rows : Len(op.rows[i]) <= BranchFactor(op)
  <2> HIDE DEF L
  <2> QED BY <1>4, <1>9
<1> QED BY <1>2, <1>6, <1>7, <1>10 DEF n

\* What a kernel returns, for every operation the constructors let through: well-formed terms within
\* the cutoff, their coefficients those of the operation's matrix applied to the input's,
\* at most branch-factor many per input term, and distinct words from words in key order.
THEOREM Kernel ==
  ASSUME NEW op, NEW values, Supplied(op, values), NEW ts \in Seq(Terms), NEW cutoff \in Int
  PROVE  /\ ApplyOperation(op, ts, values, cutoff) \in Seq(Terms)
         /\ Len(ApplyOperation(op, ts, values, cutoff)) <= Len(ts) * BranchFactor(op)
         /\ BranchFactor(op) \in Nat
         /\ \A w \in KeysOf(ApplyOperation(op, ts, values, cutoff)) : Weight(w) <= cutoff
         /\ \A w \in Words : Collect(ApplyOperation(op, ts, values, cutoff), w)
                               = Cut(w, cutoff, Image(ts, EntryTo(op, values, w)))
         /\ Ordered(ts) => NoKeyTwice(ApplyOperation(op, ts, values, cutoff))
<1> DEFINE out == ApplyOperation(op, ts, values, cutoff)
           n == Len(ts)
<1>1. n \in Int /\ n * 1 = n /\ n * 2 = n + n /\ (Ordered(ts) => NoKeyTwice(ts))
  BY OrderedIsDistinct
<1>2. CASE op.kind \in {"clifford1", "clifford2"}
  <2>1. out = CliffordTerms(op, ts, cutoff) /\ BranchFactor(op) = 1
    BY <1>2, Zenon DEF ApplyOperation, BranchFactor
  <2> HIDE DEF out
  <2> QED BY <1>1, <1>2, <2>1, CliffordKernel DEF out
<1>3. CASE op.kind = "rotation"
  <2> DEFINE angle == Resolve(op.refs[1], values)
             seqs == [i \in DOMAIN ts |-> RotationContributions(op, ts[i], angle)]
  <2>1. out = Aggregate(FlattenSeq(seqs), cutoff) /\ BranchFactor(op) = 2
    BY <1>3, Zenon DEF ApplyOperation, BranchFactor
  <2>2. ASSUME NEW i \in 1 .. n
        PROVE  /\ seqs[i] \in Seq(Terms) /\ Len(seqs[i]) <= 2
               /\ \A w \in Words : Collect(seqs[i], w) = ts[i].c * Entry(op, values, ts[i].key, w)
    <3>1. seqs[i] = RotationContributions(op, ts[i], angle) /\ ts[i] \in Terms
      OBVIOUS
    <3> HIDE DEF seqs
    <3> QED BY <1>3, <3>1, RotationKernel
  <2>3. seqs = [i \in 1 .. n |-> seqs[i]] /\ n \in Nat
    OBVIOUS
  <2> HIDE DEF seqs
  <2>4. seqs \in Seq(Seq(Terms)) /\ Len(seqs) = n
    BY <2>2, <2>3
  <2>5. ASSUME NEW w \in Words PROVE Feeds(seqs, ts, EntryTo(op, values, w), w)
    <3>1. \A i \in 1 .. n : ts[i].key \in Words
      BY TermParts
    <3> QED BY <2>2, <3>1 DEF Feeds, EntryTo
  <2>6. 2 \in Nat /\ AtMost(seqs, 2) /\ FeedsAll(seqs, ts, op, values)
    BY <2>2, <2>4, <2>5 DEF AtMost, FeedsAll
  <2> DEFINE agg == Aggregate(FlattenSeq(seqs), cutoff)
  <2>7. /\ agg \in Seq(Terms) /\ Len(agg) <= Len(ts) * 2
        /\ \A w \in KeysOf(agg) : Weight(w) <= cutoff
        /\ \A w \in Words : Collect(agg, w) = Cut(w, cutoff, Image(ts, EntryTo(op, values, w)))
        /\ NoKeyTwice(agg)
    BY <2>4, <2>6, AggregateKernel
  <2> HIDE DEF agg
  <2>8. out = agg
    BY <2>1 DEF agg
  <2> HIDE DEF out
  <2> QED BY <2>1, <2>7, <2>8 DEF out
<1>4. CASE op.kind = "ptm"
  <2> DEFINE seqs == [i \in DOMAIN ts |-> PtmContributions(op, ts[i])]
             m == BranchFactor(op)
  <2>1. out = Aggregate(FlattenSeq(seqs), cutoff)
    BY <1>4, Zenon DEF ApplyOperation
  <2>2. ASSUME NEW i \in 1 .. n
        PROVE  /\ seqs[i] \in Seq(Terms) /\ Len(seqs[i]) <= m
               /\ \A w \in Words : Collect(seqs[i], w) = ts[i].c * Entry(op, values, ts[i].key, w)
    <3>1. seqs[i] = PtmContributions(op, ts[i]) /\ ts[i] \in Terms
      OBVIOUS
    <3> HIDE DEF seqs, m
    <3>2. /\ Len(seqs[i]) = Len(PtmRow(op, ts[i].key))
          /\ LocalIndex(ts[i].key, op.wires) + 1 \in 1 .. Len(op.rows)
      BY <1>4, <3>1, PtmType
    <3>3. Len(seqs[i]) <= m
      <4>1. \A k \in 1 .. Len(op.rows) : Len(op.rows[k]) <= m
        BY <1>4, LongestRow DEF m
      <4> QED BY <3>2, <4>1 DEF PtmRow
    <3> QED BY <1>4, <3>1, <3>3, PtmKernel
  <2>3. seqs = [i \in 1 .. n |-> seqs[i]] /\ n \in Nat
    OBVIOUS
  <2> HIDE DEF seqs
  <2>4. seqs \in Seq(Seq(Terms)) /\ Len(seqs) = n
    BY <2>2, <2>3
  <2>5. ASSUME NEW w \in Words PROVE Feeds(seqs, ts, EntryTo(op, values, w), w)
    <3>1. \A i \in 1 .. n : ts[i].key \in Words
      BY TermParts
    <3> QED BY <2>2, <3>1 DEF Feeds, EntryTo
  <2>6. m \in Nat /\ AtMost(seqs, m) /\ FeedsAll(seqs, ts, op, values)
    BY <1>4, <2>2, <2>4, <2>5, LongestRow DEF AtMost, FeedsAll
  <2> HIDE DEF m
  <2> DEFINE agg == Aggregate(FlattenSeq(seqs), cutoff)
  <2>7. /\ agg \in Seq(Terms) /\ Len(agg) <= Len(ts) * m
        /\ \A w \in KeysOf(agg) : Weight(w) <= cutoff
        /\ \A w \in Words : Collect(agg, w) = Cut(w, cutoff, Image(ts, EntryTo(op, values, w)))
        /\ NoKeyTwice(agg)
    BY <2>4, <2>6, AggregateKernel
  <2> HIDE DEF agg
  <2>8. out = agg
    BY <2>1 DEF agg
  <2> HIDE DEF out
  <2> QED BY <2>6, <2>7, <2>8 DEF out, m
<1>5. CASE op.kind \in {"depolarizing", "phasedamping"}
  <2>1. out = ScaledTerms(op, ts, values, cutoff) /\ BranchFactor(op) = 1
    BY <1>5, Zenon DEF ApplyOperation, BranchFactor
  <2>2. ASSUME NEW w \in Words PROVE EntryTo(op, values, w) = BaseEntry(op, values, w)
    <3>1. \A v \in Words : Entry(op, values, v, w) = IF v = w THEN Factor(op, values, v) ELSE 0
      BY <1>5, ScaleEdges
    <3> QED BY <3>1 DEF EntryTo, BaseEntry
  <2>3. /\ out \in Seq(Terms) /\ Len(out) <= n
        /\ \A w \in KeysOf(out) : Weight(w) <= cutoff
        /\ \A w \in Words : Collect(out, w) = Cut(w, cutoff, Image(ts, BaseEntry(op, values, w)))
        /\ Ordered(ts) => Ordered(out)
    <3> HIDE DEF out
    <3> QED BY <1>5, <2>1, ScaledKernel
  <2> HIDE DEF out
  <2>4. Ordered(ts) => NoKeyTwice(out)
    BY <2>3, OrderedIsDistinct
  <2> QED BY <1>1, <2>1, <2>2, <2>3, <2>4 DEF out
<1>6. CASE op.kind = "amplitudedamping"
  <2> DEFINE base == ScaledTerms(op, ts, values, cutoff)
             split == SplitContributions(op, ts, values)
             extras == Aggregate(split, cutoff)
  <2>1. out = MergeSplit(base, extras) /\ BranchFactor(op) = 2
    BY <1>6, Zenon DEF ApplyOperation, BranchFactor
  <2>2. /\ base \in Seq(Terms) /\ Len(base) <= n
        /\ \A w \in KeysOf(base) : Weight(w) <= cutoff
        /\ \A w \in Words : Collect(base, w) = Cut(w, cutoff, Image(ts, BaseEntry(op, values, w)))
        /\ Ordered(ts) => Ordered(base)
    <3> HIDE DEF base
    <3> QED BY <1>6, ScaledKernel DEF base
  <2>3. /\ split \in Seq(Terms) /\ Len(split) <= n
        /\ \A w \in Words : /\ IntOn(ExtraEntry(op, values, w), Words)
                            /\ Collect(split, w) = Image(ts, ExtraEntry(op, values, w))
    BY <1>6, SplitKernel
  <2> HIDE DEF split, base
  <2>4. /\ extras \in Seq(Terms) /\ Len(extras) <= Len(split)
        /\ \A w \in KeysOf(extras) : Weight(w) <= cutoff
        /\ \A w \in Words : Collect(extras, w) = Cut(w, cutoff, Collect(split, w))
        /\ Ordered(extras)
    BY <2>3, Aggregated
  <2> HIDE DEF extras, out
  <2>5. /\ out \in Seq(Terms) /\ Len(out) <= Len(base) + Len(extras)
        /\ KeysOf(out) \subseteq KeysOf(base) \cup KeysOf(extras)
        /\ \A w \in Words : Collect(out, w) = Collect(base, w) + Collect(extras, w)
        /\ Ordered(base) /\ Ordered(extras) => Ordered(out)
    BY <2>1, <2>2, <2>4, Merged
  <2>6. Len(out) <= n * 2
    <3>1. /\ Len(out) \in Int /\ Len(base) \in Int /\ Len(extras) \in Int /\ Len(split) \in Int
      BY <2>2, <2>3, <2>4, <2>5
    <3>2. Len(extras) <= n
      <4>1. \A a, b, c \in Int : a <= b /\ b <= c => a <= c
        OBVIOUS
      <4> QED BY <1>1, <2>3, <2>4, <3>1, <4>1
    <3>3. \A a, b, c, k \in Int : a <= b + c /\ b <= k /\ c <= k => a <= k + k
      OBVIOUS
    <3> HIDE DEF n
    <3> QED BY <1>1, <2>2, <2>5, <3>1, <3>2, <3>3
  <2>7. ASSUME NEW w \in Words
        PROVE  Collect(out, w) = Cut(w, cutoff, Image(ts, EntryTo(op, values, w)))
    <3> DEFINE e == EntryTo(op, values, w)
               b == BaseEntry(op, values, w)
               x == ExtraEntry(op, values, w)
               weigh(g) == [v \in Words |-> Collect(ts, v) * g[v]]
    <3>1. \A v \in Words : e[v] = b[v] + x[v] /\ b[v] \in Int /\ x[v] \in Int
      <4>1. \A v \in Words : Entry(op, values, v, w) = b[v] + x[v]
        BY <1>6, DampingEdges
      <4>2. \A v \in Words : b[v] \in Int
        <5>1. \A v \in Words : Factor(op, values, v) \in Int
          BY <1>6, ChannelWire
        <5> QED BY <5>1 DEF BaseEntry
      <4>3. \A v \in Words : x[v] \in Int
        BY <2>3 DEF IntOn
      <4> HIDE DEF b, x
      <4> QED BY <4>1, <4>2, <4>3 DEF EntryTo
    <3> HIDE DEF e, b, x
    <3>2. Adds(weigh(e), weigh(b), weigh(x), Words)
          /\ IntOn(weigh(b), Words) /\ IntOn(weigh(x), Words)
      <4>1. ASSUME NEW v \in Words
            PROVE  /\ weigh(e)[v] = weigh(b)[v] + weigh(x)[v]
                   /\ weigh(b)[v] \in Int /\ weigh(x)[v] \in Int
        <5>1. Collect(ts, v) \in Int
          BY CollectIs
        <5>3. b[v] \in Int /\ x[v] \in Int
          BY <3>1
        <5>2. Collect(ts, v) * (b[v] + x[v]) = Collect(ts, v) * b[v] + Collect(ts, v) * x[v]
              /\ Collect(ts, v) * b[v] \in Int /\ Collect(ts, v) * x[v] \in Int
          <6> DEFINE c == Collect(ts, v)
                     p == b[v]
                     q == x[v]
          <6>1. c \in Int /\ p \in Int /\ q \in Int
            BY <5>1, <5>3
          <6> HIDE DEF c, p, q
          <6>2. c * (p + q) = c * p + c * q /\ c * p \in Int /\ c * q \in Int
            BY <6>1, Products
          <6> QED BY <6>2 DEF c, p, q
        <5> QED BY <3>1, <5>2
      <4> HIDE DEF weigh
      <4> QED BY <4>1 DEF Adds, IntOn
    <3>3. IsFiniteSet(Words)
      BY WordsFinite
    <3>4. Image(ts, e) = Image(ts, b) + Image(ts, x)
          /\ Image(ts, b) \in Int /\ Image(ts, x) \in Int
      <4>1. SumFunctionOnSet(weigh(e), Words)
              = SumFunctionOnSet(weigh(b), Words) + SumFunctionOnSet(weigh(x), Words)
        <5> HIDE DEF weigh
        <5> QED BY <3>2, <3>3, SumAdd
      <4>2. SumFunctionOnSet(weigh(b), Words) \in Int /\ SumFunctionOnSet(weigh(x), Words) \in Int
        <5> HIDE DEF weigh
        <5> QED BY <3>2, <3>3, SumInt
      <4> QED BY <4>1, <4>2 DEF Image
    <3>5. Collect(out, w) = Cut(w, cutoff, Image(ts, b)) + Cut(w, cutoff, Image(ts, x))
      BY <2>2, <2>3, <2>4, <2>5 DEF b, x
    <3> QED BY <3>4, <3>5 DEF Cut, e
  <2>8. \A w \in KeysOf(out) : Weight(w) <= cutoff
    BY <2>2, <2>4, <2>5
  <2>9. Ordered(ts) => NoKeyTwice(out)
    BY <2>2, <2>4, <2>5, OrderedIsDistinct
  <2> QED BY <2>1, <2>5, <2>6, <2>7, <2>8, <2>9 DEF out
<1> QED BY <1>2, <1>3, <1>4, <1>5, <1>6, Kinds

---------------------------------------------------------------------------
(* The inductive invariant                                                 *)

Applied(k) == ApplyOperation(OpAt(k), trace[k + 1], call.values, call.cutoff)

\* trace holds every forward state and each follows from the one before.
TraceInv ==
  /\ call \in Calls
  /\ step \in 0 .. Gates
  /\ IsSeq(trace) /\ Len(trace) = step + 1
  /\ trace[step + 1] = terms
  /\ \A k \in 0 .. step - 1 : trace[k + 2] = Applied(k)

\* Checkpoints are forward states, in order.
CheckpointInv ==
  /\ IsSeq(checkpoints)
  /\ \A i \in 1 .. Len(checkpoints) :
       /\ checkpoints[i].boundary \in 0 .. step
       /\ checkpoints[i].terms = trace[checkpoints[i].boundary + 1]
  /\ \A i \in 1 .. Len(checkpoints) - 1 :
       checkpoints[i].boundary < checkpoints[i + 1].boundary

\* The last of them is the state reached, once every gate is done.
CompleteInv ==
  /\ phase \in Phases
  /\ (phase = "forward" /\ call.entry = "gradient") =>
       /\ Len(checkpoints) >= 1
       /\ step = Gates => checkpoints[Len(checkpoints)].boundary = Gates
       /\ checkpoints[Len(checkpoints)].boundary <= step
  /\ phase \in {"called", "compiled"} => checkpoints = <<>> /\ step = 0
  /\ phase \in {"reverse", "replay", "frames"} =>
       /\ at \in 1 .. Len(checkpoints) - 1
       /\ step = Gates
       /\ checkpoints[Len(checkpoints)].boundary = Gates

\* The block holds the forward states from its checkpoint on.
BlockInv ==
  phase \in {"replay", "frames"} =>
    /\ IsSeq(block)
    /\ \A i \in 1 .. Len(block) : block[i] = trace[BlockStart + i]
    /\ phase = "replay" => Len(block) >= 1 /\ BlockStart + Len(block) - 1 < BlockEnd
    /\ phase = "frames" => Len(block) >= 2 /\ BlockStart + Len(block) - 1 <= BlockEnd

IInv == TraceInv /\ CheckpointInv /\ CompleteInv /\ BlockInv

\* What the assumption on calls gives of the one running.
LEMMA GatesAreFinite ==
  ASSUME call \in Calls
  PROVE  Gates \in Nat
  BY CallsAssumption DEF Gates, Range

---------------------------------------------------------------------------
\* A call starts with the observable and no checkpoint.
LEMMA Initially == Init => IInv
<1> SUFFICES ASSUME Init PROVE IInv
  OBVIOUS
<1>1. Gates \in Nat
  BY GatesAreFinite DEF Init
<1>2. IsSeq(trace) /\ Len(trace) = 1 /\ trace[1] = terms
  BY ShortSeq DEF Init
<1>3. TraceInv
  BY <1>1, <1>2 DEF Init, TraceInv
<1>4. IsSeq(checkpoints) /\ Len(checkpoints) = 0
  BY DEF Init, IsSeq
<1>5. CheckpointInv /\ CompleteInv /\ BlockInv
  BY <1>4 DEF Init, CheckpointInv, CompleteInv, BlockInv, Phases
<1> QED
  BY <1>3, <1>5 DEF IInv

\* A call that fails changes nothing but its phase.
LEMMA Failing ==
  ASSUME IInv, NEW reason, Fail(reason)
  PROVE  IInv'
<1>1. TraceInv' /\ CheckpointInv'
  BY DEF IInv, Fail, local, ghosts, TraceInv, CheckpointInv, Applied, OpAt, Gates
<1>2. CompleteInv' /\ BlockInv'
  BY DEF Fail, CompleteInv, BlockInv, Phases
<1> QED
  BY <1>1, <1>2 DEF IInv

\* Steps that leave forward states and checkpoints alone keep what is known of them.
LEMMA Unmoved ==
  ASSUME IInv, UNCHANGED <<call, step, terms, trace, checkpoints>>
  PROVE  TraceInv' /\ CheckpointInv'
  BY DEF IInv, TraceInv, CheckpointInv, Applied, OpAt, Gates

\* A gate: the next forward state follows the last.
LEMMA Advancing ==
  ASSUME IInv, step < Gates, UNCHANGED call,
         Apply(OpAt(step), ApplyOperation(OpAt(step), terms, call.values, call.cutoff))
  PROVE  /\ TraceInv'
         /\ \A k \in 0 .. step : trace'[k + 1] = trace[k + 1]
         /\ step' = step + 1 /\ trace'[step + 2] = terms'
<1> DEFINE next == ApplyOperation(OpAt(step), terms, call.values, call.cutoff)
<1>1. step \in Nat /\ Gates \in Nat /\ step + 1 \in 0 .. Gates
  BY GatesAreFinite DEF IInv, TraceInv
<1>2. /\ step' = step + 1 /\ terms' = next /\ trace' = Append(trace, next)
      /\ Gates' = Gates
  BY DEF Apply, Gates
<1>3. IsSeq(trace) /\ Len(trace) = step + 1
  BY DEF IInv, TraceInv
<1> HIDE DEF next
<1>4. /\ IsSeq(trace') /\ Len(trace') = step + 2
      /\ \A i \in 1 .. step + 1 : trace'[i] = trace[i]
      /\ trace'[step + 2] = next
  BY <1>1, <1>2, <1>3, AppendToSeq
<1>5. \A k \in 0 .. step : trace'[k + 1] = trace[k + 1]
  BY <1>1, <1>4
<1>6. ASSUME NEW k \in 0 .. step
      PROVE  trace'[k + 2] = Applied(k)'
  <2>1. OpAt(k)' = OpAt(k)
    BY DEF OpAt, Gates
  <2>2. Applied(k)' = Applied(k)
    BY <1>5, <2>1 DEF Applied
  <2>3. ASSUME k < step PROVE trace'[k + 2] = Applied(k)
    <3>1. k + 1 \in 0 .. step /\ k \in 0 .. step - 1
      BY <1>1, <2>3
    <3>2. trace'[(k + 1) + 1] = trace[(k + 1) + 1]
      BY <1>5, <3>1
    <3>3. trace[k + 2] = Applied(k)
      BY <3>1 DEF IInv, TraceInv
    <3> QED
      BY <1>1, <3>1, <3>2, <3>3
  <2>4. ASSUME k = step PROVE trace'[k + 2] = Applied(k)
    BY <1>1, <1>4, <2>4 DEF IInv, TraceInv, Applied, next
  <2> QED
    BY <1>1, <2>2, <2>3, <2>4
<1>7. call' \in Calls
  BY DEF IInv, TraceInv
<1>8. TraceInv'
  BY <1>1, <1>2, <1>4, <1>6, <1>7 DEF TraceInv
<1> QED
  BY <1>2, <1>4, <1>5, <1>8

---------------------------------------------------------------------------
(* Every action preserves the invariant                                    *)

\* Compiling moves nothing.
LEMMA CompileStep == IInv /\ Compile => IInv'
<1> SUFFICES ASSUME IInv, Compile PROVE IInv'
  OBVIOUS
<1>1. ASSUME NEW reason, Fail(reason) PROVE IInv'
  BY <1>1, Failing
<1>2. ASSUME phase' = "compiled", phase = "called",
             UNCHANGED <<call, error, step, terms, local, ghosts>>
      PROVE  IInv'
  <2>1. TraceInv' /\ CheckpointInv'
    BY <1>2, Unmoved DEF local, ghosts
  <2>2. CompleteInv' /\ BlockInv'
    BY <1>2 DEF IInv, CompleteInv, BlockInv, local, Phases
  <2> QED
    BY <2>1, <2>2 DEF IInv
<1> QED
  BY <1>1, <1>2 DEF Compile

\* The first state is the first checkpoint.
LEMMA BeginStep == IInv /\ Begin => IInv'
<1> SUFFICES ASSUME IInv, Begin PROVE IInv'
  OBVIOUS
<1>1. ASSUME NEW reason, Fail(reason) PROVE IInv'
  BY <1>1, Failing
<1>2. ASSUME phase = "compiled", phase' = "forward",
             UNCHANGED <<call, step, terms, trace, checkpoints>>, call.entry # "gradient"
      PROVE  IInv'
  <2>1. TraceInv' /\ CheckpointInv'
    BY <1>2, Unmoved
  <2>2. CompleteInv' /\ BlockInv'
    BY <1>2 DEF CompleteInv, BlockInv, Phases
  <2> QED
    BY <2>1, <2>2 DEF IInv
<1>3. ASSUME phase = "compiled", phase' = "forward", UNCHANGED <<call, step, terms, trace>>,
             checkpoints' = <<[boundary |-> 0, terms |-> terms]>>
      PROVE  IInv'
  <2>1. step = 0 /\ trace[1] = terms /\ Gates \in Nat
    BY <1>3, GatesAreFinite DEF IInv, TraceInv, CompleteInv
  <2>2. TraceInv'
    BY <1>3 DEF IInv, TraceInv, Applied, OpAt, Gates
  <2> DEFINE first == [boundary |-> 0, terms |-> terms]
  <2>3. IsSeq(checkpoints') /\ Len(checkpoints') = 1 /\ checkpoints'[1] = first
    BY <1>3, ShortSeq
  <2>4. CheckpointInv'
    BY <1>3, <2>1, <2>3 DEF CheckpointInv
  <2>5. CompleteInv' /\ BlockInv'
    BY <1>3, <2>1, <2>3 DEF CompleteInv, BlockInv, Phases, Gates
  <2> QED
    BY <2>2, <2>4, <2>5 DEF IInv
<1> QED
  BY <1>1, <1>2, <1>3 DEF Begin, ghosts

\* A gate of a profile keeps no checkpoint.
LEMMA ProfileGateStep == IInv /\ ProfileGate => IInv'
<1> SUFFICES ASSUME IInv, ProfileGate PROVE IInv'
  OBVIOUS
<1>1. ASSUME NEW reason, Fail(reason) PROVE IInv'
  BY <1>1, Failing
<1>2. ASSUME phase = "forward", call.entry = "profile", step < Gates,
             Apply(OpAt(step), ApplyOperation(OpAt(step), terms, call.values, call.cutoff)),
             UNCHANGED <<call, phase, checkpoints>>
      PROVE  IInv'
  <2>1. /\ TraceInv'
        /\ \A k \in 0 .. step : trace'[k + 1] = trace[k + 1]
        /\ step' = step + 1
    BY <1>2, Advancing
  <2>2. step \in Nat
    BY GatesAreFinite DEF IInv, TraceInv
  <2>3. CheckpointInv'
    BY <1>2, <2>1, <2>2 DEF IInv, CheckpointInv
  <2>4. CompleteInv' /\ BlockInv'
    BY <1>2 DEF CompleteInv, BlockInv, Phases
  <2> QED
    BY <2>1, <2>3, <2>4 DEF IInv
<1> QED
  BY <1>1, <1>2 DEF ProfileGate

\* A boundary is kept as the next checkpoint, and the last state is a boundary.
\* A gate of a gradient keeps one at every boundary and after the last gate.
LEMMA GradientGateStep == IInv /\ GradientGate => IInv'
<1> SUFFICES ASSUME IInv, GradientGate PROVE IInv'
  OBVIOUS
<1> DEFINE next == ApplyOperation(OpAt(step), terms, call.values, call.cutoff)
           kept == [boundary |-> step + 1, terms |-> next]
<1>1. ASSUME NEW reason, Fail(reason) PROVE IInv'
  BY <1>1, Failing
<1>2. ASSUME phase = "forward", call.entry = "gradient", step < Gates,
             Apply(OpAt(step), next), UNCHANGED <<call, phase>>,
             IF IsBoundary(step + 1) THEN checkpoints' = Append(checkpoints, kept)
             ELSE UNCHANGED checkpoints
      PROVE  IInv'
  <2>1. /\ TraceInv'
        /\ \A k \in 0 .. step : trace'[k + 1] = trace[k + 1]
        /\ step' = step + 1 /\ trace'[step + 2] = terms' /\ Gates' = Gates
    BY <1>2, Advancing DEF Gates
  <2>2. step \in Nat /\ Gates \in Nat /\ terms' = next
    BY <1>2, GatesAreFinite DEF IInv, TraceInv, Apply
  <2>3. /\ IsSeq(checkpoints) /\ Len(checkpoints) \in Nat /\ Len(checkpoints) >= 1
        /\ checkpoints[Len(checkpoints)].boundary <= step
        /\ \A i \in 1 .. Len(checkpoints) : checkpoints[i].boundary \in 0 .. step
    BY <1>2 DEF IInv, CheckpointInv, CompleteInv, IsSeq
  <2>4. BlockInv'
    BY <1>2 DEF BlockInv
  <2>5. ASSUME IsBoundary(step + 1) PROVE CheckpointInv' /\ CompleteInv'
    <3> HIDE DEF next
    <3>0. checkpoints' = Append(checkpoints, kept)
      BY <1>2, <2>5
    <3> HIDE DEF kept
    <3>1. /\ IsSeq(checkpoints') /\ Len(checkpoints') = Len(checkpoints) + 1
          /\ \A i \in 1 .. Len(checkpoints) : checkpoints'[i] = checkpoints[i]
          /\ checkpoints'[Len(checkpoints) + 1] = kept
      BY <2>3, <3>0, AppendToSeq
    <3>2. \A i \in 1 .. Len(checkpoints') :
             /\ checkpoints'[i].boundary \in 0 .. step'
             /\ checkpoints'[i].terms = trace'[checkpoints'[i].boundary + 1]
      <4>1. ASSUME NEW i \in 1 .. Len(checkpoints)
            PROVE  /\ checkpoints'[i].boundary \in 0 .. step'
                   /\ checkpoints'[i].terms = trace'[checkpoints'[i].boundary + 1]
        <5>1. /\ checkpoints'[i] = checkpoints[i]
              /\ checkpoints[i].boundary \in 0 .. step
              /\ checkpoints[i].terms = trace[checkpoints[i].boundary + 1]
          BY <3>1 DEF IInv, CheckpointInv
        <5> QED
          BY <2>1, <2>2, <5>1
      <4>2. /\ checkpoints'[Len(checkpoints) + 1].boundary = step + 1
            /\ checkpoints'[Len(checkpoints) + 1].terms = trace'[(step + 1) + 1]
        BY <2>1, <2>2, <3>1 DEF kept
      <4> QED
        BY <2>1, <2>2, <2>3, <3>1, <4>1, <4>2
    <3>3. \A i \in 1 .. Len(checkpoints') - 1 :
             checkpoints'[i].boundary < checkpoints'[i + 1].boundary
      <4>1. ASSUME NEW i \in 1 .. Len(checkpoints) - 1
            PROVE  checkpoints'[i].boundary < checkpoints'[i + 1].boundary
        BY <2>3, <3>1 DEF IInv, CheckpointInv
      <4>2. checkpoints'[Len(checkpoints)].boundary < checkpoints'[Len(checkpoints) + 1].boundary
        BY <2>2, <2>3, <3>1 DEF kept
      <4> QED
        BY <2>3, <3>1, <4>1, <4>2
    <3>4. CheckpointInv'
      BY <3>1, <3>2, <3>3 DEF CheckpointInv
    <3>5. CompleteInv'
      BY <1>2, <2>1, <2>2, <2>3, <3>1 DEF CompleteInv, Phases, kept
    <3> QED
      BY <3>4, <3>5
  <2>6. ASSUME ~IsBoundary(step + 1) PROVE CheckpointInv' /\ CompleteInv'
    <3>1. CheckpointInv'
      BY <1>2, <2>1, <2>2, <2>6 DEF IInv, CheckpointInv
    <3>2. step + 1 # Gates
      BY <2>6 DEF IsBoundary
    <3>3. CompleteInv'
      BY <1>2, <2>1, <2>2, <2>3, <2>6, <3>2 DEF CompleteInv, Phases
    <3> QED
      BY <3>1, <3>3
  <2> QED
    BY <2>1, <2>4, <2>5, <2>6 DEF IInv
<1> QED
  BY <1>1, <1>2 DEF GradientGate

\* An answer moves nothing.
LEMMA ProfileAnswerStep == IInv /\ ProfileAnswer => IInv'
<1> SUFFICES ASSUME IInv, ProfileAnswer PROVE IInv'
  OBVIOUS
<1>1. TraceInv' /\ CheckpointInv'
  BY Unmoved DEF ProfileAnswer, ghosts
<1>2. CompleteInv' /\ BlockInv'
  BY DEF ProfileAnswer, CompleteInv, BlockInv, Phases
<1> QED
  BY <1>1, <1>2 DEF IInv

\* The reverse pass starts at the last block.
LEMMA StartReverseStep == IInv /\ StartReverse => IInv'
<1> SUFFICES ASSUME IInv, StartReverse PROVE IInv'
  OBVIOUS
<1>1. ASSUME NEW reason, Fail(reason) PROVE IInv'
  BY <1>1, Failing
<1>2. ASSUME phase = "forward", call.entry = "gradient", step = Gates,
             UNCHANGED <<call, step, terms, trace, checkpoints>>,
             at' = Len(checkpoints) - 1,
             phase' = IF Len(checkpoints) = 1 THEN "done" ELSE "reverse"
      PROVE  IInv'
  <2>1. TraceInv' /\ CheckpointInv'
    BY <1>2, Unmoved
  <2>2. Len(checkpoints) \in Nat
    BY DEF IInv, CheckpointInv, IsSeq
  <2>3. BlockInv'
    BY <1>2 DEF BlockInv
  <2>4. Len(checkpoints) >= 1 /\ checkpoints[Len(checkpoints)].boundary = Gates
    BY <1>2 DEF IInv, CompleteInv
  <2>5. Gates' = Gates
    BY <1>2 DEF Gates
  <2>6. phase' = "reverse" => at' \in 1 .. Len(checkpoints) - 1
    <3>1. at' = Len(checkpoints) - 1 /\ (phase' = "reverse" => Len(checkpoints) # 1)
      BY <1>2
    <3>2. Len(checkpoints) # 1 => Len(checkpoints) - 1 \in 1 .. Len(checkpoints) - 1
      <4>1. \A n \in Nat : n >= 1 /\ n # 1 => n - 1 \in 1 .. n - 1
        OBVIOUS
      <4> QED
        BY <2>2, <2>4, <4>1
    <3> QED
      BY <3>1, <3>2
  <2>7. CompleteInv'
    BY <1>2, <2>4, <2>5, <2>6 DEF CompleteInv, Phases
  <2> QED
    BY <2>1, <2>3, <2>7 DEF IInv
<1> QED
  BY <1>1, <1>2 DEF StartReverse, ghosts

\* What the invariant says of the block being reversed.
LEMMA Boundaries ==
  ASSUME IInv, phase \in {"reverse", "replay", "frames"}
  PROVE  /\ at \in 1 .. Len(checkpoints) - 1 /\ Len(checkpoints) \in Nat
         /\ BlockStart \in 0 .. step /\ BlockEnd \in 0 .. step /\ step \in Nat
         /\ BlockStart < BlockEnd
         /\ checkpoints[at].terms = trace[BlockStart + 1]
         /\ checkpoints[at + 1].terms = trace[BlockEnd + 1]
<1>1. at \in 1 .. Len(checkpoints) - 1 /\ Len(checkpoints) \in Nat /\ step \in Nat
  BY GatesAreFinite DEF IInv, CompleteInv, CheckpointInv, TraceInv, IsSeq
<1>2. at \in 1 .. Len(checkpoints) /\ at + 1 \in 1 .. Len(checkpoints)
  BY <1>1
<1> QED
  BY <1>1, <1>2 DEF IInv, CheckpointInv, BlockStart, BlockEnd

\* A block opens with its checkpoint.
LEMMA OpenBlockStep == IInv /\ OpenBlock => IInv'
<1> SUFFICES ASSUME IInv, OpenBlock PROVE IInv'
  OBVIOUS
<1>1. TraceInv' /\ CheckpointInv'
  BY Unmoved DEF OpenBlock, ghosts
<1>2. /\ at \in 1 .. Len(checkpoints) - 1 /\ Len(checkpoints) \in Nat
      /\ BlockStart \in 0 .. step /\ BlockEnd \in 0 .. step /\ step \in Nat
      /\ BlockStart < BlockEnd
      /\ checkpoints[at].terms = trace[BlockStart + 1]
      /\ checkpoints[at + 1].terms = trace[BlockEnd + 1]
  BY Boundaries DEF OpenBlock
<1>3. BlockStart' = BlockStart /\ BlockEnd' = BlockEnd /\ Gates' = Gates
  BY DEF OpenBlock, BlockStart, BlockEnd, Gates
<1>4. CompleteInv'
  BY <1>2, <1>3 DEF OpenBlock, IInv, CompleteInv, Phases
<1>5. BlockInv'
  <2>1. ASSUME BlockEnd - BlockStart = 1 PROVE BlockInv'
    <3>1. block' = <<trace[BlockStart + 1], trace[BlockStart + 2]>> /\ phase' = "frames"
      BY <1>2, <2>1 DEF OpenBlock
    <3>2. /\ IsSeq(block') /\ Len(block') = 2
          /\ block'[1] = trace[BlockStart + 1] /\ block'[2] = trace[BlockStart + 2]
      BY <3>1, ShortSeq
    <3> QED
      BY <1>2, <1>3, <2>1, <3>1, <3>2 DEF BlockInv, OpenBlock, ghosts
  <2>2. ASSUME BlockEnd - BlockStart # 1 PROVE BlockInv'
    <3>1. block' = <<trace[BlockStart + 1]>> /\ phase' = "replay"
      BY <1>2, <2>2 DEF OpenBlock
    <3>2. IsSeq(block') /\ Len(block') = 1 /\ block'[1] = trace[BlockStart + 1]
      BY <3>1, ShortSeq
    <3> QED
      BY <1>2, <1>3, <2>2, <3>1, <3>2 DEF BlockInv, OpenBlock, ghosts
  <2> QED
    BY <2>1, <2>2
<1> QED
  BY <1>1, <1>4, <1>5 DEF IInv

\* The state replayed is the forward state: the same gate applied to the same state.
\* A replayed gate gives the next forward state again.
LEMMA ReplayGateStep == IInv /\ ReplayGate => IInv'
<1> SUFFICES ASSUME IInv, ReplayGate PROVE IInv'
  OBVIOUS
<1> DEFINE n == Len(block)
           next == ApplyOperation(ReplayOp, Last(block), call.values, call.cutoff)
<1>1. ASSUME NEW reason, Fail(reason) PROVE IInv'
  BY <1>1, Failing
<1>2. ASSUME phase = "replay", block' = Append(block, next),
             phase' = IF BlockStart + Len(Append(block, next)) - 1 = BlockEnd
                      THEN "frames" ELSE "replay",
             UNCHANGED <<call, step, terms, trace, checkpoints, at>>
      PROVE  IInv'
  <2>1. TraceInv' /\ CheckpointInv'
    BY <1>2, Unmoved
  <2>2. /\ at \in 1 .. Len(checkpoints) - 1 /\ Len(checkpoints) \in Nat
        /\ BlockStart \in 0 .. step /\ BlockEnd \in 0 .. step /\ step \in Nat
        /\ BlockStart < BlockEnd
    BY <1>2, Boundaries
  <2>3. BlockStart' = BlockStart /\ BlockEnd' = BlockEnd /\ Gates' = Gates
    BY <1>2 DEF BlockStart, BlockEnd, Gates
  <2>4. /\ IsSeq(block) /\ n \in Nat /\ n >= 1 /\ BlockStart + n - 1 < BlockEnd
        /\ \A i \in 1 .. n : block[i] = trace[BlockStart + i]
    BY <1>2 DEF IInv, BlockInv, IsSeq
  <2>5. next = trace[BlockStart + n + 1]
    <3> DEFINE k == BlockStart + n - 1
    <3>1. k \in 0 .. step - 1 /\ k + 1 = BlockStart + n /\ k + 2 = BlockStart + n + 1
      BY <2>2, <2>4
    <3>2. Last(block) = trace[k + 1] /\ ReplayOp = OpAt(k)
      BY <2>4, <3>1 DEF Last, ReplayOp
    <3>3. trace[k + 2] = Applied(k)
      BY <3>1 DEF IInv, TraceInv
    <3> QED
      BY <3>1, <3>2, <3>3 DEF Applied
  <2> HIDE DEF next
  <2>6. /\ IsSeq(block') /\ Len(block') = n + 1
        /\ \A i \in 1 .. n : block'[i] = block[i]
        /\ block'[n + 1] = next
    BY <1>2, <2>4, AppendToSeq
  <2>7. \A i \in 1 .. n + 1 : block'[i] = trace'[BlockStart' + i]
    BY <1>2, <2>2, <2>3, <2>4, <2>5, <2>6
  <2>8. phase' = IF BlockStart + n = BlockEnd THEN "frames" ELSE "replay"
    BY <1>2, <2>2, <2>4, <2>6
  <2>9. BlockInv'
    <3>1. phase' = "replay" => Len(block') >= 1 /\ BlockStart' + Len(block') - 1 < BlockEnd'
      BY <2>2, <2>3, <2>4, <2>6, <2>8
    <3>2. phase' = "frames" => Len(block') >= 2 /\ BlockStart' + Len(block') - 1 <= BlockEnd'
      BY <2>2, <2>3, <2>4, <2>6, <2>8
    <3>3. \A i \in 1 .. Len(block') : block'[i] = trace'[BlockStart' + i]
      BY <2>6, <2>7
    <3> QED
      BY <2>6, <3>1, <3>2, <3>3 DEF BlockInv
  <2>10. CompleteInv'
    BY <1>2, <2>2, <2>3, <2>8 DEF IInv, CompleteInv, Phases
  <2> QED
    BY <2>1, <2>9, <2>10 DEF IInv
<1> QED
  BY <1>1, <1>2 DEF ReplayGate, ghosts

\* A frame drops the last state of its block, or the block.
LEMMA ReverseFrameStep == IInv /\ ReverseFrame => IInv'
<1> SUFFICES ASSUME IInv, ReverseFrame PROVE IInv'
  OBVIOUS
<1> DEFINE n == Len(block)
<1>1. TraceInv' /\ CheckpointInv'
  BY Unmoved DEF ReverseFrame, ghosts
<1>2. /\ at \in 1 .. Len(checkpoints) - 1 /\ Len(checkpoints) \in Nat
      /\ BlockStart \in Nat /\ BlockEnd \in Nat
  BY Boundaries DEF ReverseFrame
<1>3. /\ IsSeq(block) /\ n \in Nat /\ n >= 2 /\ BlockStart + n - 1 <= BlockEnd
      /\ \A i \in 1 .. n : block[i] = trace[BlockStart + i]
  BY DEF ReverseFrame, IInv, BlockInv, IsSeq
<1>4. ASSUME n > 2, block' = SubSeq(block, 1, n - 1), phase' = "frames",
             UNCHANGED <<call, step, checkpoints, trace, at>>
      PROVE  CompleteInv' /\ BlockInv'
  <2>1. /\ IsSeq(block') /\ Len(block') = n - 1
        /\ \A i \in 1 .. n - 1 : block'[i] = block[i]
    BY <1>3, <1>4, PrefixOfSeq
  <2>2. BlockStart' = BlockStart /\ BlockEnd' = BlockEnd /\ Gates' = Gates
    BY <1>4 DEF BlockStart, BlockEnd, Gates
  <2>3. BlockInv'
    BY <1>2, <1>3, <1>4, <2>1, <2>2 DEF BlockInv
  <2>4. CompleteInv'
    BY <1>2, <1>4, <2>2 DEF ReverseFrame, IInv, CompleteInv, Phases
  <2> QED
    BY <2>3, <2>4
<1>5. ASSUME at' = at - 1, phase' = IF at = 1 THEN "done" ELSE "reverse",
             UNCHANGED <<call, step, checkpoints>>
      PROVE  CompleteInv' /\ BlockInv'
  BY <1>2, <1>5 DEF ReverseFrame, IInv, CompleteInv, BlockInv, Phases, Gates
<1>6. CompleteInv' /\ BlockInv'
  BY <1>3, <1>4, <1>5 DEF ReverseFrame, NextBlock, ghosts
<1> QED
  BY <1>1, <1>6 DEF IInv

---------------------------------------------------------------------------
\* A step that does nothing keeps everything.
LEMMA Stuttering == IInv /\ UNCHANGED vars => IInv'
<1> SUFFICES ASSUME IInv, UNCHANGED vars PROVE IInv'
  OBVIOUS
<1>1. TraceInv' /\ CheckpointInv'
  BY Unmoved DEF vars
<1>2. CompleteInv' /\ BlockInv'
  BY DEF vars, IInv, CompleteInv, BlockInv, Gates, BlockStart, BlockEnd
<1> QED
  BY <1>1, <1>2 DEF IInv

\* Every forward state and checkpoint and the block being replayed are as the
\* invariant says, in every state of every call.
THEOREM Invariant == Spec => []IInv
<1>1. Init => IInv
  BY Initially
<1>2. IInv /\ [Next]_vars => IInv'
  BY CompileStep, BeginStep, ProfileGateStep, GradientGateStep, ProfileAnswerStep,
     StartReverseStep, OpenBlockStep, ReplayGateStep, ReverseFrameStep, Stuttering
  DEF Next, Returned
<1> QED
  BY <1>1, <1>2, PTL DEF Spec

\* The states of a block are forward states, so the gate between its last two is the
\* gate the forward pass applied between them.
LEMMA InvariantGivesReplay == IInv => FramesReplay
<1> SUFFICES ASSUME IInv PROVE FramesReplay
  OBVIOUS
<1>1. \A i \in DOMAIN checkpoints : checkpoints[i].terms = trace[checkpoints[i].boundary + 1]
  BY DEF IInv, CheckpointInv, IsSeq
<1>2. ASSUME phase \in {"replay", "frames"}
      PROVE  \A i \in DOMAIN block : block[i] = trace[BlockStart + i]
  BY <1>2 DEF IInv, BlockInv, IsSeq
<1>3. ASSUME phase = "frames"
      PROVE  /\ BlockStart + Len(block) - 1 <= BlockEnd
             /\ block[Len(block)] = ApplyOperation(OpAt(BlockStart + Len(block) - 2),
                                      block[Len(block) - 1], call.values, call.cutoff)
  <2> DEFINE n == Len(block)
             k == BlockStart + n - 2
  <2>1. /\ n \in Nat /\ n >= 2 /\ BlockStart + n - 1 <= BlockEnd
        /\ \A i \in 1 .. n : block[i] = trace[BlockStart + i]
    BY <1>3 DEF IInv, BlockInv, IsSeq
  <2>2. BlockStart \in 0 .. step /\ BlockEnd \in 0 .. step /\ step \in Nat
    BY <1>3, Boundaries
  <2>3. /\ k \in 0 .. step - 1 /\ k + 1 = BlockStart + (n - 1) /\ k + 2 = BlockStart + n
        /\ n - 1 \in 1 .. n /\ n \in 1 .. n
    BY <2>1, <2>2
  <2>4. trace[k + 2] = Applied(k)
    BY <2>3 DEF IInv, TraceInv
  <2>5. block[n] = trace[k + 2] /\ block[n - 1] = trace[k + 1]
    BY <2>1, <2>3
  <2> QED
    BY <2>1, <2>4, <2>5 DEF Applied
<1>4. ASSUME phase = "reverse"
      PROVE  at >= 1 /\ checkpoints[Len(checkpoints)].boundary = Gates
  BY <1>4 DEF IInv, CompleteInv
<1> QED
  BY <1>1, <1>2, <1>3, <1>4 DEF FramesReplay

\* value_and_grad's reverse pass works on the states the forward pass went through,
\* whatever the tape, the observable, the checkpoint interval and the limit.
THEOREM Replay == Spec => []FramesReplay
  BY Invariant, InvariantGivesReplay, PTL

---------------------------------------------------------------------------
(* One frame of the reverse pass                                           *)

\* The adjoints of a state's words, from those of its terms.
AdjointOf(out, adjoints) ==
  [w \in Words |-> IF w \in KeysOf(out) THEN adjoints[IndexOf(out, w)] ELSE 0]

Pairing(f, g) == SumFunctionOnSet([w \in Words |-> f[w] * g[w]], Words)

\* What edges give, by edge: to the adjoint of the word they leave, to the gradient of a
\* slot, and to the derivative of the state after (t and c are the derivative and the
\* coefficient of the word they leave).
Carries(lam) == [e \in EdgeSet |-> e.m * lam[e.key]]
Slopes(lam, s) == [e \in EdgeSet |-> IF e.m # 0 THEN Derivative(e, s) * lam[e.key] ELSE 0]
Moved(t, c, s) == [e \in EdgeSet |-> IF e.m # 0 THEN e.m * t + c * Derivative(e, s) ELSE 0]
AtWord(g, w) == [e \in EdgeSet |-> IF e.key = w THEN g[e] ELSE 0]

\* The index of a word that occurs.
LEMMA IndexOfIs ==
  ASSUME NEW out \in Seq(Terms), NEW w \in KeysOf(out)
  PROVE  IndexOf(out, w) \in 1 .. Len(out) /\ out[IndexOf(out, w)].key = w
<1> DEFINE I == {i \in 1 .. Len(out) : out[i].key = w}
<1>1. I # {} /\ I \subseteq 1 .. Len(out) /\ Len(out) \in Nat
  BY DEF KeysOf
<1>2. PICK m \in I : \A k \in I : k <= m
  <2> HIDE DEF I
  <2> QED BY <1>1, LastIndex
<1>3. ASSUME NEW j \in m + 1 .. Len(out) PROVE out[j].key # w
  <2>1. m \in Nat /\ j \in 1 .. Len(out) /\ ~(j <= m)
    BY <1>1
  <2> QED BY <1>2, <2>1
<1>4. m \in DOMAIN out /\ out[m].key = w
  BY <1>1
<1> HIDE DEF I
<1>5. \E i \in DOMAIN out : out[i].key = w /\ \A j \in i + 1 .. Len(out) : out[j].key # w
  BY <1>3, <1>4
<1>6. IndexOf(out, w) \in DOMAIN out /\ out[IndexOf(out, w)].key = w
  BY <1>5 DEF IndexOf
<1> QED BY <1>6

\* Adjoints are integers, and zero off the state's words.
LEMMA AdjointType ==
  ASSUME NEW out \in Seq(Terms), NEW adjoints \in Seq(Int), Len(adjoints) = Len(out)
  PROVE  /\ IntOn(AdjointOf(out, adjoints), Words)
         /\ AdjointOf(out, adjoints) \in [Words -> Int]
<1>1. \A w \in KeysOf(out) : adjoints[IndexOf(out, w)] \in Int
  BY IndexOfIs
<1> QED BY <1>1 DEF AdjointOf, IntOn

\* What an edge's derivatives give a slot is an integer.
LEMMA DerivativeType ==
  ASSUME NEW e \in EdgeSet, NEW s
  PROVE  Derivative(e, s) \in Int
<1> DEFINE g == [i \in DOMAIN e.d |-> IF e.d[i][1] = s THEN e.d[i][2] ELSE 0]
<1>1. e.d \in Seq(Int \X Int)
  BY EdgeParts
<1>2. DOMAIN e.d = 1 .. Len(e.d) /\ \A i \in 1 .. Len(e.d) : e.d[i] \in Int \X Int
  BY <1>1
<1>3. \A i \in 1 .. Len(e.d) : e.d[i][2] \in Int
  BY <1>2
<1>4. IntOn(g, 1 .. Len(e.d)) /\ DOMAIN g = 1 .. Len(e.d) /\ IsFiniteSet(1 .. Len(e.d))
  BY <1>1, <1>2, <1>3, FS_Interval DEF IntOn
<1>5. Derivative(e, s) = SumFunction(g)
  BY DEF Derivative, SumOver
<1> HIDE DEF g
<1> QED BY <1>4, <1>5, SumInt DEF SumFunction

\* The edge sums are sums of integers.
LEMMA EdgeValues ==
  ASSUME NEW lam, IntOn(lam, Words), NEW s, NEW t \in Int, NEW c \in Int
  PROVE  /\ IntOn(Carries(lam), EdgeSet) /\ IntOn(Slopes(lam, s), EdgeSet)
         /\ IntOn(Moved(t, c, s), EdgeSet)
<1> SUFFICES ASSUME NEW e \in EdgeSet
             PROVE  /\ Carries(lam)[e] \in Int /\ Slopes(lam, s)[e] \in Int
                    /\ Moved(t, c, s)[e] \in Int
  BY DEF IntOn
<1>1. e.m \in Int /\ lam[e.key] \in Int /\ Derivative(e, s) \in Int
  BY EdgeParts, DerivativeType DEF IntOn
<1> QED BY <1>1 DEF Carries, Slopes, Moved

\* A total is linear in what is added up.
LEMMA TotalLinear ==
  ASSUME NEW S, NEW seq \in Seq(S), NEW f, IntOn(f, S), NEW g, IntOn(g, S),
         NEW x \in Int, NEW y \in Int, NEW h, Combines(h, x, f, y, g, S)
  PROVE  SumAlong(h, seq) = x * SumAlong(f, seq) + y * SumAlong(g, seq)
<1>1. /\ IsFiniteSet(1 .. Len(seq)) /\ IntOn(ValuesAlong(f, seq), 1 .. Len(seq))
      /\ IntOn(ValuesAlong(g, seq), 1 .. Len(seq))
  BY TotalInt
<1>2. Combines(ValuesAlong(h, seq), x, ValuesAlong(f, seq), y, ValuesAlong(g, seq), 1 .. Len(seq))
  <2>1. ASSUME NEW i \in 1 .. Len(seq)
        PROVE  ValuesAlong(h, seq)[i] = x * ValuesAlong(f, seq)[i] + y * ValuesAlong(g, seq)[i]
    <3>1. seq[i] \in S
      OBVIOUS
    <3> QED BY <3>1 DEF Combines, ValuesAlong
  <2> QED BY <2>1 DEF Combines
<1> QED BY <1>1, <1>2, SumLinear DEF SumAlong

Weighs(h, g, lam) == \A e \in EdgeSet : h[e] = g[e] * lam[e.key]
Reached(edges, g, lam) == [w \in Words |-> SumAlong(AtWord(g, w), edges) * lam[w]]

\* A sum over edges is a sum over the words they reach.
LEMMA EdgesByWords ==
  ASSUME NEW edges \in Seq(EdgeSet), NEW g, IntOn(g, EdgeSet), NEW lam, IntOn(lam, Words),
         NEW h, Weighs(h, g, lam)
  PROVE  SumAlong(h, edges) = SumFunctionOnSet(Reached(edges, g, lam), Words)
<1> DEFINE N == Len(edges)
           terms_ == [i \in 1 .. N |-> Term(edges[i].key, g[edges[i]])]
<1>1. N \in Nat /\ \A i \in 1 .. N : /\ edges[i] \in EdgeSet /\ edges[i].key \in Words
                                     /\ g[edges[i]] \in Int
  BY EdgeParts DEF IntOn
<1>2. \A i \in 1 .. N : terms_[i] \in Terms /\ terms_[i].key = edges[i].key
                        /\ terms_[i].c = g[edges[i]]
  BY <1>1, TermParts
<1>3. terms_ \in Seq(Terms) /\ Len(terms_) = N
  BY <1>1, <1>2
<1> HIDE DEF terms_
<1>4. ASSUME NEW w \in Words
      PROVE  Collect(terms_, w) = SumAlong(AtWord(g, w), edges) /\ Collect(terms_, w) \in Int
  <2> DEFINE f == AtWord(g, w)
             v == ValuesAlong(Coefficient(w), terms_)
  <2>1. IntOn(f, EdgeSet)
    BY DEF IntOn, AtWord
  <2>2. \A i \in 1 .. N : v[i] = f[edges[i]]
    BY <1>1, <1>2, <1>3 DEF ValuesAlong, Coefficient, AtWord
  <2>3. Collect(terms_, w) = SumFunctionOnSet(v, 1 .. N) /\ Collect(terms_, w) \in Int
    BY <1>3, CollectIs DEF SumAlong
  <2> HIDE DEF f, v
  <2>4. SumFunctionOnSet(v, 1 .. N) = SumAlong(f, edges)
    BY <2>1, <2>2, TotalIs
  <2> QED BY <2>3, <2>4 DEF f
<1>5. SumAlong(h, edges) = SumAlong(WeighedBy(lam), terms_)
  <2> DEFINE f == WeighedBy(lam)
             v == ValuesAlong(h, edges)
  <2>1. IntOn(f, Terms)
    BY <1>3, ByWords
  <2>2. \A i \in 1 .. Len(terms_) : v[i] = f[terms_[i]]
    BY <1>1, <1>2, <1>3 DEF ValuesAlong, WeighedBy, Weighs
  <2> HIDE DEF f, v
  <2>3. SumFunctionOnSet(v, 1 .. Len(terms_)) = SumAlong(f, terms_)
    BY <1>3, <2>1, <2>2, TotalIs
  <2> QED BY <1>3, <2>3 DEF f, v, SumAlong
<1>6. SumAlong(WeighedBy(lam), terms_) = Image(terms_, lam)
  BY <1>3, ByWords
<1>7. [v \in Words |-> Collect(terms_, v) * lam[v]] = Reached(edges, g, lam)
  BY <1>4 DEF Reached
<1> QED BY <1>5, <1>6, <1>7 DEF Image

\* The edges a frame visits: all that carried something to a word that was kept.
LEMMA Visited ==
  ASSUME NEW op, NEW values, Supplied(op, values), NEW v \in Words, NEW cutoff \in Int,
         NEW out \in Seq(Terms), \A w \in KeysOf(out) : Weight(w) <= cutoff,
         NEW h, IntOn(h, EdgeSet),
         \A e \in EdgeSet : e.m = 0 \/ e.key \notin KeysOf(out) => h[e] = 0
  PROVE  /\ RetainedEdges(op, v, out, values, cutoff) \in Seq(EdgeSet)
         /\ \A i \in 1 .. Len(RetainedEdges(op, v, out, values, cutoff)) :
              /\ RetainedEdges(op, v, out, values, cutoff)[i].m # 0
              /\ RetainedEdges(op, v, out, values, cutoff)[i].key \in KeysOf(out)
         /\ SumAlong(h, RetainedEdges(op, v, out, values, cutoff)) = SumAlong(h, Edges(op, v, values))
<1> DEFINE edges == Edges(op, v, values)
           at_ == {i \in DOMAIN edges : /\ edges[i].m # 0 /\ Weight(edges[i].key) <= cutoff
                                        /\ edges[i].key \in KeysOf(out)}
           kept == Kept(edges, at_)
           r == [i \in 1 .. Len(edges) |-> IF i \in at_ THEN h[edges[i]] ELSE 0]
           a == ValuesAlong(h, edges)
<1>1. RetainedEdges(op, v, out, values, cutoff) = kept
  BY DEF RetainedEdges, KeepIf
<1>2. edges \in Seq(EdgeSet)
  BY EdgesType
<1>3. \A i \in 1 .. Len(edges) : edges[i] \in EdgeSet
  BY <1>2
<1>4. kept \in Seq(EdgeSet) /\ \E index : KeepsAt(kept, Len(edges), edges, at_, index)
  <2> HIDE DEF at_, edges
  <2> QED BY <1>2, KeptElements
<1>5. ASSUME NEW i \in 1 .. Len(kept) PROVE kept[i].m # 0 /\ kept[i].key \in KeysOf(out)
  <2>1. \E j \in at_ : kept[i] = edges[j]
    <3> HIDE DEF kept, at_, edges
    <3> QED BY <1>4 DEF KeepsAt
  <2> HIDE DEF kept
  <2> QED BY <2>1
<1>6. \A i \in 1 .. Len(edges) : r[i] = a[i]
  <2> SUFFICES ASSUME NEW i \in 1 .. Len(edges) PROVE r[i] = a[i]
    OBVIOUS
  <2>1. i \in at_ <=> edges[i].m # 0 /\ edges[i].key \in KeysOf(out)
    BY <1>2
  <2>2. a[i] = h[edges[i]] /\ r[i] = IF i \in at_ THEN h[edges[i]] ELSE 0
    BY DEF ValuesAlong
  <2> HIDE DEF a, r, at_, edges
  <2> QED BY <1>3, <2>1, <2>2
<1>7. SumAlong(h, kept) = SumFunctionOnSet(r, 1 .. Len(edges))
  <2>1. \A i \in 1 .. Len(edges) : r[i] = IF i \in at_ THEN h[edges[i]] ELSE 0
    OBVIOUS
  <2> HIDE DEF r, at_, edges
  <2> QED BY <1>2, <2>1, TotalKept
<1>8. SumAlong(h, edges) = SumFunctionOnSet(a, 1 .. Len(edges)) /\ IsFiniteSet(1 .. Len(edges))
      /\ IntOn(a, 1 .. Len(edges))
  <2> HIDE DEF edges
  <2> QED BY <1>2, TotalInt DEF SumAlong
<1> HIDE DEF r, a, at_, edges, kept
<1>9. SumFunctionOnSet(r, 1 .. Len(edges)) = SumFunctionOnSet(a, 1 .. Len(edges))
  <2>1. Agree(a, r, 1 .. Len(edges))
    BY <1>6 DEF Agree
  <2> QED BY <1>8, <2>1, SumEqual
<1>10. SumAlong(h, kept) = SumAlong(h, edges)
  BY <1>7, <1>8, <1>9
<1> QED BY <1>1, <1>4, <1>5, <1>10 DEF edges

\* A state's words hold no more than the cutoff allows.
Within(out, cutoff) == \A w \in KeysOf(out) : Weight(w) <= cutoff

\* The adjoint and the slope of each word.
AdjointTo(op, values, lam) == [v \in Words |-> SumAlong(Carries(lam), Edges(op, v, values))]
SlopeTo(op, values, lam, s) == [v \in Words |-> SumAlong(Slopes(lam, s), Edges(op, v, values))]

\* They are integers.
LEMMA SlopeTypes ==
  ASSUME NEW op, NEW values, Supplied(op, values), NEW lam, IntOn(lam, Words), NEW s
  PROVE  IntOn(AdjointTo(op, values, lam), Words) /\ IntOn(SlopeTo(op, values, lam, s), Words)
<1> DEFINE zero == 0
<1>1. zero \in Int
  OBVIOUS
<1> HIDE DEF zero
<1>2. IntOn(Carries(lam), EdgeSet) /\ IntOn(Slopes(lam, s), EdgeSet)
  BY <1>1, EdgeValues
<1>3. ASSUME NEW v \in Words
      PROVE  /\ SumAlong(Carries(lam), Edges(op, v, values)) \in Int
             /\ SumAlong(Slopes(lam, s), Edges(op, v, values)) \in Int
  <2>1. Edges(op, v, values) \in Seq(EdgeSet)
    BY EdgesType
  <2> QED BY <1>2, <2>1, TotalInt
<1> QED BY <1>3 DEF IntOn, AdjointTo, SlopeTo

\* The adjoint of each input, from those of the outputs.
LEMMA InputAdjointIs ==
  ASSUME NEW op, NEW values, Supplied(op, values), NEW cutoff \in Int,
         NEW in \in Seq(Terms), NEW out \in Seq(Terms), Within(out, cutoff),
         NEW adjoints \in Seq(Int), Len(adjoints) = Len(out)
  PROVE  /\ InputAdjoint(op, in, out, values, cutoff, adjoints) \in Seq(Int)
         /\ Len(InputAdjoint(op, in, out, values, cutoff, adjoints)) = Len(in)
         /\ \A v \in KeysOf(in) :
              AdjointOf(in, InputAdjoint(op, in, out, values, cutoff, adjoints))[v]
                = AdjointTo(op, values, AdjointOf(out, adjoints))[v]
<1> DEFINE lam == AdjointOf(out, adjoints)
           back == InputAdjoint(op, in, out, values, cutoff, adjoints)
           f == Carries(lam)
           a == AdjointTo(op, values, lam)
<1>1. IntOn(lam, Words) /\ \A w \in KeysOf(out) : lam[w] = adjoints[IndexOf(out, w)]
  BY AdjointType, KeysCounted DEF AdjointOf
<1>2. IntOn(f, EdgeSet)
  <2> DEFINE zero == 0
  <2>1. zero \in Int
    OBVIOUS
  <2> HIDE DEF zero, lam
  <2> QED BY <1>1, <2>1, EdgeValues
<1>3. \A e \in EdgeSet : e.m = 0 \/ e.key \notin KeysOf(out) => f[e] = 0
  <2> SUFFICES ASSUME NEW e \in EdgeSet, e.m = 0 \/ e.key \notin KeysOf(out) PROVE f[e] = 0
    OBVIOUS
  <2>1. e.m \in Int /\ e.key \in Words /\ lam[e.key] \in Int /\ f[e] = e.m * lam[e.key]
    BY <1>1, EdgeParts DEF Carries, IntOn
  <2>2. e.key \notin KeysOf(out) => lam[e.key] = 0
    BY <2>1 DEF AdjointOf
  <2> HIDE DEF f, lam
  <2> QED BY <2>1, <2>2
<1>4. ASSUME NEW v \in Words
      PROVE  SumOver(RetainedEdges(op, v, out, values, cutoff),
                     LAMBDA e : e.m * adjoints[IndexOf(out, e.key)]) = a[v] /\ a[v] \in Int
  <2> DEFINE edges == RetainedEdges(op, v, out, values, cutoff)
             g == [i \in DOMAIN edges |-> edges[i].m * adjoints[IndexOf(out, edges[i].key)]]
  <2>1. /\ edges \in Seq(EdgeSet) /\ \A i \in 1 .. Len(edges) : edges[i].key \in KeysOf(out)
        /\ SumAlong(f, edges) = SumAlong(f, Edges(op, v, values))
    <3> HIDE DEF f, lam
    <3> QED BY <1>2, <1>3, Visited DEF Within
  <2>2. \A i \in 1 .. Len(edges) : edges[i] \in EdgeSet
    BY <2>1
  <2>3. DOMAIN g = 1 .. Len(edges) /\ \A i \in 1 .. Len(edges) : g[i] = f[edges[i]]
    <3> HIDE DEF edges, lam
    <3> QED BY <1>1, <2>1, <2>2 DEF Carries
  <2>4. SumOver(edges, LAMBDA e : e.m * adjoints[IndexOf(out, e.key)]) = SumFunction(g)
    BY DEF SumOver
  <2> HIDE DEF g, edges, f, lam
  <2>5. SumFunctionOnSet(g, 1 .. Len(edges)) = SumAlong(f, edges)
    BY <1>2, <2>1, <2>3, TotalIs
  <2>6. a[v] = SumAlong(f, Edges(op, v, values)) /\ a[v] \in Int
    <3>1. Edges(op, v, values) \in Seq(EdgeSet)
      BY EdgesType
    <3>2. a[v] = SumAlong(f, Edges(op, v, values))
      BY DEF AdjointTo, f
    <3> HIDE DEF a
    <3> QED BY <1>2, <3>1, <3>2, TotalInt
  <2>7. SumFunction(g) = SumFunctionOnSet(g, 1 .. Len(edges))
    BY <2>3 DEF SumFunction
  <2> QED BY <2>1, <2>4, <2>5, <2>6, <2>7 DEF edges
<1>5. DOMAIN in = 1 .. Len(in) /\ Len(in) \in Nat
      /\ \A i \in 1 .. Len(in) : in[i] \in Terms /\ in[i].key \in Words
  BY TermParts
<1> HIDE DEF a
<1>6. \A i \in 1 .. Len(in) : back[i] = a[in[i].key] /\ back[i] \in Int
  BY <1>4, <1>5 DEF InputAdjoint
<1>7. back \in Seq(Int) /\ Len(back) = Len(in)
  <2>1. back = [i \in 1 .. Len(in) |-> back[i]]
    BY <1>5 DEF InputAdjoint
  <2> HIDE DEF back
  <2> QED BY <1>5, <1>6, <2>1
<1>8. ASSUME NEW v \in KeysOf(in) PROVE AdjointOf(in, back)[v] = a[v]
  <2>1. IndexOf(in, v) \in 1 .. Len(in) /\ in[IndexOf(in, v)].key = v /\ v \in Words
    BY IndexOfIs, KeysCounted
  <2>2. AdjointOf(in, back)[v] = back[IndexOf(in, v)]
    BY <2>1 DEF AdjointOf
  <2> QED BY <1>6, <2>1, <2>2
<1> QED BY <1>7, <1>8 DEF a, lam

\* What a frame adds to a slot: each word's coefficient times its slope.
LEMMA FrameGradientIs ==
  ASSUME NEW op, NEW values, Supplied(op, values), NEW cutoff \in Int,
         NEW in \in Seq(Terms), NEW out \in Seq(Terms), Within(out, cutoff),
         NEW adjoints \in Seq(Int), Len(adjoints) = Len(out), NEW s
  PROVE  FrameGradient(op, in, out, values, cutoff, adjoints, s)
           = Image(in, SlopeTo(op, values, AdjointOf(out, adjoints), s))
<1> DEFINE lam == AdjointOf(out, adjoints)
           f == Slopes(lam, s)
           b == SlopeTo(op, values, lam, s)
           inner(t) == SumOver(RetainedEdges(op, t.key, out, values, cutoff), LAMBDA e :
                         t.c * Derivative(e, s) * adjoints[IndexOf(out, e.key)])
           r == [i \in DOMAIN in |-> inner(in[i])]
<1>1. IntOn(lam, Words) /\ \A w \in KeysOf(out) : lam[w] = adjoints[IndexOf(out, w)]
  BY AdjointType, KeysCounted DEF AdjointOf
<1>2. IntOn(f, EdgeSet)
  <2> DEFINE zero == 0
  <2>1. zero \in Int
    OBVIOUS
  <2> HIDE DEF zero, lam
  <2> QED BY <1>1, <2>1, EdgeValues
<1>3. \A e \in EdgeSet : e.m = 0 \/ e.key \notin KeysOf(out) => f[e] = 0
  <2> SUFFICES ASSUME NEW e \in EdgeSet, e.m = 0 \/ e.key \notin KeysOf(out) PROVE f[e] = 0
    OBVIOUS
  <2>1. /\ e.key \in Words /\ lam[e.key] \in Int /\ Derivative(e, s) \in Int
        /\ f[e] = IF e.m # 0 THEN Derivative(e, s) * lam[e.key] ELSE 0
    BY <1>1, EdgeParts, DerivativeType DEF Slopes, IntOn
  <2>2. e.key \notin KeysOf(out) => lam[e.key] = 0
    BY <2>1 DEF AdjointOf
  <2> HIDE DEF f, lam
  <2> QED BY <2>1, <2>2
<1>4. ASSUME NEW t \in Terms PROVE inner(t) = t.c * b[t.key]
  <2> DEFINE edges == RetainedEdges(op, t.key, out, values, cutoff)
             g == [i \in DOMAIN edges |->
                     t.c * Derivative(edges[i], s) * adjoints[IndexOf(out, edges[i].key)]]
             v == ValuesAlong(f, edges)
  <2>0. t.key \in Words /\ t.c \in Int
    BY TermParts
  <2>1. /\ edges \in Seq(EdgeSet)
        /\ \A i \in 1 .. Len(edges) : edges[i].m # 0 /\ edges[i].key \in KeysOf(out)
        /\ SumAlong(f, edges) = SumAlong(f, Edges(op, t.key, values))
    <3>1. ASSUME NEW u \in Words
          PROVE  LET kept == RetainedEdges(op, u, out, values, cutoff)
                 IN  /\ kept \in Seq(EdgeSet)
                     /\ \A i \in 1 .. Len(kept) : kept[i].m # 0 /\ kept[i].key \in KeysOf(out)
                     /\ SumAlong(f, kept) = SumAlong(f, Edges(op, u, values))
      <4> HIDE DEF f, lam
      <4> QED BY <1>2, <1>3, Visited DEF Within
    <3> HIDE DEF f, lam
    <3> QED BY <2>0, <3>1
  <2>2. \A i \in 1 .. Len(edges) : edges[i] \in EdgeSet
    BY <2>1
  <2>3. DOMAIN g = 1 .. Len(edges) /\ Scales(g, t.c, v, 1 .. Len(edges))
    <3>1. DOMAIN g = 1 .. Len(edges)
      <4> HIDE DEF edges
      <4> QED BY <2>1
    <3>2. ASSUME NEW i \in 1 .. Len(edges) PROVE g[i] = t.c * v[i]
      <4> DEFINE e == edges[i]
      <4>1. /\ e \in EdgeSet /\ e.m # 0 /\ e.key \in KeysOf(out) /\ e.key \in Words
            /\ Derivative(e, s) \in Int
        BY <2>1, <2>2, EdgeParts, DerivativeType
      <4>2. g[i] = t.c * Derivative(e, s) * adjoints[IndexOf(out, e.key)]
        <5> HIDE DEF edges
        <5> QED BY <3>1
      <4>3. v[i] = f[e]
        BY DEF ValuesAlong
      <4> HIDE DEF e, g, v, lam
      <4>4. f[e] = Derivative(e, s) * lam[e.key]
        BY <4>1 DEF Slopes
      <4>5. lam[e.key] = adjoints[IndexOf(out, e.key)] /\ lam[e.key] \in Int
        BY <1>1, <4>1 DEF IntOn
      <4>6. t.c * Derivative(e, s) * lam[e.key] = t.c * (Derivative(e, s) * lam[e.key])
        BY <2>0, <4>1, <4>5, Products
      <4> QED BY <4>2, <4>3, <4>4, <4>5, <4>6
    <3> HIDE DEF g, v, edges
    <3> QED BY <3>1, <3>2 DEF Scales
  <2>4. inner(t) = SumFunction(g)
    BY DEF SumOver
  <2> HIDE DEF g, edges, f, lam
  <2>5. IsFiniteSet(1 .. Len(edges)) /\ IntOn(v, 1 .. Len(edges))
    BY <1>2, <2>1, TotalInt
  <2>6. SumFunctionOnSet(g, 1 .. Len(edges)) = t.c * SumFunctionOnSet(v, 1 .. Len(edges))
    <3> HIDE DEF v
    <3> QED BY <2>0, <2>3, <2>5, SumScale
  <2>7. b[t.key] = SumAlong(f, Edges(op, t.key, values))
    BY <2>0 DEF SlopeTo, f
  <2>8. SumFunction(g) = SumFunctionOnSet(g, 1 .. Len(edges))
    BY <2>3 DEF SumFunction
  <2> HIDE DEF b
  <2> QED BY <2>1, <2>4, <2>6, <2>7, <2>8 DEF SumAlong
<1>5. DOMAIN in = 1 .. Len(in) /\ Len(in) \in Nat /\ \A i \in 1 .. Len(in) : in[i] \in Terms
  OBVIOUS
<1>6. DOMAIN r = 1 .. Len(in) /\ \A i \in 1 .. Len(in) : r[i] = WeighedBy(b)[in[i]]
  <2>1. \A i \in 1 .. Len(in) : r[i] = inner(in[i])
    BY <1>5
  <2> HIDE DEF r, b
  <2>2. ASSUME NEW i \in 1 .. Len(in) PROVE r[i] = WeighedBy(b)[in[i]]
    <3>1. in[i] \in Terms /\ WeighedBy(b)[in[i]] = in[i].c * b[in[i].key]
      BY <1>5 DEF WeighedBy
    <3>2. inner(in[i]) = in[i].c * b[in[i].key]
      BY <1>4, <3>1
    <3>3. r[i] = inner(in[i])
      BY <2>1
    <3> QED BY <3>1, <3>2, <3>3
  <2> QED BY <1>5, <2>2 DEF r
<1>7. FrameGradient(op, in, out, values, cutoff, adjoints, s) = SumFunction(r)
  BY DEF FrameGradient, SumOver
<1>8. IntOn(b, Words)
  <2> HIDE DEF lam
  <2> QED BY <1>1, SlopeTypes
<1> HIDE DEF r, b
<1>9. SumFunctionOnSet(r, 1 .. Len(in)) = SumAlong(WeighedBy(b), in) /\ SumAlong(WeighedBy(b), in) = Image(in, b)
  <2>1. IntOn(WeighedBy(b), Terms) /\ SumAlong(WeighedBy(b), in) = Image(in, b)
    BY <1>8, ByWords
  <2> QED BY <1>6, <2>1, TotalIs
<1> QED BY <1>6, <1>7, <1>9 DEF SumFunction, b, lam

\* What goes from one word to another is the sum of the edges between them.
LEMMA CarriedIs ==
  ASSUME NEW op, NEW values, Supplied(op, values), NEW in \in Seq(Terms), NEW s,
         NEW T, IntOn(T, Words), NEW v \in Words, NEW w \in Words
  PROVE  /\ Carried(op, values, in, T, s, v, w)
              = SumAlong(AtWord(Moved(T[v], Collect(in, v), s), w), Edges(op, v, values))
         /\ Carried(op, values, in, T, s, v, w) \in Int
<1> DEFINE edges == Edges(op, v, values)
           f == AtWord(Moved(T[v], Collect(in, v), s), w)
           g == [i \in DOMAIN edges |->
                   IF edges[i].m # 0 /\ edges[i].key = w
                   THEN edges[i].m * T[v] + Collect(in, v) * Derivative(edges[i], s) ELSE 0]
<1>1. T[v] \in Int /\ Collect(in, v) \in Int
  BY CollectIs DEF IntOn
<1>2. edges \in Seq(EdgeSet)
  BY EdgesType
<1>3. IntOn(f, EdgeSet)
  <2>1. ASSUME NEW e \in EdgeSet PROVE f[e] \in Int
    <3>1. e.m \in Int /\ Derivative(e, s) \in Int
      BY EdgeParts, DerivativeType
    <3>2. e.m * T[v] + Collect(in, v) * Derivative(e, s) \in Int
      BY <1>1, <3>1
    <3> QED BY <3>2 DEF AtWord, Moved
  <2> QED BY <2>1 DEF IntOn
<1>4. DOMAIN g = 1 .. Len(edges) /\ \A i \in 1 .. Len(edges) : g[i] = f[edges[i]]
  <2>1. DOMAIN edges = 1 .. Len(edges) /\ \A i \in 1 .. Len(edges) : edges[i] \in EdgeSet
    BY <1>2
  <2>2. ASSUME NEW i \in 1 .. Len(edges) PROVE g[i] = f[edges[i]]
    <3> DEFINE e == edges[i]
    <3>1. e \in EdgeSet
      BY <2>1
    <3>2. g[i] = IF e.m # 0 /\ e.key = w
                 THEN e.m * T[v] + Collect(in, v) * Derivative(e, s) ELSE 0
      BY <2>1
    <3> HIDE DEF e, g
    <3>3. f[e] = IF e.m # 0 /\ e.key = w
                 THEN e.m * T[v] + Collect(in, v) * Derivative(e, s) ELSE 0
      BY <3>1 DEF AtWord, Moved
    <3> QED BY <3>2, <3>3 DEF e
  <2> QED BY <2>1, <2>2
<1>5. Carried(op, values, in, T, s, v, w) = SumFunction(g)
  BY DEF Carried, SumOver
<1> HIDE DEF f, g, edges
<1>6. SumFunctionOnSet(g, 1 .. Len(edges)) = SumAlong(f, edges) /\ SumAlong(f, edges) \in Int
  BY <1>2, <1>3, <1>4, TotalIs, TotalInt
<1> QED BY <1>4, <1>5, <1>6 DEF SumFunction, f, edges

\* What leaves one word, weighed by the adjoints of the words it reaches.
LEMMA WordFlow ==
  ASSUME NEW op, NEW values, Supplied(op, values), NEW in \in Seq(Terms), NEW s,
         NEW T, IntOn(T, Words), NEW lam, IntOn(lam, Words), NEW v \in Words
  PROVE  SumFunctionOnSet([w \in Words |-> Carried(op, values, in, T, s, v, w) * lam[w]], Words)
           = T[v] * AdjointTo(op, values, lam)[v]
               + Collect(in, v) * SlopeTo(op, values, lam, s)[v]
<1> DEFINE edges == Edges(op, v, values)
           g == Moved(T[v], Collect(in, v), s)
           f1 == Carries(lam)
           f2 == Slopes(lam, s)
           h == [e \in EdgeSet |-> g[e] * lam[e.key]]
<1>1. T[v] \in Int /\ Collect(in, v) \in Int
  BY CollectIs DEF IntOn
<1>2. edges \in Seq(EdgeSet)
  BY EdgesType
<1>3. IntOn(f1, EdgeSet) /\ IntOn(f2, EdgeSet) /\ IntOn(g, EdgeSet)
  BY <1>1, EdgeValues
<1>4. Combines(h, T[v], f1, Collect(in, v), f2, EdgeSet)
  <2>1. ASSUME NEW e \in EdgeSet PROVE h[e] = T[v] * f1[e] + Collect(in, v) * f2[e]
    <3> DEFINE m == e.m
               d == Derivative(e, s)
               l == lam[e.key]
               t == T[v]
               c == Collect(in, v)
    <3>1. m \in Int /\ d \in Int /\ l \in Int
      BY EdgeParts, DerivativeType DEF IntOn
    <3>2. /\ h[e] = (IF m # 0 THEN m * t + c * d ELSE 0) * l
          /\ f1[e] = m * l /\ f2[e] = IF m # 0 THEN d * l ELSE 0
      BY DEF Moved, Carries, Slopes
    <3>3. t \in Int /\ c \in Int
      BY <1>1
    <3> HIDE DEF h, f1, f2, m, d, l, t, c
    <3>4. /\ (m * t + c * d) * l = (m * t) * l + (c * d) * l
          /\ (m * t) * l = t * (m * l) /\ (c * d) * l = c * (d * l)
      BY <3>1, <3>3
    <3>5. h[e] = t * f1[e] + c * f2[e]
      <4>1. CASE m = 0
        BY <3>1, <3>2, <3>3, <4>1
      <4>2. CASE m # 0
        BY <3>2, <3>4, <4>2
      <4> QED BY <4>1, <4>2
    <3> QED BY <3>5 DEF t, c
  <2> HIDE DEF h, f1, f2
  <2> QED BY <2>1 DEF Combines
<1>5. SumAlong(h, edges) = T[v] * SumAlong(f1, edges) + Collect(in, v) * SumAlong(f2, edges)
  <2> HIDE DEF h, f1, f2, edges
  <2> QED BY <1>1, <1>2, <1>3, <1>4, TotalLinear
<1>6. SumAlong(h, edges) = SumFunctionOnSet(Reached(edges, g, lam), Words)
  <2>1. Weighs(h, g, lam)
    BY DEF Weighs
  <2> HIDE DEF h, g, edges
  <2> QED BY <1>2, <1>3, <2>1, EdgesByWords
<1>7. [w \in Words |-> Carried(op, values, in, T, s, v, w) * lam[w]]
        = Reached(edges, g, lam)
  BY CarriedIs DEF Reached
<1>8. /\ AdjointTo(op, values, lam)[v] = SumAlong(f1, edges)
      /\ SlopeTo(op, values, lam, s)[v] = SumAlong(f2, edges)
  BY DEF AdjointTo, SlopeTo
<1> HIDE DEF h, g, f1, f2, edges
<1> QED BY <1>5, <1>6, <1>7, <1>8

\* The derivative of a state is an integer for every word, zero off the state's words.
LEMMA NextTangentType ==
  ASSUME NEW op, NEW values, Supplied(op, values), NEW in \in Seq(Terms), NEW out \in Seq(Terms),
         NEW s, NEW T, IntOn(T, Words)
  PROVE  /\ IntOn(NextTangent(op, values, in, out, T, s), Words)
         /\ NextTangent(op, values, in, out, T, s) \in [Words -> Int]
         /\ \A w \in Words : w \notin KeysOf(out) => NextTangent(op, values, in, out, T, s)[w] = 0
         /\ \A w \in KeysOf(out) :
              NextTangent(op, values, in, out, T, s)[w]
                = SumFunctionOnSet([v \in KeysOf(in) |-> Carried(op, values, in, T, s, v, w)], KeysOf(in))
<1> DEFINE keys == KeysOf(in)
<1>1. keys \in SUBSET Words /\ IsFiniteSet(keys) /\ KeysOf(out) \in SUBSET Words
  BY KeysCounted
<1>2. ASSUME NEW w \in Words
      PROVE  SumFunctionOnSet([v \in keys |-> Carried(op, values, in, T, s, v, w)], keys) \in Int
  <2> DEFINE g == [v \in keys |-> Carried(op, values, in, T, s, v, w)]
  <2>1. IntOn(g, keys)
    <3>1. ASSUME NEW v \in keys PROVE g[v] \in Int
      <4>1. v \in Words
        BY <1>1
      <4> QED BY <4>1, CarriedIs
    <3> HIDE DEF g
    <3> QED BY <3>1 DEF IntOn
  <2> HIDE DEF g
  <2>2. SumFunctionOnSet(g, keys) \in Int
    BY <1>1, <2>1, SumInt
  <2> QED BY <2>2 DEF g
<1>3. ASSUME NEW w \in Words
      PROVE  NextTangent(op, values, in, out, T, s)[w] =
               IF w \in KeysOf(out)
               THEN SumFunctionOnSet([v \in keys |-> Carried(op, values, in, T, s, v, w)], keys) ELSE 0
  <2> DEFINE g == [v \in keys |-> Carried(op, values, in, T, s, v, w)]
  <2>1. SumFunction(g) = SumFunctionOnSet(g, keys)
    BY DEF SumFunction
  <2> HIDE DEF g
  <2> QED BY <2>1 DEF NextTangent, g
<1>4. NextTangent(op, values, in, out, T, s) \in [Words -> Int]
  <2>1. ASSUME NEW w \in Words PROVE NextTangent(op, values, in, out, T, s)[w] \in Int
    <3> DEFINE sum == SumFunctionOnSet([v \in keys |-> Carried(op, values, in, T, s, v, w)], keys)
    <3>1. sum \in Int /\ NextTangent(op, values, in, out, T, s)[w] = IF w \in KeysOf(out) THEN sum ELSE 0
      BY <1>2, <1>3
    <3> HIDE DEF sum
    <3> QED BY <3>1
  <2>2. NextTangent(op, values, in, out, T, s) = [w \in Words |-> NextTangent(op, values, in, out, T, s)[w]]
    BY DEF NextTangent
  <2> QED BY <2>1, <2>2
<1> QED BY <1>1, <1>3, <1>4 DEF IntOn

\* A derivative vanishes at the words the terms do not hold.
ZeroOff(T, in) == \A v \in Words : v \notin KeysOf(in) => T[v] = 0

\* A frame takes from the pairing of derivatives and adjoints what it adds to the
\* gradient: the reverse of one step of carrying the derivative forwards.
LEMMA FrameReverses ==
  ASSUME NEW op, NEW values, Supplied(op, values), NEW cutoff \in Int,
         NEW in \in Seq(Terms), NEW out \in Seq(Terms), Within(out, cutoff),
         NEW adjoints \in Seq(Int), Len(adjoints) = Len(out), NEW s,
         NEW T, IntOn(T, Words), ZeroOff(T, in)
  PROVE  /\ Pairing(NextTangent(op, values, in, out, T, s), AdjointOf(out, adjoints))
              = FrameGradient(op, in, out, values, cutoff, adjoints, s)
                  + Pairing(T, AdjointOf(in,
                              InputAdjoint(op, in, out, values, cutoff, adjoints)))
         /\ FrameGradient(op, in, out, values, cutoff, adjoints, s) \in Int
<1> DEFINE keys == KeysOf(in)
           lam == AdjointOf(out, adjoints)
           back == InputAdjoint(op, in, out, values, cutoff, adjoints)
           low == AdjointOf(in, back)
           a == AdjointTo(op, values, lam)
           b == SlopeTo(op, values, lam, s)
           next == NextTangent(op, values, in, out, T, s)
           part(w, v) == Carried(op, values, in, T, s, v, w) * lam[w]
           row == [w \in Words |-> [v \in keys |-> part(w, v)]]
           col == [v \in keys |-> [w \in Words |-> part(w, v)]]
           r == [w \in Words |-> next[w] * lam[w]]
           c == [v \in keys |-> T[v] * a[v] + Collect(in, v) * b[v]]
           ta == [v \in Words |-> T[v] * low[v]]
           cb == [v \in Words |-> Collect(in, v) * b[v]]
<1>1. keys \in SUBSET Words /\ IsFiniteSet(keys) /\ IsFiniteSet(Words)
  BY KeysCounted, WordsFinite
<1>2. IntOn(lam, Words) /\ \A w \in Words : w \notin KeysOf(out) => lam[w] = 0
  BY AdjointType DEF AdjointOf
<1>3. IntOn(a, Words) /\ IntOn(b, Words)
  <2> HIDE DEF lam
  <2> QED BY <1>2, SlopeTypes
<1>4. back \in Seq(Int) /\ Len(back) = Len(in) /\ \A v \in keys : low[v] = a[v]
  BY InputAdjointIs
<1>5. IntOn(low, Words)
  <2> HIDE DEF back
  <2> QED BY <1>4, AdjointType
<1>6. /\ IntOn(next, Words)
      /\ \A w \in Words : w \notin KeysOf(out) => next[w] = 0
      /\ \A w \in KeysOf(out) :
           next[w] = SumFunctionOnSet([v \in keys |-> Carried(op, values, in, T, s, v, w)], keys)
  BY NextTangentType
<1> HIDE DEF lam, back, low, a, b, next
<1>7. \A w \in Words, v \in keys : part(w, v) \in Int
  <2> SUFFICES ASSUME NEW w \in Words, NEW v \in keys PROVE part(w, v) \in Int
    OBVIOUS
  <2>1. Carried(op, values, in, T, s, v, w) \in Int /\ lam[w] \in Int
    BY <1>1, <1>2, CarriedIs DEF IntOn
  <2> QED BY <2>1
<1>8. Transposed(row, col, Words, keys)
  <2>1. ASSUME NEW w \in Words, NEW v \in keys PROVE row[w][v] \in Int /\ col[v][w] = row[w][v]
    BY <1>7
  <2> HIDE DEF row, col
  <2> QED BY <2>1 DEF Transposed
<1>9. SumsOf(r, row, Words, keys)
  <2> SUFFICES ASSUME NEW w \in Words PROVE r[w] = SumFunctionOnSet(row[w], keys)
    BY DEF SumsOf
  <2> DEFINE g == row[w]
             k == [v \in keys |-> Carried(op, values, in, T, s, v, w)]
  <2>1. IntOn(k, keys) /\ lam[w] \in Int
    BY <1>1, <1>2, CarriedIs DEF IntOn
  <2>2. Scales(g, lam[w], k, keys)
    <3>1. ASSUME NEW v \in keys PROVE g[v] = lam[w] * k[v]
      <4>1. k[v] = Carried(op, values, in, T, s, v, w) /\ k[v] \in Int /\ g[v] = k[v] * lam[w]
        BY <2>1 DEF IntOn
      <4> HIDE DEF k, g
      <4> QED BY <2>1, <4>1
    <3> HIDE DEF k, g
    <3> QED BY <3>1 DEF Scales
  <2>3. r[w] = next[w] * lam[w]
    OBVIOUS
  <2>4. w \in KeysOf(out) => next[w] = SumFunctionOnSet(k, keys)
    BY <1>6
  <2> HIDE DEF g, k, r
  <2>5. SumFunctionOnSet(g, keys) = lam[w] * SumFunctionOnSet(k, keys)
    BY <1>1, <2>1, <2>2, SumScale
  <2>6. SumFunctionOnSet(k, keys) \in Int
    BY <1>1, <2>1, SumInt
  <2>7. r[w] = lam[w] * SumFunctionOnSet(k, keys)
    <3>1. CASE w \in KeysOf(out)
      BY <2>1, <2>3, <2>4, <2>6, <3>1
    <3>2. CASE w \notin KeysOf(out)
      <4>1. lam[w] = 0 /\ next[w] \in Int
        BY <1>2, <1>6, <3>2 DEF IntOn
      <4> QED BY <2>3, <2>6, <4>1
    <3> QED BY <3>1, <3>2
  <2> QED BY <2>5, <2>7 DEF g
<1>10. SumsOf(c, col, keys, Words)
  <2> SUFFICES ASSUME NEW v \in keys PROVE c[v] = SumFunctionOnSet(col[v], Words)
    BY DEF SumsOf
  <2>1. v \in Words
    BY <1>1
  <2>2. SumFunctionOnSet([w \in Words |-> Carried(op, values, in, T, s, v, w) * lam[w]], Words)
          = T[v] * a[v] + Collect(in, v) * b[v]
    BY <1>2, <2>1, WordFlow DEF a, b
  <2>3. col[v] = [w \in Words |-> Carried(op, values, in, T, s, v, w) * lam[w]]
    OBVIOUS
  <2>4. c[v] = T[v] * a[v] + Collect(in, v) * b[v]
    OBVIOUS
  <2> HIDE DEF col, c
  <2> QED BY <2>2, <2>3, <2>4
<1>11. SumFunctionOnSet(r, Words) = SumFunctionOnSet(c, keys)
  <2> HIDE DEF r, c, row, col
  <2> QED BY <1>1, <1>8, <1>9, <1>10, SumSwap
<1>12. IntOn(ta, Words) /\ IntOn(cb, Words)
  <2>1. ASSUME NEW v \in Words PROVE ta[v] \in Int /\ cb[v] \in Int
    <3>1. T[v] \in Int /\ low[v] \in Int /\ b[v] \in Int /\ Collect(in, v) \in Int
      BY <1>3, <1>5, CollectIs DEF IntOn
    <3> QED BY <3>1
  <2> HIDE DEF ta, cb
  <2> QED BY <2>1 DEF IntOn
<1>13. IntOn(ta, keys) /\ IntOn(cb, keys)
  <2> HIDE DEF ta, cb
  <2> QED BY <1>1, <1>12 DEF IntOn
<1>14. SumFunctionOnSet(c, keys) = SumFunctionOnSet(ta, keys) + SumFunctionOnSet(cb, keys)
  <2>1. Adds(c, ta, cb, keys)
    <3>1. ASSUME NEW v \in keys PROVE c[v] = ta[v] + cb[v]
      BY <1>1, <1>4
    <3> HIDE DEF c, ta, cb
    <3> QED BY <3>1 DEF Adds
  <2> HIDE DEF c, ta, cb
  <2> QED BY <1>1, <1>13, <2>1, SumAdd
<1>15. SumFunctionOnSet(ta, Words) = SumFunctionOnSet(ta, keys)
  <2>1. \A v \in Words \ keys : ta[v] = 0
    <3> SUFFICES ASSUME NEW v \in Words \ keys PROVE ta[v] = 0
      OBVIOUS
    <3>1. T[v] = 0 /\ low[v] \in Int
      BY <1>5 DEF IntOn, ZeroOff
    <3> QED BY <3>1
  <2> HIDE DEF ta
  <2> QED BY <1>1, <1>12, <2>1, SumRestrict
<1>16. SumFunctionOnSet(cb, Words) = SumFunctionOnSet(cb, keys)
  <2>1. \A v \in Words \ keys : cb[v] = 0
    <3> SUFFICES ASSUME NEW v \in Words \ keys PROVE cb[v] = 0
      OBVIOUS
    <3>1. Collect(in, v) = 0 /\ b[v] \in Int
      BY <1>3, CollectOutside DEF IntOn
    <3> QED BY <3>1
  <2> HIDE DEF cb
  <2> QED BY <1>1, <1>12, <2>1, SumRestrict
<1>17. FrameGradient(op, in, out, values, cutoff, adjoints, s) = SumFunctionOnSet(cb, Words)
  <2>1. FrameGradient(op, in, out, values, cutoff, adjoints, s) = Image(in, b)
    BY FrameGradientIs DEF b, lam
  <2> QED BY <2>1 DEF Image
<1>18. SumFunctionOnSet(ta, Words) \in Int /\ SumFunctionOnSet(cb, Words) \in Int
  <2> HIDE DEF ta, cb
  <2> QED BY <1>1, <1>12, SumInt
<1>19. /\ Pairing(next, lam) = SumFunctionOnSet(r, Words)
       /\ Pairing(T, low) = SumFunctionOnSet(ta, Words)
  BY DEF Pairing
<1> HIDE DEF ta, cb, r, c
<1> QED BY <1>11, <1>14, <1>15, <1>16, <1>17, <1>18, <1>19 DEF next, lam, low, back

---------------------------------------------------------------------------
(* What the other properties need                                          *)

Reversing == {"reverse", "replay", "frames"}
Ready == Slots = ParameterSlots /\ Len(call.values) = NParameters

\* The call was accepted: every slot has a value.  Once the reverse pass has begun, so
\* is the value computed.
CallInv ==
  /\ phase \in {"forward", "done"} \cup Reversing \/ step > 0 => Ready
  /\ phase = "compiled" => Slots = ParameterSlots
  /\ phase \in Reversing =>
       call.entry = "gradient" /\ value = Expectation(terms, call.state)

\* How many gates the state has behind it whose adjoints lambda holds.
Back == IF phase = "frames" THEN BlockStart + Len(block) - 1 ELSE BlockEnd

TypesInv ==
  /\ error \in Errors /\ (error # "none" <=> phase = "failed")
  /\ \A k \in 1 .. Len(trace) : trace[k] \in Seq(Terms)
  /\ value \in Int /\ peak.terms \in Int /\ peak.bytes \in Int
  /\ gradient \in [ParameterSlots -> Int]
  /\ at \in 0 .. Gates
  /\ \A i \in 1 .. Len(checkpoints) : i - 1 <= checkpoints[i].boundary
  /\ Len(checkpoints) >= 1 => checkpoints[1].boundary = 0
  /\ lambda \in Seq(Int)
  /\ phase \in Reversing => Len(lambda) = Len(trace[Back + 1])

\* No state a returning call has held, and no state it still has to go back to, is over
\* the limit: those checked, those kept, and those replayed.
Fits(state, limit) == Bytes(<<state>>) <= limit
BudgetInv ==
  /\ charged \in Nat
  /\ Len(checkpoints) >= 1 => charged <= call.limit
  /\ \A i \in 1 .. Len(checkpoints) : Bytes(<<checkpoints[i].terms>>) <= charged
  /\ phase \in {"forward", "done"} /\ call.entry = "profile" =>
       \A k \in 1 .. Len(trace) : Fits(trace[k], call.limit)
  /\ phase \in {"replay", "frames"} => \A i \in 1 .. Len(block) : Fits(block[i], call.limit)
  /\ phase \in Reversing => \A k \in Back .. step : Fits(trace[k + 1], call.limit)
  /\ phase = "done" => \A k \in 1 .. Len(trace) : Fits(trace[k], call.limit)

\* tangents holds the derivative of every forward state.
TangentInv ==
  /\ IsSeq(tangents) /\ Len(tangents) = step + 1
  /\ \A k \in 0 .. step, s \in ParameterSlots :
       /\ IntOn(tangents[k + 1][s], Words)
       /\ \A w \in Words : w \notin KeysOf(trace[k + 1]) => tangents[k + 1][s][w] = 0
  /\ \A s \in ParameterSlots : \A w \in Words : tangents[1][s][w] = 0
  /\ \A k \in 0 .. step - 1, s \in ParameterSlots :
       tangents[k + 2][s]
         = NextTangent(OpAt(k), call.values, trace[k + 1], trace[k + 2], tangents[k + 1][s], s)

\* The derivative of the value: what the gradient has, and the derivative of the state
\* the reverse pass has come back to, weighed by its adjoints.
Expected == [w \in Words |-> WordExpectation(w, call.state)]
ValueTangent(s) == Pairing(tangents[step + 1][s], Expected)
AdjointInv ==
  /\ phase \in {"called", "compiled", "forward"} => \A s \in ParameterSlots : gradient[s] = 0
  /\ phase \in Reversing => \A s \in ParameterSlots :
       ValueTangent(s) = gradient[s] + Pairing(tangents[Back + 1][s], AdjointOf(trace[Back + 1], lambda))
  /\ phase = "done" /\ call.entry = "gradient" => \A s \in ParameterSlots : gradient[s] = ValueTangent(s)
ProductOver(f, S) == FoldFunctionOnSet(LAMBDA a, b : a * b, 1, f, S)

\* A product of integers is an integer.
LEMMA ProductInt ==
  ASSUME NEW S, IsFiniteSet(S), NEW f, IntOn(f, S)
  PROVE  ProductOver(f, S) \in Int
<1> DEFINE pick == [s \in SUBSET S |-> Pick(s)]
           move == [x \in S |-> [v \in Int |-> f[x] * v]]
           Body(g) == [s \in SUBSET S |-> IF s = {} THEN 1 ELSE f[Pick(s)] * g[s \ {Pick(s)}]]
           iter == CHOOSE g : g = Body(g)
<1>1. ProductOver(f, S) = iter[S]
  BY DEF ProductOver, FoldFunctionOnSet, MapThenFoldSet, Pick
<1>2. \A s \in SUBSET S : s # {} => Pick(s) \in s
  BY DEF Pick
<1>3. move \in [S -> [Int -> Int]] /\ \A s \in SUBSET S : s # {} => pick[s] \in s
  <2>1. ASSUME NEW x \in S PROVE [v \in Int |-> f[x] * v] \in [Int -> Int]
    BY DEF IntOn
  <2> QED BY <1>2, <2>1
<1>4. PICK g : g = Body(g) /\ g \in [SUBSET S -> Int]
  <2>1. PICK g \in [SUBSET S -> Int] :
               /\ g[{}] = 1
               /\ \A s \in SUBSET S : s # {} => g[s] = move[pick[s]][g[s \ {pick[s]}]]
    <3> DEFINE V == Int
               one == 1
    <3>1. move \in [S -> [V -> V]]
      BY <1>3
    <3>0. one \in V
      OBVIOUS
    <3>3. Picks(pick, S)
      BY <1>3 DEF Picks
    <3> HIDE DEF move, pick, V, one
    <3>2. \E g : TakesApart(g, S, V, one, move, pick)
      BY <3>0, <3>1, <3>3, SetRecursion
    <3> QED
      BY <3>2 DEF V, one, TakesApart
  <2>2. \A s \in SUBSET S : s # {} => g[s] = f[Pick(s)] * g[s \ {Pick(s)}]
    BY <1>2, <2>1
  <2> QED
    BY <2>1, <2>2
<1>5. iter = Body(iter)
  <2> HIDE DEF Body
  <2> QED
    BY <1>4
<1> HIDE DEF iter
<1>6. iter[{}] = 1 /\ \A s \in SUBSET S : s # {} => iter[s] = f[Pick(s)] * iter[s \ {Pick(s)}]
  BY <1>5
<1>7. \A s \in SUBSET S : iter[s] \in Int
  <2> DEFINE P == {s \in SUBSET S : iter[s] \in Int}
  <2>1. Grows(P, S)
    <3> SUFFICES ASSUME NEW s \in SUBSET S, \A x \in s : s \ {x} \in P PROVE s \in P
      BY DEF Grows
    <3>1. CASE s = {}
      BY <1>6, <3>1
    <3>2. CASE s # {}
      <4>1. Pick(s) \in s /\ f[Pick(s)] \in Int /\ iter[s \ {Pick(s)}] \in Int
        BY <1>2, <3>2 DEF IntOn
      <4>2. iter[s] = f[Pick(s)] * iter[s \ {Pick(s)}]
        BY <1>6, <3>2
      <4>3. iter[s] \in Int
        BY <4>1, <4>2
      <4> QED
        BY <4>3
    <3> QED
      BY <3>1, <3>2
  <2> HIDE DEF P
  <2>2. \A s \in SUBSET S : s \in P
    BY <2>1, SubsetInd
  <2> QED
    BY <2>2 DEF P
<1> QED
  BY <1>1, <1>7

---------------------------------------------------------------------------
(* The call running                                                        *)

\* What the assumption on calls gives of the one running.
LEMMA CallParts ==
  ASSUME call \in Calls
  PROVE  /\ Gates \in Nat /\ call.cutoff \in Int /\ call.limit \in Nat
         /\ call.entry \in {"profile", "gradient"}
         /\ \A i \in 1 .. Gates : IsOperation(call.ops[i])
         /\ Len(call.values) \in Nat
         /\ \A i \in 1 .. Len(call.values) : IsScalar(call.values[i])
         /\ call.observable \in Seq(Terms)
         /\ call.state \in [Wires -> [1 .. 4 -> Int]]
<1>1. /\ call.cutoff \in 0 .. NQubits /\ call.limit \in Nat
      /\ call.entry \in {"profile", "gradient"}
      /\ call.ops \in Seq(Range(call.ops)) /\ \A i \in DOMAIN call.ops : IsOperation(call.ops[i])
      /\ call.values \in Seq(Range(call.values))
      /\ \A i \in DOMAIN call.values : IsScalar(call.values[i])
      /\ call.state \in [Wires -> [1 .. 4 -> Int]]
      /\ call.observable \in Seq(Terms)
  BY CallsAssumption
<1>2. /\ DOMAIN call.ops = 1 .. Gates /\ Gates \in Nat
      /\ DOMAIN call.values = 1 .. Len(call.values) /\ Len(call.values) \in Nat
  BY <1>1 DEF Gates
<1>3. call.cutoff \in Int
  BY <1>1, NQubitsAssumption
<1> QED BY <1>1, <1>2, <1>3

\* The references of an operation.
LEMMA References ==
  ASSUME NEW op, IsOperation(op), NEW i \in 1 .. Len(RefsOf(op))
  PROVE  IsRef(op.refs[i]) /\ RefsOf(op) = op.refs /\ i \in DOMAIN op.refs
<1>1. CASE op.kind \in {"rotation", "depolarizing", "phasedamping", "amplitudedamping"}
  <2>1. RefsOf(op) = op.refs
    BY <1>1 DEF RefsOf
  <2>2. \E n \in 1 .. 3 : AreRefs(op.refs, n)
    BY <1>1 DEF IsOperation
  <2> QED BY <2>1, <2>2 DEF AreRefs
<1>2. CASE op.kind \notin {"rotation", "depolarizing", "phasedamping", "amplitudedamping"}
  BY <1>2 DEF RefsOf
<1> QED BY <1>1, <1>2

\* Every reference of an accepted call resolves to a scalar.
LEMMA Supply ==
  ASSUME call \in Calls, Ready, NEW k \in 0 .. Gates - 1
  PROVE  Supplied(OpAt(k), call.values)
<1> DEFINE op == OpAt(k)
<1>1. Gates \in Nat /\ Gates - k \in 1 .. Gates /\ IsOperation(op)
  BY CallParts DEF OpAt
<1>2. ASSUME NEW i \in 1 .. Len(RefsOf(op)) PROVE IsScalar(Resolve(op.refs[i], call.values))
  <2> DEFINE ref == op.refs[i]
  <2>1. IsRef(ref) /\ RefsOf(op) = op.refs /\ i \in DOMAIN op.refs
    <3> HIDE DEF op
    <3> QED BY <1>1, References
  <2>2. CASE ref.slot = NoSlot
    BY <2>1, <2>2 DEF Resolve, IsRef
  <2>3. CASE ref.slot # NoSlot
    <3>1. ref.slot \in SlotsOf(op)
      BY <2>1, <2>3 DEF SlotsOf
    <3>2. Gates - k \in DOMAIN call.ops
      BY <1>1, CallsAssumption DEF Gates
    <3>3. ref.slot \in Slots
      BY <3>1, <3>2 DEF Slots, OpAt
    <3>4. ref.slot + 1 \in 1 .. Len(call.values)
      <4>1. ref.slot \in 0 .. Len(call.values) - 1 /\ Len(call.values) \in Nat
        BY <3>3, CallParts DEF Ready, ParameterSlots
      <4> HIDE DEF ref
      <4> QED BY <4>1
    <3> HIDE DEF ref
    <3>5. Resolve(ref, call.values) = call.values[ref.slot + 1]
      BY <2>3 DEF Resolve
    <3> QED BY <3>4, <3>5, CallParts DEF ref
  <2> QED BY <2>2, <2>3
<1> QED BY <1>1, <1>2 DEF Supplied

\* The expectation of a word is an integer.
LEMMA ExpectedType ==
  ASSUME call \in Calls
  PROVE  IntOn(Expected, Words) /\ \A w \in Words : WordExpectation(w, call.state) \in Int
<1>1. ASSUME NEW w \in Words PROVE WordExpectation(w, call.state) \in Int
  <2> DEFINE f == [q \in Wires |-> call.state[q][w[q] + 1]]
  <2>1. \A q \in Wires : w[q] + 1 \in 1 .. 4
    BY DEF Words, Codes
  <2>2. IntOn(f, Wires) /\ IsFiniteSet(Wires)
    BY <2>1, CallParts, WordsFinite DEF IntOn
  <2>3. WordExpectation(w, call.state) = ProductOver(f, Wires)
    BY DEF WordExpectation, ProductOver
  <2> HIDE DEF f
  <2> QED BY <2>2, <2>3, ProductInt
<1> QED BY <1>1 DEF Expected, IntOn

\* Calls are accepted by Compile and Begin, and never change.
LEMMA CallStep == CallInv /\ [Next]_vars => CallInv'
<1> SUFFICES ASSUME CallInv, [Next]_vars PROVE CallInv'
  OBVIOUS
<1>1. ASSUME UNCHANGED call
      PROVE  UNCHANGED <<Slots, NParameters, ParameterSlots, Ready, Gates>>
  BY <1>1 DEF Slots, NParameters, ParameterSlots, Ready, Gates
<1>2. ASSUME NEW reason, Fail(reason) PROVE CallInv'
  BY <1>1, <1>2 DEF Fail, CallInv, Reversing
<1>3. CASE Compile
  <2>1. Slots = ParameterSlots \/ \E reason : Fail(reason)
    BY <1>3 DEF Compile
  <2> QED BY <1>1, <1>2, <1>3, <2>1 DEF Compile, CallInv, Reversing
<1>4. CASE Begin
  <2>1. Len(call.values) = NParameters \/ \E reason : Fail(reason)
    BY <1>4 DEF Begin
  <2> QED BY <1>1, <1>2, <1>4, <2>1 DEF Begin, CallInv, Reversing, Ready
<1>5. CASE ProfileGate
  BY <1>1, <1>2, <1>5 DEF ProfileGate, CallInv, Reversing
<1>6. CASE GradientGate
  BY <1>1, <1>2, <1>6 DEF GradientGate, CallInv, Reversing
<1>7. CASE ProfileAnswer
  BY <1>1, <1>7 DEF ProfileAnswer, CallInv, Reversing
<1>8. CASE StartReverse
  BY <1>1, <1>2, <1>8 DEF StartReverse, CallInv, Reversing
<1>9. CASE OpenBlock
  BY <1>1, <1>9 DEF OpenBlock, CallInv, Reversing
<1>10. CASE ReplayGate
  BY <1>1, <1>2, <1>10 DEF ReplayGate, CallInv, Reversing
<1>11. CASE ReverseFrame
  BY <1>1, <1>11 DEF ReverseFrame, NextBlock, CallInv, Reversing
<1>12. CASE UNCHANGED vars
  BY <1>1, <1>12 DEF vars, CallInv, Reversing
<1> QED
  BY <1>3, <1>4, <1>5, <1>6, <1>7, <1>8, <1>9, <1>10, <1>11, <1>12 DEF Next, Returned

---------------------------------------------------------------------------
(* Where the reverse pass is                                               *)

\* The state it has come back to, and the two states of the frame it is at.
LEMMA BackIs ==
  ASSUME IInv, phase \in Reversing
  PROVE  /\ step = Gates /\ Gates \in Nat /\ Back \in 1 .. step
         /\ phase = "frames" =>
              /\ Len(block) \in Nat /\ Len(block) >= 2
              /\ block[Len(block)] = trace[Back + 1] /\ block[Len(block) - 1] = trace[Back]
              /\ Back = BlockStart + Len(block) - 1
              /\ BlockStart + Len(block) - 2 = Back - 1
              /\ trace[Back + 1] = Applied(Back - 1)
<1>1. /\ at \in 1 .. Len(checkpoints) - 1 /\ Len(checkpoints) \in Nat
      /\ BlockStart \in 0 .. step /\ BlockEnd \in 0 .. step /\ step \in Nat
      /\ BlockStart < BlockEnd
  BY Boundaries DEF Reversing
<1>2. step = Gates
  BY DEF Reversing, IInv, CompleteInv
<1>3. CASE phase # "frames"
  BY <1>1, <1>2, <1>3 DEF Back
<1>4. CASE phase = "frames"
  <2>1. /\ IsSeq(block) /\ Len(block) \in Nat /\ Len(block) >= 2
        /\ BlockStart + Len(block) - 1 <= BlockEnd
        /\ \A i \in 1 .. Len(block) : block[i] = trace[BlockStart + i]
    BY <1>4 DEF IInv, BlockInv, IsSeq
  <2>2. Back = BlockStart + Len(block) - 1
    BY <1>4 DEF Back
  <2>3. /\ Back \in 1 .. step /\ Back + 1 = BlockStart + Len(block)
        /\ Back = BlockStart + (Len(block) - 1)
        /\ Len(block) \in 1 .. Len(block) /\ Len(block) - 1 \in 1 .. Len(block)
        /\ BlockStart + Len(block) - 2 = Back - 1
        /\ Back - 1 \in 0 .. step - 1 /\ (Back - 1) + 2 = Back + 1
    BY <1>1, <2>1, <2>2
  <2>4. block[Len(block)] = trace[Back + 1] /\ block[Len(block) - 1] = trace[Back]
    BY <2>1, <2>3
  <2>5. trace[(Back - 1) + 2] = Applied(Back - 1)
    BY <2>3 DEF IInv, TraceInv
  <2> QED BY <1>2, <1>1, <2>1, <2>2, <2>3, <2>4, <2>5
<1> QED BY <1>3, <1>4

\* A block opened or replayed: the reverse pass is where it was.
LEMMA BackStays ==
  ASSUME IInv, IInv', OpenBlock \/ ReplayGate, phase' \in Reversing
  PROVE  /\ Back' = Back /\ phase \in Reversing
         /\ UNCHANGED <<call, error, step, terms, peak, checkpoints, charged, value, lambda,
                        gradient, at, trace, tangents>>
<1>1. UNCHANGED <<call, error, step, terms, peak, checkpoints, charged, value, lambda,
                  gradient, at, trace, tangents>>
  BY DEF OpenBlock, ReplayGate, Fail, Reversing, ghosts
<1>2. BlockStart' = BlockStart /\ BlockEnd' = BlockEnd
  BY <1>1 DEF BlockStart, BlockEnd
<1>3. /\ BlockStart \in 0 .. step /\ BlockEnd \in 0 .. step /\ step \in Nat
  BY Boundaries DEF OpenBlock, ReplayGate
<1>4. CASE OpenBlock
  <2>1. phase = "reverse" /\ Back = BlockEnd
    BY <1>4 DEF OpenBlock, Back
  <2>2. CASE BlockEnd - BlockStart = 1
    <3>1. phase' = "frames" /\ Len(block') = 2
      BY <1>4, <2>2 DEF OpenBlock
    <3> QED BY <1>1, <1>2, <1>3, <2>1, <2>2, <3>1 DEF Back, Reversing
  <2>3. CASE BlockEnd - BlockStart # 1
    <3>1. phase' = "replay"
      BY <1>4, <2>3 DEF OpenBlock
    <3> QED BY <1>1, <1>2, <2>1, <3>1 DEF Back, Reversing
  <2> QED BY <2>2, <2>3
<1>5. CASE ReplayGate
  <2>1. phase = "replay" /\ Back = BlockEnd
    BY <1>5 DEF ReplayGate, Back
  <2>2. phase' = IF BlockStart + Len(block') - 1 = BlockEnd THEN "frames" ELSE "replay"
    BY <1>5 DEF ReplayGate, Fail, Reversing
  <2>3. Back' = BlockEnd
    BY <1>2, <2>2 DEF Back
  <2> QED BY <1>1, <2>1, <2>3 DEF Reversing
<1> QED BY <1>4, <1>5

\* A frame takes it one gate back, and the last one to the observable.
LEMMA BackMoves ==
  ASSUME IInv, IInv', TypesInv, ReverseFrame
  PROVE  /\ phase' \in Reversing => Back' = Back - 1
         /\ phase' \notin Reversing => phase' = "done" /\ Back = 1
<1> DEFINE n == Len(block)
<1>1. /\ Len(block) \in Nat /\ Len(block) >= 2 /\ Back = BlockStart + n - 1
  BY BackIs DEF ReverseFrame, Reversing
<1>2. /\ at \in 1 .. Len(checkpoints) - 1 /\ Len(checkpoints) \in Nat
      /\ BlockStart \in 0 .. step /\ step \in Nat
  BY Boundaries DEF ReverseFrame
<1>3. UNCHANGED <<call, step, checkpoints, trace>>
  BY DEF ReverseFrame, ghosts
<1>4. CASE n > 2
  <2>1. block' = SubSeq(block, 1, n - 1) /\ UNCHANGED <<at, phase>> /\ phase' = "frames"
    BY <1>4 DEF ReverseFrame
  <2>2. IsSeq(block)
    BY DEF ReverseFrame, IInv, BlockInv
  <2>3. n - 1 \in 0 .. n
    BY <1>1
  <2>4. Len(block') = n - 1
    BY <2>1, <2>2, <2>3, PrefixOfSeq
  <2>5. BlockStart' = BlockStart
    BY <1>3, <2>1 DEF BlockStart
  <2>6. Back' = BlockStart + (n - 1) - 1
    BY <2>1, <2>4, <2>5 DEF Back
  <2>7. Back' = Back - 1
    BY <1>1, <1>2, <2>6
  <2> QED BY <2>1, <2>7 DEF Reversing
<1>5. CASE ~(n > 2)
  <2>1. at' = at - 1 /\ phase' = IF at = 1 THEN "done" ELSE "reverse"
    BY <1>5 DEF ReverseFrame, NextBlock
  <2>2. n = 2 /\ Back = BlockStart + 1
    <3>1. n \in Nat /\ n >= 2 /\ ~(n > 2)
      BY <1>1, <1>5
    <3>2. n = 2
      <4> HIDE DEF n
      <4> QED BY <3>1
    <3>3. BlockStart \in Int
      BY <1>2
    <3> HIDE DEF n
    <3> QED BY <1>1, <3>2, <3>3
  <2>3. CASE at = 1
    <3>1. BlockStart = 0
      BY <1>2, <2>3 DEF BlockStart, TypesInv
    <3> QED BY <2>1, <2>2, <2>3, <3>1 DEF Reversing
  <2>4. CASE at # 1
    <3>1. phase' = "reverse"
      BY <2>1, <2>4
    <3>2. Back' = checkpoints[at' + 1].boundary /\ at' + 1 = at
      BY <1>2, <1>3, <2>1, <3>1 DEF Back, BlockEnd
    <3>3. Back' = Back - 1
      BY <1>2, <2>2, <3>2 DEF BlockStart
    <3> QED BY <3>1, <3>3 DEF Reversing
  <2> QED BY <2>3, <2>4
<1> QED BY <1>4, <1>5

\* The reverse pass starts from the last state.
LEMMA BackStarts ==
  ASSUME IInv, StartReverse, phase' \in Reversing
  PROVE  Back' = Gates /\ step = Gates /\ Gates \in Nat /\ trace[Gates + 1] = terms
<1>1. /\ phase = "forward" /\ call.entry = "gradient" /\ step = Gates
      /\ at' = Len(checkpoints) - 1 /\ UNCHANGED checkpoints
      /\ phase' = "reverse"
  BY DEF StartReverse, Fail, Reversing
<1>2. checkpoints[Len(checkpoints)].boundary = Gates /\ Len(checkpoints) \in Nat
  BY <1>1 DEF IInv, CompleteInv, CheckpointInv, IsSeq
<1>3. at' + 1 = Len(checkpoints)
  BY <1>1, <1>2
<1>4. Back' = Gates
  BY <1>1, <1>2, <1>3 DEF Back, BlockEnd
<1> QED BY <1>1, <1>4, GatesAreFinite DEF IInv, TraceInv

\* What the projection of the observable leaves of it.
LEMMA InitialIs ==
  ASSUME NEW observable \in Seq(Terms), NEW cutoff \in Int
  PROVE  /\ InitialTerms(observable, cutoff) \in Seq(Terms)
         /\ \A w \in Words : Collect(InitialTerms(observable, cutoff), w)
                               = Cut(w, cutoff, Collect(observable, w))
<1> DEFINE light == {i \in DOMAIN observable : Weight(observable[i].key) <= cutoff}
           kept == Kept(observable, light)
<1>1. InitialTerms(observable, cutoff) = kept
  BY DEF InitialTerms, KeepIf
<1>2. kept \in Seq(Terms)
  <2> HIDE DEF light
  <2> QED BY KeptElements
<1>3. ASSUME NEW w \in Words PROVE Collect(kept, w) = Cut(w, cutoff, Collect(observable, w))
  <2> DEFINE f == Coefficient(w)
             v == ValuesAlong(f, observable)
             h == [i \in 1 .. Len(observable) |-> IF i \in light THEN f[observable[i]] ELSE 0]
  <2>1. /\ IntOn(f, Terms) /\ Collect(observable, w) = SumAlong(f, observable)
        /\ Collect(kept, w) = SumAlong(f, kept)
    BY <1>2, CollectIs
  <2>2. SumAlong(f, kept) = SumFunctionOnSet(h, 1 .. Len(observable))
    <3>1. \A i \in 1 .. Len(observable) : h[i] = IF i \in light THEN f[observable[i]] ELSE 0
      OBVIOUS
    <3> HIDE DEF f, h, light
    <3> QED BY <2>1, <3>1, TotalKept
  <2>3. /\ IsFiniteSet(1 .. Len(observable)) /\ IntOn(v, 1 .. Len(observable))
        /\ SumAlong(f, observable) = SumFunctionOnSet(v, 1 .. Len(observable))
    <3> HIDE DEF f
    <3> QED BY <2>1, TotalInt DEF SumAlong
  <2>4. ASSUME NEW i \in 1 .. Len(observable)
        PROVE  h[i] = IF Weight(w) <= cutoff THEN v[i] ELSE 0
    <3>1. v[i] = IF observable[i].key = w THEN observable[i].c ELSE 0
      BY DEF ValuesAlong, Coefficient
    <3>2. h[i] = IF i \in light THEN (IF observable[i].key = w THEN observable[i].c ELSE 0) ELSE 0
      BY DEF Coefficient
    <3>3. i \in light <=> Weight(observable[i].key) <= cutoff
      OBVIOUS
    <3> HIDE DEF v, h, light
    <3> QED BY <3>1, <3>2, <3>3
  <2> HIDE DEF v, h, f, kept
  <2>5. CASE Weight(w) <= cutoff
    <3>1. Agree(v, h, 1 .. Len(observable))
      BY <2>4, <2>5 DEF Agree
    <3>2. SumFunctionOnSet(v, 1 .. Len(observable)) = SumFunctionOnSet(h, 1 .. Len(observable))
      BY <2>3, <3>1, SumEqual
    <3> QED BY <2>1, <2>2, <2>3, <2>5, <3>2 DEF Cut
  <2>6. CASE ~(Weight(w) <= cutoff)
    <3>1. \A i \in 1 .. Len(observable) : h[i] = 0
      BY <2>4, <2>6
    <3>2. SumFunctionOnSet(h, 1 .. Len(observable)) = 0
      BY <2>3, <3>1, SumZero
    <3> QED BY <2>1, <2>2, <2>6, <3>2 DEF Cut
  <2> QED BY <2>5, <2>6
<1> QED BY <1>1, <1>2, <1>3

---------------------------------------------------------------------------
(* Types                                                                   *)

\* A gate of an accepted call leaves well-formed terms.
LEMMA GateTypes ==
  ASSUME IInv, CallInv, TypesInv, phase = "forward", step < Gates
  PROVE  LET next == ApplyOperation(OpAt(step), terms, call.values, call.cutoff)
         IN  /\ step \in 0 .. Gates - 1 /\ Gates \in Nat
             /\ Supplied(OpAt(step), call.values) /\ terms \in Seq(Terms)
             /\ next \in Seq(Terms) /\ Within(next, call.cutoff)
             /\ Len(next) <= Len(terms) * BranchFactor(OpAt(step))
             /\ BranchFactor(OpAt(step)) \in Nat
<1>1. step \in 0 .. Gates - 1 /\ Gates \in Nat /\ call \in Calls /\ call.cutoff \in Int
  BY CallParts DEF IInv, TraceInv
<1>2. Supplied(OpAt(step), call.values)
  BY <1>1, Supply DEF CallInv
<1>3. terms \in Seq(Terms)
  BY <1>1 DEF IInv, TraceInv, TypesInv
<1> QED BY <1>1, <1>2, <1>3, Kernel DEF Within

\* The states on both sides of a gate done.
LEMMA StepTypes ==
  ASSUME IInv, CallInv, TypesInv, NEW k \in 0 .. step - 1
  PROVE  /\ Supplied(OpAt(k), call.values) /\ call.cutoff \in Int
         /\ trace[k + 1] \in Seq(Terms) /\ trace[k + 2] \in Seq(Terms)
         /\ Within(trace[k + 2], call.cutoff)
         /\ trace[k + 2] = Applied(k)
<1>1. /\ step \in 0 .. Gates /\ Gates \in Nat /\ call \in Calls /\ call.cutoff \in Int
      /\ Len(trace) = step + 1
  BY CallParts DEF IInv, TraceInv
<1>2. k \in 0 .. Gates - 1 /\ step > 0 /\ k + 1 \in 1 .. Len(trace) /\ k + 2 \in 1 .. Len(trace)
  BY <1>1
<1>3. Supplied(OpAt(k), call.values)
  BY <1>1, <1>2, Supply DEF CallInv
<1>4. trace[k + 1] \in Seq(Terms) /\ trace[k + 2] \in Seq(Terms)
  BY <1>2 DEF TypesInv
<1>5. trace[k + 2] = Applied(k)
  BY DEF IInv, TraceInv
<1>6. Within(Applied(k), call.cutoff)
  BY <1>1, <1>3, <1>4, Kernel DEF Applied, Within
<1> QED BY <1>1, <1>3, <1>4, <1>5, <1>6

\* A call starts well typed.
LEMMA TypesInit == Init => CallInv /\ TypesInv
<1> SUFFICES ASSUME Init PROVE CallInv /\ TypesInv
  OBVIOUS
<1>1. Gates \in Nat /\ call.observable \in Seq(Terms) /\ call.cutoff \in Int
  BY CallParts DEF Init
<1>2. terms \in Seq(Terms)
  BY <1>1, InitialIs DEF Init
<1>3. trace = <<terms>> /\ Len(trace) = 1 /\ trace[1] = terms
  BY DEF Init
<1>4. \A k \in 1 .. Len(trace) : trace[k] \in Seq(Terms)
  BY <1>2, <1>3
<1>5. lambda \in Seq(Int) /\ gradient \in [ParameterSlots -> Int] /\ Len(checkpoints) = 0
  BY DEF Init
<1>6. CallInv
  BY DEF Init, CallInv, Reversing
<1>7. TypesInv
  BY <1>1, <1>4, <1>5 DEF Init, TypesInv, Errors, Reversing
<1> QED BY <1>6, <1>7

\* A call that fails keeps its types.
LEMMA TypesFail ==
  ASSUME TypesInv, NEW reason \in Errors \ {"none"}, Fail(reason)
  PROVE  TypesInv'
<1>1. /\ phase' = "failed" /\ error' = reason
      /\ UNCHANGED <<call, step, trace, value, peak, gradient, at, checkpoints, lambda>>
  BY DEF Fail, local, ghosts
<1>2. UNCHANGED <<Slots, NParameters, ParameterSlots, Gates>>
  BY <1>1 DEF Slots, NParameters, ParameterSlots, Gates
<1> QED BY <1>1, <1>2 DEF TypesInv, Reversing

\* Steps that touch neither the forward states nor what the reverse pass accumulates.
LEMMA TypesKept ==
  ASSUME TypesInv, UNCHANGED <<call, step, trace, error, gradient, at, lambda, checkpoints>>,
         phase # "failed", phase' # "failed",
         value' \in Int, peak'.terms \in Int, peak'.bytes \in Int,
         phase' \in Reversing => phase \in Reversing /\ Back' = Back
  PROVE  TypesInv'
<1>1. UNCHANGED <<Slots, NParameters, ParameterSlots, Gates>>
  BY DEF Slots, NParameters, ParameterSlots, Gates
<1> QED BY <1>1 DEF TypesInv

\* A checkpoint appended.
LEMMA NextCheckpoint ==
  ASSUME IInv, TypesInv, NEW c, IsSeq(checkpoints),
         Len(checkpoints) >= 1 => checkpoints[Len(checkpoints)].boundary < c.boundary,
         c.boundary \in Nat, Len(checkpoints) = 0 => c.boundary = 0,
         checkpoints' = Append(checkpoints, c)
  PROVE  /\ \A i \in 1 .. Len(checkpoints') : i - 1 <= checkpoints'[i].boundary
         /\ Len(checkpoints') >= 1 => checkpoints'[1].boundary = 0
         /\ Len(checkpoints') = Len(checkpoints) + 1
         /\ \A i \in 1 .. Len(checkpoints) : checkpoints'[i] = checkpoints[i]
         /\ checkpoints'[Len(checkpoints) + 1] = c
<1> DEFINE n == Len(checkpoints)
<1>1. n \in Nat /\ step \in Nat
  BY GatesAreFinite DEF IInv, TraceInv, IsSeq
<1>2. /\ Len(checkpoints') = n + 1
      /\ \A i \in 1 .. n : checkpoints'[i] = checkpoints[i]
      /\ checkpoints'[n + 1] = c
  BY AppendToSeq
<1>3. \A i \in 1 .. n : i - 1 <= checkpoints[i].boundary /\ checkpoints[i].boundary \in Int
  BY <1>1 DEF TypesInv, IInv, CheckpointInv
<1>4. n <= c.boundary
  <2>1. CASE n = 0
    BY <1>1, <2>1
  <2>2. CASE n # 0
    <3>1. n \in 1 .. n
      BY <1>1, <2>2
    <3>2. n - 1 <= checkpoints[n].boundary /\ checkpoints[n].boundary \in Int
      BY <1>3, <3>1
    <3>3. checkpoints[n].boundary < c.boundary
      BY <3>1
    <3>4. \A x, y \in Int : n - 1 <= x /\ x < y => n <= y
      BY <1>1
    <3> QED BY <3>2, <3>3, <3>4
  <2> QED BY <2>1, <2>2
<1>5. \A i \in 1 .. n + 1 : i - 1 <= checkpoints'[i].boundary
  BY <1>1, <1>2, <1>3, <1>4
<1>6. checkpoints'[1].boundary = 0
  <2>1. CASE n = 0
    BY <1>2, <2>1
  <2>2. CASE n # 0
    <3>1. 1 \in 1 .. n /\ n >= 1
      BY <1>1, <2>2
    <3> QED BY <1>2, <3>1 DEF TypesInv
  <2> QED BY <2>1, <2>2
<1> QED BY <1>2, <1>5, <1>6

\* The expectation of a state is the sum over its words.
LEMMA ExpectationIs ==
  ASSUME call \in Calls, NEW out \in Seq(Terms)
  PROVE  /\ Expectation(out, call.state) = Image(out, Expected)
         /\ Expectation(out, call.state) \in Int
<1> DEFINE g == [i \in DOMAIN out |-> out[i].c * WordExpectation(out[i].key, call.state)]
<1>1. IntOn(Expected, Words)
  BY ExpectedType
<1>2. /\ IntOn(WeighedBy(Expected), Terms)
      /\ SumAlong(WeighedBy(Expected), out) = Image(out, Expected) /\ Image(out, Expected) \in Int
  BY <1>1, ByWords
<1>3. DOMAIN g = 1 .. Len(out) /\ \A i \in 1 .. Len(out) : g[i] = WeighedBy(Expected)[out[i]]
  <2>1. \A i \in 1 .. Len(out) : out[i] \in Terms /\ out[i].key \in Words
    BY TermParts
  <2> QED BY <2>1 DEF WeighedBy, Expected
<1>4. Expectation(out, call.state) = SumFunction(g)
  BY DEF Expectation, SumOver
<1> HIDE DEF g
<1>5. SumFunctionOnSet(g, 1 .. Len(out)) = SumAlong(WeighedBy(Expected), out)
  BY <1>2, <1>3, TotalIs
<1> QED BY <1>2, <1>3, <1>4, <1>5 DEF SumFunction

\* What a frame computes.
LEMMA FrameTypes ==
  ASSUME NEW op, NEW values, Supplied(op, values), NEW cutoff \in Int,
         NEW in \in Seq(Terms), NEW out \in Seq(Terms), Within(out, cutoff),
         NEW adjoints \in Seq(Int), Len(adjoints) = Len(out)
  PROVE  /\ InputAdjoint(op, in, out, values, cutoff, adjoints) \in Seq(Int)
         /\ Len(InputAdjoint(op, in, out, values, cutoff, adjoints)) = Len(in)
         /\ \A s : FrameGradient(op, in, out, values, cutoff, adjoints, s) \in Int
<1>1. /\ InputAdjoint(op, in, out, values, cutoff, adjoints) \in Seq(Int)
      /\ Len(InputAdjoint(op, in, out, values, cutoff, adjoints)) = Len(in)
  BY InputAdjointIs
<1>2. ASSUME NEW s PROVE FrameGradient(op, in, out, values, cutoff, adjoints, s) \in Int
  <2> DEFINE lam == AdjointOf(out, adjoints)
             b == SlopeTo(op, values, lam, s)
  <2>1. IntOn(lam, Words)
    BY AdjointType
  <2>2. IntOn(b, Words)
    <3> HIDE DEF lam
    <3> QED BY <2>1, SlopeTypes
  <2>3. FrameGradient(op, in, out, values, cutoff, adjoints, s) = Image(in, b)
    BY FrameGradientIs
  <2> HIDE DEF b
  <2> QED BY <2>2, <2>3, ByWords
<1> QED BY <1>1, <1>2

\* The frame at hand: its operation, its two states and its adjoints.
LEMMA FrameAtHand ==
  ASSUME IInv, CallInv, TypesInv, phase = "frames"
  PROVE  /\ step \in Nat /\ Back \in 1 .. step
         /\ OpAt(BlockStart + Len(block) - 2) = OpAt(Back - 1)
         /\ Supplied(OpAt(Back - 1), call.values) /\ call.cutoff \in Int
         /\ block[Len(block) - 1] = trace[Back] /\ block[Len(block)] = trace[Back + 1]
         /\ trace[Back] \in Seq(Terms) /\ trace[Back + 1] \in Seq(Terms)
         /\ Within(trace[Back + 1], call.cutoff)
         /\ lambda \in Seq(Int) /\ Len(lambda) = Len(trace[Back + 1])
<1>1. /\ step = Gates /\ Gates \in Nat /\ Back \in 1 .. step
      /\ block[Len(block)] = trace[Back + 1] /\ block[Len(block) - 1] = trace[Back]
      /\ BlockStart + Len(block) - 2 = Back - 1
  BY BackIs DEF Reversing
<1>2. Back - 1 \in 0 .. step - 1 /\ (Back - 1) + 1 = Back /\ (Back - 1) + 2 = Back + 1
  BY <1>1
<1>3. /\ Supplied(OpAt(Back - 1), call.values) /\ call.cutoff \in Int
      /\ trace[(Back - 1) + 1] \in Seq(Terms) /\ trace[(Back - 1) + 2] \in Seq(Terms)
      /\ Within(trace[(Back - 1) + 2], call.cutoff)
  BY <1>2, StepTypes
<1>4. lambda \in Seq(Int) /\ Len(lambda) = Len(trace[Back + 1])
  BY DEF TypesInv, Reversing
<1> QED BY <1>1, <1>2, <1>3, <1>4

---------------------------------------------------------------------------
\* A product of naturals grows with its factors.
LEMMA ProductGrows ==
  ASSUME NEW a \in Nat, NEW x \in Nat, NEW y \in Nat, x <= y
  PROVE  a * x <= a * y /\ a * x \in Nat /\ a * y \in Nat
<1>1. PICK d \in Nat : y = x + d
  <2>1. y - x \in Nat /\ y = x + (y - x)
    OBVIOUS
  <2> QED BY <2>1
<1>2. a * y = a * x + a * d /\ a * x \in Nat /\ a * d \in Nat
  BY <1>1, Products
<1> QED BY <1>2

\* The bytes of one state.
LEMMA BytesOfOne ==
  ASSUME NEW t, Len(t) \in Nat
  PROVE  Bytes(<<t>>) = TermBytes * Len(t) /\ Bytes(<<t>>) \in Nat
<1> DEFINE one == <<t>>
           g == [i \in DOMAIN one |-> Len(one[i])]
<1>1. DOMAIN g = {1} /\ g[1] = Len(t)
  OBVIOUS
<1>2. Bytes(<<t>>) = TermBytes * SumFunction(g)
  BY DEF Bytes, SumOver
<1> HIDE DEF g
<1>3. SumFunction(g) = Len(t)
  <2>1. g[1] \in Int
    BY <1>1
  <2> QED BY <1>1, <2>1, SumOfOne DEF SumFunction
<1>4. TermBytes * Len(t) \in Nat
  BY TermBytesAssumption
<1> QED BY <1>2, <1>3, <1>4

\* Each of several states takes no more than all of them.
LEMMA BytesOfEach ==
  ASSUME NEW states, IsSeq(states), \A i \in 1 .. Len(states) : Len(states[i]) \in Nat
  PROVE  /\ Bytes(states) \in Nat
         /\ \A i \in 1 .. Len(states) : Bytes(<<states[i]>>) <= Bytes(states)
<1> DEFINE g == [i \in DOMAIN states |-> Len(states[i])]
<1>1. DOMAIN g = 1 .. Len(states) /\ IsFiniteSet(1 .. Len(states))
      /\ \A i \in 1 .. Len(states) : g[i] = Len(states[i]) /\ g[i] \in Nat
  BY FS_Interval DEF IsSeq
<1>2. Bytes(states) = TermBytes * SumFunction(g)
  BY DEF Bytes, SumOver
<1> HIDE DEF g
<1>3. SumFunction(g) \in Nat /\ \A i \in 1 .. Len(states) : g[i] <= SumFunction(g)
  BY <1>1, SumNat DEF SumFunction
<1>4. ASSUME NEW i \in 1 .. Len(states) PROVE Bytes(<<states[i]>>) <= Bytes(states)
  <2>1. Bytes(<<states[i]>>) = TermBytes * Len(states[i])
    BY BytesOfOne
  <2>2. Len(states[i]) \in Nat /\ Len(states[i]) <= SumFunction(g) /\ TermBytes \in Nat
    BY <1>1, <1>3, TermBytesAssumption
  <2>3. TermBytes * Len(states[i]) <= TermBytes * SumFunction(g)
    BY <1>3, <2>2, ProductGrows
  <2> QED BY <1>2, <2>1, <2>3
<1>5. TermBytes * SumFunction(g) \in Nat
  BY <1>3, TermBytesAssumption
<1> QED BY <1>2, <1>4, <1>5

\* Every step keeps the types.
LEMMA TypesStep ==
  ASSUME IInv, IInv', CallInv, TypesInv, [Next]_vars
  PROVE  TypesInv'
<1>0. call \in Calls /\ step \in 0 .. Gates /\ Gates \in Nat /\ IsSeq(trace) /\ Len(trace) = step + 1
  BY CallParts DEF IInv, TraceInv
<1>1. ASSUME NEW reason \in Errors \ {"none"}, Fail(reason) PROVE TypesInv'
  BY <1>1, TypesFail
<1>2. CASE Compile
  <2>1. CASE phase' = "compiled"
    BY <1>2, <2>1, TypesKept DEF Compile, Fail, local, ghosts, Reversing, TypesInv
  <2>2. CASE phase' # "compiled"
    BY <1>1, <1>2, <2>2 DEF Compile, Errors
  <2> QED BY <2>1, <2>2
<1>3. CASE Begin
  <2>1. CASE phase' # "forward"
    BY <1>1, <1>3, <2>1 DEF Begin, Errors
  <2>2. CASE phase' = "forward"
    <3>1. /\ phase = "compiled"
          /\ UNCHANGED <<call, step, error, value, lambda, gradient, at, trace>>
          /\ \/ /\ UNCHANGED checkpoints
                /\ peak' = [terms |-> Len(terms), bytes |-> Bytes(<<terms>>)]
             \/ UNCHANGED peak /\ checkpoints' = <<[boundary |-> 0, terms |-> terms]>>
      BY <1>3, <2>2 DEF Begin, Fail, ghosts
    <3>2. terms \in Seq(Terms) /\ Len(terms) \in Int
      BY <1>0 DEF IInv, TraceInv, TypesInv
    <3>3. Bytes(<<terms>>) \in Int
      BY <3>2, BytesOfOne
    <3>4. peak'.terms \in Int /\ peak'.bytes \in Int
      BY <3>1, <3>2, <3>3 DEF TypesInv
    <3>5. /\ \A i \in 1 .. Len(checkpoints') : i - 1 <= checkpoints'[i].boundary
          /\ Len(checkpoints') >= 1 => checkpoints'[1].boundary = 0
      <4>1. CASE UNCHANGED checkpoints
        BY <4>1 DEF TypesInv
      <4>2. CASE checkpoints' = <<[boundary |-> 0, terms |-> terms]>>
        <5> DEFINE c == [boundary |-> 0, terms |-> terms]
        <5>1. Len(checkpoints') = 1 /\ checkpoints'[1] = c
          BY <4>2, ShortSeq
        <5>2. c.boundary = 0
          OBVIOUS
        <5> HIDE DEF c
        <5> QED BY <5>1, <5>2
      <4> QED BY <3>1, <4>1, <4>2
    <3>6. UNCHANGED <<Slots, NParameters, ParameterSlots, Gates>>
      BY <3>1 DEF Slots, NParameters, ParameterSlots, Gates
    <3> QED BY <2>2, <3>1, <3>4, <3>5, <3>6 DEF TypesInv, Reversing
  <2> QED BY <2>1, <2>2
<1>4. CASE ProfileGate
  <2> DEFINE next == ApplyOperation(OpAt(step), terms, call.values, call.cutoff)
             candidates == TermBytes * Len(terms) * BranchFactor(OpAt(step))
             b == CHOOSE b \in {peak.bytes, candidates, Bytes(<<next>>)} :
                    b >= peak.bytes /\ b >= candidates /\ b >= Bytes(<<next>>)
  <2>1. CASE step' # step + 1
    <3>1. \E reason \in {"MemoryLimit", "InvalidChannel"} : Fail(reason)
      BY <1>4, <2>1 DEF ProfileGate, Apply
    <3> QED BY <1>1, <3>1 DEF Errors
  <2>2. CASE step' = step + 1
    <3>1. /\ phase = "forward" /\ step < Gates /\ Apply(OpAt(step), next)
          /\ peak' = [terms |-> PeakTerms(next), bytes |-> b]
          /\ UNCHANGED <<call, phase, error, checkpoints, value, lambda, gradient, at>>
      <4>1. step # step + 1
        BY <1>0
      <4> QED BY <1>4, <2>2, <4>1 DEF ProfileGate, Fail
    <3>2. /\ next \in Seq(Terms) /\ terms \in Seq(Terms) /\ BranchFactor(OpAt(step)) \in Nat
      BY <3>1, GateTypes
    <3>3. Len(next) \in Nat /\ Len(terms) \in Nat
      BY <3>2
    <3>4. candidates \in Int /\ Bytes(<<next>>) \in Int /\ peak.bytes \in Int /\ peak.terms \in Int
      <4> HIDE DEF next
      <4> QED BY <3>2, <3>3, BytesOfOne, TermBytesAssumption DEF TypesInv
    <3>5. b \in Int
      <4> HIDE DEF candidates, next
      <4>1. \E x \in {peak.bytes, candidates, Bytes(<<next>>)} :
               x >= peak.bytes /\ x >= candidates /\ x >= Bytes(<<next>>)
        BY <3>4
      <4>2. b \in {peak.bytes, candidates, Bytes(<<next>>)}
        BY <4>1
      <4> QED BY <3>4, <4>2
    <3>6. PeakTerms(next) \in Int
      <4> HIDE DEF next
      <4> QED BY <3>3, <3>4 DEF PeakTerms
    <3> HIDE DEF b
    <3>7. peak'.terms \in Int /\ peak'.bytes \in Int
      BY <3>1, <3>5, <3>6
    <3>8. trace' = Append(trace, next)
      BY <3>1 DEF Apply
    <3> HIDE DEF next
    <3>9. /\ Len(trace') = Len(trace) + 1 /\ trace'[Len(trace) + 1] = next
          /\ \A k \in 1 .. Len(trace) : trace'[k] = trace[k]
      BY <1>0, <3>8, AppendToSeq
    <3>10. ASSUME NEW k \in 1 .. Len(trace') PROVE trace'[k] \in Seq(Terms)
      <4>1. Len(trace) \in Nat
        BY <1>0
      <4>2. k \in 1 .. Len(trace) \/ k = Len(trace) + 1
        BY <3>9, <4>1
      <4> QED BY <3>2, <3>9, <4>2 DEF TypesInv
    <3>11. UNCHANGED <<Slots, NParameters, ParameterSlots, Gates>>
      BY <3>1 DEF Slots, NParameters, ParameterSlots, Gates
    <3> QED BY <3>1, <3>7, <3>10, <3>11 DEF TypesInv, Reversing
  <2> QED BY <2>1, <2>2
<1>5. CASE GradientGate
  <2> DEFINE next == ApplyOperation(OpAt(step), terms, call.values, call.cutoff)
             c == [boundary |-> step + 1, terms |-> next]
  <2>1. CASE step' # step + 1
    <3>1. \E reason \in {"MemoryLimit", "InvalidChannel"} : Fail(reason)
      BY <1>5, <2>1 DEF GradientGate, Apply
    <3> QED BY <1>1, <3>1 DEF Errors
  <2>2. CASE step' = step + 1
    <3>1. /\ phase = "forward" /\ call.entry = "gradient" /\ step < Gates /\ Apply(OpAt(step), next)
          /\ checkpoints' = Append(checkpoints, c) \/ UNCHANGED checkpoints
          /\ UNCHANGED <<call, phase, error, peak, value, lambda, gradient, at>>
      <4>1. step # step + 1
        BY <1>0
      <4> QED BY <1>5, <2>2, <4>1 DEF GradientGate, Fail
    <3>2. next \in Seq(Terms)
      BY <3>1, GateTypes
    <3>3. trace' = Append(trace, next)
      BY <3>1 DEF Apply
    <3> HIDE DEF next
    <3>4. /\ Len(trace') = Len(trace) + 1 /\ trace'[Len(trace) + 1] = next
          /\ \A k \in 1 .. Len(trace) : trace'[k] = trace[k]
      BY <1>0, <3>3, AppendToSeq
    <3>5. \A k \in 1 .. Len(trace') : trace'[k] \in Seq(Terms)
      BY <1>0, <3>2, <3>4 DEF TypesInv
    <3>6. /\ \A i \in 1 .. Len(checkpoints') : i - 1 <= checkpoints'[i].boundary
          /\ Len(checkpoints') >= 1 => checkpoints'[1].boundary = 0
      <4>1. CASE UNCHANGED checkpoints
        BY <4>1 DEF TypesInv
      <4>2. CASE checkpoints' = Append(checkpoints, c)
        <5>1. c.boundary = step + 1
          OBVIOUS
        <5>2. /\ IsSeq(checkpoints) /\ Len(checkpoints) \in Nat /\ Len(checkpoints) >= 1
              /\ checkpoints[Len(checkpoints)].boundary \in 0 .. step
          BY <3>1 DEF IInv, CompleteInv, CheckpointInv, IsSeq
        <5>3. checkpoints[Len(checkpoints)].boundary < c.boundary /\ c.boundary \in Nat
          BY <1>0, <5>1, <5>2
        <5> HIDE DEF c
        <5> QED BY <4>2, <5>2, <5>3, NextCheckpoint
      <4> QED BY <3>1, <4>1, <4>2
    <3>7. UNCHANGED <<Slots, NParameters, ParameterSlots, Gates>>
      BY <3>1 DEF Slots, NParameters, ParameterSlots, Gates
    <3> QED BY <3>1, <3>5, <3>6, <3>7 DEF TypesInv, Reversing
  <2> QED BY <2>1, <2>2
<1>6. CASE ProfileAnswer
  <2>1. terms \in Seq(Terms)
    BY <1>0 DEF IInv, TraceInv, TypesInv
  <2>2. value' \in Int
    BY <1>0, <1>6, <2>1, ExpectationIs DEF ProfileAnswer
  <2>3. /\ UNCHANGED <<call, step, trace, error, gradient, at, lambda, checkpoints, peak>>
        /\ phase = "forward" /\ phase' = "done"
    BY <1>6 DEF ProfileAnswer, ghosts
  <2> QED BY <2>2, <2>3, TypesKept DEF TypesInv, Reversing
<1>7. CASE StartReverse
  <2>1. CASE phase' = "failed"
    <3>1. Fail("MemoryLimit")
      BY <1>7, <2>1 DEF StartReverse
    <3> QED BY <1>1, <3>1 DEF Errors
  <2>2. CASE phase' # "failed"
    <3>1. /\ phase = "forward" /\ call.entry = "gradient" /\ step = Gates
          /\ value' = Expectation(terms, call.state)
          /\ lambda' = [i \in DOMAIN terms |-> WordExpectation(terms[i].key, call.state)]
          /\ at' = Len(checkpoints) - 1
          /\ phase' \in {"done", "reverse"}
          /\ UNCHANGED <<call, error, step, terms, peak, checkpoints, gradient, trace>>
      BY <1>7, <2>2 DEF StartReverse, Fail, ghosts
    <3>2. terms \in Seq(Terms)
      BY <1>0 DEF IInv, TraceInv, TypesInv
    <3>3. value' \in Int
      BY <1>0, <3>1, <3>2, ExpectationIs
    <3>4. lambda' \in Seq(Int) /\ Len(lambda') = Len(terms)
      <4>1. DOMAIN terms = 1 .. Len(terms) /\ Len(terms) \in Nat
            /\ \A i \in 1 .. Len(terms) : terms[i] \in Terms
        BY <3>2
      <4>2. \A i \in 1 .. Len(terms) : WordExpectation(terms[i].key, call.state) \in Int
        BY <1>0, <4>1, TermParts, ExpectedType
      <4> QED BY <3>1, <4>1, <4>2
    <3>5. at' \in 0 .. Gates
      <4>1. /\ Len(checkpoints) \in Nat /\ Len(checkpoints) >= 1
            /\ checkpoints[Len(checkpoints)].boundary = Gates
        BY <3>1 DEF IInv, CompleteInv, CheckpointInv, IsSeq
      <4>2. Len(checkpoints) - 1 <= checkpoints[Len(checkpoints)].boundary
        BY <4>1 DEF TypesInv
      <4> QED BY <1>0, <3>1, <4>1, <4>2
    <3>6. phase' \in Reversing => Len(lambda') = Len(trace'[Back' + 1])
      <4> SUFFICES ASSUME phase' \in Reversing PROVE Len(lambda') = Len(trace'[Back' + 1])
        OBVIOUS
      <4>1. Back' = Gates /\ trace[Gates + 1] = terms
        BY <1>7, BackStarts
      <4> QED BY <3>1, <3>4, <4>1
    <3>7. UNCHANGED <<Slots, NParameters, ParameterSlots, Gates>>
      BY <3>1 DEF Slots, NParameters, ParameterSlots, Gates
    <3> QED BY <3>1, <3>3, <3>4, <3>5, <3>6, <3>7 DEF TypesInv
  <2> QED BY <2>1, <2>2
<1>8. CASE OpenBlock \/ ReplayGate
  <2>1. CASE phase' = "failed"
    <3>1. Fail("MemoryLimit")
      BY <1>8, <2>1 DEF OpenBlock, ReplayGate
    <3> QED BY <1>1, <3>1 DEF Errors
  <2>2. CASE phase' # "failed"
    <3>1. phase' \in Reversing
      BY <1>8, <2>2 DEF OpenBlock, ReplayGate, Fail, Reversing
    <3>2. /\ Back' = Back /\ phase \in Reversing
          /\ UNCHANGED <<call, error, step, terms, peak, checkpoints, charged, value, lambda,
                         gradient, at, trace, tangents>>
      BY <1>8, <3>1, BackStays
    <3> QED BY <2>2, <3>1, <3>2, TypesKept DEF TypesInv, Reversing
  <2> QED BY <2>1, <2>2
<1>9. CASE ReverseFrame
  <2> DEFINE op == OpAt(Back - 1)
             in == trace[Back]
             out == trace[Back + 1]
  <2>1. /\ step \in Nat /\ Back \in 1 .. step
        /\ OpAt(BlockStart + Len(block) - 2) = op
        /\ Supplied(op, call.values) /\ call.cutoff \in Int
        /\ block[Len(block) - 1] = in /\ block[Len(block)] = out
        /\ in \in Seq(Terms) /\ out \in Seq(Terms) /\ Within(out, call.cutoff)
        /\ lambda \in Seq(Int) /\ Len(lambda) = Len(out)
    BY <1>9, FrameAtHand DEF ReverseFrame
  <2>2. /\ lambda' = InputAdjoint(op, in, out, call.values, call.cutoff, lambda)
        /\ gradient' = [s \in DOMAIN gradient |-> gradient[s] +
              FrameGradient(op, in, out, call.values, call.cutoff, lambda, s)]
        /\ UNCHANGED <<call, error, step, peak, checkpoints, value, trace>>
        /\ phase = "frames" /\ phase' \in {"frames", "reverse", "done"}
    BY <1>9, <2>1 DEF ReverseFrame, NextBlock, ghosts
  <2>3. /\ lambda' \in Seq(Int) /\ Len(lambda') = Len(in)
        /\ \A s : FrameGradient(op, in, out, call.values, call.cutoff, lambda, s) \in Int
    <3> HIDE DEF op, in, out
    <3> QED BY <2>1, <2>2, FrameTypes
  <2>4. gradient' \in [ParameterSlots -> Int]
    <3> HIDE DEF op, in, out
    <3> QED BY <2>2, <2>3 DEF TypesInv
  <2>5. phase' \in Reversing => Len(lambda') = Len(trace'[Back' + 1])
    <3> SUFFICES ASSUME phase' \in Reversing PROVE Len(lambda') = Len(trace'[Back' + 1])
      OBVIOUS
    <3>1. Back' = Back - 1
      BY <1>9, BackMoves
    <3>2. Back' + 1 = Back
      BY <2>1, <3>1
    <3> QED BY <2>2, <2>3, <3>2
  <2>6. at' \in 0 .. Gates
    <3>1. at \in 0 .. Gates
      BY DEF TypesInv
    <3>2. at \in 1 .. Len(checkpoints) - 1
      BY <1>9, Boundaries DEF ReverseFrame
    <3>3. at' \in {at, at - 1}
      BY <1>9 DEF ReverseFrame, NextBlock
    <3> QED BY <1>0, <3>1, <3>2, <3>3
  <2>7. UNCHANGED <<Slots, NParameters, ParameterSlots, Gates>>
    BY <2>2 DEF Slots, NParameters, ParameterSlots, Gates
  <2> QED BY <2>2, <2>3, <2>4, <2>5, <2>6, <2>7 DEF TypesInv
<1>10. CASE UNCHANGED vars
  <2>1. UNCHANGED <<Slots, NParameters, ParameterSlots, Gates, Back>>
    BY <1>10 DEF vars, Slots, NParameters, ParameterSlots, Gates, Back, BlockStart, BlockEnd
  <2> QED BY <1>10, <2>1 DEF vars, TypesInv
<1> QED
  BY <1>2, <1>3, <1>4, <1>5, <1>6, <1>7, <1>8, <1>9, <1>10 DEF Next, Returned

---------------------------------------------------------------------------
(* Derivatives                                                             *)

\* The observable does not depend on the parameters.
LEMMA TangentInit == Init => TangentInv
<1> SUFFICES ASSUME Init PROVE TangentInv
  OBVIOUS
<1> DEFINE first == [s \in ParameterSlots |-> Zeros]
<1>1. /\ IsSeq(tangents) /\ Len(tangents) = 1 /\ tangents[1] = first /\ step = 0
  BY ShortSeq DEF Init
<1>2. \A s \in ParameterSlots : \A w \in Words : first[s][w] = 0
  BY DEF Zeros
<1> HIDE DEF first
<1> QED BY <1>1, <1>2 DEF TangentInv, IntOn

\* Steps that do no gate keep the derivatives.
LEMMA TangentKept ==
  ASSUME TangentInv, UNCHANGED <<call, step, trace, tangents>>
  PROVE  TangentInv'
<1>1. /\ UNCHANGED <<Slots, NParameters, ParameterSlots, Gates>>
      /\ \A k : OpAt(k)' = OpAt(k)
  BY DEF Slots, NParameters, ParameterSlots, Gates, OpAt
<1> QED BY <1>1 DEF TangentInv

\* A gate appends the derivative of the state it leaves.
LEMMA TangentGate ==
  ASSUME IInv, IInv', CallInv, TypesInv, TangentInv, phase = "forward", step < Gates, UNCHANGED call,
         Apply(OpAt(step), ApplyOperation(OpAt(step), terms, call.values, call.cutoff))
  PROVE  TangentInv'
<1> DEFINE op == OpAt(step)
           next == ApplyOperation(op, terms, call.values, call.cutoff)
           new == [s \in ParameterSlots |->
                     NextTangent(op, call.values, terms, next, Last(tangents)[s], s)]
<1>1. /\ step \in 0 .. Gates - 1 /\ Gates \in Nat /\ Supplied(op, call.values)
      /\ terms \in Seq(Terms) /\ next \in Seq(Terms)
  BY GateTypes
<1>2. /\ \A k \in 0 .. step : trace'[k + 1] = trace[k + 1]
      /\ step' = step + 1 /\ trace'[step + 2] = terms' /\ trace[step + 1] = terms
  BY Advancing DEF IInv, TraceInv
<1>3. terms' = next /\ tangents' = Append(tangents, new)
  BY DEF Apply
<1>4. /\ IsSeq(tangents) /\ Len(tangents) = step + 1
      /\ \A k \in 0 .. step, s \in ParameterSlots :
           /\ IntOn(tangents[k + 1][s], Words)
           /\ \A w \in Words : w \notin KeysOf(trace[k + 1]) => tangents[k + 1][s][w] = 0
      /\ \A s \in ParameterSlots : \A w \in Words : tangents[1][s][w] = 0
      /\ \A k \in 0 .. step - 1, s \in ParameterSlots :
           tangents[k + 2][s]
             = NextTangent(OpAt(k), call.values, trace[k + 1], trace[k + 2], tangents[k + 1][s], s)
  BY DEF TangentInv
<1>5. UNCHANGED <<ParameterSlots, Gates>> /\ \A k : OpAt(k)' = OpAt(k)
  BY DEF Slots, NParameters, ParameterSlots, Gates, OpAt
<1>6. Last(tangents) = tangents[step + 1] /\ step \in 0 .. step
  BY <1>1, <1>4 DEF Last
<1>7. \A s \in ParameterSlots :
         new[s] = NextTangent(op, call.values, terms, next, tangents[step + 1][s], s)
  BY <1>6
<1> HIDE DEF new, next, op
<1>8. /\ IsSeq(tangents') /\ Len(tangents') = step + 2
      /\ \A k \in 1 .. step + 1 : tangents'[k] = tangents[k]
      /\ tangents'[step + 2] = new
  <2>1. /\ IsSeq(tangents') /\ Len(tangents') = Len(tangents) + 1
        /\ \A k \in 1 .. Len(tangents) : tangents'[k] = tangents[k]
        /\ tangents'[Len(tangents) + 1] = new
    BY <1>3, <1>4, AppendToSeq
  <2> QED BY <1>1, <1>4, <2>1
<1>9. ASSUME NEW s \in ParameterSlots
      PROVE  /\ IntOn(new[s], Words) /\ \A w \in Words : w \notin KeysOf(next) => new[s][w] = 0
  <2>1. IntOn(tangents[step + 1][s], Words)
    BY <1>4, <1>6
  <2>2. /\ IntOn(NextTangent(op, call.values, terms, next, tangents[step + 1][s], s), Words)
        /\ \A w \in Words : w \notin KeysOf(next) =>
             NextTangent(op, call.values, terms, next, tangents[step + 1][s], s)[w] = 0
    BY <1>1, <2>1, NextTangentType
  <2> QED BY <1>7, <2>2
<1>10. ASSUME NEW k \in 0 .. step', NEW s \in ParameterSlots'
       PROVE  /\ IntOn(tangents'[k + 1][s], Words)
              /\ \A w \in Words : w \notin KeysOf(trace'[k + 1]) => tangents'[k + 1][s][w] = 0
  <2>1. s \in ParameterSlots
    BY <1>5
  <2>2. CASE k = step + 1
    <3>1. tangents'[k + 1] = new /\ trace'[k + 1] = next
      BY <1>1, <1>2, <1>3, <1>8, <2>2
    <3> QED BY <1>9, <2>1, <3>1
  <2>3. CASE k # step + 1
    <3>1. k \in 0 .. step /\ k + 1 \in 1 .. step + 1
      BY <1>1, <1>2, <2>3
    <3>2. tangents'[k + 1] = tangents[k + 1] /\ trace'[k + 1] = trace[k + 1]
      BY <1>2, <1>8, <3>1
    <3> QED BY <1>4, <2>1, <3>1, <3>2
  <2> QED BY <2>2, <2>3
<1>11. ASSUME NEW k \in 0 .. step' - 1, NEW s \in ParameterSlots'
       PROVE  tangents'[k + 2][s]
                = NextTangent(OpAt(k)', call'.values, trace'[k + 1], trace'[k + 2],
                              tangents'[k + 1][s], s)
  <2>1. s \in ParameterSlots /\ OpAt(k)' = OpAt(k)
    BY <1>5
  <2>2. CASE k = step
    <3>1. /\ tangents'[k + 2] = new /\ trace'[k + 2] = next /\ trace'[k + 1] = terms
          /\ tangents'[k + 1] = tangents[step + 1]
      BY <1>1, <1>2, <1>3, <1>8, <2>2
    <3> QED BY <1>7, <2>1, <2>2, <3>1 DEF op
  <2>3. CASE k # step
    <3>1. k \in 0 .. step - 1 /\ k \in 0 .. step /\ k + 1 \in 0 .. step
          /\ k + 1 \in 1 .. step + 1 /\ k + 2 \in 1 .. step + 1 /\ (k + 1) + 1 = k + 2
      BY <1>1, <1>2, <2>3
    <3>2. trace'[(k + 1) + 1] = trace[(k + 1) + 1] /\ trace'[k + 1] = trace[k + 1]
      BY <1>2, <3>1
    <3>3. tangents'[k + 2] = tangents[k + 2] /\ tangents'[k + 1] = tangents[k + 1]
      BY <1>8, <3>1
    <3>4. tangents[k + 2][s]
            = NextTangent(OpAt(k), call.values, trace[k + 1], trace[k + 2], tangents[k + 1][s], s)
      BY <1>4, <2>1, <3>1
    <3> QED BY <2>1, <3>1, <3>2, <3>3, <3>4
  <2> QED BY <2>2, <2>3
<1>12. \A s \in ParameterSlots' : \A w \in Words : tangents'[1][s][w] = 0
  <2>1. 1 \in 1 .. step + 1
    BY <1>1
  <2> QED BY <1>4, <1>5, <1>8, <2>1
<1>13. Len(tangents') = step' + 1
  BY <1>1, <1>2, <1>8
<1> QED BY <1>8, <1>10, <1>11, <1>12, <1>13 DEF TangentInv

\* Every step keeps the derivatives.
LEMMA TangentStep ==
  ASSUME IInv, IInv', CallInv, TypesInv, TangentInv, [Next]_vars
  PROVE  TangentInv'
<1>0. step \in Int
  BY GatesAreFinite DEF IInv, TraceInv
<1>1. CASE UNCHANGED <<call, step, trace, tangents>>
  BY <1>1, TangentKept
<1>2. CASE ~UNCHANGED <<call, step, trace, tangents>>
  <2>1. ProfileGate \/ GradientGate
    BY <1>2 DEF Next, Compile, Begin, ProfileAnswer, StartReverse, OpenBlock, ReplayGate,
                ReverseFrame, Returned, vars, Fail, ghosts
  <2>2. /\ phase = "forward" /\ step < Gates /\ UNCHANGED call
        /\ Apply(OpAt(step), ApplyOperation(OpAt(step), terms, call.values, call.cutoff))
    BY <1>2, <2>1 DEF ProfileGate, GradientGate, Fail, ghosts
  <2> QED BY <2>2, TangentGate
<1> QED BY <1>1, <1>2

---------------------------------------------------------------------------
(* The gradient                                                            *)

\* A call starts with no gradient.
LEMMA AdjointInit == Init => AdjointInv
  BY DEF Init, AdjointInv, Reversing

\* Two functions that agree on the words one of them is not zero on pair alike.
LEMMA PairingAgrees ==
  ASSUME NEW T, IntOn(T, Words), NEW f, IntOn(f, Words), NEW g, IntOn(g, Words),
         \A w \in Words : T[w] = 0 \/ f[w] = g[w]
  PROVE  Pairing(T, f) = Pairing(T, g) /\ Pairing(T, f) \in Int
<1> DEFINE p == [w \in Words |-> T[w] * f[w]]
           q == [w \in Words |-> T[w] * g[w]]
<1>1. \A w \in Words : T[w] \in Int /\ f[w] \in Int /\ g[w] \in Int
  BY DEF IntOn
<1>2. IntOn(p, Words)
  BY <1>1 DEF IntOn
<1>3. Agree(p, q, Words)
  <2>1. ASSUME NEW w \in Words PROVE p[w] = q[w]
    BY <1>1
  <2> HIDE DEF p, q
  <2> QED BY <2>1 DEF Agree
<1>4. IsFiniteSet(Words)
  BY WordsFinite
<1>5. Pairing(T, f) = SumFunctionOnSet(p, Words) /\ Pairing(T, g) = SumFunctionOnSet(q, Words)
  BY DEF Pairing
<1> HIDE DEF p, q
<1> QED BY <1>2, <1>3, <1>4, <1>5, SumEqual, SumInt

\* Nothing pairs to anything but zero with zero.
LEMMA PairingZero ==
  ASSUME NEW T, \A w \in Words : T[w] = 0, NEW f, IntOn(f, Words)
  PROVE  Pairing(T, f) = 0
<1> DEFINE p == [w \in Words |-> T[w] * f[w]]
<1>1. \A w \in Words : p[w] = 0
  BY DEF IntOn
<1>2. Pairing(T, f) = SumFunctionOnSet(p, Words) /\ IsFiniteSet(Words)
  BY WordsFinite DEF Pairing
<1> HIDE DEF p
<1> QED BY <1>1, <1>2, SumZero

\* The derivative of the value does not change after the forward pass.
LEMMA TotalStays ==
  ASSUME UNCHANGED <<call, step, tangents>>, NEW s
  PROVE  ValueTangent(s)' = ValueTangent(s)
  BY DEF ValueTangent, Expected, Pairing

\* Steps that move neither the adjoints nor the gradient.
LEMMA AdjointKept ==
  ASSUME AdjointInv, UNCHANGED <<call, step, trace, tangents, lambda, gradient>>,
         phase' \in Reversing => phase \in Reversing /\ Back' = Back,
         phase' \in {"called", "compiled", "forward"} => phase \in {"called", "compiled", "forward"},
         phase' = "done" /\ call.entry = "gradient" => phase = "done"
  PROVE  AdjointInv'
<1>1. UNCHANGED ParameterSlots
  BY DEF Slots, NParameters, ParameterSlots
<1>2. \A s : ValueTangent(s)' = ValueTangent(s)
  BY TotalStays
<1> QED BY <1>1, <1>2 DEF AdjointInv

\* The pairing with the adjoints of the state the reverse pass is at.
LEMMA AtBack ==
  ASSUME IInv, CallInv, TypesInv, TangentInv, phase \in Reversing, NEW s \in ParameterSlots
  PROVE  /\ Back \in 1 .. step /\ step \in Nat
         /\ IntOn(tangents[Back + 1][s], Words) /\ IntOn(tangents[Back][s], Words)
         /\ \A w \in Words : w \notin KeysOf(trace[Back]) => tangents[Back][s][w] = 0
         /\ tangents[Back + 1][s]
              = NextTangent(OpAt(Back - 1), call.values, trace[Back], trace[Back + 1],
                            tangents[Back][s], s)
<1>1. Back \in 1 .. step /\ step \in Nat
  BY BackIs
<1> DEFINE k == Back - 1
<1>2. /\ k \in 0 .. step - 1 /\ k \in 0 .. step /\ k + 1 \in 0 .. step
      /\ k + 1 = Back /\ k + 2 = Back + 1 /\ (k + 1) + 1 = Back + 1
  BY <1>1
<1>3. /\ IntOn(tangents[(k + 1) + 1][s], Words) /\ IntOn(tangents[k + 1][s], Words)
      /\ \A w \in Words : w \notin KeysOf(trace[k + 1]) => tangents[k + 1][s][w] = 0
      /\ tangents[k + 2][s]
           = NextTangent(OpAt(k), call.values, trace[k + 1], trace[k + 2], tangents[k + 1][s], s)
  <2> HIDE DEF k
  <2> QED BY <1>2 DEF TangentInv
<1> QED BY <1>1, <1>2, <1>3

\* At the start of the reverse pass the adjoints are the expectations of the words.
LEMMA AdjointStart ==
  ASSUME IInv, CallInv, TypesInv, TangentInv, AdjointInv, StartReverse
  PROVE  AdjointInv'
<1>1. CASE phase' = "failed"
  BY <1>1 DEF AdjointInv, Reversing
<1>2. CASE phase' # "failed"
  <2>1. /\ phase = "forward" /\ call.entry = "gradient" /\ step = Gates
        /\ lambda' = [i \in DOMAIN terms |-> WordExpectation(terms[i].key, call.state)]
        /\ phase' = IF Len(checkpoints) = 1 THEN "done" ELSE "reverse"
        /\ UNCHANGED <<call, step, terms, checkpoints, gradient, trace, tangents>>
    BY <1>2 DEF StartReverse, Fail, ghosts
  <2>2. /\ call \in Calls /\ Gates \in Nat /\ step + 1 \in 1 .. Len(trace) /\ trace[step + 1] = terms
        /\ step \in 0 .. step
    BY <2>1, CallParts DEF IInv, TraceInv
  <2>3. terms \in Seq(Terms)
    BY <2>2 DEF TypesInv
  <2>4. UNCHANGED ParameterSlots /\ \A s : ValueTangent(s)' = ValueTangent(s)
    BY <2>1, TotalStays DEF Slots, NParameters, ParameterSlots
  <2>5. \A s \in ParameterSlots : gradient[s] = 0
    BY <2>1 DEF AdjointInv
  <2>6. IntOn(Expected, Words)
    BY <2>2, ExpectedType
  <2> DEFINE top == tangents[step + 1]
  <2>7. \A s \in ParameterSlots :
           /\ IntOn(top[s], Words) /\ \A w \in Words : w \notin KeysOf(terms) => top[s][w] = 0
    BY <2>2 DEF TangentInv
  <2>8. \A s \in ParameterSlots : ValueTangent(s) = Pairing(top[s], Expected)
    BY DEF ValueTangent
  <2>9. lambda' \in Seq(Int) /\ Len(lambda') = Len(terms)
    <3>1. DOMAIN terms = 1 .. Len(terms) /\ Len(terms) \in Nat
          /\ \A i \in 1 .. Len(terms) : terms[i] \in Terms
      BY <2>3
    <3>2. \A i \in 1 .. Len(terms) : WordExpectation(terms[i].key, call.state) \in Int
      BY <2>2, <3>1, TermParts, ExpectedType
    <3> QED BY <2>1, <3>1, <3>2
  <2>10. CASE Len(checkpoints) # 1
    <3>1. phase' = "reverse"
      BY <2>1, <2>10
    <3>2. Back' = step
      BY <2>1, <3>1, BackStarts DEF Reversing
    <3> DEFINE f == AdjointOf(terms, lambda')
    <3>3. IntOn(f, Words)
      BY <2>3, <2>9, AdjointType
    <3>4. \A w \in KeysOf(terms) : f[w] = Expected[w]
      <4> SUFFICES ASSUME NEW w \in KeysOf(terms) PROVE f[w] = Expected[w]
        OBVIOUS
      <4>1. /\ w \in Words /\ IndexOf(terms, w) \in 1 .. Len(terms)
            /\ terms[IndexOf(terms, w)].key = w
        BY <2>3, KeysCounted, IndexOfIs
      <4>2. f[w] = lambda'[IndexOf(terms, w)]
        BY <4>1 DEF AdjointOf
      <4>3. IndexOf(terms, w) \in DOMAIN terms
        BY <2>3, <4>1
      <4> QED BY <2>1, <4>1, <4>2, <4>3 DEF Expected
    <3> HIDE DEF f
    <3>5. ASSUME NEW s \in ParameterSlots
          PROVE  ValueTangent(s) = gradient[s] + Pairing(top[s], f)
      <4> DEFINE T == top[s]
      <4>1. IntOn(T, Words) /\ \A w \in Words : T[w] = 0 \/ f[w] = Expected[w]
        BY <2>7, <3>4
      <4> HIDE DEF T
      <4>2. Pairing(T, f) = Pairing(T, Expected) /\ Pairing(T, f) \in Int
        BY <2>6, <3>3, <4>1, PairingAgrees
      <4>3. gradient[s] = 0 /\ ValueTangent(s) = Pairing(T, Expected)
        BY <2>5, <2>8 DEF T
      <4>4. ValueTangent(s) = gradient[s] + Pairing(T, f)
        BY <4>2, <4>3
      <4> QED BY <4>4 DEF T
    <3>6. \A s \in ParameterSlots' :
             ValueTangent(s)' = gradient'[s]
               + Pairing(tangents'[Back' + 1][s], AdjointOf(trace'[Back' + 1], lambda'))
      BY <2>1, <2>2, <2>4, <3>2, <3>5 DEF f
    <3> QED BY <3>1, <3>6 DEF AdjointInv
  <2>11. CASE Len(checkpoints) = 1
    <3>1. phase' = "done"
      BY <2>1, <2>11
    <3>2. checkpoints[1].boundary = 0 /\ checkpoints[Len(checkpoints)].boundary = Gates
      BY <2>1, <2>11 DEF TypesInv, IInv, CompleteInv
    <3>3. step = 0
      BY <2>1, <2>11, <3>2
    <3>4. ASSUME NEW s \in ParameterSlots PROVE gradient[s] = ValueTangent(s)
      <4>1. \A w \in Words : top[s][w] = 0
        BY <3>3 DEF TangentInv
      <4> DEFINE T == top[s]
      <4> HIDE DEF T
      <4>2. Pairing(T, Expected) = 0
        BY <2>6, <4>1, PairingZero DEF T
      <4> QED BY <2>5, <2>8, <4>2 DEF T
    <3> QED BY <2>1, <2>4, <3>1, <3>4 DEF AdjointInv, Reversing
  <2> QED BY <2>10, <2>11
<1> QED BY <1>1, <1>2

\* A frame moves what it adds to the gradient out of the pairing.
LEMMA AdjointFrame ==
  ASSUME IInv, IInv', CallInv, TypesInv, TangentInv, AdjointInv, ReverseFrame
  PROVE  AdjointInv'
<1> DEFINE op == OpAt(Back - 1)
           in == trace[Back]
           out == trace[Back + 1]
           fg(s) == FrameGradient(op, in, out, call.values, call.cutoff, lambda, s)
<1>1. /\ step \in Nat /\ Back \in 1 .. step
      /\ OpAt(BlockStart + Len(block) - 2) = op
      /\ Supplied(op, call.values) /\ call.cutoff \in Int
      /\ block[Len(block) - 1] = in /\ block[Len(block)] = out
      /\ in \in Seq(Terms) /\ out \in Seq(Terms) /\ Within(out, call.cutoff)
      /\ lambda \in Seq(Int) /\ Len(lambda) = Len(out)
  BY FrameAtHand DEF ReverseFrame
<1>2. /\ lambda' = InputAdjoint(op, in, out, call.values, call.cutoff, lambda)
      /\ gradient' = [s \in DOMAIN gradient |-> gradient[s] + fg(s)]
      /\ UNCHANGED <<call, step, trace, tangents>>
      /\ phase = "frames" /\ phase' \in {"frames", "reverse", "done"}
  BY <1>1 DEF ReverseFrame, NextBlock, ghosts
<1>3. UNCHANGED ParameterSlots /\ \A s : ValueTangent(s)' = ValueTangent(s)
  BY <1>2, TotalStays DEF Slots, NParameters, ParameterSlots
<1>4. ASSUME NEW s \in ParameterSlots
      PROVE  /\ ValueTangent(s) = gradient'[s] + Pairing(tangents[Back][s], AdjointOf(in, lambda'))
             /\ gradient'[s] \in Int
  <2> DEFINE T == tangents[Back][s]
             U == tangents[Back + 1][s]
             low == Pairing(T, AdjointOf(in, lambda'))
  <2>1. /\ IntOn(T, Words) /\ \A w \in Words : w \notin KeysOf(in) => T[w] = 0
        /\ U = NextTangent(op, call.values, in, out, T, s)
    BY <1>2, AtBack DEF Reversing
  <2>2. ValueTangent(s) = gradient[s] + Pairing(U, AdjointOf(out, lambda))
    BY <1>2 DEF AdjointInv, Reversing
  <2>3. gradient[s] \in Int /\ gradient'[s] = gradient[s] + fg(s)
    BY <1>2 DEF TypesInv
  <2>4. IntOn(AdjointOf(in, lambda'), Words)
    <3> HIDE DEF in, out, op
    <3>1. lambda' \in Seq(Int) /\ Len(lambda') = Len(in)
      BY <1>1, <1>2, FrameTypes
    <3> QED BY <1>1, <3>1, AdjointType
  <2> HIDE DEF T, U, op, in, out
  <2>5. /\ Pairing(NextTangent(op, call.values, in, out, T, s), AdjointOf(out, lambda))
             = fg(s) + Pairing(T, AdjointOf(in,
                                 InputAdjoint(op, in, out, call.values, call.cutoff, lambda)))
        /\ fg(s) \in Int
    <3> DEFINE values == call.values
               cutoff == call.cutoff
    <3>1. /\ Supplied(op, values) /\ cutoff \in Int /\ Within(out, cutoff)
      BY <1>1
    <3> HIDE DEF values, cutoff
    <3>2. ASSUME NEW slot, slot = s
          PROVE  /\ Pairing(NextTangent(op, values, in, out, T, slot), AdjointOf(out, lambda))
                      = FrameGradient(op, in, out, values, cutoff, lambda, slot)
                          + Pairing(T, AdjointOf(in,
                                 InputAdjoint(op, in, out, values, cutoff, lambda)))
                 /\ FrameGradient(op, in, out, values, cutoff, lambda, slot) \in Int
      <4>1. IntOn(T, Words) /\ ZeroOff(T, in)
        BY <2>1 DEF ZeroOff
      <4> QED BY <1>1, <3>1, <4>1, FrameReverses
    <3> QED BY <3>2 DEF values, cutoff
  <2>6. low \in Int
    BY <2>1, <2>4, PairingAgrees
  <2>7. Pairing(U, AdjointOf(out, lambda)) = fg(s) + low
    BY <1>2, <2>1, <2>5
  <2> HIDE DEF fg, low
  <2>8. ValueTangent(s) = gradient'[s] + low /\ gradient'[s] \in Int
    BY <2>2, <2>3, <2>5, <2>6, <2>7
  <2> QED BY <2>8 DEF low, T
<1>5. CASE phase' \in Reversing
  <2>1. Back' = Back - 1
    BY <1>5, BackMoves
  <2>2. Back' + 1 = Back
    BY <1>1, <2>1
  <2> QED BY <1>2, <1>3, <1>4, <1>5, <2>2 DEF AdjointInv, Reversing
<1>6. CASE phase' \notin Reversing
  <2>1. phase' = "done" /\ Back = 1
    BY <1>6, BackMoves
  <2>2. ASSUME NEW s \in ParameterSlots PROVE gradient'[s] = ValueTangent(s)
    <3> DEFINE T == tangents[1][s]
               f == AdjointOf(in, lambda')
    <3>1. \A w \in Words : T[w] = 0
      BY DEF TangentInv
    <3>2. IntOn(f, Words)
      <4> HIDE DEF in, out, op
      <4>1. lambda' \in Seq(Int) /\ Len(lambda') = Len(in)
        BY <1>1, <1>2, FrameTypes
      <4> QED BY <1>1, <4>1, AdjointType
    <3>3. ValueTangent(s) = gradient'[s] + Pairing(T, f) /\ gradient'[s] \in Int
      BY <1>4, <2>1
    <3> HIDE DEF T, f
    <3>4. Pairing(T, f) = 0
      BY <3>1, <3>2, PairingZero
    <3> QED BY <3>3, <3>4
  <2> QED BY <1>2, <1>3, <2>1, <2>2 DEF AdjointInv, Reversing
<1> QED BY <1>5, <1>6

\* Every step keeps the sum of the gradient and the pairing.
LEMMA AdjointStep ==
  ASSUME IInv, IInv', CallInv, TypesInv, TangentInv, AdjointInv, [Next]_vars
  PROVE  AdjointInv'
<1>1. ASSUME NEW reason, Fail(reason) PROVE AdjointInv'
  BY <1>1 DEF Fail, AdjointInv, Reversing
<1>2. CASE Compile \/ Begin
  <2>1. CASE phase' = "failed"
    BY <2>1 DEF AdjointInv, Reversing
  <2>2. CASE phase' # "failed"
    BY <1>2, <2>2, AdjointKept DEF Compile, Begin, Fail, local, ghosts, Reversing
  <2> QED BY <2>1, <2>2
<1>3. CASE ProfileGate \/ GradientGate
  <2>1. CASE phase' = "failed"
    BY <2>1 DEF AdjointInv, Reversing
  <2>2. CASE phase' # "failed"
    <3>1. phase' = "forward" /\ phase = "forward" /\ UNCHANGED <<call, gradient>>
      BY <1>3, <2>2 DEF ProfileGate, GradientGate, Fail
    <3>2. UNCHANGED ParameterSlots
      BY <3>1 DEF Slots, NParameters, ParameterSlots
    <3> QED BY <3>1, <3>2 DEF AdjointInv, Reversing
  <2> QED BY <2>1, <2>2
<1>4. CASE ProfileAnswer
  BY <1>4 DEF ProfileAnswer, AdjointInv, Reversing
<1>5. CASE StartReverse
  BY <1>5, AdjointStart
<1>6. CASE OpenBlock \/ ReplayGate
  <2>1. CASE phase' = "failed"
    BY <2>1 DEF AdjointInv, Reversing
  <2>2. CASE phase' # "failed"
    <3>1. phase' \in Reversing
      BY <1>6, <2>2 DEF OpenBlock, ReplayGate, Fail, Reversing
    <3>2. Back' = Back /\ phase \in Reversing
          /\ UNCHANGED <<call, step, trace, tangents, lambda, gradient>>
      BY <1>6, <3>1, BackStays
    <3> QED BY <3>1, <3>2, AdjointKept DEF Reversing
  <2> QED BY <2>1, <2>2
<1>7. CASE ReverseFrame
  BY <1>7, AdjointFrame
<1>8. CASE UNCHANGED vars
  <2>1. Back' = Back
    BY <1>8 DEF vars, Back, BlockStart, BlockEnd
  <2> QED BY <1>8, <2>1, AdjointKept DEF vars
<1> QED
  BY <1>2, <1>3, <1>4, <1>5, <1>6, <1>7, <1>8 DEF Next, Returned

\* What the invariants say of a call that has returned.
LEMMA AdjointGivesGradient == TangentInv /\ AdjointInv /\ IInv => GradientIsTangent
<1> SUFFICES ASSUME TangentInv, AdjointInv, IInv, phase = "done", call.entry = "gradient",
                    NEW s \in ParameterSlots
             PROVE  gradient[s] = SumFunction(
                      [w \in Words |-> Last(tangents)[s][w] * WordExpectation(w, call.state)])
  BY DEF GradientIsTangent
<1>1. gradient[s] = ValueTangent(s)
  BY DEF AdjointInv
<1>2. Last(tangents) = tangents[step + 1]
  BY DEF TangentInv, Last
<1> DEFINE p == [w \in Words |-> Last(tangents)[s][w] * WordExpectation(w, call.state)]
<1>3. p = [w \in Words |-> tangents[step + 1][s][w] * Expected[w]]
  BY <1>2 DEF Expected
<1>4. ValueTangent(s) = SumFunctionOnSet(p, Words)
  BY <1>3 DEF ValueTangent, Pairing
<1>5. SumFunction(p) = SumFunctionOnSet(p, Words)
  BY DEF SumFunction
<1> HIDE DEF p
<1> QED BY <1>1, <1>4, <1>5 DEF p

---------------------------------------------------------------------------
(* Budget                                                                  *)

\* A call starts with nothing charged.
LEMMA BudgetInit == Init => BudgetInv
<1> SUFFICES ASSUME Init PROVE BudgetInv
  OBVIOUS
<1>1. phase = "called" /\ charged = 0 /\ Len(checkpoints) = 0
  BY DEF Init
<1> QED BY <1>1 DEF BudgetInv, Reversing

\* Every forward state is a sequence of terms with a size.
LEMMA StateSizes ==
  ASSUME IInv, TypesInv, NEW k \in 0 .. step
  PROVE  /\ trace[k + 1] \in Seq(Terms) /\ Len(trace[k + 1]) \in Nat
         /\ Bytes(<<trace[k + 1]>>) \in Nat
<1>1. step \in Nat /\ Len(trace) = step + 1
  BY GatesAreFinite DEF IInv, TraceInv
<1>2. trace[k + 1] \in Seq(Terms)
  BY <1>1 DEF TypesInv
<1> DEFINE state == trace[k + 1]
<1>3. Len(state) \in Nat
  BY <1>2
<1>4. Bytes(<<state>>) \in Nat
  <2> HIDE DEF state
  <2> QED BY <1>3, BytesOfOne
<1> QED BY <1>2, <1>3, <1>4

\* Steps that leave the forward states and the checkpoints alone keep what they weigh.
LEMMA BudgetKept ==
  ASSUME IInv, BudgetInv, UNCHANGED <<call, step, trace, checkpoints, charged>>,
         phase' \in {"forward", "done"} /\ call.entry = "profile" => phase = "forward",
         phase' \in {"replay", "frames"} => \A i \in 1 .. Len(block') : Fits(block'[i], call.limit),
         phase' \in Reversing => \A k \in Back' .. step : Fits(trace[k + 1], call.limit),
         phase' = "done" => \A k \in 1 .. Len(trace) : Fits(trace[k], call.limit)
  PROVE  BudgetInv'
<1> QED BY DEF BudgetInv

\* A call that fails.
LEMMA BudgetFail ==
  ASSUME IInv, BudgetInv, NEW reason, Fail(reason)
  PROVE  BudgetInv'
<1>1. phase' = "failed" /\ UNCHANGED <<call, step, trace, checkpoints, charged>>
  BY DEF Fail, local, ghosts
<1> QED BY <1>1, BudgetKept DEF Reversing

\* The first state is checked before anything is done with it.
LEMMA BudgetBegin ==
  ASSUME IInv, TypesInv, BudgetInv, Begin
  PROVE  BudgetInv'
<1>1. CASE phase' # "forward"
  <2>1. \E reason : Fail(reason)
    BY <1>1 DEF Begin
  <2> QED BY <2>1, BudgetFail
<1>2. CASE phase' = "forward"
  <2> DEFINE first == [boundary |-> 0, terms |-> terms]
  <2>1. phase = "compiled" /\ UNCHANGED <<call, step, trace>>
    BY <1>2 DEF Begin, Fail, ghosts
  <2>2. /\ step = 0 /\ Len(trace) = 1 /\ trace[1] = terms /\ checkpoints = <<>>
    BY <2>1 DEF IInv, CompleteInv, TraceInv
  <2>3. Bytes(<<terms>>) \in Nat /\ call.limit \in Nat
    <3>1. 0 \in 0 .. step /\ 0 + 1 = 1
      BY <2>2
    <3> QED BY <2>2, <3>1, StateSizes, CallsAssumption DEF IInv, TraceInv
  <2>4. /\ Bytes(<<terms>>) <= call.limit
        /\ \/ call.entry = "profile" /\ UNCHANGED <<checkpoints, charged>>
           \/ /\ call.entry # "profile" /\ checkpoints' = <<first>>
              /\ charged' = Bytes(<<terms>>)
    BY <1>2, <2>3 DEF Begin, Fail
  <2>5. \A k \in 1 .. Len(trace') : Fits(trace'[k], call'.limit)
    BY <2>1, <2>2, <2>4 DEF Fits
  <2>6. CASE call.entry = "profile" /\ UNCHANGED <<checkpoints, charged>>
    BY <1>2, <2>1, <2>5, <2>6 DEF BudgetInv, Reversing
  <2>7. CASE /\ call.entry # "profile" /\ checkpoints' = <<first>>
             /\ charged' = Bytes(<<terms>>)
    <3>1. Len(checkpoints') = 1 /\ checkpoints'[1] = first
      BY <2>7, ShortSeq
    <3>2. \A i \in 1 .. Len(checkpoints') : checkpoints'[i].terms = terms
      BY <3>1
    <3>3. \A i \in 1 .. Len(checkpoints') : Bytes(<<checkpoints'[i].terms>>) <= charged'
      BY <2>3, <2>7, <3>2
    <3> QED BY <1>2, <2>1, <2>3, <2>4, <2>5, <2>7, <3>3 DEF BudgetInv, Reversing
  <2> QED BY <2>4, <2>6, <2>7
<1> QED BY <1>1, <1>2

\* The candidates of a gate were checked, and it leaves no more terms than candidates.
LEMMA BudgetProfileGate ==
  ASSUME IInv, CallInv, TypesInv, BudgetInv, ProfileGate
  PROVE  BudgetInv'
<1> DEFINE next == ApplyOperation(OpAt(step), terms, call.values, call.cutoff)
           branches == BranchFactor(OpAt(step))
<1>1. CASE step' # step + 1
  <2>1. \E reason : Fail(reason)
    BY <1>1 DEF ProfileGate, Apply
  <2> QED BY <2>1, BudgetFail
<1>2. CASE step' = step + 1
  <2>1. step \in Nat /\ step # step + 1 /\ IsSeq(trace) /\ Len(trace) = step + 1
        /\ call.limit \in Nat
    BY GatesAreFinite, CallsAssumption DEF IInv, TraceInv
  <2>2. /\ phase = "forward" /\ call.entry = "profile" /\ step < Gates
        /\ ~(TermBytes * Len(terms) * branches > call.limit)
        /\ trace' = Append(trace, next)
        /\ UNCHANGED <<call, phase, checkpoints, charged>>
    BY <1>2, <2>1 DEF ProfileGate, Fail, Apply
  <2>3. /\ next \in Seq(Terms) /\ terms \in Seq(Terms) /\ branches \in Nat
        /\ Len(next) <= Len(terms) * branches
    BY <2>2, GateTypes
  <2> HIDE DEF next, branches
  <2>4. Bytes(<<next>>) <= call.limit
    <3>1. Len(next) \in Nat /\ Len(terms) \in Nat /\ TermBytes \in Nat
      BY <2>3, TermBytesAssumption
    <3>2. Len(terms) * branches \in Nat
      BY <2>3, <3>1, Products
    <3>3. TermBytes * Len(next) <= TermBytes * (Len(terms) * branches)
      BY <2>3, <3>1, <3>2, ProductGrows
    <3>4. TermBytes * (Len(terms) * branches) = TermBytes * Len(terms) * branches
      BY <2>3, <3>1, Products
    <3>5. Bytes(<<next>>) = TermBytes * Len(next) /\ Bytes(<<next>>) \in Nat
      BY <3>1, BytesOfOne
    <3>6. TermBytes * (Len(terms) * branches) \in Int
      BY <3>1, <3>2
    <3>7. ~(TermBytes * (Len(terms) * branches) > call.limit)
      BY <2>2, <3>4
    <3> QED BY <2>1, <3>3, <3>5, <3>6, <3>7
  <2>5. \A k \in 1 .. Len(trace) + 1 : Fits(trace'[k], call.limit)
    <3> SUFFICES ASSUME NEW k \in 1 .. Len(trace) + 1 PROVE Fits(trace'[k], call.limit)
      OBVIOUS
    <3>1. /\ trace'[Len(trace) + 1] = next
          /\ \A i \in 1 .. Len(trace) : trace'[i] = trace[i]
      BY <2>1, <2>2, AppendToSeq
    <3>2. \A i \in 1 .. Len(trace) : Fits(trace[i], call.limit)
      BY <2>2 DEF BudgetInv
    <3>3. k \in 1 .. Len(trace) \/ k = Len(trace) + 1
      BY <2>1
    <3> QED BY <2>4, <3>1, <3>2, <3>3 DEF Fits
  <2>6. Len(trace') = Len(trace) + 1
    BY <2>1, <2>2, AppendToSeq
  <2> QED BY <2>2, <2>5, <2>6 DEF BudgetInv, Reversing
<1> QED BY <1>1, <1>2

\* What a gradient keeps of a gate is charged before it is kept.
LEMMA BudgetGradientGate ==
  ASSUME IInv, CallInv, TypesInv, BudgetInv, GradientGate
  PROVE  BudgetInv'
<1> DEFINE next == ApplyOperation(OpAt(step), terms, call.values, call.cutoff)
           c == [boundary |-> step + 1, terms |-> next]
<1>1. CASE step' # step + 1
  <2>1. \E reason : Fail(reason)
    BY <1>1 DEF GradientGate, Apply
  <2> QED BY <2>1, BudgetFail
<1>2. CASE step' = step + 1
  <2>1. step \in Nat /\ step # step + 1 /\ call.limit \in Nat /\ IsSeq(checkpoints)
        /\ Len(checkpoints) \in Nat
    BY GatesAreFinite, CallsAssumption DEF IInv, TraceInv, CheckpointInv, IsSeq
  <2>2. /\ phase = "forward" /\ call.entry = "gradient" /\ step < Gates
        /\ UNCHANGED <<call, phase>>
        /\ \/ UNCHANGED <<checkpoints, charged>>
           \/ /\ checkpoints' = Append(checkpoints, c)
              /\ charged' = charged + Bytes(<<next>>)
              /\ ~(charged + Bytes(<<next>>) > call.limit)
    BY <1>2, <2>1 DEF GradientGate, Fail, Apply
  <2>3. next \in Seq(Terms)
    BY <2>2, GateTypes
  <2>4. Bytes(<<next>>) \in Nat
    <3>1. Len(next) \in Nat
      BY <2>3
    <3> HIDE DEF next
    <3> QED BY <3>1, BytesOfOne
  <2>5. CASE UNCHANGED <<checkpoints, charged>>
    BY <2>2, <2>5 DEF BudgetInv, Reversing
  <2>6. CASE checkpoints' = Append(checkpoints, c)
    <3>0. c.terms = next
      OBVIOUS
    <3>1. /\ Len(checkpoints') = Len(checkpoints) + 1
          /\ \A i \in 1 .. Len(checkpoints) : checkpoints'[i] = checkpoints[i]
          /\ checkpoints'[Len(checkpoints) + 1] = c
      <4> HIDE DEF c
      <4> QED BY <2>1, <2>6, AppendToSeq
    <3>2. checkpoints' # checkpoints
      BY <2>1, <3>1
    <3> HIDE DEF c, next
    <3>3. charged \in Nat /\ charged' = charged + Bytes(<<next>>) /\ charged' <= call.limit
          /\ charged' \in Nat /\ charged <= charged' /\ Bytes(<<next>>) <= charged'
      BY <2>1, <2>2, <2>4, <3>2 DEF BudgetInv
    <3>4. ASSUME NEW i \in 1 .. Len(checkpoints')
          PROVE  Bytes(<<checkpoints'[i].terms>>) <= charged'
      <4>1. i \in 1 .. Len(checkpoints) \/ i = Len(checkpoints) + 1
        BY <2>1, <3>1
      <4>2. CASE i \in 1 .. Len(checkpoints)
        <5>1. Bytes(<<checkpoints[i].terms>>) <= charged /\ checkpoints'[i] = checkpoints[i]
          BY <3>1, <4>2 DEF BudgetInv
        <5>2. /\ checkpoints[i].boundary \in 0 .. step
              /\ checkpoints[i].terms = trace[checkpoints[i].boundary + 1]
          BY <4>2 DEF IInv, CheckpointInv
        <5>3. Bytes(<<checkpoints[i].terms>>) \in Nat
          BY <5>2, StateSizes
        <5> QED BY <3>3, <5>1, <5>3
      <4>3. CASE i = Len(checkpoints) + 1
        <5>1. checkpoints'[i].terms = next
          BY <3>0, <3>1, <4>3
        <5> QED BY <3>3, <5>1
      <4> QED BY <4>1, <4>2, <4>3
    <3> QED BY <2>2, <3>3, <3>4 DEF BudgetInv, Reversing
  <2> QED BY <2>2, <2>5, <2>6
<1> QED BY <1>1, <1>2

\* A checkpoint fits.
LEMMA CheckpointFits ==
  ASSUME IInv, TypesInv, BudgetInv, NEW i \in 1 .. Len(checkpoints)
  PROVE  /\ Fits(checkpoints[i].terms, call.limit)
         /\ Fits(trace[checkpoints[i].boundary + 1], call.limit)
         /\ checkpoints[i].boundary \in 0 .. step
<1>1. /\ checkpoints[i].boundary \in 0 .. step
      /\ checkpoints[i].terms = trace[checkpoints[i].boundary + 1]
      /\ Len(checkpoints) \in Nat
  BY DEF IInv, CheckpointInv, IsSeq
<1>2. Bytes(<<checkpoints[i].terms>>) \in Nat
  BY <1>1, StateSizes
<1>3. Bytes(<<checkpoints[i].terms>>) <= charged /\ charged <= call.limit /\ charged \in Nat
  BY <1>1 DEF BudgetInv
<1>4. call.limit \in Nat
  BY CallsAssumption DEF IInv, TraceInv
<1> QED BY <1>1, <1>2, <1>3, <1>4 DEF Fits

\* The reverse pass starts from the last checkpoint; without a gate there is no more.
LEMMA BudgetStartReverse ==
  ASSUME IInv, TypesInv, BudgetInv, StartReverse
  PROVE  BudgetInv'
<1>1. CASE phase' = "failed"
  <2>1. \E reason : Fail(reason)
    BY <1>1 DEF StartReverse
  <2> QED BY <2>1, BudgetFail
<1>2. CASE phase' # "failed"
  <2>1. /\ phase = "forward" /\ call.entry = "gradient" /\ step = Gates
        /\ phase' = IF Len(checkpoints) = 1 THEN "done" ELSE "reverse"
        /\ UNCHANGED <<call, step, terms, checkpoints, charged, trace>>
    BY <1>2 DEF StartReverse, Fail, ghosts
  <2>2. /\ Len(checkpoints) \in Nat /\ Len(checkpoints) >= 1
        /\ checkpoints[Len(checkpoints)].boundary = Gates
        /\ step \in Nat /\ Len(trace) = step + 1
    BY <2>1, GatesAreFinite DEF IInv, CompleteInv, CheckpointInv, TraceInv, IsSeq
  <2>3. Fits(trace[step + 1], call.limit)
    BY <2>1, <2>2, CheckpointFits
  <2>4. phase' \in Reversing => \A k \in Back' .. step : Fits(trace[k + 1], call.limit)
    <3> SUFFICES ASSUME phase' \in Reversing, NEW k \in Back' .. step
                 PROVE  Fits(trace[k + 1], call.limit)
      OBVIOUS
    <3>1. Back' = step
      BY BackStarts
    <3>2. k = step
      BY <2>2, <3>1
    <3> QED BY <2>3, <3>2
  <2>5. phase' = "done" => \A k \in 1 .. Len(trace) : Fits(trace[k], call.limit)
    <3> SUFFICES ASSUME phase' = "done" PROVE step = 0
      BY <2>2, <2>3
    <3>1. Len(checkpoints) = 1
      BY <2>1
    <3>2. checkpoints[1].boundary = 0
      BY <3>1 DEF TypesInv
    <3> QED BY <2>1, <2>2, <3>1, <3>2
  <2>6. phase' \notin {"replay", "frames"} /\ call.entry # "profile"
    BY <2>1
  <2> QED BY <2>1, <2>4, <2>5, <2>6, BudgetKept
<1> QED BY <1>1, <1>2

\* A block is made of checkpoints and of replayed states, which are checked.
LEMMA BudgetBlock ==
  ASSUME IInv, IInv', CallInv, TypesInv, BudgetInv, OpenBlock \/ ReplayGate
  PROVE  BudgetInv'
<1>1. CASE phase' = "failed"
  <2>1. \E reason : Fail(reason)
    BY <1>1 DEF OpenBlock, ReplayGate
  <2> QED BY <2>1, BudgetFail
<1>2. CASE phase' # "failed"
  <2>1. phase' \in {"replay", "frames"} /\ phase' \in Reversing
    BY <1>2 DEF OpenBlock, ReplayGate, Fail, Reversing
  <2>2. /\ Back' = Back /\ phase \in Reversing
        /\ UNCHANGED <<call, step, checkpoints, charged, trace>>
    BY <2>1, BackStays
  <2>3. \A k \in Back' .. step : Fits(trace[k + 1], call.limit)
    BY <2>2 DEF BudgetInv
  <2>4. \A i \in 1 .. Len(block') : Fits(block'[i], call.limit)
    <3>1. CASE OpenBlock
      <4>1. at \in 1 .. Len(checkpoints) /\ at + 1 \in 1 .. Len(checkpoints)
        BY <2>2, Boundaries DEF Reversing
      <4> DEFINE a == checkpoints[at].terms
                 b == checkpoints[at + 1].terms
      <4>2. Fits(a, call.limit) /\ Fits(b, call.limit)
        BY <4>1, CheckpointFits
      <4>3. block' = <<a>> \/ block' = <<a, b>>
        BY <3>1 DEF OpenBlock
      <4> HIDE DEF a, b
      <4> QED BY <4>2, <4>3, ShortSeq
    <3>2. CASE ReplayGate
      <4> DEFINE replayed == Append(block, ApplyOperation(ReplayOp, Last(block), call.values,
                                                          call.cutoff))
      <4>1. block' = replayed /\ ~(Bytes(replayed) > call.limit)
        BY <1>2, <3>2 DEF ReplayGate, Fail
      <4> HIDE DEF replayed
      <4>2. /\ IsSeq(block') /\ Len(block') \in Nat
            /\ \A i \in 1 .. Len(block') : block'[i] = trace'[BlockStart' + i]
            /\ BlockStart' + Len(block') - 1 <= BlockEnd'
        <5>1. /\ IsSeq(block') /\ Len(block') \in Nat
              /\ \A i \in 1 .. Len(block') : block'[i] = trace'[BlockStart' + i]
              /\ phase' = "replay" => BlockStart' + Len(block') - 1 < BlockEnd'
              /\ phase' = "frames" => BlockStart' + Len(block') - 1 <= BlockEnd'
          BY <2>1 DEF IInv, BlockInv, IsSeq
        <5>2. BlockStart' \in Nat /\ BlockEnd' \in Nat
          <6>1. BlockStart \in Nat /\ BlockEnd \in Nat
            BY <2>2, Boundaries DEF Reversing
          <6>2. BlockStart' = BlockStart /\ BlockEnd' = BlockEnd
            BY <3>2, <1>2 DEF ReplayGate, Fail, BlockStart, BlockEnd
          <6> QED BY <6>1, <6>2
        <5> QED BY <2>1, <5>1, <5>2
      <4>3. /\ BlockStart \in Nat /\ BlockEnd \in 0 .. step /\ step \in Nat
            /\ BlockStart' = BlockStart /\ BlockEnd' = BlockEnd
        <5>1. BlockStart \in Nat /\ BlockEnd \in 0 .. step /\ step \in Nat
          BY <2>2, Boundaries DEF Reversing
        <5>2. BlockStart' = BlockStart /\ BlockEnd' = BlockEnd
          BY <3>2, <1>2 DEF ReplayGate, Fail, BlockStart, BlockEnd
        <5> QED BY <5>1, <5>2
      <4>4. ASSUME NEW i \in 1 .. Len(block')
            PROVE  Len(block'[i]) \in Nat /\ Bytes(<<block'[i]>>) \in Nat
        <5>1. block'[i] = trace[BlockStart + i]
          BY <2>2, <4>2, <4>3
        <5>2. BlockStart + i - 1 \in 0 .. step /\ (BlockStart + i - 1) + 1 = BlockStart + i
          BY <4>2, <4>3
        <5>3. Len(trace[(BlockStart + i - 1) + 1]) \in Nat
              /\ Bytes(<<trace[(BlockStart + i - 1) + 1]>>) \in Nat
          BY <5>2, StateSizes
        <5> QED BY <5>1, <5>2, <5>3
      <4>5. Bytes(block') \in Nat /\ \A i \in 1 .. Len(block') : Bytes(<<block'[i]>>) <= Bytes(block')
        BY <4>2, <4>4, BytesOfEach
      <4>6. Bytes(block') <= call.limit /\ call.limit \in Nat
        <5>1. call.limit \in Nat
          BY CallsAssumption DEF IInv, TraceInv
        <5> QED BY <4>1, <4>5, <5>1
      <4>7. ASSUME NEW i \in 1 .. Len(block') PROVE Fits(block'[i], call.limit)
        <5> DEFINE size == Bytes(<<block'[i]>>)
        <5>1. size \in Nat /\ size <= Bytes(block')
          BY <4>4, <4>5
        <5>2. size <= call.limit
          <6> HIDE DEF size
          <6> QED BY <4>5, <4>6, <5>1
        <5> QED BY <5>2 DEF Fits
      <4> QED BY <4>7
    <3> QED BY <3>1, <3>2
  <2> QED BY <2>1, <2>2, <2>3, <2>4, BudgetKept
<1> QED BY <1>1, <1>2

\* A frame comes back to the state before the last of its block.
LEMMA BudgetReverseFrame ==
  ASSUME IInv, IInv', CallInv, TypesInv, BudgetInv, ReverseFrame
  PROVE  BudgetInv'
<1> DEFINE n == Len(block)
<1>1. /\ step = Gates /\ Gates \in Nat /\ Back \in 1 .. step
      /\ Len(block) \in Nat /\ Len(block) >= 2 /\ block[Len(block) - 1] = trace[Back]
  BY BackIs DEF ReverseFrame, Reversing
<1>2. /\ phase = "frames" /\ UNCHANGED <<call, step, trace, checkpoints, charged>>
      /\ phase' \in {"frames", "reverse", "done"}
      /\ phase' = "frames" => block' = SubSeq(block, 1, n - 1)
  BY DEF ReverseFrame, NextBlock, ghosts
<1>3. /\ \A i \in 1 .. Len(block) : Fits(block[i], call.limit)
      /\ \A k \in Back .. step : Fits(trace[k + 1], call.limit)
      /\ call.entry = "gradient"
  BY <1>2 DEF BudgetInv, Reversing, CallInv
<1>4. Fits(trace[Back], call.limit)
  <2>1. n - 1 \in 1 .. n
    BY <1>1
  <2> QED BY <1>1, <1>3, <2>1
<1>5. \A k \in Back - 1 .. step : Fits(trace[k + 1], call.limit)
  <2> SUFFICES ASSUME NEW k \in Back - 1 .. step PROVE Fits(trace[k + 1], call.limit)
    OBVIOUS
  <2>1. k = Back - 1 \/ k \in Back .. step
    BY <1>1
  <2>2. (Back - 1) + 1 = Back
    BY <1>1
  <2> QED BY <1>3, <1>4, <2>1, <2>2
<1>6. phase' \in Reversing => \A k \in Back' .. step : Fits(trace[k + 1], call.limit)
  <2> SUFFICES ASSUME phase' \in Reversing PROVE Back' = Back - 1
    BY <1>5
  <2> QED BY BackMoves
<1>7. phase' = "done" => \A k \in 1 .. Len(trace) : Fits(trace[k], call.limit)
  <2> SUFFICES ASSUME phase' = "done", NEW k \in 1 .. Len(trace)
               PROVE  Fits(trace[k], call.limit)
    OBVIOUS
  <2>1. Back = 1
    BY BackMoves DEF Reversing
  <2>2. Len(trace) = step + 1
    BY DEF IInv, TraceInv
  <2>3. k - 1 \in Back - 1 .. step /\ (k - 1) + 1 = k
    BY <1>1, <2>1, <2>2
  <2> QED BY <1>5, <2>3
<1>8. phase' \in {"replay", "frames"} => \A i \in 1 .. Len(block') : Fits(block'[i], call.limit)
  <2> SUFFICES ASSUME phase' = "frames", NEW i \in 1 .. Len(block')
               PROVE  Fits(block'[i], call.limit)
    BY <1>2
  <2>1. IsSeq(block) /\ n - 1 \in 0 .. n /\ block' = SubSeq(block, 1, n - 1)
    BY <1>1, <1>2 DEF IInv, BlockInv
  <2>2. Len(block') = n - 1 /\ \A j \in 1 .. n - 1 : block'[j] = block[j]
    BY <2>1, PrefixOfSeq
  <2>3. i \in 1 .. n /\ block'[i] = block[i]
    BY <1>1, <2>2
  <2> QED BY <1>3, <2>3
<1> QED BY <1>2, <1>3, <1>6, <1>7, <1>8, BudgetKept DEF Reversing

\* Every step keeps the bounds.
LEMMA BudgetStep ==
  ASSUME IInv, IInv', CallInv, TypesInv, BudgetInv, [Next]_vars
  PROVE  BudgetInv'
<1>1. CASE Compile
  <2>1. CASE phase' = "compiled"
    BY <1>1, <2>1, BudgetKept DEF Compile, Fail, local, ghosts, Reversing
  <2>2. CASE phase' # "compiled"
    <3>1. \E reason : Fail(reason)
      BY <1>1, <2>2 DEF Compile
    <3> QED BY <3>1, BudgetFail
  <2> QED BY <2>1, <2>2
<1>2. CASE ProfileAnswer
  <2>1. /\ UNCHANGED <<call, step, trace, checkpoints, charged>>
        /\ phase = "forward" /\ phase' = "done" /\ call.entry = "profile"
    BY <1>2 DEF ProfileAnswer, ghosts
  <2>2. \A k \in 1 .. Len(trace) : Fits(trace[k], call.limit)
    BY <2>1 DEF BudgetInv
  <2> QED BY <2>1, <2>2, BudgetKept DEF Reversing
<1>3. CASE UNCHANGED vars
  <2>1. Back' = Back
    BY <1>3 DEF vars, Back, BlockStart, BlockEnd
  <2> QED BY <1>3, <2>1 DEF vars, BudgetInv
<1> QED
  BY <1>1, <1>2, <1>3, BudgetBegin, BudgetProfileGate, BudgetGradientGate, BudgetStartReverse,
     BudgetBlock, BudgetReverseFrame
  DEF Next, Returned

\* A call that returns has held only states that fit.
LEMMA BudgetGivesHeld == IInv /\ BudgetInv => BudgetHeld
  BY DEF IInv, TraceInv, IsSeq, BudgetInv, BudgetHeld, Fits

---------------------------------------------------------------------------
(* The theorems                                                            *)

FullInv == IInv /\ CallInv /\ TypesInv /\ BudgetInv /\ TangentInv /\ AdjointInv

\* Together they are inductive.
THEOREM Inductive == Spec => []FullInv
<1>1. Init => FullInv
  BY Initially, TypesInit, BudgetInit, TangentInit, AdjointInit DEF FullInv
<1>2. FullInv /\ [Next]_vars => FullInv'
  <2> SUFFICES ASSUME FullInv, [Next]_vars PROVE FullInv'
    OBVIOUS
  <2>1. IInv /\ CallInv /\ TypesInv /\ BudgetInv /\ TangentInv /\ AdjointInv
    BY DEF FullInv
  <2>2. IInv'
    BY <2>1, CompileStep, BeginStep, ProfileGateStep, GradientGateStep, ProfileAnswerStep,
       StartReverseStep, OpenBlockStep, ReplayGateStep, ReverseFrameStep, Stuttering
    DEF Next, Returned
  <2>3. CallInv'
    BY <2>1, CallStep
  <2>4. TypesInv'
    BY <2>1, <2>2, TypesStep
  <2>5. BudgetInv'
    BY <2>1, <2>2, BudgetStep
  <2>6. TangentInv'
    BY <2>1, <2>2, TangentStep
  <2>7. AdjointInv'
    BY <2>1, <2>2, <2>4, <2>6, AdjointStep
  <2> QED BY <2>2, <2>3, <2>4, <2>5, <2>6, <2>7 DEF FullInv
<1> QED BY <1>1, <1>2, PTL DEF Spec

\* What a call keeps has the types of the code's variables.
LEMMA InvariantGivesTypes == IInv /\ TypesInv /\ BudgetInv => TypeOK
<1> SUFFICES ASSUME IInv, TypesInv, BudgetInv PROVE TypeOK
  OBVIOUS
<1>1. /\ call \in Calls /\ step \in 0 .. Gates /\ Gates \in Nat /\ phase \in Phases
      /\ IsSeq(trace) /\ Len(trace) = step + 1 /\ trace[step + 1] = terms
  BY GatesAreFinite DEF IInv, TraceInv, CompleteInv
<1>2. terms \in Seq(Terms) /\ terms = Last(trace)
  BY <1>1 DEF TypesInv, Last
<1>3. \A i \in DOMAIN checkpoints : checkpoints[i].boundary \in 0 .. Gates
  BY <1>1 DEF IInv, CheckpointInv, IsSeq
<1>4. {value, charged, peak.terms, peak.bytes} \subseteq Int
  BY DEF TypesInv, BudgetInv
<1>5. phase = "reverse" => Len(lambda) = Len(checkpoints[at + 1].terms)
  <2> SUFFICES ASSUME phase = "reverse" PROVE Len(lambda) = Len(checkpoints[at + 1].terms)
    OBVIOUS
  <2>1. checkpoints[at + 1].terms = trace[BlockEnd + 1] /\ Back = BlockEnd
    BY Boundaries DEF Back
  <2> QED BY <2>1 DEF TypesInv, Reversing
<1>6. phase = "frames" => Len(lambda) = Len(Last(block))
  <2> SUFFICES ASSUME phase = "frames" PROVE Len(lambda) = Len(Last(block))
    OBVIOUS
  <2>1. block[Len(block)] = trace[Back + 1]
    BY BackIs DEF Reversing
  <2> QED BY <2>1 DEF TypesInv, Reversing, Last
<1> QED BY <1>1, <1>2, <1>3, <1>4, <1>5, <1>6 DEF TypesInv, TypeOK

\* The variables of a call are well typed, and the adjoints are as many as the terms of
\* the state the reverse pass has come back to.
THEOREM Types == Spec => []TypeOK
<1>1. FullInv => TypeOK
  BY InvariantGivesTypes DEF FullInv
<1> QED BY <1>1, Inductive, PTL

\* Whatever the tape, the observable, the cutoff and the checkpoint interval, reverse
\* accumulation gives the derivative carried forwards along the words kept.
THEOREM Gradient == Spec => []GradientIsTangent
<1>1. FullInv => GradientIsTangent
  BY AdjointGivesGradient DEF FullInv
<1> QED BY <1>1, Inductive, PTL

\* A call that returns has held no state over its limit.
THEOREM Budget == Spec => []BudgetHeld
<1>1. FullInv => BudgetHeld
  BY BudgetGivesHeld DEF FullInv
<1> QED BY <1>1, Inductive, PTL

\* Only a gate moves on.
LEMMA GateDone ==
  ASSUME FullInv, [Next]_vars, step' # step
  PROVE  /\ phase = "forward" /\ step < Gates
         /\ UNCHANGED <<call, phase>> /\ step' = step + 1
         /\ terms' = ApplyOperation(OpAt(step), terms, call.values, call.cutoff)
<1>1. ProfileGate \/ GradientGate
  BY DEF Next, Returned, vars, Compile, Begin, ProfileAnswer, StartReverse, OpenBlock,
         ReplayGate, ReverseFrame, Fail
<1>2. ~ \E reason : Fail(reason)
  BY DEF Fail
<1> QED BY <1>1, <1>2 DEF ProfileGate, GradientGate, Apply

\* From a state in key order no gate of any kind leaves a word twice.
THEOREM StaysDistinct == Spec => OrderedStaysDistinct
<1> DEFINE Leaves == (step' = step + 1 /\ \A i, j \in DOMAIN terms : i < j =>
                        KeyLess(terms[i].key, terms[j].key)) => Distinct(terms')
<1>1. ASSUME FullInv, [Next]_vars PROVE [Leaves]_vars
  <2> SUFFICES ASSUME step' = step + 1,
                      \A i, j \in DOMAIN terms : i < j => KeyLess(terms[i].key, terms[j].key)
               PROVE  Distinct(terms')
    OBVIOUS
  <2>1. step \in Nat
    BY <1>1, GatesAreFinite DEF FullInv, IInv, TraceInv
  <2>2. /\ phase = "forward" /\ step < Gates
        /\ terms' = ApplyOperation(OpAt(step), terms, call.values, call.cutoff)
    BY <1>1, <2>1, GateDone
  <2>3. Supplied(OpAt(step), call.values) /\ terms \in Seq(Terms) /\ call.cutoff \in Int
    BY <1>1, <2>2, GateTypes, CallParts DEF FullInv, IInv, TraceInv
  <2>4. Ordered(terms)
    BY <2>3 DEF Ordered
  <2>5. terms' \in Seq(Terms) /\ NoKeyTwice(terms')
    BY <2>2, <2>3, <2>4, Kernel
  <2> QED BY <2>5, KeysCounted
<1>2. FullInv /\ [Next]_vars => [Leaves]_vars
  BY <1>1
<1> QED BY <1>2, Inductive, PTL DEF Spec, OrderedStaysDistinct

---------------------------------------------------------------------------
(* The recurrence                                                          *)

\* The image the recurrence has of a state.
ImageOf(state) == [w \in Words |-> Collect(state, w)]

\* Its sums are those of the model.
LEMMA SameSum == \A f : Recurrence!SumFunction(f) = SumFunctionOnSet(f, DOMAIN f)
  BY DEF Recurrence!SumFunction, Recurrence!SumFunctionOnSet, Recurrence!FoldFunctionOnSet,
         Recurrence!MapThenFoldSet, SumFunctionOnSet, FoldFunctionOnSet, MapThenFoldSet

\* The gate's matrix, applied to the words the image is not zero at.
LEMMA HeisenbergIs ==
  ASSUME NEW op, NEW values, Supplied(op, values), NEW state \in Seq(Terms), NEW w \in Words
  PROVE  Recurrence!Heisenberg(op, ImageOf(state), values)[w] = Image(state, EntryTo(op, values, w))
<1> DEFINE support == {v \in Words : ImageOf(state)[v] # 0}
           f == [v \in Words |-> Collect(state, v) * EntryTo(op, values, w)[v]]
           g == [v \in support |-> ImageOf(state)[v] * Entry(op, values, v, w)]
<1>1. support \in SUBSET Words /\ IsFiniteSet(Words) /\ IsFiniteSet(support)
  <2>1. support \in SUBSET Words /\ IsFiniteSet(Words)
    BY WordsFinite
  <2> QED BY <2>1, FS_Subset
<1>2. ASSUME NEW v \in Words
      PROVE  /\ f[v] \in Int
             /\ v \in support => g[v] = f[v]
             /\ v \notin support => f[v] = 0
  <2>1. Entry(op, values, v, w) \in Int /\ EntryTo(op, values, w)[v] = Entry(op, values, v, w)
    BY EdgesType, EntryIs DEF EntryTo
  <2>2. ImageOf(state)[v] = Collect(state, v) /\ Collect(state, v) \in Int
    BY CollectIs DEF ImageOf
  <2> QED BY <2>1, <2>2
<1>3. Recurrence!Heisenberg(op, ImageOf(state), values)[w] = SumFunctionOnSet(g, support)
  <2>1. Recurrence!Heisenberg(op, ImageOf(state), values)[w] = Recurrence!SumFunction(g)
    BY DEF Recurrence!Heisenberg
  <2>2. DOMAIN g = support
    OBVIOUS
  <2> HIDE DEF g, support
  <2> QED BY <2>1, <2>2, SameSum
<1>4. Image(state, EntryTo(op, values, w)) = SumFunctionOnSet(f, Words)
  BY DEF Image
<1> HIDE DEF f, g, support
<1>5. IntOn(f, Words) /\ IntOn(f, support) /\ \A v \in Words \ support : f[v] = 0
  BY <1>1, <1>2 DEF IntOn
<1>6. Agree(f, g, support)
  BY <1>1, <1>2 DEF Agree
<1>7. SumFunctionOnSet(f, Words) = SumFunctionOnSet(f, support)
  BY <1>1, <1>5, SumRestrict
<1>8. SumFunctionOnSet(f, support) = SumFunctionOnSet(g, support)
  BY <1>1, <1>5, <1>6, SumEqual
<1> QED BY <1>3, <1>4, <1>7, <1>8

\* A kernel is a step of the recurrence.
LEMMA GateImage ==
  ASSUME NEW op, NEW values, Supplied(op, values), NEW state \in Seq(Terms), NEW cutoff \in Int
  PROVE  ImageOf(ApplyOperation(op, state, values, cutoff))
           = Recurrence!Project(Recurrence!Heisenberg(op, ImageOf(state), values), cutoff)
<1> DEFINE next == ApplyOperation(op, state, values, cutoff)
           moved == Recurrence!Heisenberg(op, ImageOf(state), values)
<1>1. ASSUME NEW w \in Words
      PROVE  Collect(next, w) = IF Weight(w) <= cutoff THEN moved[w] ELSE 0
  <2>1. Collect(next, w) = Cut(w, cutoff, Image(state, EntryTo(op, values, w)))
    BY Kernel
  <2>2. moved[w] = Image(state, EntryTo(op, values, w))
    BY HeisenbergIs
  <2> QED BY <2>1, <2>2 DEF Cut
<1> HIDE DEF next, moved
<1>2. ImageOf(next) = Recurrence!Project(moved, cutoff)
  BY <1>1 DEF ImageOf, Recurrence!Project
<1> QED BY <1>2 DEF next, moved

\* The observable, projected.
LEMMA StartImage ==
  ASSUME NEW observable \in Seq(Terms), NEW cutoff \in Int
  PROVE  ImageOf(InitialTerms(observable, cutoff))
           = Recurrence!Project([w \in Words |-> Collect(observable, w)], cutoff)
<1> DEFINE first == InitialTerms(observable, cutoff)
<1>1. ASSUME NEW w \in Words
      PROVE  Collect(first, w) = IF Weight(w) <= cutoff THEN Collect(observable, w) ELSE 0
  BY InitialIs DEF Cut
<1> HIDE DEF first
<1>2. ImageOf(first) = Recurrence!Project([w \in Words |-> Collect(observable, w)], cutoff)
  BY <1>1 DEF ImageOf, Recurrence!Project
<1> QED BY <1>2 DEF first

\* An expectation is the image's.
LEMMA AnswerIs ==
  ASSUME call \in Calls, NEW state \in Seq(Terms)
  PROVE  Expectation(state, call.state)
           = Recurrence!SumFunction([w \in Words |-> ImageOf(state)[w] * WordExpectation(w, call.state)])
<1> DEFINE g == [w \in Words |-> ImageOf(state)[w] * WordExpectation(w, call.state)]
           f == [w \in Words |-> Collect(state, w) * Expected[w]]
<1>1. g = f /\ DOMAIN g = Words
  BY DEF ImageOf, Expected
<1>2. Expectation(state, call.state) = SumFunctionOnSet(f, Words)
  BY ExpectationIs DEF Image
<1> HIDE DEF g, f
<1>3. Recurrence!SumFunction(g) = SumFunctionOnSet(f, Words)
  BY <1>1, SameSum
<1> QED BY <1>2, <1>3 DEF g

\* Initial states are those of the recurrence.
LEMMA RecurrenceInit == Init => Recurrence!Init
<1> SUFFICES ASSUME Init PROVE Recurrence!Init
  OBVIOUS
<1>1. call \in Calls /\ phase = "called" /\ step = 0 /\ terms = InitialTerms(call.observable, call.cutoff)
  BY DEF Init
<1>2. call.observable \in Seq(Terms) /\ call.cutoff \in Int
  BY <1>1, CallParts
<1>3. ImageOf(terms) = Recurrence!Project([w \in Words |-> Collect(call.observable, w)], call.cutoff)
  BY <1>1, <1>2, StartImage
<1> QED BY <1>1, <1>3 DEF Recurrence!Init, ImageOf

\* Every step is one of the recurrence's, or none.
LEMMA RecurrenceStep == FullInv /\ [Next]_vars => [Recurrence!Next]_(Recurrence!vars)
<1> SUFFICES ASSUME FullInv, [Next]_vars PROVE [Recurrence!Next]_(Recurrence!vars)
  OBVIOUS
<1>0. /\ call \in Calls /\ step \in 0 .. Gates /\ Gates \in Nat /\ call.cutoff \in Int
      /\ phase \in Phases
  BY CallParts DEF FullInv, IInv, TraceInv, CompleteInv
<1>1. ASSUME NEW reason, Fail(reason), phase \notin {"done", "failed"}
      PROVE  Recurrence!Fail
  BY <1>1 DEF Fail, local, ghosts, Recurrence!Fail
<1>2. ASSUME UNCHANGED <<call, step, terms, value>>, phase \notin {"done", "failed"},
             phase' \notin {"done", "failed"}
      PROVE  UNCHANGED Recurrence!vars
  BY <1>2 DEF Recurrence!vars
<1>3. CASE Compile
  BY <1>1, <1>2, <1>3 DEF Compile, Fail, local, ghosts, Recurrence!Next
<1>4. CASE Begin
  BY <1>1, <1>2, <1>4 DEF Begin, Fail, ghosts, Recurrence!Next
<1>5. CASE step' # step
  <2>1. /\ phase = "forward" /\ step < Gates
        /\ UNCHANGED <<call, phase>> /\ step' = step + 1
        /\ terms' = ApplyOperation(OpAt(step), terms, call.values, call.cutoff)
    BY <1>5, GateDone
  <2>2. Supplied(OpAt(step), call.values) /\ terms \in Seq(Terms)
    BY <2>1, GateTypes DEF FullInv
  <2>3. ImageOf(terms')
          = Recurrence!Project(Recurrence!Heisenberg(OpAt(step), ImageOf(terms), call.values), call.cutoff)
    BY <1>0, <2>1, <2>2, GateImage
  <2> QED BY <1>0, <2>1, <2>3 DEF Recurrence!Gate, Recurrence!Next, ImageOf, OpAt, Gates
<1>6. CASE (ProfileGate \/ GradientGate) /\ step' = step
  <2>1. phase = "forward" /\ \E reason : Fail(reason)
    BY <1>0, <1>6 DEF ProfileGate, GradientGate, Apply
  <2> QED BY <1>1, <2>1 DEF Recurrence!Next
<1>7. ASSUME phase = "forward", step = Gates, value' = Expectation(terms, call.state),
             UNCHANGED <<call, step, terms>>, phase' = "done"
      PROVE  Recurrence!Answer
  <2>1. terms \in Seq(Terms)
    BY <1>0 DEF FullInv, IInv, TraceInv, TypesInv
  <2>2. value' = Recurrence!SumFunction([w \in Words |-> ImageOf(terms)[w] * WordExpectation(w, call.state)])
    BY <1>0, <1>7, <2>1, AnswerIs
  <2> QED BY <1>7, <2>2 DEF Recurrence!Answer, ImageOf, Gates
<1>8. CASE ProfileAnswer
  BY <1>7, <1>8 DEF ProfileAnswer, ghosts, Recurrence!Next
<1>9. CASE StartReverse
  <2>1. CASE phase' = "failed"
    <3>1. phase = "forward" /\ \E reason : Fail(reason)
      BY <1>9, <2>1 DEF StartReverse
    <3> QED BY <1>1, <3>1 DEF Recurrence!Next
  <2>2. CASE phase' # "failed"
    <3>1. /\ phase = "forward" /\ step = Gates /\ value' = Expectation(terms, call.state)
          /\ UNCHANGED <<call, step, terms>> /\ phase' \in {"done", "reverse"}
      BY <1>9, <2>2 DEF StartReverse, Fail, ghosts
    <3>2. CASE phase' = "done"
      BY <1>7, <3>1, <3>2 DEF Recurrence!Next
    <3>3. CASE phase' = "reverse"
      BY <3>1, <3>3 DEF Recurrence!vars
    <3> QED BY <3>1, <3>2, <3>3
  <2> QED BY <2>1, <2>2
<1>10. CASE OpenBlock \/ ReplayGate
  <2>1. CASE phase' = "failed"
    <3>1. phase = "replay" /\ \E reason : Fail(reason)
      BY <1>10, <2>1 DEF OpenBlock, ReplayGate
    <3> QED BY <1>1, <3>1 DEF Recurrence!Next
  <2>2. CASE phase' # "failed"
    BY <1>2, <1>10, <2>2 DEF OpenBlock, ReplayGate, Fail, ghosts
  <2> QED BY <2>1, <2>2
<1>11. CASE ReverseFrame
  <2>1. /\ phase = "frames" /\ phase' \in {"frames", "reverse", "done"}
        /\ UNCHANGED <<call, step, terms, value>>
    BY <1>11 DEF ReverseFrame, NextBlock, ghosts
  <2>2. value = Expectation(terms, call.state) /\ step = Gates
    BY <2>1 DEF FullInv, CallInv, IInv, CompleteInv, Reversing
  <2>3. CASE phase' = "done"
    <3>1. terms \in Seq(Terms)
      BY <1>0 DEF FullInv, IInv, TraceInv, TypesInv
    <3>2. value' = Recurrence!SumFunction(
                     [w \in Words |-> ImageOf(terms)[w] * WordExpectation(w, call.state)])
      BY <1>0, <2>1, <2>2, <3>1, AnswerIs
    <3>3. Recurrence!Answer
      BY <2>1, <2>2, <2>3, <3>2 DEF Recurrence!Answer, ImageOf, Gates
    <3> QED BY <3>3 DEF Recurrence!Next
  <2>4. CASE phase' # "done"
    BY <1>2, <2>1, <2>4
  <2> QED BY <2>3, <2>4
<1>12. CASE UNCHANGED vars
  BY <1>12 DEF vars, Recurrence!vars
<1> QED
  BY <1>3, <1>4, <1>5, <1>6, <1>8, <1>9, <1>10, <1>11, <1>12 DEF Next, Returned

\* Every call answers the expectation of the projected Heisenberg image, or fails and
\* answers nothing: kernels, orders, checkpoints and limits do not show.
THEOREM Implements == Spec => ImplementsRecurrence
<1>1. Init => Recurrence!Init
  BY RecurrenceInit
<1>2. FullInv /\ [Next]_vars => [Recurrence!Next]_(Recurrence!vars)
  BY RecurrenceStep
<1> QED BY <1>1, <1>2, Inductive, PTL DEF Spec, ImplementsRecurrence, Recurrence!Spec
=============================================================================
