----------------------------- MODULE FoldLemmas -----------------------------
(***************************************************************************)
(* Lemmas about the sums and selections the models compute with.  Both     *)
(* are recursive functions; what they compute is shown by induction over   *)
(* a SET of numbers or of finite sets for which it holds.  Then how many   *)
(* parts of a set there are.                                               *)
(***************************************************************************)
EXTENDS Accumulate, SequenceTheorems, FiniteSetTheorems, WellFoundedInduction, TLAPS

(* Induction                                                               *)

\* Every nonempty set of naturals has a least element.
LEMMA Least ==
  ASSUME NEW T, T \subseteq Nat, T # {}
  PROVE  \E m \in T : \A k \in T : m <= k
<1> DEFINE I(m) == 0 .. m
           J == {I(m) : m \in T}
<1>1. IsWellFoundedOn(StrictSubsetOrdering(Nat), FiniteSubsetsOf(Nat))
  BY FS_StrictSubsetOrderingWellFounded
<1>2. \A m \in Nat : I(m) \in FiniteSubsetsOf(Nat)
  BY FS_Interval DEF FiniteSubsetsOf
<1>3. J \subseteq FiniteSubsetsOf(Nat) /\ J # {}
  BY <1>2
<1>4. \E x \in J : \A y \in J : ~ (<<y, x>> \in StrictSubsetOrdering(Nat))
  <2> HIDE DEF J
  <2> QED
    BY <1>1, <1>3, WFMin
<1>5. PICK m \in T : \A k \in T : <<I(k), I(m)>> \notin StrictSubsetOrdering(Nat)
  BY <1>4
<1>6. ASSUME NEW k \in T, k < m PROVE FALSE
  <2>1. I(k) \subseteq I(m) /\ I(k) # I(m) /\ I(k) \subseteq Nat /\ I(m) \subseteq Nat
    BY <1>6
  <2> QED
    BY <1>5, <2>1 DEF StrictSubsetOrdering
<1> QED
  BY <1>6

\* Induction over the naturals.
LEMMA NatInd ==
  ASSUME NEW T, 0 \in T, \A n \in Nat : n \in T => n + 1 \in T
  PROVE  Nat \subseteq T
<1> SUFFICES ASSUME Nat \ T # {} PROVE FALSE
  OBVIOUS
<1>1. PICK m \in Nat \ T : \A k \in Nat \ T : m <= k
  BY Least
<1> QED
  BY <1>1

\* Induction up to n.
LEMMA UpTo ==
  ASSUME NEW n \in Nat, NEW T, 0 \in T, \A k \in 1 .. n : k - 1 \in T => k \in T
  PROVE  \A k \in 0 .. n : k \in T
<1> DEFINE U == {k \in Nat : k <= n => k \in T}
<1>1. Nat \subseteq U
  <2>1. 0 \in U
    OBVIOUS
  <2>2. \A k \in Nat : k \in U => k + 1 \in U
    OBVIOUS
  <2> HIDE DEF U
  <2> QED
    BY <2>1, <2>2, NatInd
<1> QED
  BY <1>1

\* Induction over the subsets of a finite set.
LEMMA FinInd ==
  ASSUME NEW S, IsFiniteSet(S), NEW T, {} \in T,
         \A A \in SUBSET S, x \in S : A \in T /\ x \notin A => A \cup {x} \in T
  PROVE  S \in T
<1> SUFFICES ASSUME S \notin T PROVE FALSE
  OBVIOUS
<1> DEFINE B == {A \in SUBSET S : A \notin T}
<1>1. IsWellFoundedOn(StrictSubsetOrdering(S), FiniteSubsetsOf(S))
  BY FS_StrictSubsetOrderingWellFounded
<1>2. B \subseteq FiniteSubsetsOf(S) /\ B # {}
  BY FS_FiniteSubsetsOfFinite
<1>3. \E A \in B : \A C \in B : ~ (<<C, A>> \in StrictSubsetOrdering(S))
  <2> HIDE DEF B
  <2> QED
    BY <1>1, <1>2, WFMin
<1>4. PICK A \in B : \A C \in B : ~ (<<C, A>> \in StrictSubsetOrdering(S))
  BY <1>3
<1>5. PICK x \in A : TRUE
  OBVIOUS
<1>6. A \ {x} \in SUBSET S /\ A \ {x} # A /\ (A \ {x}) \cup {x} = A
  BY <1>5
<1>7. A \ {x} \notin B
  BY <1>4, <1>6 DEF StrictSubsetOrdering
<1> QED
  BY <1>6, <1>7

\* T has a subset of S as soon as it has those with one element less.
Grows(T, S) == \A s \in SUBSET S : (\A x \in s : s \ {x} \in T) => s \in T

\* Induction over the subsets of a finite set.
LEMMA SubsetInd ==
  ASSUME NEW S, IsFiniteSet(S), NEW T, Grows(T, S)
  PROVE  S \in T /\ \A s \in SUBSET S : s \in T
<1> SUFFICES ASSUME NEW bad \in SUBSET S, bad \notin T PROVE FALSE
  OBVIOUS
<1> DEFINE B == {A \in SUBSET S : A \notin T}
<1>1. IsWellFoundedOn(StrictSubsetOrdering(S), FiniteSubsetsOf(S))
  BY FS_StrictSubsetOrderingWellFounded
<1>2. B \subseteq FiniteSubsetsOf(S) /\ B # {}
  BY FS_FiniteSubsetsOfFinite
<1>3. \E A \in B : \A C \in B : ~ (<<C, A>> \in StrictSubsetOrdering(S))
  <2> HIDE DEF B
  <2> QED
    BY <1>1, <1>2, WFMin
<1>4. PICK A \in B : \A C \in B : ~ (<<C, A>> \in StrictSubsetOrdering(S))
  BY <1>3
<1>5. ASSUME NEW x \in A PROVE A \ {x} \in T
  <2>1. A \ {x} \in SUBSET S /\ A \ {x} # A
    OBVIOUS
  <2> QED
    BY <1>4, <2>1 DEF StrictSubsetOrdering
<1> QED
  BY <1>5 DEF Grows

\* A finite set of naturals has a greatest element.
LEMMA Greatest ==
  ASSUME NEW n \in Nat, NEW T, T \subseteq 0 .. n, T # {}
  PROVE  \E m \in T : \A k \in T : k <= m
<1> DEFINE U == {m \in Nat : \A k \in T : k <= m}
<1>1. U \subseteq Nat /\ n \in U
  OBVIOUS
<1>2. PICK m \in U : \A k \in U : m <= k
  <2> HIDE DEF U
  <2> QED
    BY <1>1, Least
<1>3. m \in T
  <2> SUFFICES ASSUME m \notin T PROVE FALSE
    OBVIOUS
  <2>1. PICK k \in T : TRUE
    OBVIOUS
  <2>2. m - 1 \in Nat /\ \A j \in T : j <= m - 1
    BY <1>2, <2>1
  <2> QED
    BY <1>2, <2>2
<1> QED
  BY <1>2, <1>3

---------------------------------------------------------------------------
(* Recursive functions exist                                               *)

\* A function of 0 .. n given by its value at 0 and by steps.
IsChain(g, n, V, base, step) ==
  g \in [0 .. n -> V] /\ g[0] = base /\ \A k \in 1 .. n : g[k] = step[k][g[k - 1]]

\* There is one.
LEMMA Chain ==
  ASSUME NEW n \in Nat, NEW V, NEW base \in V, NEW step \in [1 .. n -> [V -> V]]
  PROVE  \E g : IsChain(g, n, V, base, step)
<1> DEFINE Good(g, m) ==
             g \in [0 .. m -> V] /\ g[0] = base /\ \A k \in 1 .. m : g[k] = step[k][g[k - 1]]
           T == {m \in 0 .. n : \E g : Good(g, m)}
<1>1. 0 \in T
  <2> DEFINE h == [k \in 0 .. 0 |-> base]
  <2>1. h \in [0 .. 0 -> V] /\ h[0] = base /\ 1 .. 0 = {}
    OBVIOUS
  <2>2. Good(h, 0)
    BY <2>1
  <2> HIDE DEF h, Good
  <2> QED
    BY <2>2
<1>2. ASSUME NEW m \in 1 .. n, m - 1 \in T PROVE m \in T
  <2>1. PICK g : Good(g, m - 1)
    BY <1>2
  <2> DEFINE h == [k \in 0 .. m |-> IF k < m THEN g[k] ELSE step[m][g[m - 1]]]
  <2>2. h \in [0 .. m -> V]
    BY <2>1
  <2>3. h[0] = base /\ \A k \in 1 .. m : h[k] = step[k][h[k - 1]]
    BY <2>1
  <2>4. Good(h, m)
    BY <2>2, <2>3
  <2> HIDE DEF h, Good
  <2> QED
    BY <2>4
<1>3. n \in T
  <2> HIDE DEF T
  <2>1. \A k \in 0 .. n : k \in T
    BY <1>1, <1>2, UpTo
  <2> QED
    BY <2>1
<1> QED
  BY <1>3 DEF IsChain

\* A function of the subsets of S that takes them apart one element at a time.
Picks(pick, S) == \A s \in SUBSET S : s # {} => pick[s] \in s
TakesApart(g, S, V, base, step, pick) ==
  /\ g \in [SUBSET S -> V]
  /\ g[{}] = base
  /\ \A s \in SUBSET S : s # {} => g[s] = step[pick[s]][g[s \ {pick[s]}]]

\* There is one, when S is finite.
LEMMA SetRecursion ==
  ASSUME NEW S, IsFiniteSet(S), NEW V, NEW base \in V, NEW step \in [S -> [V -> V]],
         NEW pick, Picks(pick, S)
  PROVE  \E g : TakesApart(g, S, V, base, step, pick)
<1> DEFINE D(m) == {s \in SUBSET S : Cardinality(s) <= m}
           Good(g, m) == /\ g \in [D(m) -> V] /\ g[{}] = base
                         /\ \A s \in D(m) : s # {} => g[s] = step[pick[s]][g[s \ {pick[s]}]]
           T == {m \in Nat : \E g : Good(g, m)}
<1>0. /\ Cardinality({}) = 0
      /\ \A s \in SUBSET S : IsFiniteSet(s) /\ Cardinality(s) \in Nat /\ Cardinality(s) <= Cardinality(S)
      /\ \A s \in SUBSET S : \A x \in s : Cardinality(s \ {x}) = Cardinality(s) - 1
      /\ \A s \in SUBSET S : Cardinality(s) = 0 => s = {}
  BY FS_Subset, FS_CardinalityType, FS_RemoveElement, FS_EmptySet
<1>1. 0 \in T
  <2> DEFINE h == [s \in D(0) |-> base]
  <2>1. \A s \in D(0) : s = {}
    <3> SUFFICES ASSUME NEW s \in SUBSET S, Cardinality(s) <= 0 PROVE s = {}
      OBVIOUS
    <3>1. Cardinality(s) \in Nat
      BY <1>0
    <3>2. Cardinality(s) = 0
      BY <3>1
    <3> QED
      BY <1>0, <3>2
  <2>0. {} \in D(0)
    BY <1>0
  <2>2. Good(h, 0)
    BY <2>0, <2>1
  <2> HIDE DEF h, Good
  <2> QED
    BY <2>2
<1>2. ASSUME NEW m \in Nat, m \in T PROVE m + 1 \in T
  <2>1. PICK g : Good(g, m)
    BY <1>2
  <2> DEFINE h == [s \in D(m + 1) |-> IF s \in D(m) THEN g[s] ELSE step[pick[s]][g[s \ {pick[s]}]]]
  <2>2. ASSUME NEW s \in D(m + 1), s # {} PROVE s \ {pick[s]} \in D(m) /\ pick[s] \in S
    <3>1. s \in SUBSET S /\ pick[s] \in s
      BY <2>2 DEF Picks
    <3>2. Cardinality(s \ {pick[s]}) = Cardinality(s) - 1 /\ Cardinality(s) \in Nat
      BY <1>0, <3>1
    <3> QED
      BY <3>1, <3>2
  <2>3. {} \in D(m) /\ \A s \in D(m) : s \in D(m + 1)
    <3>1. \A s \in D(m) : s \in D(m + 1)
      <4> SUFFICES ASSUME NEW s \in SUBSET S, Cardinality(s) <= m PROVE Cardinality(s) <= m + 1
        OBVIOUS
      <4>1. Cardinality(s) \in Nat
        BY <1>0
      <4> QED
        BY <4>1
    <3> QED
      BY <1>0, <3>1
  <2>4. h \in [D(m + 1) -> V]
    <3>1. ASSUME NEW s \in D(m + 1), s \in D(m) PROVE h[s] \in V
      BY <2>1, <3>1
    <3>2. ASSUME NEW s \in D(m + 1), s \notin D(m) PROVE h[s] \in V
      <4>1. s \ {pick[s]} \in D(m) /\ pick[s] \in S
        BY <2>2, <2>3, <3>2
      <4>2. g[s \ {pick[s]}] \in V
        BY <2>1, <4>1
      <4>3. step[pick[s]] \in [V -> V]
        BY <4>1
      <4>4. h[s] = step[pick[s]][g[s \ {pick[s]}]]
        BY <3>2
      <4> QED
        BY <4>2, <4>3, <4>4
    <3> QED
      BY <3>1, <3>2
  <2>5. ASSUME NEW s \in D(m + 1), s # {}
        PROVE  h[s] = step[pick[s]][h[s \ {pick[s]}]]
    BY <2>1, <2>2, <2>3, <2>5
  <2>6. h[{}] = base
    BY <2>1, <2>3
  <2>7. Good(h, m + 1)
    BY <2>4, <2>5, <2>6
  <2> HIDE DEF h, Good
  <2> QED
    BY <2>7
<1>3. Cardinality(S) \in T
  <2>1. Cardinality(S) \in Nat
    BY <1>0
  <2> HIDE DEF T
  <2> QED
    BY <1>1, <1>2, <2>1, NatInd
<1>4. D(Cardinality(S)) = SUBSET S
  BY <1>0
<1> QED
  BY <1>3, <1>4 DEF TakesApart

---------------------------------------------------------------------------
(* Sums over finite sets                                                   *)

IntOn(f, S) == \A x \in S : f[x] \in Int
Pick(s) == CHOOSE x \in s : TRUE
Unrolls(g, f, S) ==
  /\ g[{}] = 0
  /\ \A s \in SUBSET S : s # {} => g[s] = f[Pick(s)] + g[s \ {Pick(s)}]

\* The recursive functions by which sums are defined.
LEMMA SumIterations ==
  ASSUME NEW S, IsFiniteSet(S), NEW f, IntOn(f, S)
  PROVE  \E g \in [SUBSET S -> Int] : SumFunctionOnSet(f, S) = g[S] /\ Unrolls(g, f, S)
<1> DEFINE pick == [s \in SUBSET S |-> Pick(s)]
           step == [x \in S |-> [v \in Int |-> f[x] + v]]
           Body(g) == [s \in SUBSET S |-> IF s = {} THEN 0 ELSE f[Pick(s)] + g[s \ {Pick(s)}]]
           iter == CHOOSE g : g = Body(g)
<1>1. SumFunctionOnSet(f, S) = iter[S]
  BY DEF SumFunctionOnSet, FoldFunctionOnSet, MapThenFoldSet, Pick
<1>2. \A s \in SUBSET S : s # {} => Pick(s) \in s
  BY DEF Pick
<1>3. step \in [S -> [Int -> Int]] /\ \A s \in SUBSET S : s # {} => pick[s] \in s
  BY <1>2 DEF IntOn
<1>4. PICK g : g = Body(g)
  <2>1. PICK g \in [SUBSET S -> Int] :
               /\ g[{}] = 0
               /\ \A s \in SUBSET S : s # {} => g[s] = step[pick[s]][g[s \ {pick[s]}]]
    <3> DEFINE V == Int
               zero == 0
    <3>1. step \in [S -> [V -> V]]
      BY <1>3
    <3>0. zero \in V
      OBVIOUS
    <3>3. Picks(pick, S)
      BY <1>3 DEF Picks
    <3> HIDE DEF step, pick, V, zero
    <3>2. \E g : TakesApart(g, S, V, zero, step, pick)
      BY <3>0, <3>1, <3>3, SetRecursion
    <3> QED
      BY <3>2 DEF V, zero, TakesApart
  <2>2. \A s \in SUBSET S : s # {} => g[s] = f[Pick(s)] + g[s \ {Pick(s)}]
    BY <1>2, <2>1
  <2>3. /\ g = [s \in SUBSET S |-> g[s]]
        /\ \A s \in SUBSET S : g[s] = IF s = {} THEN 0 ELSE f[Pick(s)] + g[s \ {Pick(s)}]
    BY <2>1, <2>2
  <2>4. g = Body(g)
    BY <2>3, Zenon
  <2> HIDE DEF Body
  <2> QED
    BY <2>4
<1>5. iter = Body(iter)
  <2> HIDE DEF Body
  <2> QED
    BY <1>4
<1> HIDE DEF iter
<1>6. iter[{}] = 0 /\ \A s \in SUBSET S : s # {} => iter[s] = f[Pick(s)] + iter[s \ {Pick(s)}]
  BY <1>5
<1>7. \A s \in SUBSET S : iter[s] \in Int
  <2> DEFINE P == {s \in SUBSET S : iter[s] \in Int}
  <2>1. Grows(P, S)
    <3> SUFFICES ASSUME NEW s \in SUBSET S, \A x \in s : s \ {x} \in P PROVE s \in P
      BY DEF Grows
    <3>1. CASE s = {}
      BY <1>6, <3>1
    <3>2. CASE s # {}
      <4>1. Pick(s) \in s /\ f[Pick(s)] \in Int /\ iter[s \ {Pick(s)}] \in Int
        BY <1>2, <3>2 DEF IntOn
      <4>2. iter[s] = f[Pick(s)] + iter[s \ {Pick(s)}]
        BY <1>6, <3>2
      <4>3. iter[s] \in Int
        BY <4>1, <4>2
      <4> QED
        BY <4>3
    <3> QED
      BY <3>1, <3>2
  <2> HIDE DEF P
  <2>2. \A s \in SUBSET S : s \in P
    BY <2>1, SubsetInd
  <2> QED
    BY <2>2 DEF P
<1>8. iter \in [SUBSET S -> Int]
  BY <1>5, <1>7
<1> QED
  BY <1>1, <1>6, <1>8 DEF Unrolls

\* The recursion SumFunctionOnSet is defined by.
LEMMA SumUnfolds ==
  ASSUME NEW S, IsFiniteSet(S), NEW f, IntOn(f, S)
  PROVE  /\ SumFunctionOnSet(f, S) \in Int
         /\ S = {} => SumFunctionOnSet(f, S) = 0
         /\ S # {} => SumFunctionOnSet(f, S) = f[Pick(S)] + SumFunctionOnSet(f, S \ {Pick(S)})
<1>1. PICK g \in [SUBSET S -> Int] : SumFunctionOnSet(f, S) = g[S] /\ Unrolls(g, f, S)
  BY SumIterations
<1>2. ASSUME S # {}
      PROVE  SumFunctionOnSet(f, S) = f[Pick(S)] + SumFunctionOnSet(f, S \ {Pick(S)})
  <2> DEFINE A == S \ {Pick(S)}
  <2>1. A \in SUBSET S /\ IsFiniteSet(A) /\ IntOn(f, A)
    BY FS_Subset DEF IntOn
  <2> HIDE DEF A
  <2>2. PICK h \in [SUBSET A -> Int] : SumFunctionOnSet(f, A) = h[A] /\ Unrolls(h, f, A)
    BY <2>1, SumIterations
  <2>3. \A s \in SUBSET A : g[s] = h[s]
    <3> DEFINE P == {s \in SUBSET A : g[s] = h[s]}
    <3>1. Grows(P, A)
      <4> SUFFICES ASSUME NEW s \in SUBSET A, \A x \in s : s \ {x} \in P PROVE s \in P
        BY DEF Grows
      <4>1. CASE s = {}
        BY <1>1, <2>2, <4>1 DEF Unrolls
      <4>2. CASE s # {}
        <5>1. Pick(s) \in s
          BY <4>2 DEF Pick
        <5>2. g[s] = f[Pick(s)] + g[s \ {Pick(s)}] /\ h[s] = f[Pick(s)] + h[s \ {Pick(s)}]
          BY <1>1, <2>1, <2>2, <4>2 DEF Unrolls
        <5>3. g[s \ {Pick(s)}] = h[s \ {Pick(s)}]
          BY <5>1
        <5> QED
          BY <5>2, <5>3
      <4> QED
        BY <4>1, <4>2
    <3> HIDE DEF P
    <3>2. \A s \in SUBSET A : s \in P
      BY <2>1, <3>1, SubsetInd
    <3> QED
      BY <3>2 DEF P
  <2>4. g[S] = f[Pick(S)] + g[A]
    BY <1>1, <1>2 DEF A, Unrolls
  <2>5. g[A] = h[A]
    BY <2>3
  <2> QED
    BY <1>1, <2>2, <2>4, <2>5 DEF A
<1> QED
  BY <1>1, <1>2 DEF Unrolls

\* A sum is the term of any element and the sum of the others.
LEMMA SumRemove ==
  ASSUME NEW S, IsFiniteSet(S), NEW f, IntOn(f, S), NEW x \in S
  PROVE  /\ SumFunctionOnSet(f, S) = f[x] + SumFunctionOnSet(f, S \ {x})
         /\ SumFunctionOnSet(f, S) \in Int /\ SumFunctionOnSet(f, S \ {x}) \in Int
<1> DEFINE sum(s) == SumFunctionOnSet(f, s)
           P == {s \in SUBSET S : \A y \in s : sum(s) = f[y] + sum(s \ {y})}
<1>1. \A s \in SUBSET S : sum(s) \in Int /\ (s # {} => sum(s) = f[Pick(s)] + sum(s \ {Pick(s)}))
  <2> SUFFICES ASSUME NEW s \in SUBSET S
               PROVE  sum(s) \in Int /\ (s # {} => sum(s) = f[Pick(s)] + sum(s \ {Pick(s)}))
    OBVIOUS
  <2>1. IsFiniteSet(s) /\ IntOn(f, s)
    BY FS_Subset DEF IntOn
  <2> QED
    BY <2>1, SumUnfolds
<1> HIDE DEF sum
<1>2. Grows(P, S)
  <2> SUFFICES ASSUME NEW s \in SUBSET S, \A y \in s : s \ {y} \in P PROVE s \in P
    BY DEF Grows
  <2> SUFFICES ASSUME NEW y \in s PROVE sum(s) = f[y] + sum(s \ {y})
    OBVIOUS
  <2> DEFINE z == Pick(s)
  <2>1. z \in s
    BY DEF Pick
  <2>2. CASE z = y
    BY <1>1, <2>2
  <2>3. CASE z # y
    <3> DEFINE r == (s \ {z}) \ {y}
    <3>1. y \in s \ {z} /\ z \in s \ {y} /\ r = (s \ {y}) \ {z} /\ r \in SUBSET S
      BY <2>1, <2>3
    <3>2. sum(s) = f[z] + sum(s \ {z})
      BY <1>1
    <3> HIDE DEF z
    <3>3. sum(s \ {z}) = f[y] + sum(r) /\ sum(s \ {y}) = f[z] + sum(r)
      BY <2>1, <3>1
    <3> HIDE DEF r
    <3>4. f[y] \in Int /\ f[z] \in Int /\ sum(r) \in Int
      BY <1>1, <2>1, <3>1 DEF IntOn
    <3>5. \A a, b, c \in Int : a + (b + c) = b + (a + c)
      OBVIOUS
    <3> QED
      BY <3>1, <3>2, <3>3, <3>4, <3>5
  <2> QED
    BY <2>2, <2>3
<1>3. S \in P
  <2> HIDE DEF P
  <2> QED
    BY <1>2, SubsetInd
<1>4. sum(S) = f[x] + sum(S \ {x}) /\ sum(S) \in Int /\ sum(S \ {x}) \in Int
  BY <1>1, <1>3
<1> QED
  BY <1>4 DEF sum

\* Nothing sums to 0.
LEMMA SumEmpty == ASSUME NEW f PROVE SumFunctionOnSet(f, {}) = 0
<1>1. IsFiniteSet({}) /\ IntOn(f, {})
  BY FS_EmptySet DEF IntOn
<1> QED
  BY <1>1, SumUnfolds

\* A sum of integers is an integer.
LEMMA SumInt ==
  ASSUME NEW S, IsFiniteSet(S), NEW f, IntOn(f, S)
  PROVE  SumFunctionOnSet(f, S) \in Int
  BY SumUnfolds

\* Subsets of what is summed over.
LEMMA SumParts ==
  ASSUME NEW S, IsFiniteSet(S), NEW f, IntOn(f, S), NEW s \in SUBSET S, NEW x \in s
  PROVE  /\ SumFunctionOnSet(f, s) \in Int
         /\ f[x] \in Int /\ SumFunctionOnSet(f, s \ {x}) \in Int
         /\ SumFunctionOnSet(f, s) = f[x] + SumFunctionOnSet(f, s \ {x})
<1>1. IsFiniteSet(s) /\ IntOn(f, s)
  BY FS_Subset DEF IntOn
<1>2. f[x] \in Int
  BY <1>1 DEF IntOn
<1> QED
  BY <1>1, <1>2, SumInt, SumRemove

Agree(f, g, S) == \A x \in S : f[x] = g[x]

\* A sum depends on the terms only.
LEMMA SumEqual ==
  ASSUME NEW S, IsFiniteSet(S), NEW f, NEW g, IntOn(f, S), Agree(f, g, S)
  PROVE  SumFunctionOnSet(f, S) = SumFunctionOnSet(g, S)
<1> DEFINE F(s) == SumFunctionOnSet(f, s)
           G(s) == SumFunctionOnSet(g, s)
           P == {s \in SUBSET S : F(s) = G(s)}
<1>1. IntOn(g, S)
  BY DEF IntOn, Agree
<1>2. ASSUME NEW s \in SUBSET S, NEW x \in s
      PROVE  F(s) = f[x] + F(s \ {x}) /\ G(s) = f[x] + G(s \ {x})
  <2>1. f[x] = g[x]
    BY DEF Agree
  <2> QED
    BY <1>1, <2>1, SumParts
<1>3. F({}) = G({})
  BY SumEmpty
<1> HIDE DEF F, G
<1>4. Grows(P, S)
  <2> SUFFICES ASSUME NEW s \in SUBSET S, \A x \in s : s \ {x} \in P PROVE s \in P
    BY DEF Grows
  <2>1. CASE s = {}
    BY <1>3, <2>1
  <2>2. CASE s # {}
    <3>1. PICK x \in s : TRUE
      BY <2>2
    <3>2. F(s \ {x}) = G(s \ {x})
      BY <3>1
    <3>3. F(s) = f[x] + F(s \ {x}) /\ G(s) = f[x] + G(s \ {x})
      BY <1>2, <3>1
    <3> QED
      BY <3>2, <3>3
  <2> QED
    BY <2>1, <2>2
<1>5. S \in P
  <2> HIDE DEF P
  <2> QED
    BY <1>4, SubsetInd
<1> QED
  BY <1>5 DEF F, G

\* h is x * f + y * g.
Combines(h, x, f, y, g, S) == \A e \in S : h[e] = x * f[e] + y * g[e]

\* Sums are linear.
LEMMA SumLinear ==
  ASSUME NEW S, IsFiniteSet(S), NEW f, NEW g, IntOn(f, S), IntOn(g, S),
         NEW x \in Int, NEW y \in Int, NEW h, Combines(h, x, f, y, g, S)
  PROVE  SumFunctionOnSet(h, S) = x * SumFunctionOnSet(f, S) + y * SumFunctionOnSet(g, S)
<1> DEFINE F(s) == SumFunctionOnSet(f, s)
           G(s) == SumFunctionOnSet(g, s)
           H(s) == SumFunctionOnSet(h, s)
           P == {s \in SUBSET S : H(s) = x * F(s) + y * G(s)}
<1>1. IntOn(h, S)
  BY DEF IntOn, Combines
<1>2. ASSUME NEW s \in SUBSET S, NEW e \in s
      PROVE  /\ F(s) = f[e] + F(s \ {e}) /\ f[e] \in Int /\ F(s \ {e}) \in Int
             /\ G(s) = g[e] + G(s \ {e}) /\ g[e] \in Int /\ G(s \ {e}) \in Int
             /\ H(s) = h[e] + H(s \ {e})
  <2>1. IsFiniteSet(s) /\ IntOn(f, s) /\ IntOn(g, s) /\ IntOn(h, s)
    BY <1>1, FS_Subset DEF IntOn
  <2>2. f[e] \in Int /\ g[e] \in Int
    BY <2>1 DEF IntOn
  <2> QED
    BY <2>1, <2>2, SumRemove
<1>3. F({}) = 0 /\ G({}) = 0 /\ H({}) = 0
  BY SumEmpty
<1> HIDE DEF F, G, H
<1>4. Grows(P, S)
  <2> SUFFICES ASSUME NEW s \in SUBSET S, \A e \in s : s \ {e} \in P PROVE s \in P
    BY DEF Grows
  <2>1. CASE s = {}
    BY <1>3, <2>1
  <2>2. CASE s # {}
    <3>1. PICK e \in s : TRUE
      BY <2>2
    <3> DEFINE r == s \ {e}
    <3>2. H(r) = x * F(r) + y * G(r)
      BY <3>1
    <3>3. /\ F(s) = f[e] + F(r) /\ G(s) = g[e] + G(r) /\ H(s) = h[e] + H(r)
          /\ f[e] \in Int /\ F(r) \in Int /\ g[e] \in Int /\ G(r) \in Int
      BY <1>2, <3>1
    <3> HIDE DEF r
    <3>4. h[e] = x * f[e] + y * g[e]
      BY <3>1 DEF Combines
    <3>5. \A a, b, c, d \in Int :
            (x * a + y * b) + (x * c + y * d) = x * (a + c) + y * (b + d)
      OBVIOUS
    <3>6. H(s) = x * F(s) + y * G(s)
      BY <3>2, <3>3, <3>4, <3>5
    <3> QED
      BY <3>6
  <2> QED
    BY <2>1, <2>2
<1>5. S \in P
  <2> HIDE DEF P
  <2> QED
    BY <1>4, SubsetInd
<1> QED
  BY <1>5 DEF F, G, H

\* Terms that are 0 can be left out.
LEMMA SumRestrict ==
  ASSUME NEW S, IsFiniteSet(S), NEW f, IntOn(f, S), NEW A \in SUBSET S,
         \A x \in S \ A : f[x] = 0
  PROVE  SumFunctionOnSet(f, S) = SumFunctionOnSet(f, A)
<1> DEFINE F(s) == SumFunctionOnSet(f, s)
           P == {s \in SUBSET S : F(s) = F(s \cap A)}
<1>1. ASSUME NEW s \in SUBSET S, NEW x \in s
      PROVE  f[x] \in Int /\ F(s \ {x}) \in Int /\ F(s) = f[x] + F(s \ {x})
  <2>1. IsFiniteSet(s) /\ IntOn(f, s)
    BY FS_Subset DEF IntOn
  <2>2. f[x] \in Int
    BY <2>1 DEF IntOn
  <2> QED
    BY <2>1, <2>2, SumRemove
<1> HIDE DEF F
<1>2. Grows(P, S)
  <2> SUFFICES ASSUME NEW s \in SUBSET S, \A x \in s : s \ {x} \in P PROVE s \in P
    BY DEF Grows
  <2>1. CASE s \subseteq A
    <3>1. s \cap A = s
      BY <2>1
    <3> QED
      BY <3>1
  <2>2. CASE ~(s \subseteq A)
    <3>1. PICK x \in s : x \notin A
      BY <2>2
    <3>2. (s \ {x}) \cap A = s \cap A
      BY <3>1
    <3>3. F(s \ {x}) = F((s \ {x}) \cap A)
      BY <3>1
    <3>4. F(s) = F(s \ {x})
      BY <1>1, <3>1
    <3>5. F(s) = F(s \cap A)
      BY <3>2, <3>3, <3>4
    <3> QED
      BY <3>5
  <2> QED
    BY <2>1, <2>2
<1>3. S \in P
  <2> HIDE DEF P
  <2> QED
    BY <1>2, SubsetInd
<1>4. S \cap A = A
  OBVIOUS
<1> QED
  BY <1>3, <1>4 DEF F

\* The sum over one element.
LEMMA SumOfOne ==
  ASSUME NEW x, NEW f, f[x] \in Int
  PROVE  SumFunctionOnSet(f, {x}) = f[x]
<1>1. IsFiniteSet({x}) /\ IntOn(f, {x})
  BY FS_Singleton DEF IntOn
<1>2. {x} \ {x} = {} /\ x \in {x}
  OBVIOUS
<1>3. SumFunctionOnSet(f, {x}) = f[x] + SumFunctionOnSet(f, {x} \ {x})
  BY <1>1, <1>2, SumRemove
<1>4. SumFunctionOnSet(f, {x} \ {x}) = 0
  BY <1>2, SumEmpty
<1> QED
  BY <1>3, <1>4

Adds(h, f, g, S) == \A x \in S : h[x] = f[x] + g[x]
Scales(h, c, f, S) == \A x \in S : h[x] = c * f[x]

\* Sums add up element by element.
LEMMA SumAdd ==
  ASSUME NEW S, IsFiniteSet(S), NEW f, NEW g, IntOn(f, S), IntOn(g, S), NEW h, Adds(h, f, g, S)
  PROVE  SumFunctionOnSet(h, S) = SumFunctionOnSet(f, S) + SumFunctionOnSet(g, S)
<1>1. Combines(h, 1, f, 1, g, S)
  <2> SUFFICES ASSUME NEW x \in S PROVE h[x] = 1 * f[x] + 1 * g[x]
    BY DEF Combines
  <2> QED
    BY DEF Adds, IntOn
<1>2. SumFunctionOnSet(h, S) = 1 * SumFunctionOnSet(f, S) + 1 * SumFunctionOnSet(g, S)
  BY <1>1, SumLinear
<1>3. SumFunctionOnSet(f, S) \in Int /\ SumFunctionOnSet(g, S) \in Int
  BY SumInt
<1> QED
  BY <1>2, <1>3

\* A factor common to all elements.
LEMMA SumScale ==
  ASSUME NEW S, IsFiniteSet(S), NEW f, IntOn(f, S), NEW c \in Int, NEW h, Scales(h, c, f, S)
  PROVE  SumFunctionOnSet(h, S) = c * SumFunctionOnSet(f, S)
<1>1. Combines(h, c, f, 0, f, S)
  <2> SUFFICES ASSUME NEW x \in S PROVE h[x] = c * f[x] + 0 * f[x]
    BY DEF Combines
  <2>1. f[x] \in Int /\ h[x] = c * f[x] /\ c * f[x] \in Int
    BY DEF Scales, IntOn
  <2> QED
    BY <2>1
<1>2. SumFunctionOnSet(h, S) = c * SumFunctionOnSet(f, S) + 0 * SumFunctionOnSet(f, S)
  BY <1>1, SumLinear
<1>3. SumFunctionOnSet(f, S) \in Int /\ c * SumFunctionOnSet(f, S) \in Int
  BY SumInt
<1> QED
  BY <1>2, <1>3

\* A sum of zeros.
LEMMA SumZero ==
  ASSUME NEW S, IsFiniteSet(S), NEW f, \A x \in S : f[x] = 0
  PROVE  SumFunctionOnSet(f, S) = 0
<1>1. IntOn(f, S) /\ {} \in SUBSET S /\ \A x \in S \ {} : f[x] = 0
  BY DEF IntOn
<1> QED
  BY <1>1, SumRestrict, SumEmpty

\* Sums over parts without a common element.
LEMMA SumUnion ==
  ASSUME NEW S, NEW T, IsFiniteSet(S), IsFiniteSet(T), S \cap T = {}, NEW f, IntOn(f, S \cup T)
  PROVE  SumFunctionOnSet(f, S \cup T) = SumFunctionOnSet(f, S) + SumFunctionOnSet(f, T)
<1> DEFINE U == S \cup T
           g == [x \in U |-> IF x \in S THEN f[x] ELSE 0]
           h == [x \in U |-> IF x \in T THEN f[x] ELSE 0]
<1>1. IsFiniteSet(U) /\ S \in SUBSET U /\ T \in SUBSET U
  BY FS_Union
<1>2. IntOn(g, U) /\ IntOn(h, U) /\ IntOn(f, S) /\ IntOn(f, T)
  BY DEF IntOn
<1>3. Adds(f, g, h, U)
  <2> SUFFICES ASSUME NEW x \in U PROVE f[x] = g[x] + h[x]
    BY DEF Adds
  <2>1. f[x] \in Int
    BY DEF IntOn
  <2> QED
    BY <2>1
<1>4. (\A x \in U \ S : g[x] = 0) /\ (\A x \in U \ T : h[x] = 0) /\ Agree(f, g, S) /\ Agree(f, h, T)
  BY DEF Agree
<1> HIDE DEF g, h, U
<1>5. SumFunctionOnSet(f, U) = SumFunctionOnSet(g, U) + SumFunctionOnSet(h, U)
  BY <1>1, <1>2, <1>3, SumAdd
<1>6. SumFunctionOnSet(g, U) = SumFunctionOnSet(g, S) /\ SumFunctionOnSet(h, U) = SumFunctionOnSet(h, T)
  BY <1>1, <1>2, <1>4, SumRestrict
<1>7. SumFunctionOnSet(f, S) = SumFunctionOnSet(g, S) /\ SumFunctionOnSet(f, T) = SumFunctionOnSet(h, T)
  BY <1>2, <1>4, SumEqual
<1> QED
  BY <1>5, <1>6, <1>7 DEF U

\* h numbers the elements of S by those of T.
Numbers(h, T, S) ==
  /\ \A t \in T : h[t] \in S
  /\ \A t, u \in T : h[t] = h[u] => t = u
  /\ \A x \in S : \E t \in T : h[t] = x
Along(g, f, h, T) == \A t \in T : g[t] = f[h[t]]

\* The order of a sum does not matter.
LEMMA SumReindex ==
  ASSUME NEW S, IsFiniteSet(S), NEW f, IntOn(f, S), NEW T, IsFiniteSet(T),
         NEW h, Numbers(h, T, S), NEW g, Along(g, f, h, T)
  PROVE  SumFunctionOnSet(g, T) = SumFunctionOnSet(f, S)
<1> DEFINE image(s) == {h[t] : t \in s}
           F(s) == SumFunctionOnSet(f, s)
           G(s) == SumFunctionOnSet(g, s)
           P == {s \in SUBSET T : G(s) = F(image(s))}
<1>1. IntOn(g, T)
  BY DEF IntOn, Along, Numbers
<1>2. F({}) = 0 /\ G({}) = 0
  BY SumEmpty
<1>3. ASSUME NEW s \in SUBSET T, NEW t \in s
      PROVE  /\ image(s \ {t}) = image(s) \ {h[t]}
             /\ G(s) = g[t] + G(s \ {t}) /\ F(image(s)) = f[h[t]] + F(image(s) \ {h[t]})
  <2>1. IsFiniteSet(s) /\ IntOn(g, s) /\ t \in s
    BY <1>1, FS_Subset DEF IntOn
  <2>2. image(s) \in SUBSET S /\ h[t] \in image(s)
    BY DEF Numbers
  <2>3. IsFiniteSet(image(s)) /\ IntOn(f, image(s))
    BY <2>2, FS_Subset DEF IntOn
  <2>4. image(s \ {t}) = image(s) \ {h[t]}
    BY DEF Numbers
  <2> HIDE DEF image
  <2>5. G(s) = g[t] + G(s \ {t})
    BY <2>1, SumRemove
  <2>6. F(image(s)) = f[h[t]] + F(image(s) \ {h[t]})
    BY <2>2, <2>3, SumRemove
  <2> QED
    BY <2>4, <2>5, <2>6
<1>4. image({}) = {} /\ image(T) = S
  BY DEF Numbers
<1> HIDE DEF F, G, image
<1>5. Grows(P, T)
  <2> SUFFICES ASSUME NEW s \in SUBSET T, \A t \in s : s \ {t} \in P PROVE s \in P
    BY DEF Grows
  <2>1. CASE s = {}
    BY <1>2, <1>4, <2>1
  <2>2. CASE s # {}
    <3>1. PICK t \in s : TRUE
      BY <2>2
    <3>2. G(s \ {t}) = F(image(s \ {t}))
      BY <3>1
    <3>3. /\ image(s \ {t}) = image(s) \ {h[t]}
          /\ G(s) = g[t] + G(s \ {t}) /\ F(image(s)) = f[h[t]] + F(image(s) \ {h[t]})
      BY <1>3, <3>1
    <3>4. g[t] = f[h[t]]
      BY <3>1 DEF Along
    <3>5. G(s) = F(image(s))
      BY <3>2, <3>3, <3>4
    <3> QED
      BY <3>5
  <2> QED
    BY <2>1, <2>2
<1>6. T \in P
  <2> HIDE DEF P
  <2> QED
    BY <1>5, SubsetInd
<1> QED
  BY <1>4, <1>6 DEF F, G

\* row and col hold the same numbers, by row and by column.
Transposed(row, col, S, T) ==
  \A x \in S : \A y \in T : row[x][y] \in Int /\ col[y][x] = row[x][y]
SumsOf(r, row, S, T) == \A x \in S : r[x] = SumFunctionOnSet(row[x], T)

\* Summing by rows or by columns is the same.
LEMMA SumSwap ==
  ASSUME NEW S, IsFiniteSet(S), NEW T, IsFiniteSet(T), NEW row, NEW col,
         Transposed(row, col, S, T),
         NEW r, SumsOf(r, row, S, T), NEW c, SumsOf(c, col, T, S)
  PROVE  SumFunctionOnSet(r, S) = SumFunctionOnSet(c, T)
<1> DEFINE part(s) == [y \in T |-> SumFunctionOnSet(col[y], s)]
           R(s) == SumFunctionOnSet(r, s)
           C(s) == SumFunctionOnSet(part(s), T)
           P == {s \in SUBSET S : R(s) = C(s)}
<1>1. IntOn(r, S) /\ (\A x \in S : IntOn(row[x], T)) /\ (\A y \in T : IntOn(col[y], S))
  <2>1. (\A x \in S : IntOn(row[x], T)) /\ (\A y \in T : IntOn(col[y], S))
    BY DEF IntOn, Transposed
  <2> QED
    BY <2>1, SumInt DEF IntOn, SumsOf
<1>2. R({}) = 0 /\ C({}) = 0
  <2>1. \A y \in T : part({})[y] = 0
    BY SumEmpty
  <2> QED
    BY <2>1, SumZero, SumEmpty
<1>3. ASSUME NEW s \in SUBSET S, NEW x \in s
      PROVE  R(s) = r[x] + R(s \ {x}) /\ C(s) = r[x] + C(s \ {x})
  <2>1. IsFiniteSet(s) /\ IntOn(r, s) /\ IntOn(row[x], T) /\ \A y \in T : IntOn(col[y], s)
    BY <1>1, FS_Subset DEF IntOn
  <2>2. R(s) = r[x] + R(s \ {x})
    BY <2>1, SumRemove
  <2>3. ASSUME NEW y \in T
        PROVE  /\ part(s)[y] = row[x][y] + part(s \ {x})[y]
               /\ part(s \ {x})[y] \in Int
    <3>1. IntOn(col[y], s) /\ col[y][x] = row[x][y]
      BY <2>1 DEF Transposed
    <3> QED
      BY <2>1, <3>1, SumRemove
  <2>4. Adds(part(s), row[x], part(s \ {x}), T) /\ IntOn(part(s \ {x}), T)
    BY <2>3 DEF Adds, IntOn
  <2> HIDE DEF part
  <2>5. C(s) = SumFunctionOnSet(row[x], T) + C(s \ {x})
    BY <2>1, <2>4, SumAdd
  <2>6. r[x] = SumFunctionOnSet(row[x], T)
    BY DEF SumsOf
  <2> QED
    BY <2>2, <2>5, <2>6
<1>4. Agree(part(S), c, T) /\ IntOn(part(S), T)
  BY <1>1, SumInt DEF Agree, SumsOf, IntOn
<1> HIDE DEF R, C, part
<1>5. Grows(P, S)
  <2> SUFFICES ASSUME NEW s \in SUBSET S, \A x \in s : s \ {x} \in P PROVE s \in P
    BY DEF Grows
  <2>1. CASE s = {}
    BY <1>2, <2>1
  <2>2. CASE s # {}
    <3>1. PICK x \in s : TRUE
      BY <2>2
    <3>2. R(s \ {x}) = C(s \ {x})
      BY <3>1
    <3>3. R(s) = r[x] + R(s \ {x}) /\ C(s) = r[x] + C(s \ {x})
      BY <1>3, <3>1
    <3>4. R(s) = C(s)
      BY <3>2, <3>3
    <3> QED
      BY <3>4
  <2> QED
    BY <2>1, <2>2
<1>6. S \in P
  <2> HIDE DEF P
  <2> QED
    BY <1>5, SubsetInd
<1>7. SumFunctionOnSet(part(S), T) = SumFunctionOnSet(c, T)
  BY <1>4, SumEqual
<1> QED
  BY <1>6, <1>7 DEF R, C

\* Nowhere larger.
Below(f, g, S) == \A x \in S : f[x] <= g[x]

\* Larger terms, larger sum.
LEMMA SumBelow ==
  ASSUME NEW S, IsFiniteSet(S), NEW f, NEW g, IntOn(f, S), IntOn(g, S), Below(f, g, S)
  PROVE  SumFunctionOnSet(f, S) <= SumFunctionOnSet(g, S)
<1> DEFINE F(s) == SumFunctionOnSet(f, s)
           G(s) == SumFunctionOnSet(g, s)
           P == {s \in SUBSET S : F(s) <= G(s)}
<1>1. ASSUME NEW s \in SUBSET S, NEW x \in s
      PROVE  /\ F(s) = f[x] + F(s \ {x}) /\ f[x] \in Int /\ F(s \ {x}) \in Int
             /\ G(s) = g[x] + G(s \ {x}) /\ g[x] \in Int /\ G(s \ {x}) \in Int
             /\ f[x] <= g[x]
  <2>1. IsFiniteSet(s) /\ IntOn(f, s) /\ IntOn(g, s)
    BY FS_Subset DEF IntOn
  <2>2. f[x] \in Int /\ g[x] \in Int /\ f[x] <= g[x]
    BY <2>1 DEF IntOn, Below
  <2> QED
    BY <2>1, <2>2, SumRemove
<1>2. F({}) = 0 /\ G({}) = 0
  BY SumEmpty
<1> HIDE DEF F, G
<1>3. Grows(P, S)
  <2> SUFFICES ASSUME NEW s \in SUBSET S, \A x \in s : s \ {x} \in P PROVE s \in P
    BY DEF Grows
  <2>1. CASE s = {}
    BY <1>2, <2>1
  <2>2. CASE s # {}
    <3>1. PICK x \in s : TRUE
      BY <2>2
    <3>2. F(s \ {x}) <= G(s \ {x})
      BY <3>1
    <3>3. F(s) <= G(s)
      BY <1>1, <3>1, <3>2
    <3> QED
      BY <3>3
  <2> QED
    BY <2>1, <2>2
<1>4. S \in P
  <2> HIDE DEF P
  <2> QED
    BY <1>3, SubsetInd
<1> QED
  BY <1>4 DEF F, G

\* A sum of naturals is one, and no less than any of them.
LEMMA SumNat ==
  ASSUME NEW S, IsFiniteSet(S), NEW f, \A x \in S : f[x] \in Nat
  PROVE  /\ SumFunctionOnSet(f, S) \in Nat
         /\ \A x \in S : f[x] <= SumFunctionOnSet(f, S)
<1>1. ASSUME NEW s \in SUBSET S PROVE SumFunctionOnSet(f, s) \in Nat
  <2> DEFINE z == [x \in s |-> 0]
  <2>1. IsFiniteSet(s) /\ IntOn(f, s) /\ IntOn(z, s) /\ Below(z, f, s) /\ \A x \in s : z[x] = 0
    BY FS_Subset DEF IntOn, Below
  <2> HIDE DEF z
  <2>2. SumFunctionOnSet(z, s) = 0 /\ SumFunctionOnSet(z, s) <= SumFunctionOnSet(f, s)
    BY <2>1, SumZero, SumBelow
  <2>3. SumFunctionOnSet(f, s) \in Int
    BY <2>1, SumInt
  <2> QED
    BY <2>2, <2>3
<1>2. ASSUME NEW x \in S PROVE f[x] <= SumFunctionOnSet(f, S)
  <2>1. IntOn(f, S) /\ S \ {x} \in SUBSET S
    BY DEF IntOn
  <2>2. SumFunctionOnSet(f, S) = f[x] + SumFunctionOnSet(f, S \ {x})
    BY <2>1, SumRemove
  <2>3. SumFunctionOnSet(f, S \ {x}) \in Nat /\ f[x] \in Nat
    BY <1>1, <2>1
  <2> QED
    BY <2>2, <2>3
<1> QED
  BY <1>1, <1>2

\* A constant, summed.
LEMMA SumConstant ==
  ASSUME NEW S, IsFiniteSet(S), NEW c \in Int, NEW f, \A x \in S : f[x] = c
  PROVE  SumFunctionOnSet(f, S) = c * Cardinality(S)
<1> DEFINE F(s) == SumFunctionOnSet(f, s)
           P == {s \in SUBSET S : F(s) = c * Cardinality(s)}
<1>1. ASSUME NEW s \in SUBSET S, NEW x \in s
      PROVE  F(s) = c + F(s \ {x}) /\ Cardinality(s) = Cardinality(s \ {x}) + 1
             /\ Cardinality(s \ {x}) \in Nat
  <2>1. IsFiniteSet(s) /\ IntOn(f, s) /\ f[x] = c
    BY FS_Subset DEF IntOn
  <2>2. F(s) = c + F(s \ {x})
    BY <2>1, SumRemove
  <2>3. /\ Cardinality(s) \in Nat /\ Cardinality(s \ {x}) = Cardinality(s) - 1
        /\ IsFiniteSet(s \ {x})
    BY <2>1, FS_RemoveElement, FS_CardinalityType
  <2>4. Cardinality(s \ {x}) \in Nat
    BY <2>3, FS_CardinalityType
  <2> QED
    BY <2>2, <2>3, <2>4
<1>2. F({}) = 0 /\ Cardinality({}) = 0
  BY SumEmpty, FS_EmptySet
<1> HIDE DEF F
<1>3. Grows(P, S)
  <2> SUFFICES ASSUME NEW s \in SUBSET S, \A x \in s : s \ {x} \in P PROVE s \in P
    BY DEF Grows
  <2>1. CASE s = {}
    <3>1. c * 0 = 0
      OBVIOUS
    <3> QED
      BY <1>2, <2>1, <3>1
  <2>2. CASE s # {}
    <3>1. PICK x \in s : TRUE
      BY <2>2
    <3> DEFINE n == Cardinality(s \ {x})
    <3>2. F(s \ {x}) = c * n
      BY <3>1
    <3>3. F(s) = c + F(s \ {x}) /\ Cardinality(s) = n + 1 /\ n \in Nat
      BY <1>1, <3>1
    <3> HIDE DEF n
    <3>4. c + c * n = c * (n + 1)
      BY <3>3
    <3>5. F(s) = c * Cardinality(s)
      BY <3>2, <3>3, <3>4
    <3> QED
      BY <3>5
  <2> QED
    BY <2>1, <2>2
<1>4. S \in P
  <2> HIDE DEF P
  <2> QED
    BY <1>3, SubsetInd
<1> QED
  BY <1>4 DEF F

---------------------------------------------------------------------------
(* Sequences                                                               *)

IsSeq(s) == s \in Seq(Range(s))

\* A sequence over some set is a sequence over its own elements.
LEMMA OwnElements ==
  ASSUME NEW S, NEW s \in Seq(S)
  PROVE  IsSeq(s)
<1>1. PICK n \in Nat : s \in [1 .. n -> S]
  BY SeqDef
<1>2. s \in [1 .. n -> Range(s)]
  BY <1>1 DEF Range
<1> QED
  BY <1>2, SeqDef DEF IsSeq

\* Appending to a sequence of anything.
LEMMA AppendToSeq ==
  ASSUME NEW s, IsSeq(s), NEW e
  PROVE  /\ IsSeq(Append(s, e))
         /\ Len(Append(s, e)) = Len(s) + 1
         /\ \A i \in 1 .. Len(s) : Append(s, e)[i] = s[i]
         /\ Append(s, e)[Len(s) + 1] = e
<1> DEFINE S == Range(s) \cup {e}
<1>1. s \in Seq(S) /\ e \in S
  <2>1. PICK n \in Nat : s \in [1 .. n -> Range(s)]
    BY SeqDef DEF IsSeq
  <2>2. s \in [1 .. n -> S]
    BY <2>1
  <2> QED
    BY <2>2, SeqDef
<1> HIDE DEF S
<1>2. /\ Append(s, e) \in Seq(S)
      /\ Len(Append(s, e)) = Len(s) + 1
      /\ \A i \in 1 .. Len(s) : Append(s, e)[i] = s[i]
      /\ Append(s, e)[Len(s) + 1] = e
  BY <1>1, AppendProperties
<1> QED
  BY <1>2, OwnElements

\* A sequence of one or two elements.
LEMMA ShortSeq ==
  ASSUME NEW a, NEW b
  PROVE  /\ IsSeq(<<a>>) /\ Len(<<a>>) = 1 /\ <<a>>[1] = a
         /\ IsSeq(<<a, b>>) /\ Len(<<a, b>>) = 2 /\ <<a, b>>[1] = a /\ <<a, b>>[2] = b
<1>1. <<a>> \in Seq({a, b}) /\ <<a, b>> \in Seq({a, b})
  OBVIOUS
<1> QED
  BY <1>1, OwnElements

\* A prefix of a sequence of anything.
LEMMA PrefixOfSeq ==
  ASSUME NEW s, IsSeq(s), NEW n \in 0 .. Len(s)
  PROVE  /\ IsSeq(SubSeq(s, 1, n))
         /\ Len(SubSeq(s, 1, n)) = n
         /\ \A i \in 1 .. n : SubSeq(s, 1, n)[i] = s[i]
<1>1. s \in Seq(Range(s)) /\ Len(s) \in Nat
  BY DEF IsSeq
<1>2. /\ SubSeq(s, 1, n) \in Seq(Range(s))
      /\ Len(SubSeq(s, 1, n)) = n
      /\ \A i \in 1 .. n : SubSeq(s, 1, n)[i] = s[i]
  BY <1>1
<1> QED
  BY <1>2, OwnElements

\* kept is what the first n elements of seq leave, at the indices index[1], index[2], ...
KeepsAt(kept, n, seq, at, index) ==
  /\ \A j \in 1 .. Len(kept) : index[j] \in 1 .. n /\ index[j] \in at /\ kept[j] = seq[index[j]]
  /\ \A j, k \in 1 .. Len(kept) : j < k => index[j] < index[k]
  /\ \A i \in 1 .. n : i \in at => \E j \in 1 .. Len(kept) : index[j] = i

\* Keeping keeps the elements asked for, in order.
LEMMA KeptElements ==
  ASSUME NEW S, NEW seq \in Seq(S), NEW at
  PROVE  /\ Kept(seq, at) \in Seq(S)
         /\ Len(Kept(seq, at)) <= Len(seq)
         /\ \E index : KeepsAt(Kept(seq, at), Len(seq), seq, at, index)
<1> DEFINE N == Len(seq)
           Body(g) == [n \in 0 .. N |->
                         IF n = 0 THEN <<>>
                         ELSE IF n \in at THEN Append(g[n - 1], seq[n]) ELSE g[n - 1]]
           kept == CHOOSE g : g = Body(g)
           V == Seq(S)
           none == <<>>
           step == [k \in 1 .. N |-> [v \in V |-> IF k \in at THEN Append(v, seq[k]) ELSE v]]
<1>1. Kept(seq, at) = kept[N]
  BY DEF Kept
<1>2. N \in Nat /\ none \in V /\ \A k \in 1 .. N : seq[k] \in S
  BY ElementOfSeq
<1>3. step \in [1 .. N -> [V -> V]]
  BY <1>2
<1>4. PICK g : g = Body(g)
  <2>1. PICK g : IsChain(g, N, V, none, step)
    <3> HIDE DEF N, V, none, step
    <3> QED
      BY <1>2, <1>3, Chain
  <2>2. \A k \in 1 .. N : g[k] = IF k \in at THEN Append(g[k - 1], seq[k]) ELSE g[k - 1]
    <3> SUFFICES ASSUME NEW k \in 1 .. N
                 PROVE  g[k] = IF k \in at THEN Append(g[k - 1], seq[k]) ELSE g[k - 1]
      OBVIOUS
    <3>1. k - 1 \in 0 .. N
      BY <1>2
    <3>2. g[k - 1] \in V /\ g[k] = step[k][g[k - 1]]
      BY <2>1, <3>1 DEF IsChain
    <3> HIDE DEF V
    <3> QED
      BY <3>2
  <2>3. g \in [0 .. N -> V] /\ g[0] = <<>>
    BY <2>1 DEF IsChain
  <2>4. \A n \in 0 .. N : g[n] = IF n = 0 THEN <<>>
                                 ELSE IF n \in at THEN Append(g[n - 1], seq[n]) ELSE g[n - 1]
    <3> SUFFICES ASSUME NEW n \in 0 .. N
                 PROVE  g[n] = IF n = 0 THEN <<>>
                               ELSE IF n \in at THEN Append(g[n - 1], seq[n]) ELSE g[n - 1]
      OBVIOUS
    <3>1. n # 0 => n \in 1 .. N
      BY <1>2
    <3> QED
      BY <2>2, <2>3, <3>1
  <2> HIDE DEF V
  <2>5. g = Body(g)
    BY <2>3, <2>4
  <2> QED
    BY <2>5
<1>5. kept = Body(kept)
  <2> HIDE DEF Body
  <2> QED
    BY <1>4
<1> HIDE DEF kept
<1>6. kept[0] = <<>> /\ \A k \in 1 .. N :
                          kept[k] = IF k \in at THEN Append(kept[k - 1], seq[k]) ELSE kept[k - 1]
  <2>1. \A n \in 0 .. N : kept[n] = Body(kept)[n]
    BY <1>5
  <2> QED
    BY <1>2, <2>1
<1> DEFINE Good(n) == /\ kept[n] \in Seq(S) /\ Len(kept[n]) <= n
                      /\ \E index : KeepsAt(kept[n], n, seq, at, index)
           T == {n \in 0 .. N : Good(n)}
<1>7. 0 \in T
  <2> DEFINE index == [j \in {} |-> 0]
  <2>1. kept[0] \in Seq(S) /\ Len(kept[0]) = 0
    BY <1>6
  <2>2. KeepsAt(kept[0], 0, seq, at, index)
    BY <2>1 DEF KeepsAt
  <2>3. Good(0)
    BY <2>1, <2>2
  <2> QED
    BY <1>2, <2>3
<1>8. ASSUME NEW n \in 1 .. N, n - 1 \in T PROVE n \in T
  <2> DEFINE old == kept[n - 1]
  <2>1. old \in Seq(S) /\ Len(old) <= n - 1 /\ Len(old) \in Nat /\ n \in Nat /\ seq[n] \in S
    BY <1>2, <1>8
  <2>2. PICK index : KeepsAt(old, n - 1, seq, at, index)
    BY <1>8
  <2>3. ASSUME n \notin at PROVE Good(n)
    <3>1. kept[n] = old
      BY <1>6, <2>3
    <3> HIDE DEF old
    <3>2. KeepsAt(old, n, seq, at, index)
      BY <2>1, <2>2, <2>3 DEF KeepsAt
    <3> QED
      BY <2>1, <3>1, <3>2
  <2>4. ASSUME n \in at PROVE Good(n)
    <3> DEFINE m == Len(old) + 1
               new == Append(old, seq[n])
               more == [j \in 1 .. m |-> IF j = m THEN n ELSE index[j]]
    <3>1. kept[n] = new
      BY <1>6, <2>4
    <3> HIDE DEF old
    <3>2. /\ new \in Seq(S) /\ Len(new) = m /\ m \in Nat /\ m <= n
          /\ new[m] = seq[n] /\ \A j \in 1 .. m - 1 : new[j] = old[j]
      BY <2>1, AppendProperties
    <3> HIDE DEF new
    <3>3. \A j \in 1 .. m - 1 : /\ index[j] \in 1 .. n - 1 /\ index[j] \in at
                                /\ old[j] = seq[index[j]] /\ more[j] = index[j]
      BY <2>1, <2>2 DEF KeepsAt
    <3>4. more[m] = n
      BY <3>2, <2>1
    <3> HIDE DEF more
    <3>5. \A j \in 1 .. m : more[j] \in 1 .. n /\ more[j] \in at /\ new[j] = seq[more[j]]
      BY <2>1, <2>4, <3>2, <3>3, <3>4
    <3>6. \A j, k \in 1 .. m : j < k => more[j] < more[k]
      <4> SUFFICES ASSUME NEW j \in 1 .. m, NEW k \in 1 .. m, j < k PROVE more[j] < more[k]
        OBVIOUS
      <4>1. j \in 1 .. m - 1 /\ more[j] = index[j] /\ index[j] \in 1 .. n - 1
        BY <2>1, <3>3
      <4>2. CASE k = m
        BY <2>1, <3>4, <4>1, <4>2
      <4>3. CASE k # m
        <5>1. k \in 1 .. Len(old) /\ j \in 1 .. Len(old) /\ more[k] = index[k]
          BY <2>1, <3>3, <4>1, <4>3
        <5> QED
          BY <2>2, <4>1, <5>1 DEF KeepsAt
      <4> QED
        BY <4>2, <4>3
    <3>7. \A i \in 1 .. n : i \in at => \E j \in 1 .. m : more[j] = i
      <4> SUFFICES ASSUME NEW i \in 1 .. n, i \in at PROVE \E j \in 1 .. m : more[j] = i
        OBVIOUS
      <4>1. CASE i = n
        BY <2>1, <3>4, <4>1
      <4>2. CASE i # n
        <5>1. i \in 1 .. n - 1
          BY <2>1, <4>2
        <5>2. PICK j \in 1 .. Len(old) : index[j] = i
          BY <2>2, <5>1 DEF KeepsAt
        <5> QED
          BY <2>1, <3>3, <5>2
      <4> QED
        BY <4>1, <4>2
    <3>8. KeepsAt(new, n, seq, at, more)
      BY <3>2, <3>5, <3>6, <3>7 DEF KeepsAt
    <3> HIDE DEF m
    <3> QED
      BY <3>1, <3>2, <3>8
  <2> HIDE DEF Good
  <2> QED
    BY <2>3, <2>4
<1>9. N \in T
  <2> HIDE DEF T
  <2>1. \A k \in 0 .. N : k \in T
    BY <1>2, <1>7, <1>8, UpTo
  <2> QED
    BY <1>2, <2>1
<1> QED
  BY <1>1, <1>9

\* What f adds up to along seq.
ValuesAlong(f, seq) == [i \in 1 .. Len(seq) |-> f[seq[i]]]
SumAlong(f, seq) == SumFunctionOnSet(ValuesAlong(f, seq), 1 .. Len(seq))

\* A total of integers is an integer.
LEMMA TotalInt ==
  ASSUME NEW S, NEW seq \in Seq(S), NEW f, IntOn(f, S)
  PROVE  /\ IsFiniteSet(1 .. Len(seq)) /\ IntOn(ValuesAlong(f, seq), 1 .. Len(seq))
         /\ SumAlong(f, seq) \in Int
<1>1. Len(seq) \in Nat /\ \A i \in 1 .. Len(seq) : seq[i] \in S
  BY ElementOfSeq
<1>2. IsFiniteSet(1 .. Len(seq))
  BY <1>1, FS_Interval
<1>3. IntOn(ValuesAlong(f, seq), 1 .. Len(seq))
  BY <1>1 DEF IntOn, ValuesAlong
<1> QED
  BY <1>2, <1>3, SumInt DEF SumAlong

\* The total over the empty sequence.
LEMMA TotalEmpty ==
  ASSUME NEW f, NEW seq, Len(seq) = 0
  PROVE  SumAlong(f, seq) = 0
<1>1. 1 .. Len(seq) = {}
  OBVIOUS
<1> QED
  BY <1>1, SumEmpty DEF SumAlong

\* Agreement with a sum written out.
LEMMA TotalIs ==
  ASSUME NEW S, NEW seq \in Seq(S), NEW f, IntOn(f, S),
         NEW g, \A i \in 1 .. Len(seq) : g[i] = f[seq[i]]
  PROVE  SumFunctionOnSet(g, 1 .. Len(seq)) = SumAlong(f, seq)
<1>1. Agree(ValuesAlong(f, seq), g, 1 .. Len(seq))
  BY DEF Agree, ValuesAlong
<1> QED
  BY <1>1, TotalInt, SumEqual DEF SumAlong

\* A sum up to n + 1.
LEMMA SumUpTo ==
  ASSUME NEW n \in Nat, NEW f, IntOn(f, 1 .. n + 1)
  PROVE  SumFunctionOnSet(f, 1 .. n + 1) = SumFunctionOnSet(f, 1 .. n) + f[n + 1]
<1> DEFINE A == 1 .. n + 1
           B == 1 .. n
<1>1. n + 1 \in A /\ A \ {n + 1} = B
  OBVIOUS
<1>2. IsFiniteSet(A)
  BY FS_Interval
<1>3. f[n + 1] \in Int
  BY <1>1 DEF IntOn
<1> HIDE DEF A, B
<1>4. IntOn(f, A)
  BY DEF A
<1>5. /\ SumFunctionOnSet(f, A) = f[n + 1] + SumFunctionOnSet(f, B)
      /\ SumFunctionOnSet(f, B) \in Int
  BY <1>1, <1>2, <1>4, SumRemove
<1>6. SumFunctionOnSet(f, A) = SumFunctionOnSet(f, B) + f[n + 1]
  BY <1>3, <1>5
<1> QED
  BY <1>6 DEF A, B

\* One more element.
LEMMA TotalAppend ==
  ASSUME NEW S, NEW seq \in Seq(S), NEW e \in S, NEW f, IntOn(f, S)
  PROVE  SumAlong(f, Append(seq, e)) = SumAlong(f, seq) + f[e]
<1> DEFINE n == Len(seq)
           more == Append(seq, e)
           v == ValuesAlong(f, seq)
           w == ValuesAlong(f, more)
<1>1. /\ more \in Seq(S) /\ Len(more) = n + 1 /\ n \in Nat
      /\ \A i \in 1 .. n : more[i] = seq[i]
      /\ more[n + 1] = e
  BY AppendProperties
<1>2. IsFiniteSet(1 .. n) /\ IntOn(v, 1 .. n) /\ IntOn(w, 1 .. n + 1)
  BY <1>1, TotalInt
<1>3. Agree(v, w, 1 .. n) /\ w[n + 1] = f[e]
  BY <1>1 DEF Agree, ValuesAlong
<1> HIDE DEF v, w, n
<1>4. SumFunctionOnSet(w, 1 .. n + 1) = SumFunctionOnSet(w, 1 .. n) + w[n + 1]
  BY <1>1, <1>2, SumUpTo
<1>5. SumFunctionOnSet(v, 1 .. n) = SumFunctionOnSet(w, 1 .. n)
  BY <1>2, <1>3, SumEqual
<1> QED
  BY <1>1, <1>3, <1>4, <1>5 DEF SumAlong, v, w, n

\* One sequence after another.
LEMMA TotalConcat ==
  ASSUME NEW S, NEW s \in Seq(S), NEW t \in Seq(S), NEW f, IntOn(f, S)
  PROVE  SumAlong(f, s \o t) = SumAlong(f, s) + SumAlong(f, t)
<1> DEFINE m == Len(s)
           n == Len(t)
           u == s \o t
           v == ValuesAlong(f, u)
           w == ValuesAlong(f, t)
           back == [i \in 1 .. n |-> m + i]
           A == 1 .. m
           B == m + 1 .. m + n
<1>1. /\ u \in Seq(S) /\ Len(u) = m + n /\ m \in Nat /\ n \in Nat
      /\ \A i \in 1 .. m : u[i] = s[i]
      /\ \A i \in 1 .. n : u[m + i] = t[i]
  BY ConcatProperties
<1>0. m \in Int /\ n \in Int /\ m + 1 \in Int /\ m + n \in Int
  BY <1>1
<1>12. IsFiniteSet(A) /\ IsFiniteSet(B) /\ IsFiniteSet(1 .. n)
  BY <1>0, FS_Interval
<1>13. A \cap B = {} /\ A \cup B = 1 .. m + n
  BY <1>1
<1>2. /\ IsFiniteSet(A) /\ IsFiniteSet(B) /\ IsFiniteSet(1 .. n) /\ A \cap B = {}
      /\ A \cup B = 1 .. Len(u)
  BY <1>1, <1>12, <1>13
<1>3. IntOn(v, A \cup B) /\ IntOn(w, 1 .. n)
  <2>1. IntOn(v, 1 .. Len(u)) /\ IntOn(w, 1 .. Len(t))
    <3> HIDE DEF u
    <3> QED
      BY <1>1, TotalInt
  <2> QED
    BY <1>2, <2>1
<1>4. Numbers(back, 1 .. n, B)
  <2>1. \A i \in 1 .. n : back[i] = m + i /\ back[i] \in B
    BY <1>1
  <2>2. \A i \in B : i - m \in 1 .. n /\ back[i - m] = i
    BY <1>1
  <2>3. \A i, j \in 1 .. n : back[i] = back[j] => i = j
    BY <1>1, <2>1
  <2> HIDE DEF back, B
  <2> QED
    BY <2>1, <2>2, <2>3 DEF Numbers
<1>5. Along(w, v, back, 1 .. n) /\ IntOn(v, B) /\ IntOn(v, A)
  BY <1>1, <1>3 DEF Along, ValuesAlong, IntOn
<1>6. \A i \in A : v[i] = f[s[i]]
  BY <1>1 DEF ValuesAlong
<1> HIDE DEF v, w, back, A, B, u
<1>7. SumFunctionOnSet(v, A \cup B) = SumFunctionOnSet(v, A) + SumFunctionOnSet(v, B)
  BY <1>2, <1>3, SumUnion
<1>8. SumFunctionOnSet(w, 1 .. n) = SumFunctionOnSet(v, B)
  BY <1>2, <1>4, <1>5, SumReindex
<1>9. SumFunctionOnSet(v, A) = SumAlong(f, s)
  BY <1>6, TotalIs DEF A
<1>10. SumFunctionOnSet(v, A \cup B) = SumAlong(f, u)
  BY <1>2 DEF SumAlong, v
<1>11. SumFunctionOnSet(w, 1 .. n) = SumAlong(f, t)
  BY DEF SumAlong, w
<1> QED
  BY <1>7, <1>8, <1>9, <1>10, <1>11 DEF u

\* The total over the elements kept.
LEMMA TotalKept ==
  ASSUME NEW S, NEW seq \in Seq(S), NEW at, NEW f, IntOn(f, S),
         NEW h, \A i \in 1 .. Len(seq) : h[i] = IF i \in at THEN f[seq[i]] ELSE 0
  PROVE  SumAlong(f, Kept(seq, at)) = SumFunctionOnSet(h, 1 .. Len(seq))
<1> DEFINE kept == Kept(seq, at)
           N == Len(seq)
           M == Len(kept)
           I == {i \in 1 .. N : i \in at}
           g == ValuesAlong(f, kept)
<1>1. kept \in Seq(S)
  BY KeptElements
<1>2. PICK index : KeepsAt(kept, N, seq, at, index)
  BY KeptElements
<1>3. N \in Nat /\ M \in Nat /\ \A i \in 1 .. N : seq[i] \in S
  BY <1>1, ElementOfSeq
<1>4. IsFiniteSet(1 .. N) /\ IsFiniteSet(1 .. M) /\ I \in SUBSET (1 .. N)
  BY <1>3, FS_Interval
<1>5. IsFiniteSet(I)
  BY <1>4, FS_Subset
<1> HIDE DEF kept
<1>6. Numbers(index, 1 .. M, I)
  <2>1. \A j \in 1 .. M : index[j] \in I
    BY <1>2 DEF KeepsAt
  <2>2. ASSUME NEW j \in 1 .. M, NEW k \in 1 .. M, index[j] = index[k] PROVE j = k
    <3>1. index[j] \in Int /\ ~(index[j] < index[k]) /\ ~(index[k] < index[j])
      BY <1>3, <2>1, <2>2
    <3>2. ~(j < k) /\ ~(k < j)
      BY <1>2, <3>1 DEF KeepsAt
    <3> QED
      BY <1>3, <3>2
  <2>3. \A i \in I : \E j \in 1 .. M : index[j] = i
    BY <1>2 DEF KeepsAt
  <2> HIDE DEF I
  <2> QED
    BY <2>1, <2>2, <2>3 DEF Numbers
<1>7. IntOn(h, 1 .. N) /\ IntOn(h, I)
  BY <1>3 DEF IntOn
<1>8. \A i \in (1 .. N) \ I : h[i] = 0
  OBVIOUS
<1>9. Along(g, h, index, 1 .. M)
  BY <1>2, <1>6 DEF Along, ValuesAlong, KeepsAt, Numbers
<1> HIDE DEF g, I
<1>10. SumFunctionOnSet(h, 1 .. N) = SumFunctionOnSet(h, I)
  BY <1>4, <1>7, <1>8, SumRestrict
<1>11. SumFunctionOnSet(g, 1 .. M) = SumFunctionOnSet(h, I)
  BY <1>4, <1>5, <1>6, <1>7, <1>9, SumReindex
<1> QED
  BY <1>10, <1>11 DEF SumAlong, g, kept

\* How FlattenSeq goes through its argument.
Flattens(F, seqs, S) ==
  /\ F[0] = <<>>
  /\ FlattenSeq(seqs) = F[Len(seqs)]
  /\ \A k \in 0 .. Len(seqs) : F[k] \in Seq(S)
  /\ \A k \in 1 .. Len(seqs) : F[k] = F[k - 1] \o seqs[k]

\* Flattening is concatenating one sequence after another.
LEMMA FlattenUnfolds ==
  ASSUME NEW S, NEW seqs \in Seq(Seq(S))
  PROVE  \E F : Flattens(F, seqs, S)
<1> DEFINE N == Len(seqs)
           V == Seq(S)
           none == <<>>
           Body(g) == [i \in 1 .. N |-> IF i = 1 THEN seqs[i] ELSE g[i - 1] \o seqs[i]]
           flatten == CHOOSE g : g = Body(g)
           step == [k \in 1 .. N |-> [v \in V |-> v \o seqs[k]]]
           F == [k \in 0 .. N |-> IF k = 0 THEN <<>> ELSE flatten[k]]
<1>1. FlattenSeq(seqs) = IF N = 0 THEN seqs ELSE flatten[N]
  BY DEF FlattenSeq
<1>2. N \in Nat /\ none \in V /\ \A k \in 1 .. N : seqs[k] \in Seq(S)
  BY ElementOfSeq
<1>3. step \in [1 .. N -> [V -> V]]
  BY <1>2
<1>4. PICK g : IsChain(g, N, V, none, step)
  <2> HIDE DEF N, V, none, step
  <2> QED
    BY <1>2, <1>3, Chain
<1>5. \A k \in 1 .. N : g[k] \in Seq(S) /\ g[k] = g[k - 1] \o seqs[k]
  <2> SUFFICES ASSUME NEW k \in 1 .. N PROVE g[k] \in Seq(S) /\ g[k] = g[k - 1] \o seqs[k]
    OBVIOUS
  <2>1. k - 1 \in 0 .. N /\ k \in 0 .. N
    BY <1>2
  <2>2. g[k - 1] \in V /\ g[k] \in V /\ g[k] = step[k][g[k - 1]]
    BY <1>4, <2>1 DEF IsChain
  <2>3. step[k][g[k - 1]] = g[k - 1] \o seqs[k]
    <3> HIDE DEF V
    <3> QED
      BY <2>2
  <2> QED
    BY <2>2, <2>3
<1>6. g[0] = <<>>
  BY <1>4 DEF IsChain
<1>7. N >= 1 => g[1] = seqs[1]
  <2> SUFFICES ASSUME N >= 1 PROVE g[1] = seqs[1]
    OBVIOUS
  <2>1. 1 \in 1 .. N /\ 1 - 1 = 0
    BY <1>2
  <2>2. g[1] = g[0] \o seqs[1]
    BY <1>5, <2>1
  <2>3. seqs[1] \in Seq(S)
    BY <1>2, <2>1
  <2> QED
    BY <1>6, <2>2, <2>3, ConcatEmptySeq
<1> DEFINE G == [i \in 1 .. N |-> g[i]]
<1>8. G = Body(G)
  <2>1. ASSUME NEW i \in 1 .. N
        PROVE  G[i] = IF i = 1 THEN seqs[i] ELSE G[i - 1] \o seqs[i]
    <3>1. CASE i = 1
      BY <1>2, <1>7, <3>1
    <3>2. CASE i # 1
      <4>1. i - 1 \in 1 .. N
        BY <1>2, <3>2
      <4>2. G[i] = g[i] /\ G[i - 1] = g[i - 1]
        BY <4>1
      <4> HIDE DEF G
      <4> QED
        BY <1>5, <3>2, <4>2
    <3> QED
      BY <3>1, <3>2
  <2> HIDE DEF V, step
  <2> QED
    BY <2>1
<1>9. flatten = Body(flatten)
  <2> HIDE DEF Body, G
  <2> QED
    BY <1>8
<1> HIDE DEF flatten
<1>10. \A i \in 1 .. N : flatten[i] = IF i = 1 THEN seqs[i] ELSE flatten[i - 1] \o seqs[i]
  BY <1>9
<1>11. ASSUME NEW k \in 1 .. N PROVE F[k] = F[k - 1] \o seqs[k]
  <2>1. k - 1 \in 0 .. N /\ seqs[k] \in Seq(S) /\ F[k] = flatten[k]
    BY <1>2
  <2>2. CASE k = 1
    <3>1. F[k - 1] = <<>> /\ flatten[k] = seqs[k]
      BY <1>10, <2>1, <2>2
    <3> HIDE DEF F
    <3> QED
      BY <2>1, <3>1, ConcatEmptySeq
  <2>3. CASE k # 1
    <3>1. k - 1 # 0 /\ F[k - 1] = flatten[k - 1]
      BY <1>2, <2>1, <2>3
    <3> HIDE DEF F
    <3> QED
      BY <1>10, <2>1, <2>3, <3>1
  <2> QED
    BY <2>2, <2>3
<1>12. \A k \in 0 .. N : F[k] \in Seq(S)
  <2> DEFINE T == {k \in 0 .. N : F[k] \in Seq(S)}
  <2>1. 0 \in T
    BY <1>2
  <2>2. ASSUME NEW k \in 1 .. N, k - 1 \in T PROVE k \in T
    <3>1. F[k] = F[k - 1] \o seqs[k] /\ F[k - 1] \in Seq(S) /\ seqs[k] \in Seq(S)
      BY <1>2, <1>11, <2>2
    <3> HIDE DEF F
    <3>2. F[k - 1] \o seqs[k] \in Seq(S)
      BY <3>1, ConcatProperties
    <3>3. F[k] \in Seq(S) /\ k \in 0 .. N
      BY <1>2, <3>1, <3>2
    <3> QED
      BY <3>3
  <2> HIDE DEF T
  <2>3. \A k \in 0 .. N : k \in T
    BY <1>2, <2>1, <2>2, UpTo
  <2> QED
    BY <2>3 DEF T
<1>13. FlattenSeq(seqs) = F[N]
  <2>1. CASE N = 0
    <3>1. seqs = <<>>
      BY <2>1
    <3> QED
      BY <1>1, <2>1, <3>1
  <2>2. CASE N # 0
    BY <1>1, <1>2, <2>2
  <2> QED
    BY <2>1, <2>2
<1>14. F[0] = <<>>
  BY <1>2
<1> HIDE DEF F
<1> QED
  BY <1>11, <1>12, <1>13, <1>14 DEF Flattens

\* The elements of a flattened sequence, and their total.
LEMMA FlattenElements ==
  ASSUME NEW S, NEW seqs \in Seq(Seq(S))
  PROVE  /\ FlattenSeq(seqs) \in Seq(S)
         /\ Range(FlattenSeq(seqs)) = UNION {Range(seqs[i]) : i \in 1 .. Len(seqs)}
<1> DEFINE N == Len(seqs)
<1>1. PICK F : Flattens(F, seqs, S)
  BY FlattenUnfolds
<1>2. N \in Nat /\ \A k \in 1 .. N : seqs[k] \in Seq(S)
  BY ElementOfSeq
<1> DEFINE upTo(k) == UNION {Range(seqs[i]) : i \in 1 .. k}
           T == {k \in 0 .. N : Range(F[k]) = upTo(k)}
<1>3. 0 \in T
  <2>1. F[0] = <<>>
    BY <1>1 DEF Flattens
  <2>2. Range(F[0]) = {} /\ upTo(0) = {}
    BY <2>1 DEF Range
  <2> QED
    BY <1>2, <2>2
<1>4. ASSUME NEW k \in 1 .. N, k - 1 \in T PROVE k \in T
  <2>0. k - 1 \in 0 .. N
    BY <1>2
  <2>1. F[k - 1] \in Seq(S) /\ seqs[k] \in Seq(S) /\ F[k] = F[k - 1] \o seqs[k]
    BY <1>1, <1>2, <2>0 DEF Flattens
  <2>2. Range(F[k]) = Range(F[k - 1]) \cup Range(seqs[k])
    BY <2>1, RangeConcatenation
  <2>3. 1 .. k = 1 .. k - 1 \cup {k}
    BY <1>2
  <2>4. upTo(k) = upTo(k - 1) \cup Range(seqs[k])
    BY <2>3
  <2>5. Range(F[k - 1]) = upTo(k - 1)
    BY <1>4
  <2> HIDE DEF upTo
  <2>6. Range(F[k]) = upTo(k) /\ k \in 0 .. N
    BY <1>2, <2>2, <2>4, <2>5
  <2> QED
    BY <2>6
<1>5. N \in T
  <2> HIDE DEF T
  <2>1. \A k \in 0 .. N : k \in T
    BY <1>2, <1>3, <1>4, UpTo
  <2> QED
    BY <1>2, <2>1
<1>6. FlattenSeq(seqs) = F[N] /\ F[N] \in Seq(S)
  BY <1>1, <1>2 DEF Flattens
<1> QED
  BY <1>5, <1>6

\* The total over a flattened sequence is the total of the totals.
LEMMA TotalFlatten ==
  ASSUME NEW S, NEW seqs \in Seq(Seq(S)), NEW f, IntOn(f, S),
         NEW h, \A i \in 1 .. Len(seqs) : h[i] = SumAlong(f, seqs[i])
  PROVE  SumAlong(f, FlattenSeq(seqs)) = SumFunctionOnSet(h, 1 .. Len(seqs))
<1> DEFINE N == Len(seqs)
<1>1. PICK F : Flattens(F, seqs, S)
  BY FlattenUnfolds
<1>2. N \in Nat /\ \A k \in 1 .. N : seqs[k] \in Seq(S)
  BY ElementOfSeq
<1>3. IntOn(h, 1 .. N)
  BY <1>2, TotalInt DEF IntOn
<1> DEFINE T == {k \in 0 .. N : SumAlong(f, F[k]) = SumFunctionOnSet(h, 1 .. k)}
<1>4. 0 \in T
  <2>1. Len(F[0]) = 0 /\ 1 .. 0 = {}
    BY <1>1 DEF Flattens
  <2>2. SumAlong(f, F[0]) = 0 /\ SumFunctionOnSet(h, 1 .. 0) = 0
    BY <2>1, TotalEmpty, SumEmpty
  <2> QED
    BY <1>2, <2>2
<1>5. ASSUME NEW k \in 1 .. N, k - 1 \in T PROVE k \in T
  <2>0. k - 1 \in 0 .. N
    BY <1>2
  <2>1. F[k - 1] \in Seq(S) /\ seqs[k] \in Seq(S) /\ F[k] = F[k - 1] \o seqs[k]
    BY <1>1, <1>2, <2>0 DEF Flattens
  <2>2. SumAlong(f, F[k]) = SumAlong(f, F[k - 1]) + h[k]
    BY <2>1, TotalConcat
  <2>3. k - 1 \in Nat /\ (k - 1) + 1 = k /\ IntOn(h, 1 .. (k - 1) + 1)
    BY <1>2, <1>3 DEF IntOn
  <2>4. SumFunctionOnSet(h, 1 .. (k - 1) + 1) = SumFunctionOnSet(h, 1 .. k - 1) + h[(k - 1) + 1]
    BY <2>3, SumUpTo
  <2>5. SumAlong(f, F[k - 1]) = SumFunctionOnSet(h, 1 .. k - 1)
    BY <1>5
  <2>6. SumAlong(f, F[k]) = SumFunctionOnSet(h, 1 .. k)
    BY <2>2, <2>3, <2>4, <2>5
  <2> QED
    BY <1>2, <2>6
<1>6. N \in T
  <2> HIDE DEF T
  <2>1. \A k \in 0 .. N : k \in T
    BY <1>2, <1>4, <1>5, UpTo
  <2> QED
    BY <1>2, <2>1
<1>7. FlattenSeq(seqs) = F[N]
  BY <1>1 DEF Flattens
<1> QED
  BY <1>6, <1>7

\* The number of elements, as a sum.
LEMMA LengthIsTotal ==
  ASSUME NEW S, NEW seq \in Seq(S)
  PROVE  SumAlong([x \in S |-> 1], seq) = Len(seq)
<1> DEFINE one == [x \in S |-> 1]
           v == ValuesAlong(one, seq)
<1>1. Len(seq) \in Nat /\ \A i \in 1 .. Len(seq) : seq[i] \in S
  BY ElementOfSeq
<1>2. \A i \in 1 .. Len(seq) : v[i] = 1
  BY <1>1 DEF ValuesAlong
<1>3. IsFiniteSet(1 .. Len(seq)) /\ Cardinality(1 .. Len(seq)) = Len(seq)
  <2> DEFINE n == Len(seq)
  <2>1. n \in Int /\ 1 \in Int /\ n >= 0
    BY <1>1
  <2> HIDE DEF n
  <2>2. IsFiniteSet(1 .. n) /\ Cardinality(1 .. n) = IF 1 > n THEN 0 ELSE n - 1 + 1
    BY <2>1, FS_Interval
  <2>3. Cardinality(1 .. n) = n
    BY <2>1, <2>2
  <2> QED
    BY <2>2, <2>3 DEF n
<1> HIDE DEF v
<1>4. SumFunctionOnSet(v, 1 .. Len(seq)) = 1 * Cardinality(1 .. Len(seq))
  BY <1>2, <1>3, SumConstant
<1> QED
  BY <1>1, <1>3, <1>4 DEF SumAlong, v

\* A flattened sequence of short sequences.
LEMMA FlattenLength ==
  ASSUME NEW S, NEW seqs \in Seq(Seq(S)),
         NEW h, \A i \in 1 .. Len(seqs) : h[i] = Len(seqs[i])
  PROVE  Len(FlattenSeq(seqs)) = SumFunctionOnSet(h, 1 .. Len(seqs))
<1> DEFINE one == [x \in S |-> 1]
<1>1. IntOn(one, S) /\ FlattenSeq(seqs) \in Seq(S)
  BY FlattenElements DEF IntOn
<1>2. \A i \in 1 .. Len(seqs) : h[i] = SumAlong(one, seqs[i])
  BY ElementOfSeq, LengthIsTotal
<1>3. SumAlong(one, FlattenSeq(seqs)) = Len(FlattenSeq(seqs))
  BY <1>1, LengthIsTotal
<1> HIDE DEF one
<1> QED
  BY <1>1, <1>2, <1>3, TotalFlatten

\* A nonempty set of indices has a last one.
LEMMA LastIndex ==
  ASSUME NEW n \in Nat, NEW I, I \subseteq 1 .. n, I # {}
  PROVE  \E m \in I : \A k \in I : k <= m
<1>1. I \subseteq 0 .. n
  OBVIOUS
<1> QED
  BY <1>1, Greatest

\* The total over the elements from the i-th on.
From(f, seq, i) == SumFunctionOnSet(ValuesAlong(f, seq), i .. Len(seq))

\* It loses one element at a time.
LEMMA FromNext ==
  ASSUME NEW S, NEW seq \in Seq(S), NEW f, IntOn(f, S), NEW i \in 1 .. Len(seq) + 1
  PROVE  /\ From(f, seq, i) \in Int
         /\ i <= Len(seq) =>
              f[seq[i]] \in Int /\ From(f, seq, i) = f[seq[i]] + From(f, seq, i + 1)
<1> DEFINE v == ValuesAlong(f, seq)
           n == Len(seq)
<1>1. IntOn(v, 1 .. n) /\ n \in Nat
  BY TotalInt
<1>2. IntOn(v, i .. n) /\ IsFiniteSet(i .. n)
  <2>1. i \in Int /\ n \in Int
    BY <1>1
  <2>2. IsFiniteSet(i .. n)
    <3> HIDE DEF n
    <3> QED BY <2>1, FS_Interval
  <2>3. i .. n \subseteq 1 .. n
    BY <1>1
  <2> HIDE DEF v, n
  <2> QED BY <1>1, <2>2, <2>3 DEF IntOn
<1>3. From(f, seq, i) \in Int
  <2> HIDE DEF v
  <2> QED BY <1>2, SumInt DEF From, v
<1>4. ASSUME i <= n
      PROVE  f[seq[i]] \in Int /\ From(f, seq, i) = f[seq[i]] + From(f, seq, i + 1)
  <2>1. i \in i .. n /\ (i .. n) \ {i} = i + 1 .. n
    BY <1>1, <1>4
  <2>2. v[i] = f[seq[i]] /\ v[i] \in Int
    BY <1>1, <1>4 DEF ValuesAlong, IntOn
  <2>3. SumFunctionOnSet(v, i .. n) = v[i] + SumFunctionOnSet(v, (i .. n) \ {i})
    <3> HIDE DEF v, n
    <3> QED BY <1>2, <2>1, SumRemove
  <2> HIDE DEF n
  <2> QED BY <2>1, <2>2, <2>3 DEF From, n
<1> QED BY <1>3, <1>4

\* From the first it is the total, from behind the last nothing.
LEMMA FromEnds ==
  ASSUME NEW S, NEW seq \in Seq(S), NEW f, IntOn(f, S)
  PROVE  /\ From(f, seq, 1) = SumAlong(f, seq)
         /\ From(f, seq, Len(seq) + 1) = 0
<1>1. Len(seq) + 1 .. Len(seq) = {}
  OBVIOUS
<1> QED BY <1>1, SumEmpty DEF From, SumAlong

\* A tail has its elements, and their total.
LEMMA TailOfSeq ==
  ASSUME NEW S, NEW seq \in Seq(S), NEW i \in 1 .. Len(seq) + 1
  PROVE  /\ SubSeq(seq, i, Len(seq)) \in Seq(S)
         /\ Len(SubSeq(seq, i, Len(seq))) = Len(seq) + 1 - i
         /\ \A k \in 1 .. Len(seq) + 1 - i : SubSeq(seq, i, Len(seq))[k] = seq[i + k - 1]
<1> DEFINE n == Len(seq)
           m == n + 1 - i
<1>1. n \in Nat /\ i \in Int /\ m \in Nat
  OBVIOUS
<1>2. SubSeq(seq, i, n) = [k \in 1 .. 1 + n - i |-> seq[i + k - 1]]
  OBVIOUS
<1>3. 1 + n - i = m
  BY <1>1
<1>4. \A k \in 1 .. m : seq[i + k - 1] \in S
  <2> SUFFICES ASSUME NEW k \in 1 .. m PROVE seq[i + k - 1] \in S
    OBVIOUS
  <2>1. i + k - 1 \in 1 .. Len(seq)
    BY <1>1
  <2> QED BY <2>1
<1> HIDE DEF m
<1> QED BY <1>1, <1>2, <1>3, <1>4 DEF m

\* The total of a tail.
LEMMA TotalTail ==
  ASSUME NEW S, NEW seq \in Seq(S), NEW f, IntOn(f, S), NEW i \in 1 .. Len(seq) + 1
  PROVE  SumAlong(f, SubSeq(seq, i, Len(seq))) = From(f, seq, i)
<1> DEFINE n == Len(seq)
           tail == SubSeq(seq, i, n)
           m == n + 1 - i
           v == ValuesAlong(f, seq)
           w == ValuesAlong(f, tail)
           h == [k \in 1 .. m |-> i + k - 1]
<1>1. /\ tail \in Seq(S) /\ Len(tail) = m
      /\ \A k \in 1 .. m : tail[k] = seq[i + k - 1]
  BY TailOfSeq
<1>2. n \in Nat /\ m \in Nat /\ i \in Int /\ i \in 1 .. n + 1 /\ n = i + m - 1
  OBVIOUS
<1>3. IsFiniteSet(1 .. m) /\ IsFiniteSet(i .. n) /\ IsFiniteSet(1 .. n) /\ IntOn(v, 1 .. n)
  <2>1. IntOn(v, 1 .. n)
    BY TotalInt
  <2> HIDE DEF m, n
  <2> QED BY <1>2, <2>1, FS_Interval
<1>4. IntOn(v, i .. n)
  <2>1. i .. n \subseteq 1 .. n
    BY <1>2
  <2> HIDE DEF v, n
  <2> QED BY <1>3, <2>1 DEF IntOn
<1>5. Numbers(h, 1 .. m, i .. n)
  <2>1. \A k \in 1 .. m : h[k] = i + k - 1 /\ h[k] \in i .. n
    BY <1>2
  <2>2. \A x \in i .. n : x - i + 1 \in 1 .. m /\ h[x - i + 1] = x
    BY <1>2
  <2>3. \A j, k \in 1 .. m : h[j] = h[k] => j = k
    BY <1>2, <2>1
  <2> HIDE DEF h, m, n
  <2> QED BY <2>1, <2>2, <2>3 DEF Numbers
<1>6. Along(w, v, h, 1 .. m)
  <2> SUFFICES ASSUME NEW k \in 1 .. m PROVE w[k] = v[h[k]]
    BY DEF Along
  <2>1. w[k] = f[tail[k]]
    BY <1>1 DEF ValuesAlong
  <2>2. h[k] = i + k - 1 /\ i + k - 1 \in 1 .. n
    BY <1>2
  <2>3. v[i + k - 1] = f[seq[i + k - 1]]
    BY <2>2 DEF ValuesAlong
  <2> HIDE DEF v, w, h, tail
  <2> QED BY <1>1, <2>1, <2>2, <2>3
<1> HIDE DEF v, w, h, m, n
<1>7. SumFunctionOnSet(w, 1 .. m) = SumFunctionOnSet(v, i .. n)
  BY <1>3, <1>4, <1>5, <1>6, SumReindex
<1> QED BY <1>1, <1>7 DEF SumAlong, From, w, v, n

\* A total over no, one or two elements.
LEMMA TotalShort ==
  ASSUME NEW S, NEW f, IntOn(f, S), NEW a \in S, NEW b \in S
  PROVE  /\ SumAlong(f, <<>>) = 0
         /\ <<a>> \in Seq(S) /\ SumAlong(f, <<a>>) = f[a]
         /\ <<a, b>> \in Seq(S) /\ SumAlong(f, <<a, b>>) = f[a] + f[b]
<1>1. <<a>> \in Seq(S) /\ <<a, b>> \in Seq(S) /\ Len(<<>>) = 0
  OBVIOUS
<1>2. SumAlong(f, <<>>) = 0
  BY <1>1, TotalEmpty
<1>3. SumAlong(f, <<a>>) = f[a]
  <2> DEFINE v == ValuesAlong(f, <<a>>)
  <2>1. 1 .. Len(<<a>>) = {1} /\ v[1] = f[a] /\ f[a] \in Int
    BY DEF ValuesAlong, IntOn
  <2> HIDE DEF v
  <2>2. SumFunctionOnSet(v, {1}) = v[1]
    BY <2>1, SumOfOne
  <2> QED BY <2>1, <2>2 DEF SumAlong, v
<1>4. SumAlong(f, <<a, b>>) = f[a] + f[b]
  <2> DEFINE v == ValuesAlong(f, <<a, b>>)
  <2>1. /\ 1 .. Len(<<a, b>>) = 1 .. 2 /\ v[1] = f[a] /\ v[2] = f[b]
        /\ f[a] \in Int /\ f[b] \in Int
    BY DEF ValuesAlong, IntOn
  <2> HIDE DEF v
  <2>2. SumFunctionOnSet(v, {1}) = v[1]
    BY <2>1, SumOfOne
  <2>3. 1 .. 1 = {1} /\ 1 \in Nat /\ 1 + 1 = 2 /\ 1 .. 1 + 1 = 1 .. 2
    OBVIOUS
  <2>4. IntOn(v, 1 .. 1 + 1)
    <3>1. \A i \in 1 .. 2 : i = 1 \/ i = 2
      OBVIOUS
    <3> QED BY <2>1, <2>3, <3>1 DEF IntOn
  <2>5. SumFunctionOnSet(v, 1 .. 1 + 1) = SumFunctionOnSet(v, 1 .. 1) + v[1 + 1]
    BY <2>3, <2>4, SumUpTo
  <2>6. SumFunctionOnSet(v, 1 .. 2) = f[a] + f[b]
    BY <2>1, <2>2, <2>3, <2>5
  <2> QED BY <2>1, <2>6 DEF SumAlong, v
<1> QED BY <1>1, <1>2, <1>3, <1>4

\* Two sequences of one element end to end.
LEMMA ShortConcat ==
  ASSUME NEW S, NEW a \in S, NEW b \in S
  PROVE  <<a>> \o <<>> = <<a>> /\ <<a>> \o <<b>> = <<a, b>>
<1>1. <<a>> \in Seq(S) /\ <<b>> \in Seq(S) /\ <<a, b>> \in Seq(S)
  OBVIOUS
<1>2. <<a>> \o <<>> = <<a>>
  BY <1>1, ConcatEmptySeq
<1>3. /\ Len(<<a>> \o <<b>>) = 2 /\ <<a>> \o <<b>> \in Seq(S)
      /\ (<<a>> \o <<b>>)[1] = a /\ (<<a>> \o <<b>>)[2] = b
  BY <1>1, ConcatProperties
<1> DEFINE s == <<a>> \o <<b>>
           u == <<a, b>>
<1>4. Len(u) = 2 /\ u[1] = a /\ u[2] = b /\ u \in Seq(S)
  OBVIOUS
<1>5. s = u
  <2>1. s \in Seq(S) /\ Len(s) = 2 /\ s[1] = a /\ s[2] = b
    BY <1>3
  <2> HIDE DEF s, u
  <2>2. \A i \in 1 .. 2 : s[i] = u[i]
    BY <1>4, <2>1
  <2>3. Len(s) = Len(u) /\ \A i \in 1 .. Len(s) : s[i] = u[i]
    BY <1>4, <2>1, <2>2
  <2> QED BY <1>4, <2>1, <2>3, SeqEqual
<1> QED BY <1>2, <1>5

\* A sum bounded term by term.
LEMMA FlattenBound ==
  ASSUME NEW S, NEW seqs \in Seq(Seq(S)), NEW m \in Nat, \A i \in 1 .. Len(seqs) : Len(seqs[i]) <= m
  PROVE  Len(FlattenSeq(seqs)) <= Len(seqs) * m
<1> DEFINE n == Len(seqs)
           h == [i \in 1 .. n |-> Len(seqs[i])]
           g == [i \in 1 .. n |-> m]
<1>1. \A i \in 1 .. n : h[i] = Len(seqs[i]) /\ h[i] \in Int /\ h[i] <= m
  BY ElementOfSeq
<1>2. Len(FlattenSeq(seqs)) = SumFunctionOnSet(h, 1 .. n)
  <2> HIDE DEF h
  <2> QED BY <1>1, FlattenLength
<1>3. n \in Nat /\ IsFiniteSet(1 .. n) /\ Cardinality(1 .. n) = n
  <2>1. n \in Nat
    OBVIOUS
  <2> HIDE DEF n
  <2>2. \A top \in Int : /\ IsFiniteSet(1 .. top)
                         /\ Cardinality(1 .. top) = IF 1 > top THEN 0 ELSE top - 1 + 1
    BY FS_Interval
  <2> QED BY <2>1, <2>2
<1>4. \A i \in 1 .. n : g[i] = m
  OBVIOUS
<1>5. IntOn(h, 1 .. n) /\ IntOn(g, 1 .. n) /\ Below(h, g, 1 .. n)
  <2> HIDE DEF h, g, n
  <2> QED BY <1>1, <1>4 DEF IntOn, Below
<1> HIDE DEF h, g, n
<1>6. SumFunctionOnSet(h, 1 .. n) <= SumFunctionOnSet(g, 1 .. n)
  BY <1>3, <1>5, SumBelow
<1>7. SumFunctionOnSet(g, 1 .. n) = m * n
  BY <1>3, <1>4, SumConstant
<1>8. m * n = n * m
  BY <1>3
<1> QED BY <1>2, <1>6, <1>7, <1>8 DEF n

\* start says where each part of a flattened sequence ends and the next begins.
Begins(start, seqs) ==
  /\ start[0] = 0
  /\ \A i \in 1 .. Len(seqs) : start[i] = start[i - 1] + Len(seqs[i])

\* These places do not decrease.
LEMMA BeginsGrow ==
  ASSUME NEW S, NEW seqs \in Seq(Seq(S)), NEW start, Begins(start, seqs)
  PROVE  \A n \in 0 .. Len(seqs) : start[n] \in Nat /\ \A i \in 0 .. n : start[i] <= start[n]
<1> DEFINE N == Len(seqs)
           T == {n \in 0 .. N : \A i \in 0 .. n : start[n] \in Nat /\ start[i] \in Nat /\ start[i] <= start[n]}
<1>1. N \in Nat /\ \A k \in 1 .. N : Len(seqs[k]) \in Nat
  BY ElementOfSeq
<1>2. /\ start[0] = 0
      /\ \A i \in 1 .. N : start[i] = start[i - 1] + Len(seqs[i])
  BY DEF Begins
<1> HIDE DEF N
<1>3. 0 \in T
  BY <1>1, <1>2
<1>4. ASSUME NEW n \in 1 .. N, n - 1 \in T PROVE n \in T
  <2>1. \A i \in 0 .. n - 1 : start[n - 1] \in Nat /\ start[i] \in Nat /\ start[i] <= start[n - 1]
    BY <1>4
  <2>2. start[n - 1] \in Nat /\ start[n] = start[n - 1] + Len(seqs[n]) /\ Len(seqs[n]) \in Nat
    BY <1>1, <1>2, <2>1
  <2>3. start[n] \in Nat /\ start[n - 1] <= start[n]
    BY <2>2
  <2>4. ASSUME NEW i \in 0 .. n PROVE start[i] \in Nat /\ start[i] <= start[n]
    <3>1. CASE i = n
      BY <2>3, <3>1
    <3>2. CASE i # n
      <4>1. i \in 0 .. n - 1
        BY <1>1, <3>2
      <4> QED
        BY <2>1, <2>3, <4>1
    <3> QED
      BY <3>1, <3>2
  <2> QED
    BY <1>4, <2>3, <2>4
<1> HIDE DEF T
<1>5. \A n \in 0 .. N : n \in T
  BY <1>1, <1>3, <1>4, UpTo
<1> QED
  BY <1>1, <1>5 DEF T, N

\* No two parts overlap.
Apart(start, seqs) ==
  \A i, j \in 1 .. Len(seqs) : \A k \in 1 .. Len(seqs[i]) : \A l \in 1 .. Len(seqs[j]) :
    start[i - 1] + k = start[j - 1] + l => i = j /\ k = l

\* They do not overlap because the places do not decrease.
LEMMA PartsApart ==
  ASSUME NEW S, NEW seqs \in Seq(Seq(S)), NEW start, Begins(start, seqs)
  PROVE  Apart(start, seqs)
<1> SUFFICES ASSUME NEW i \in 1 .. Len(seqs), NEW j \in 1 .. Len(seqs),
                    NEW k \in 1 .. Len(seqs[i]), NEW l \in 1 .. Len(seqs[j]),
                    start[i - 1] + k = start[j - 1] + l
             PROVE  i = j /\ k = l
  BY DEF Apart
<1> DEFINE N == Len(seqs)
<1>1. N \in Nat /\ \A n \in 0 .. N : start[n] \in Nat /\ \A m \in 0 .. n : start[m] <= start[n]
  BY BeginsGrow
<1>2. /\ start[i] = start[i - 1] + Len(seqs[i]) /\ start[j] = start[j - 1] + Len(seqs[j])
      /\ Len(seqs[i]) \in Nat /\ Len(seqs[j]) \in Nat
  BY ElementOfSeq DEF Begins
<1> DEFINE m == Len(seqs[i])
           o == Len(seqs[j])
           a == start[i - 1]
           b == start[j - 1]
<1>3. /\ i \in Nat /\ j \in Nat /\ i - 1 \in 0 .. N /\ j - 1 \in 0 .. N /\ i \in 0 .. N /\ j \in 0 .. N
      /\ k \in 1 .. m /\ l \in 1 .. o /\ m \in Nat /\ o \in Nat
  BY <1>1, <1>2
<1>4. /\ start[i] \in Nat /\ start[j] \in Nat /\ a \in Nat /\ b \in Nat
      /\ start[i] = a + m /\ start[j] = b + o /\ a + k = b + l
  BY <1>1, <1>2, <1>3
<1>5. ASSUME i < j PROVE FALSE
  <2>1. i \in 0 .. j - 1
    BY <1>3, <1>5
  <2>2. start[i] <= b
    BY <1>1, <1>3, <2>1
  <2> HIDE DEF a, b, m, o
  <2> QED
    BY <1>3, <1>4, <2>2
<1>6. ASSUME j < i PROVE FALSE
  <2>1. j \in 0 .. i - 1
    BY <1>3, <1>6
  <2>2. start[j] <= a
    BY <1>1, <1>3, <2>1
  <2> HIDE DEF a, b, m, o
  <2> QED
    BY <1>3, <1>4, <2>2
<1>7. i = j
  BY <1>3, <1>5, <1>6
<1> QED
  BY <1>3, <1>4, <1>7

\* Where each part of a flattened sequence is.
PartsAt(start, seqs, flat) ==
  /\ Len(flat) = start[Len(seqs)]
  /\ \A i \in 1 .. Len(seqs) : \A k \in 1 .. Len(seqs[i]) :
       start[i - 1] + k \in 1 .. Len(flat) /\ flat[start[i - 1] + k] = seqs[i][k]
  /\ \A j \in 1 .. Len(flat) : \E i \in 1 .. Len(seqs) : \E k \in 1 .. Len(seqs[i]) :
       j = start[i - 1] + k

\* Each part is where start says, and there is nothing else.
LEMMA FlattenParts ==
  ASSUME NEW S, NEW seqs \in Seq(Seq(S)), NEW start, Begins(start, seqs)
  PROVE  PartsAt(start, seqs, FlattenSeq(seqs))
<1> DEFINE N == Len(seqs)
<1>1. PICK F : Flattens(F, seqs, S)
  BY FlattenUnfolds
<1>2. /\ N \in Nat
      /\ F[0] = <<>>
      /\ \A k \in 0 .. N : F[k] \in Seq(S) /\ Len(F[k]) \in Nat
      /\ \A k \in 1 .. N : F[k] = F[k - 1] \o seqs[k] /\ seqs[k] \in Seq(S) /\ Len(seqs[k]) \in Nat
      /\ FlattenSeq(seqs) = F[N]
  <2>1. \A k \in 1 .. N : seqs[k] \in Seq(S) /\ Len(seqs[k]) \in Nat
    BY ElementOfSeq
  <2>2. \A k \in 0 .. N : F[k] \in Seq(S)
    BY <1>1 DEF Flattens
  <2>3. \A s \in Seq(S) : Len(s) \in Nat
    OBVIOUS
  <2>4. F[0] = <<>> /\ FlattenSeq(seqs) = F[N] /\ \A k \in 1 .. N : F[k] = F[k - 1] \o seqs[k]
    BY <1>1 DEF Flattens
  <2>5. N \in Nat
    OBVIOUS
  <2> HIDE DEF N
  <2> QED
    BY <2>1, <2>2, <2>3, <2>4, <2>5
<1>3. /\ start[0] = 0
      /\ \A i \in 1 .. N : start[i] = start[i - 1] + Len(seqs[i])
      /\ \A n \in 0 .. N : start[n] \in Nat
  BY BeginsGrow DEF Begins
<1> DEFINE Reached(n) == \A j \in 1 .. Len(F[n]) : \E i \in 1 .. n : \E k \in 1 .. Len(seqs[i]) :
                           j = start[i - 1] + k
           Placed(n) == \A i \in 1 .. n : \A k \in 1 .. Len(seqs[i]) :
                          start[i - 1] + k \in 1 .. Len(F[n]) /\ F[n][start[i - 1] + k] = seqs[i][k]
           T == {n \in 0 .. N : Len(F[n]) = start[n] /\ Placed(n) /\ Reached(n)}
<1> HIDE DEF N
<1>4. 0 \in T
  <2>1. Len(F[0]) = 0
    BY <1>2
  <2> QED
    BY <1>2, <1>3, <2>1
<1>5. ASSUME NEW n \in 1 .. N, n - 1 \in T PROVE n \in T
  <2> DEFINE f == F[n - 1]
             s == seqs[n]
             p == start[n - 1]
  <2>1. /\ n \in Nat /\ n - 1 \in 0 .. N /\ n \in 0 .. N
        /\ f \in Seq(S) /\ s \in Seq(S) /\ Len(s) \in Nat /\ Len(f) \in Nat
        /\ F[n] = f \o s /\ start[n] = p + Len(s) /\ p \in Nat
    <3>1. n \in Nat /\ n - 1 \in 0 .. N /\ n \in 0 .. N
      BY <1>2
    <3>2. f \in Seq(S) /\ Len(f) \in Nat /\ p \in Nat
      BY <1>2, <1>3, <3>1
    <3>3. s \in Seq(S) /\ Len(s) \in Nat /\ F[n] = f \o s /\ start[n] = p + Len(s)
      BY <1>2, <1>3
    <3> HIDE DEF f, s, p
    <3> QED
      BY <3>1, <3>2, <3>3
  <2>2. Len(f) = p /\ Placed(n - 1) /\ Reached(n - 1)
    BY <1>5
  <2>3. /\ Len(F[n]) = p + Len(s)
        /\ \A j \in 1 .. p : F[n][j] = f[j]
        /\ \A j \in 1 .. p + Len(s) : ~(j <= p) => F[n][j] = s[j - p]
    <3> HIDE DEF f, s, p
    <3>1. /\ Len(f \o s) = Len(f) + Len(s)
          /\ \A j \in 1 .. Len(f) + Len(s) : (f \o s)[j] = IF j <= Len(f) THEN f[j] ELSE s[j - Len(f)]
      BY <2>1, ConcatProperties
    <3>2. ASSUME NEW j \in 1 .. p + Len(s), ~(j <= p) PROVE F[n][j] = s[j - p]
      BY <2>1, <2>2, <3>1, <3>2
    <3> QED
      BY <2>1, <2>2, <3>1, <3>2
  <2>4. Placed(n)
    <3> SUFFICES ASSUME NEW i \in 1 .. n, NEW k \in 1 .. Len(seqs[i])
                 PROVE  start[i - 1] + k \in 1 .. Len(F[n]) /\ F[n][start[i - 1] + k] = seqs[i][k]
      OBVIOUS
    <3>1. CASE i = n
      <4>1. k \in 1 .. Len(s) /\ start[i - 1] = p /\ seqs[i] = s
        BY <3>1
      <4> HIDE DEF p, s
      <4> DEFINE j == p + k
      <4>2. j \in 1 .. p + Len(s) /\ ~(j <= p) /\ j - p = k
        BY <2>1, <4>1
      <4> HIDE DEF j
      <4>3. j \in 1 .. Len(F[n]) /\ F[n][j] = s[k]
        BY <2>3, <4>2
      <4> QED
        BY <4>1, <4>3 DEF j
    <3>2. CASE i # n
      <4> DEFINE j == start[i - 1] + k
      <4>1. i \in 1 .. n - 1
        BY <2>1, <3>2
      <4>2. j \in 1 .. p /\ f[j] = seqs[i][k]
        BY <2>2, <4>1
      <4> HIDE DEF p, f, j
      <4>3. j \in 1 .. Len(F[n]) /\ F[n][j] = seqs[i][k]
        BY <2>1, <2>3, <4>2
      <4> QED
        BY <4>3 DEF j
    <3> QED
      BY <3>1, <3>2
  <2>5. Reached(n)
    <3> SUFFICES ASSUME NEW j \in 1 .. Len(F[n])
                 PROVE  \E i \in 1 .. n : \E k \in 1 .. Len(seqs[i]) : j = start[i - 1] + k
      OBVIOUS
    <3>1. CASE j <= p
      <4>1. j \in 1 .. Len(f)
        BY <2>1, <2>2, <3>1
      <4>2. PICK i \in 1 .. n - 1 : \E k \in 1 .. Len(seqs[i]) : j = start[i - 1] + k
        BY <2>2, <4>1
      <4>3. i \in 1 .. n
        BY <2>1
      <4> QED
        BY <4>2, <4>3
    <3>2. CASE ~(j <= p)
      <4>1. j - p \in 1 .. Len(s) /\ j = p + (j - p) /\ n \in 1 .. n
        BY <2>1, <2>3, <3>2
      <4> QED
        BY <4>1
    <3> QED
      BY <3>1, <3>2
  <2> HIDE DEF Placed, Reached
  <2> QED
    BY <2>1, <2>3, <2>4, <2>5
<1> HIDE DEF T
<1>6. N \in T
  <2>1. \A n \in 0 .. N : n \in T
    BY <1>2, <1>4, <1>5, UpTo
  <2> QED
    BY <1>2, <2>1
<1> QED
  BY <1>2, <1>6 DEF T, N, PartsAt

\* A function on 1..n is a sequence of n elements.
LEMMA SeqOfFunction ==
  ASSUME NEW n \in Nat, NEW f, f = [i \in 1 .. n |-> f[i]]
  PROVE  Len(f) = n /\ f \in Seq(Range(f))
<1> DEFINE S == Range(f)
<1>1. f \in [1 .. n -> S]
  BY DEF Range
<1> HIDE DEF S
<1>2. f \in Seq(S)
  BY <1>1
<1>3. Len(f) \in Nat /\ DOMAIN f = 1 .. Len(f)
  BY <1>2, LenProperties
<1>4. 1 .. Len(f) = 1 .. n
  BY <1>1, <1>3
<1>5. Len(f) = n
  BY <1>3, <1>4
<1> QED
  BY <1>2, <1>5 DEF S

\* A sum in three parts.
LEMMA SumSplit ==
  ASSUME NEW m \in Nat, NEW k \in 1 .. m, NEW f, IntOn(f, 1 .. m)
  PROVE  /\ SumFunctionOnSet(f, 1 .. m)
              = SumFunctionOnSet(f, 1 .. k - 1) + f[k] + SumFunctionOnSet(f, k + 1 .. m)
         /\ SumFunctionOnSet(f, 1 .. k - 1) \in Int /\ f[k] \in Int
         /\ SumFunctionOnSet(f, k + 1 .. m) \in Int
<1> DEFINE low == 1 .. k - 1
           mid == 1 .. k
           high == k + 1 .. m
<1>1. IsFiniteSet(low) /\ IsFiniteSet(mid) /\ IsFiniteSet(high)
  BY FS_Interval
<1>2. mid \cup high = 1 .. m /\ mid \cap high = {} /\ mid \subseteq 1 .. m /\ high \subseteq 1 .. m
  OBVIOUS
<1>3. low \subseteq 1 .. m /\ k \in mid /\ mid \ {k} = low
  OBVIOUS
<1>4. IntOn(f, low) /\ IntOn(f, mid) /\ IntOn(f, high) /\ IntOn(f, mid \cup high)
  BY <1>2, <1>3 DEF IntOn
<1> HIDE DEF low, mid, high
<1>5. SumFunctionOnSet(f, mid \cup high) = SumFunctionOnSet(f, mid) + SumFunctionOnSet(f, high)
  BY <1>1, <1>2, <1>4, SumUnion
<1>6. SumFunctionOnSet(f, mid) = f[k] + SumFunctionOnSet(f, low)
  BY <1>1, <1>3, <1>4, SumRemove
<1>7. SumFunctionOnSet(f, low) \in Int /\ SumFunctionOnSet(f, high) \in Int /\ f[k] \in Int
  BY <1>1, <1>4, SumInt DEF IntOn
<1>9. SumFunctionOnSet(f, 1 .. m) = SumFunctionOnSet(f, mid) + SumFunctionOnSet(f, high)
  BY <1>2, <1>5
<1>8. SumFunctionOnSet(f, 1 .. m) = SumFunctionOnSet(f, low) + f[k] + SumFunctionOnSet(f, high)
  <2> DEFINE A == SumFunctionOnSet(f, 1 .. m)
             B == SumFunctionOnSet(f, low)
             C == SumFunctionOnSet(f, high)
             D == SumFunctionOnSet(f, mid)
             E == f[k]
  <2>1. A = D + C /\ D = E + B /\ B \in Int /\ C \in Int /\ E \in Int
    BY <1>6, <1>7, <1>9
  <2>2. A = B + E + C
    <3> HIDE DEF A, B, C, D, E
    <3> QED
      BY <2>1
  <2> QED
    BY <2>2
<1> QED
  BY <1>7, <1>8 DEF low, high

-----------------------------------------------------------------------------
(* Counting                                                                *)

\* The subsets of S with k elements, and how many there are of n numbers.
Chosen(S, k) == {c \in SUBSET S : Cardinality(c) = k}
Count(n, k) == Cardinality(Chosen(1 .. n, k))

\* A one-to-one map onto T counts its elements.
OneToOne(h, S, T) ==
  /\ \A s \in S : h[s] \in T
  /\ \A s, t \in S : h[s] = h[t] => s = t
Onto(h, S, T) == \A t \in T : \E s \in S : h[s] = t

\* Sets that are mapped one to one onto each other have as many elements.
LEMMA SameCount ==
  ASSUME NEW S, IsFiniteSet(S), NEW T, NEW h, OneToOne(h, S, T), Onto(h, S, T)
  PROVE  IsFiniteSet(T) /\ Cardinality(T) = Cardinality(S)
<1> DEFINE f == [s \in S |-> h[s]]
<1>1. f \in [S -> T]
  BY DEF OneToOne
<1>2. \A s, t \in S : f[s] = f[t] => s = t
  BY DEF OneToOne
<1>3. \A t \in T : \E s \in S : f[s] = t
  BY DEF Onto
<1> HIDE DEF f
<1>4. f \in Bijection(S, T)
  BY <1>1, <1>2, <1>3 DEF Bijection, Injection, Surjection, IsInjective
<1>5. ExistsBijection(S, T)
  BY <1>4 DEF ExistsBijection
<1> QED
  BY <1>5, FS_Bijection

\* A set that is mapped one to one into T has no more elements.
LEMMA FewerCount ==
  ASSUME NEW S, NEW T, IsFiniteSet(T), NEW h, OneToOne(h, S, T)
  PROVE  /\ IsFiniteSet(S) /\ Cardinality(S) <= Cardinality(T)
         /\ Cardinality(S) = Cardinality(T) => Onto(h, S, T)
<1> DEFINE f == [s \in S |-> h[s]]
<1>1. f \in [S -> T]
  BY DEF OneToOne
<1>2. \A s, t \in S : f[s] = f[t] => s = t
  BY DEF OneToOne
<1>3. (\A t \in T : \E s \in S : f[s] = t) => Onto(h, S, T)
  BY DEF Onto
<1> HIDE DEF f
<1>4. f \in Injection(S, T)
  BY <1>1, <1>2 DEF Injection, IsInjective
<1>5. f \in Surjection(S, T) => \A t \in T : \E s \in S : f[s] = t
  BY DEF Surjection
<1> QED
  BY <1>3, <1>4, <1>5, FS_Injection

\* There are finitely many subsets of a size.
LEMMA ChosenFinite ==
  ASSUME NEW S, IsFiniteSet(S), NEW k
  PROVE  IsFiniteSet(Chosen(S, k)) /\ Cardinality(Chosen(S, k)) \in Nat
<1>1. Chosen(S, k) \in SUBSET (SUBSET S)
  BY DEF Chosen
<1>2. IsFiniteSet(Chosen(S, k))
  BY <1>1, FS_SUBSET, FS_Subset
<1> QED
  BY <1>2, FS_CardinalityType

\* Pascal's rule: a subset leaves the new element out or has it.
LEMMA ChosenAdds ==
  ASSUME NEW S, IsFiniteSet(S), NEW x, x \notin S, NEW k \in Int
  PROVE  Cardinality(Chosen(S \cup {x}, k))
           = Cardinality(Chosen(S, k)) + Cardinality(Chosen(S, k - 1))
<1> DEFINE With == {c \in Chosen(S \cup {x}, k) : x \in c}
           h == [c \in Chosen(S, k - 1) |-> c \cup {x}]
<1>0. \A c \in SUBSET (S \cup {x}) : IsFiniteSet(c) /\ Cardinality(c) \in Nat
  BY FS_AddElement, FS_Subset, FS_CardinalityType
<1>1. \A c \in SUBSET S : IsFiniteSet(c) /\ Cardinality(c \cup {x}) = Cardinality(c) + 1
  BY FS_AddElement, FS_Subset
<1>2. OneToOne(h, Chosen(S, k - 1), With)
  <2>1. ASSUME NEW c \in Chosen(S, k - 1) PROVE h[c] \in With
    <3>1. c \in SUBSET S /\ Cardinality(c) = k - 1
      BY DEF Chosen
    <3>2. Cardinality(c \cup {x}) = k
      BY <1>1, <3>1
    <3>3. c \cup {x} \in Chosen(S \cup {x}, k) /\ x \in c \cup {x}
      BY <3>1, <3>2 DEF Chosen
    <3> QED
      BY <3>3
  <2>2. ASSUME NEW c \in Chosen(S, k - 1), NEW d \in Chosen(S, k - 1), h[c] = h[d] PROVE c = d
    <3>1. c \subseteq S /\ d \subseteq S
      BY DEF Chosen
    <3>2. c \cup {x} = d \cup {x}
      BY <2>2
    <3> QED
      BY <3>1, <3>2
  <2> HIDE DEF h, With
  <2> QED
    BY <2>1, <2>2 DEF OneToOne
<1>3. Onto(h, Chosen(S, k - 1), With)
  <2>1. ASSUME NEW c \in With PROVE c \ {x} \in Chosen(S, k - 1) /\ h[c \ {x}] = c
    <3>1. c \in SUBSET (S \cup {x}) /\ x \in c /\ Cardinality(c) = k
      BY DEF Chosen
    <3>2. c \ {x} \in SUBSET S /\ (c \ {x}) \cup {x} = c
      BY <3>1
    <3>3. Cardinality(c) = Cardinality(c \ {x}) + 1
      BY <1>1, <3>2
    <3>3a. Cardinality(c \ {x}) \in Nat
      BY <1>0, <3>2
    <3>4. Cardinality(c \ {x}) = k - 1
      BY <3>1, <3>3, <3>3a
    <3>5. c \ {x} \in Chosen(S, k - 1)
      BY <3>2, <3>4 DEF Chosen
    <3> QED
      BY <3>2, <3>5
  <2> HIDE DEF h, With
  <2> QED
    BY <2>1 DEF Onto
<1>4. Cardinality(With) = Cardinality(Chosen(S, k - 1)) /\ IsFiniteSet(With)
  <2> HIDE DEF h, With
  <2> QED
    BY <1>2, <1>3, ChosenFinite, SameCount
<1>5. Chosen(S \cup {x}, k) = Chosen(S, k) \cup With /\ Chosen(S, k) \cap With = {}
  BY DEF Chosen
<1>6. IsFiniteSet(Chosen(S, k)) /\ Cardinality(Chosen(S, k)) \in Nat /\ Cardinality({}) = 0
  BY ChosenFinite, FS_EmptySet
<1> HIDE DEF With
<1>7. Cardinality(Chosen(S \cup {x}, k))
        = Cardinality(Chosen(S, k)) + Cardinality(With) - Cardinality({})
  BY <1>4, <1>5, <1>6, FS_Union
<1>8. Cardinality(Chosen(S, k - 1)) \in Nat
  BY ChosenFinite
<1> QED
  BY <1>4, <1>6, <1>7, <1>8

\* The counts of nothing, of no elements and of too many.
LEMMA CountEnds ==
  ASSUME NEW n \in Nat, NEW k \in Int
  PROVE  /\ Count(n, k) \in Nat
         /\ k < 0 \/ k > n => Count(n, k) = 0
         /\ Count(n, 0) = 1
<1>1. IsFiniteSet(1 .. n) /\ Cardinality(1 .. n) = n
  BY FS_Interval
<1>2. Count(n, k) \in Nat
  BY <1>1, ChosenFinite DEF Count
<1>3. \A c \in SUBSET (1 .. n) : IsFiniteSet(c) /\ Cardinality(c) \in Nat /\ Cardinality(c) <= n
  BY <1>1, FS_Subset, FS_CardinalityType
<1>4. ASSUME k < 0 \/ k > n PROVE Count(n, k) = 0
  <2>1. Chosen(1 .. n, k) = {}
    BY <1>3, <1>4 DEF Chosen
  <2> QED
    BY <2>1, FS_EmptySet DEF Count
<1>5. Count(n, 0) = 1
  <2>1. Chosen(1 .. n, 0) = {{}}
    BY <1>3, FS_EmptySet DEF Chosen
  <2> QED
    BY <2>1, FS_Singleton DEF Count
<1> QED
  BY <1>2, <1>4, <1>5

\* Counts are naturals.
LEMMA CountNat == \A n \in Nat : \A k \in Int : Count(n, k) \in Nat
BY CountEnds

\* Pascal's rule for the numbers.
LEMMA Pascal ==
  ASSUME NEW n \in Nat, NEW k \in Int
  PROVE  Count(n + 1, k) = Count(n, k) + Count(n, k - 1)
<1>1. 1 .. n + 1 = (1 .. n) \cup {n + 1} /\ n + 1 \notin 1 .. n /\ IsFiniteSet(1 .. n)
  BY FS_Interval
<1> QED
  BY <1>1, ChosenAdds DEF Count

\* What is counted depends on the size of the set alone.
LEMMA CountOf ==
  ASSUME NEW S, IsFiniteSet(S), NEW k \in Int
  PROVE  Cardinality(Chosen(S, k)) = Count(Cardinality(S), k)
<1> DEFINE T == {A \in SUBSET S : \A j \in Int : Cardinality(Chosen(A, j)) = Count(Cardinality(A), j)}
<1>1. {} \in T
  <2>1. Cardinality({}) = 0 /\ 1 .. 0 = {}
    BY FS_EmptySet
  <2> QED
    BY <2>1 DEF Count
<1>2. ASSUME NEW A \in SUBSET S, NEW x \in S, A \in T, x \notin A
      PROVE  A \cup {x} \in T
  <2>1. IsFiniteSet(A) /\ Cardinality(A) \in Nat /\ Cardinality(A \cup {x}) = Cardinality(A) + 1
    BY <1>2, FS_Subset, FS_AddElement, FS_CardinalityType
  <2>2. ASSUME NEW j \in Int
        PROVE  Cardinality(Chosen(A \cup {x}, j)) = Count(Cardinality(A \cup {x}), j)
    <3>1. Cardinality(Chosen(A \cup {x}, j))
            = Cardinality(Chosen(A, j)) + Cardinality(Chosen(A, j - 1))
      BY <1>2, <2>1, ChosenAdds
    <3>2. /\ Cardinality(Chosen(A, j)) = Count(Cardinality(A), j)
          /\ Cardinality(Chosen(A, j - 1)) = Count(Cardinality(A), j - 1)
      BY <1>2
    <3>3. Count(Cardinality(A) + 1, j) = Count(Cardinality(A), j) + Count(Cardinality(A), j - 1)
      BY <2>1, Pascal
    <3> QED
      BY <2>1, <3>1, <3>2, <3>3
  <2> QED
    BY <2>2
<1>3. S \in T
  <2> HIDE DEF T
  <2> QED
    BY <1>1, <1>2, FinInd
<1> QED
  BY <1>3

\* A whole set is chosen in one way, and choosing is leaving the others out.
LEMMA CountSymmetric ==
  ASSUME NEW n \in Nat, NEW k \in Int
  PROVE  Count(n, k) = Count(n, n - k) /\ Count(n, n) = 1
<1> DEFINE T == {m \in Nat : \A j \in Int : Count(m, j) = Count(m, m - j)}
<1>1. 0 \in T
  <2> SUFFICES ASSUME NEW j \in Int PROVE Count(0, j) = Count(0, 0 - j)
    OBVIOUS
  <2>1. CASE j = 0
    BY <2>1
  <2>2. CASE j # 0
    <3>1. Count(0, j) = 0 /\ Count(0, 0 - j) = 0
      BY <2>2, CountEnds
    <3> QED
      BY <3>1
  <2> QED
    BY <2>1, <2>2
<1>2. ASSUME NEW m \in Nat, m \in T PROVE m + 1 \in T
  <2> SUFFICES ASSUME NEW j \in Int PROVE Count(m + 1, j) = Count(m + 1, m + 1 - j)
    BY <1>2
  <2>1. Count(m + 1, j) = Count(m, j) + Count(m, j - 1)
    BY Pascal
  <2>2. Count(m + 1, m + 1 - j) = Count(m, m + 1 - j) + Count(m, (m + 1 - j) - 1)
    BY Pascal
  <2>3. Count(m, j) = Count(m, m - j) /\ Count(m, j - 1) = Count(m, m - (j - 1))
    BY <1>2
  <2>4. (m + 1 - j) - 1 = m - j /\ m - (j - 1) = m + 1 - j
    OBVIOUS
  <2>5. Count(m, m - j) \in Nat /\ Count(m, m + 1 - j) \in Nat
    <3>1. m - j \in Int /\ m + 1 - j \in Int
      OBVIOUS
    <3> QED
      BY <3>1, CountNat
  <2> QED
    BY <2>1, <2>2, <2>3, <2>4, <2>5
<1>3. n \in T
  <2> HIDE DEF T
  <2> QED
    BY <1>1, <1>2, NatInd
<1>4. Count(n, n) = Count(n, n - n) /\ n - n = 0
  BY <1>3
<1> QED
  BY <1>3, <1>4, CountEnds

\* k C(n, k) = n C(n - 1, k - 1).
LEMMA CountAbsorbs ==
  ASSUME NEW n \in Nat, NEW k \in Int
  PROVE  k * Count(n + 1, k) = (n + 1) * Count(n, k - 1)
<1> DEFINE T == {m \in Nat : \A j \in Int : j * Count(m + 1, j) = (m + 1) * Count(m, j - 1)}
<1>1. 0 \in T
  <2> SUFFICES ASSUME NEW j \in Int PROVE j * Count(0 + 1, j) = (0 + 1) * Count(0, j - 1)
    OBVIOUS
  <2>1. Count(0 + 1, j) = Count(0, j) + Count(0, j - 1)
    BY Pascal
  <2>2. Count(0, 0) = 1 /\ \A i \in Int : i # 0 => Count(0, i) = 0
    BY CountEnds
  <2>3. CASE j = 0
    <3>1. Count(0, j - 1) = 0 /\ Count(0, j) = 1
      BY <2>2, <2>3
    <3> QED
      BY <2>1, <2>3, <3>1
  <2>4. CASE j = 1
    <3>1. Count(0, j - 1) = 1 /\ Count(0, j) = 0
      BY <2>2, <2>4
    <3> QED
      BY <2>1, <2>4, <3>1
  <2>5. CASE j # 0 /\ j # 1
    <3>1. Count(0, j - 1) = 0 /\ Count(0, j) = 0
      BY <2>2, <2>5
    <3> QED
      BY <2>1, <3>1
  <2> QED
    BY <2>3, <2>4, <2>5
<1>2. ASSUME NEW m \in Nat, m \in T PROVE m + 1 \in T
  <2> SUFFICES ASSUME NEW j \in Int
               PROVE  j * Count((m + 1) + 1, j) = ((m + 1) + 1) * Count(m + 1, j - 1)
    BY <1>2
  <2> DEFINE a == Count(m + 1, j)
             b == Count(m + 1, j - 1)
             c == Count(m, j - 1)
             d == Count(m, j - 2)
  <2>1. Count((m + 1) + 1, j) = a + b
    BY Pascal
  <2>2. b = c + d
    <3>1. Count(m + 1, j - 1) = Count(m, j - 1) + Count(m, (j - 1) - 1)
      BY Pascal
    <3>2. (j - 1) - 1 = j - 2
      OBVIOUS
    <3> QED
      BY <3>1, <3>2
  <2>3. j * a = (m + 1) * c
    BY <1>2
  <2>4. (j - 1) * b = (m + 1) * d
    <3>1. (j - 1) * Count(m + 1, j - 1) = (m + 1) * Count(m, (j - 1) - 1)
      BY <1>2
    <3>2. (j - 1) - 1 = j - 2
      OBVIOUS
    <3> QED
      BY <3>1, <3>2
  <2>5. a \in Nat /\ b \in Nat /\ c \in Nat /\ d \in Nat
    <3>1. m + 1 \in Nat /\ j - 1 \in Int /\ j - 2 \in Int
      OBVIOUS
    <3> QED
      BY <3>1, CountNat
  <2> HIDE DEF a, b, c, d
  <2>6. j * (a + b) = ((m + 1) + 1) * b
    <3>1. j * (a + b) = j * a + ((j - 1) * b + b)
      BY <2>5
    <3>2. (m + 1) * c + (m + 1) * d = (m + 1) * b
      BY <2>2, <2>5
    <3>3. ((m + 1) + 1) * b = (m + 1) * b + b
      BY <2>5
    <3>4. (m + 1) * c \in Int /\ (m + 1) * d \in Int /\ (m + 1) * b \in Int
      BY <2>5
    <3> QED
      BY <2>3, <2>4, <2>5, <3>1, <3>2, <3>3, <3>4
  <2> QED
    BY <2>1, <2>6 DEF b
<1>3. n \in T
  <2> HIDE DEF T
  <2> QED
    BY <1>1, <1>2, NatInd
<1> QED
  BY <1>3

\* A set of the k-th, (k+1)-th ... numbers of growing choices: the sum along a
\* diagonal of the triangle.
LEMMA Diagonal ==
  ASSUME NEW a \in Nat, NEW m \in Nat, NEW f, \A j \in 1 .. m : f[j] = Count(a + j - 1, j)
  PROVE  SumFunctionOnSet(f, 1 .. m) = Count(a + m, m) - 1
<1> DEFINE T == {k \in 0 .. m : SumFunctionOnSet(f, 1 .. k) = Count(a + k, k) - 1}
<1>1. 0 \in T
  <2>1. 1 .. 0 = {} /\ SumFunctionOnSet(f, {}) = 0
    BY SumEmpty
  <2>2. Count(a + 0, 0) = 1
    BY CountEnds
  <2> QED
    BY <2>1, <2>2
<1>2. ASSUME NEW k \in 1 .. m, k - 1 \in T PROVE k \in T
  <2>1. IntOn(f, 1 .. (k - 1) + 1)
    <3> SUFFICES ASSUME NEW j \in 1 .. k PROVE f[j] \in Int
      BY DEF IntOn
    <3>1. f[j] = Count(a + j - 1, j) /\ a + j - 1 \in Nat /\ j \in Int
      OBVIOUS
    <3> QED
      BY <3>1, CountEnds
  <2>2. SumFunctionOnSet(f, 1 .. (k - 1) + 1) = SumFunctionOnSet(f, 1 .. k - 1) + f[(k - 1) + 1]
    BY <2>1, SumUpTo
  <2>3. (k - 1) + 1 = k
    OBVIOUS
  <2>4. Count((a + k - 1) + 1, k) = Count(a + k - 1, k) + Count(a + k - 1, k - 1)
    BY Pascal
  <2>5. (a + k - 1) + 1 = a + k /\ a + k - 1 = a + (k - 1)
    OBVIOUS
  <2>6. Count(a + k - 1, k) \in Nat /\ Count(a + k - 1, k - 1) \in Nat
    <3>1. a + k - 1 \in Nat /\ k \in Int /\ k - 1 \in Int
      OBVIOUS
    <3> QED
      BY <3>1, CountNat
  <2>7. SumFunctionOnSet(f, 1 .. k - 1) = Count(a + (k - 1), k - 1) - 1
    BY <1>2
  <2>8. f[k] = Count(a + k - 1, k)
    OBVIOUS
  <2> QED
    BY <2>2, <2>3, <2>4, <2>5, <2>6, <2>7, <2>8
<1>3. m \in T
  <2> HIDE DEF T
  <2>1. \A k \in 0 .. m : k \in T
    BY <1>1, <1>2, UpTo
  <2> QED
    BY <2>1
<1> QED
  BY <1>3

\* What is left of a finite set without a part of it.
LEMMA CountLeft ==
  ASSUME NEW Q, IsFiniteSet(Q), NEW A \in SUBSET Q
  PROVE  /\ IsFiniteSet(A) /\ IsFiniteSet(Q \ A)
         /\ Cardinality(A) \in Nat /\ Cardinality(Q \ A) \in Nat
         /\ Cardinality(Q) = Cardinality(A) + Cardinality(Q \ A)
<1>1. IsFiniteSet(A) /\ IsFiniteSet(Q \ A)
  BY FS_Subset
<1>2. A \cup (Q \ A) = Q /\ A \cap (Q \ A) = {}
  OBVIOUS
<1>3. Cardinality({}) = 0
  BY FS_EmptySet
<1>4. Cardinality(A \cup (Q \ A)) = Cardinality(A) + Cardinality(Q \ A) - Cardinality(A \cap (Q \ A))
  BY <1>1, FS_Union
<1>5. Cardinality(A) \in Nat /\ Cardinality(Q \ A) \in Nat
  BY <1>1, FS_CardinalityType
<1>6. Cardinality(Q) = Cardinality(A) + Cardinality(Q \ A)
  <2> DEFINE a == Cardinality(A)
             b == Cardinality(Q \ A)
             c == Cardinality(A \cap (Q \ A))
  <2>1. Cardinality(Q) = a + b - c
    BY <1>2, <1>4
  <2>2. c = 0
    BY <1>2, <1>3
  <2>3. a \in Nat /\ b \in Nat
    BY <1>5
  <2> HIDE DEF a, b, c
  <2>4. Cardinality(Q) = a + b
    BY <2>1, <2>2, <2>3
  <2> QED
    BY <2>4 DEF a, b
<1> QED
  BY <1>1, <1>5, <1>6

\* The pairs of a relation, and those of one element.
PairsIn(R, S, T) == {e \in S \X T : e \in R}
PairedWith(R, x, T) == {y \in T : <<x, y>> \in R}

\* Pairs are counted row by row.
LEMMA PairsCounted ==
  ASSUME NEW S, IsFiniteSet(S), NEW T, IsFiniteSet(T), NEW R,
         NEW f, \A x \in S : f[x] = Cardinality(PairedWith(R, x, T))
  PROVE  /\ IsFiniteSet(PairsIn(R, S, T))
         /\ SumFunctionOnSet(f, S) = Cardinality(PairsIn(R, S, T))
<1> USE DEF PairsIn, PairedWith
<1> DEFINE G(A) == {e \in A \X T : e \in R}
           row(x) == {y \in T : <<x, y>> \in R}
           U == {A \in SUBSET S : IsFiniteSet(G(A)) /\ SumFunctionOnSet(f, A) = Cardinality(G(A))}
<1>1. ASSUME NEW x \in S PROVE IsFiniteSet(row(x)) /\ f[x] \in Nat /\ f[x] = Cardinality(row(x))
  <2>1. row(x) \in SUBSET T /\ f[x] = Cardinality(row(x))
    OBVIOUS
  <2> HIDE DEF row
  <2>2. IsFiniteSet(row(x))
    BY <2>1, FS_Subset
  <2>3. Cardinality(row(x)) \in Nat
    BY <2>2, FS_CardinalityType
  <2> QED
    BY <2>1, <2>2, <2>3
<1>5. ASSUME NEW x \in S PROVE f[x] \in Int
  <2>1. f[x] \in Nat
    BY <1>1
  <2> QED
    BY <2>1
<1>2. {} \in U
  <2>1. G({}) = {}
    OBVIOUS
  <2> QED
    BY <2>1, SumEmpty, FS_EmptySet
<1>3. ASSUME NEW A \in SUBSET S, NEW x \in S, A \in U, x \notin A
      PROVE  A \cup {x} \in U
  <2> DEFINE B == A \cup {x}
             new == {e \in {x} \X T : e \in R}
             h == [y \in row(x) |-> <<x, y>>]
  <2>1. OneToOne(h, row(x), new) /\ Onto(h, row(x), new)
    BY DEF OneToOne, Onto
  <2>2. IsFiniteSet(new) /\ Cardinality(new) = f[x]
    <3> HIDE DEF h, new, row
    <3> QED
      BY <1>1, <2>1, SameCount
  <2>3. G(B) = G(A) \cup new /\ G(A) \cap new = {}
    <3>1. B \X T = (A \X T) \cup ({x} \X T)
      OBVIOUS
    <3>2. (A \X T) \cap ({x} \X T) = {}
      BY <1>3
    <3> DEFINE X == A \X T
               Y == {x} \X T
               Z == B \X T
    <3>3. Z = X \cup Y /\ X \cap Y = {}
      BY <3>1, <3>2
    <3> HIDE DEF X, Y, Z
    <3>4. {e \in Z : e \in R} = {e \in X : e \in R} \cup {e \in Y : e \in R}
          /\ {e \in X : e \in R} \cap {e \in Y : e \in R} = {}
      BY <3>3
    <3> QED
      BY <3>4 DEF X, Y, Z
  <2>4. IsFiniteSet(G(A)) /\ SumFunctionOnSet(f, A) = Cardinality(G(A))
    BY <1>3
  <2>5. IsFiniteSet(G(B)) /\ Cardinality(G(B)) = Cardinality(G(A)) + Cardinality(new)
    <3> HIDE DEF G, new, B
    <3>1. IsFiniteSet(G(A) \cup new)
          /\ Cardinality(G(A) \cup new) = Cardinality(G(A)) + Cardinality(new) - Cardinality(G(A) \cap new)
      BY <2>2, <2>4, FS_Union
    <3>2. Cardinality(G(A) \cap new) = 0
      BY <2>3, FS_EmptySet
    <3>3. Cardinality(G(A)) \in Nat /\ Cardinality(new) \in Nat
      BY <2>2, <2>4, FS_CardinalityType
    <3>4. Cardinality(G(B)) = Cardinality(G(A)) + Cardinality(new) - Cardinality(G(A) \cap new)
      BY <2>3, <3>1
    <3>5. IsFiniteSet(G(B))
      BY <2>3, <3>1
    <3> QED
      BY <3>2, <3>3, <3>4, <3>5
  <2>6. IsFiniteSet(B) /\ IntOn(f, B) /\ x \in B /\ B \ {x} = A /\ B \in SUBSET S
    <3>3. B \in SUBSET S
      OBVIOUS
    <3> HIDE DEF B
    <3>1. IsFiniteSet(B)
      BY <3>3, FS_Subset
    <3>2. IntOn(f, B)
      BY <1>5, <3>3 DEF IntOn
    <3> QED
      BY <1>3, <3>1, <3>2, <3>3 DEF B
  <2>7. SumFunctionOnSet(f, B) = f[x] + SumFunctionOnSet(f, A)
    <3> HIDE DEF B
    <3>1. SumFunctionOnSet(f, B) = f[x] + SumFunctionOnSet(f, B \ {x})
      BY <2>6, SumRemove
    <3> QED
      BY <2>6, <3>1
  <2>8. SumFunctionOnSet(f, B) = Cardinality(G(B))
    <3>1. f[x] \in Nat /\ Cardinality(G(A)) \in Nat
      BY <1>1, <2>4, FS_CardinalityType
    <3> HIDE DEF G, B, new
    <3> QED
      BY <2>2, <2>4, <2>5, <2>7, <3>1
  <2> HIDE DEF G
  <2> QED
    BY <2>5, <2>6, <2>8
<1>4. S \in U
  <2> HIDE DEF U
  <2> QED
    BY <1>2, <1>3, FinInd
<1> QED
  BY <1>4
=============================================================================
