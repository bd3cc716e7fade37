----------------------------- MODULE PauliWords -----------------------------
(***************************************************************************)
(* Pauli words in the binary symplectic form of word.rs and their action   *)
(* on computational basis states (pauli_action.rs).  The packed limbs of a *)
(* mask are the set of the qubits whose bit is set; a basis state is the   *)
(* set of its occupied qubits, and qubit 0 is the most significant bit of  *)
(* its public integer.                                                     *)
(***************************************************************************)
EXTENDS Integers, Sequences, FiniteSets, Gaussian

LOCAL INSTANCE Folds
LOCAL INSTANCE FiniteSetsExt
LOCAL INSTANCE Functions

Qubits(n) == 0..n - 1
Xor(A, B) == (A \ B) \cup (B \ A)
Odd(S) == Cardinality(S) % 2 = 1

\* Numbers of limbs a mask of n bits is packed into.
PackedWordCount(n) == n \div 64 + (IF n % 64 # 0 THEN 1 ELSE 0)

Word(x, z) == [x |-> x, z |-> z]
Words(n) == [x : SUBSET Qubits(n), z : SUBSET Qubits(n)]

\* I, X, Y, Z are the codes 0, 1, 2, 3.
CodeAt(w, q) ==
    CASE q \notin w.x /\ q \notin w.z -> 0
      [] q \in w.x /\ q \notin w.z -> 1
      [] q \in w.x /\ q \in w.z -> 2
      [] OTHER -> 3

FromCodes(codes) ==
    Word({q \in Qubits(Len(codes)) : codes[q + 1] \in {1, 2}},
         {q \in Qubits(Len(codes)) : codes[q + 1] \in {2, 3}})

CodesOf(n, w) == [k \in 1..n |-> CodeAt(w, k - 1)]
Support(w) == w.x \cup w.z
WeightOf(w) == Cardinality(Support(w))

\* The canonical order: by code, from qubit 0 on.
WordLess(v, w) ==
    LET D == {q \in Support(v) \cup Support(w) : CodeAt(v, q) # CodeAt(w, q)} IN
    D # {} /\ LET q == Min(D) IN CodeAt(v, q) < CodeAt(w, q)

SymplecticInnerProduct(v, w) ==
    (Cardinality(v.x \cap w.z) + Cardinality(v.z \cap w.x)) % 2

CommutesWith(v, w) == SymplecticInnerProduct(v, w) = 0

QwcCompatible(v, w) ==
    Support(v) \cap Support(w) \cap (Xor(v.x, w.x) \cup Xor(v.z, w.z)) = {}

\* Exponent of i in the product of two local codes.
LocalPhase(a, b) ==
    CASE <<a, b>> \in {<<1, 2>>, <<2, 3>>, <<3, 1>>} -> 1
      [] <<a, b>> \in {<<2, 1>>, <<3, 2>>, <<1, 3>>} -> 3
      [] OTHER -> 0

\* multiply: masks are xored, local phases multiplied qubit by qubit.
ProductWord(v, w) == Word(Xor(v.x, w.x), Xor(v.z, w.z))
ProductPhase(v, w) ==
    MapThenFoldSet(LAMBDA a, b : (a + b) % 4, 0,
                   LAMBDA q : LocalPhase(CodeAt(v, q), CodeAt(w, q)), Min,
                   Support(v) \cap Support(w))

\* packed_product_phase_exponent: the same exponent from bit counts.
PackedPhaseExponent(v, w) ==
    (Cardinality(v.x \cap v.z) + Cardinality(w.x \cap w.z)
     + 2 * (Cardinality(v.z \cap w.x) % 2)
     + 4 - (Cardinality(Xor(v.x, w.x) \cap Xor(v.z, w.z)) % 4)) % 4

-----------------------------------------------------------------------------
(***************************************************************************)
(* StatevectorPauliAction: amplitude of one row after the word, Y = i X Z. *)
(***************************************************************************)
YPhase(w) == IPow(Cardinality(w.x \cap w.z))

\* Factor of the move of a word from a basis state to its image.
ActionPhase(w, column) ==
    IF Odd(w.z \cap column) THEN Neg(YPhase(w)) ELSE YPhase(w)

ValueAt(w, input, row) ==
    LET column == Xor(row, w.x) IN Times(ActionPhase(w, column), input[column])

\* Public integer of a basis state of n qubits.
BasisInteger(n, occupied) ==
    MapThenFoldSet(+, 0, LAMBDA q : 2 ^ (n - q - 1), Min, occupied)
=============================================================================
