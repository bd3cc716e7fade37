--------------------------- MODULE PauliOperators ---------------------------
(***************************************************************************)
(* Canonical Pauli operators (operator.rs): terms with distinct words in   *)
(* ascending order and no exact zero.  Coefficients are Gaussian integers, *)
(* so the order in which duplicates are summed (which the code fixes by    *)
(* their bit patterns) cannot be told here.                                *)
(***************************************************************************)
EXTENDS PauliWords

LOCAL INSTANCE SequencesExt
LOCAL INSTANCE FiniteSetsExt
LOCAL INSTANCE Folds

Failed(e) == [error |-> e]
IsFailed(r) == "error" \in DOMAIN r

Term(w, c) == [word |-> w, coefficient |-> c]
Operator(n, terms) == [nqubits |-> n, terms |-> terms]
Empty(n) == Operator(n, <<>>)

\* aggregate, sort by word, drop exact zeros.
Aggregated(n, contributions) ==
    LET W == {contributions[k].word : k \in DOMAIN contributions}
        coefficient(w) ==
            Total({k \in DOMAIN contributions : contributions[k].word = w},
                    [k \in DOMAIN contributions |-> contributions[k].coefficient])
        kept == {w \in W : coefficient(w) # Zero}
        ordered == SetToSortSeq(kept, WordLess)
    IN  Operator(n, [k \in DOMAIN ordered |-> Term(ordered[k], coefficient(ordered[k]))])

FromTerms(n, codes, coefficients) ==
    IF Len(codes) # Len(coefficients) THEN Failed("InvalidStructureLength")
    ELSE IF \E k \in DOMAIN codes : Len(codes[k]) # n THEN Failed("InvalidStructureLength")
    ELSE Aggregated(n, [k \in DOMAIN codes |-> Term(FromCodes(codes[k]), coefficients[k])])

FromCanonicalTerms(n, codes, coefficients) ==
    LET words == [k \in DOMAIN codes |-> FromCodes(codes[k])] IN
    IF Len(codes) # Len(coefficients) THEN Failed("InvalidStructureLength")
    ELSE IF \/ \E k \in DOMAIN codes : coefficients[k] = Zero
            \/ \E k \in 2..Len(codes) : ~WordLess(words[k - 1], words[k])
    THEN Failed("NonCanonicalTerms")
    ELSE Operator(n, [k \in DOMAIN codes |-> Term(words[k], coefficients[k])])

\* check_operator_bytes: 16 bytes a limb pair and 16 a coefficient.
OperatorBytes(n, entries) ==
    (IF entries = 0 THEN 1 ELSE entries) * (16 * PackedWordCount(n) + 16)

\* The merge of two canonical term streams.
MergedTerms(left, right) ==
    LET step[i \in 1..Len(left) + 1, j \in 1..Len(right) + 1] ==
            IF i > Len(left) THEN SubSeq(right, j, Len(right))
            ELSE IF j > Len(right) THEN SubSeq(left, i, Len(left))
            ELSE IF WordLess(left[i].word, right[j].word) THEN <<left[i]>> \o step[i + 1, j]
            ELSE IF WordLess(right[j].word, left[i].word) THEN <<right[j]>> \o step[i, j + 1]
            ELSE LET c == Plus(left[i].coefficient, right[j].coefficient) IN
                 (IF c = Zero THEN <<>> ELSE <<Term(left[i].word, c)>>) \o step[i + 1, j + 1]
    IN  step[1, 1]

AddWithLimit(a, b, limit) ==
    IF a.nqubits # b.nqubits THEN Failed("IncompatibleQubitCounts")
    ELSE IF OperatorBytes(a.nqubits, Len(a.terms) + Len(b.terms)) > limit
    THEN Failed("MemoryLimit")
    ELSE Operator(a.nqubits, MergedTerms(a.terms, b.terms))

ScaleOperator(a, scalar) ==
    IF scalar = Zero THEN Empty(a.nqubits)
    ELSE Operator(a.nqubits, [k \in DOMAIN a.terms |->
             Term(a.terms[k].word, Times(a.terms[k].coefficient, scalar))])

MultiplyWithLimit(a, b, limit) ==
    IF a.nqubits # b.nqubits THEN Failed("IncompatibleQubitCounts")
    ELSE IF OperatorBytes(a.nqubits, Len(a.terms) * Len(b.terms)) > limit
    THEN Failed("MemoryLimit")
    ELSE LET one(s, t) ==
                 Term(ProductWord(s.word, t.word),
                      Times(Times(s.coefficient, t.coefficient),
                              IPow(ProductPhase(s.word, t.word))))
         IN  Aggregated(a.nqubits,
                 FlattenSeq([j \in DOMAIN a.terms |->
                     [k \in DOMAIN b.terms |-> one(a.terms[j], b.terms[k])]]))

\* a b + sign b a; the first refusal met ends it.
BracketWithLimit(a, b, sign, limit) ==
    LET ab == MultiplyWithLimit(a, b, limit)
        ba == MultiplyWithLimit(b, a, limit)
    IN  IF IsFailed(ab) THEN ab ELSE AddWithLimit(ab, ScaleOperator(ba, sign), limit)
CommutatorWithLimit(a, b, limit) == BracketWithLimit(a, b, Gauss(-1, 0), limit)
AnticommutatorWithLimit(a, b, limit) == BracketWithLimit(a, b, One, limit)

AdjointOperator(a) ==
    Operator(a.nqubits, [k \in DOMAIN a.terms |->
        Term(a.terms[k].word, Conj(a.terms[k].coefficient))])

\* is_hermitian with tolerance zero.
IsHermitian(a) == \A k \in DOMAIN a.terms : a.terms[k].coefficient.im = 0

-----------------------------------------------------------------------------
(***************************************************************************)
(* The operator as a matrix over basis states, the reference of the        *)
(* algebra: every term moves a basis state to its image.                   *)
(***************************************************************************)
Entry(a, row, column) ==
    Total({k \in DOMAIN a.terms : Xor(column, a.terms[k].word.x) = row},
            [k \in DOMAIN a.terms |->
                Times(a.terms[k].coefficient, ActionPhase(a.terms[k].word, column))])

ApplyOperator(a, vector) ==
    [row \in SUBSET Qubits(a.nqubits) |->
        Total(DOMAIN a.terms, [k \in DOMAIN a.terms |->
            Times(a.terms[k].coefficient, ValueAt(a.terms[k].word, vector, row))])]
=============================================================================
