----------------------------- MODULE Stabilizer -----------------------------
(***************************************************************************)
(* Stabilizer states and the binary linear algebra under them (shadows.rs):*)
(* signed Pauli generators, their span with the coefficients that produced *)
(* each row, measurement, and the two ways to overlap two states.          *)
(***************************************************************************)
EXTENDS PauliOperators

LOCAL INSTANCE SequencesExt
LOCAL INSTANCE FiniteSetsExt
LOCAL INSTANCE Folds

Signed(w, sign) == [x |-> w.x, z |-> w.z, sign |-> sign]
WordOf(p) == Word(p.x, p.z)
SignedIdentity == Signed(Word({}, {}), 1)
ZeroState(n) == [k \in 1..n |-> Signed(Word({}, {k - 1}), 1)]

\* The sign of a product with phase i ** exponent, if it has one.
SignedProduct(w, sign, exponent) ==
    IF exponent % 2 = 1 THEN Failed("InvalidClifford") ELSE Signed(w, sign * (1 - exponent))

Multiply(p, q) ==
    SignedProduct(ProductWord(p, q), p.sign * q.sign, ProductPhase(WordOf(p), WordOf(q)))

\* The same product from bit counts.
MultiplyInPlace(p, q) ==
    LET ys(w) == Cardinality(w.x \cap w.z)
        w == ProductWord(p, q)
    IN  SignedProduct(w, p.sign * q.sign,
            (ys(p) + ys(q) - ys(w) + 2 * Cardinality(p.z \cap q.x)) % 4)

\* Products of the selected generators (counted from 0), the first failure kept.
ProductOver(tableau, selected) ==
    FoldLeft(LAMBDA p, k : IF IsFailed(p) \/ k - 1 \notin selected THEN p ELSE Multiply(p, tableau[k]),
             SignedIdentity, [k \in DOMAIN tableau |-> k])

-----------------------------------------------------------------------------
(***************************************************************************)
(* StabilizerSpan: echelon rows over the bits of X before those of Z, each *)
(* with the generators that were xored into it, under their first bit.     *)
(***************************************************************************)
Bits(n, w) == w.x \cup {n + q : q \in w.z}

ReduceSpanRow(n, row, basis) ==
    FoldLeft(LAMBDA r, p :
                 IF p \in DOMAIN basis /\ r.bits # {} /\ Min(r.bits) = p
                 THEN [bits |-> Xor(r.bits, basis[p].bits),
                       coefficients |-> Xor(r.coefficients, basis[p].coefficients)]
                 ELSE r,
             row, [p \in 1..2 * n |-> p - 1])

Span(n, tableau) ==
    FoldLeft(LAMBDA basis, k :
                 LET row == ReduceSpanRow(n, [bits |-> Bits(n, tableau[k]), coefficients |-> {k - 1}], basis)
                 IN  IF row.bits = {} THEN basis
                     ELSE [p \in DOMAIN basis \cup {Min(row.bits)} |->
                              IF p = Min(row.bits) THEN row ELSE basis[p]],
             [p \in {} |-> {}], [k \in DOMAIN tableau |-> k])

\* expectation_word_with_span: 0 outside the span, else the sign of the product.
Expectation(n, tableau, span, w) ==
    LET row == ReduceSpanRow(n, [bits |-> Bits(n, w), coefficients |-> {}], span) IN
    IF w = Word({}, {}) THEN 1
    ELSE IF row.bits # {} THEN 0
    ELSE ProductOver(tableau, row.coefficients).sign

ValidGeneratorSet(n, generators) ==
    /\ Len(generators) = n
    /\ \A j, k \in DOMAIN generators : j < k => SymplecticInnerProduct(generators[j], generators[k]) = 0
    /\ Cardinality(DOMAIN Span(n, generators)) = n

\* from_flat_generators
FromTableau(n, generators) ==
    IF Len(generators) # n THEN Failed("InvalidStructureLength")
    ELSE IF ValidGeneratorSet(n, generators) THEN [generators |-> generators]
    ELSE Failed("InvalidClifford")

\* Faulty: the product with the pivot keeps the sign the generator had.
MeasureSignedSignKept(n, tableau, measured, bit) ==
    LET odd == {k \in DOMAIN tableau : SymplecticInnerProduct(tableau[k], measured) = 1}
        pivot == Min(odd)
        sign == Expectation(n, tableau, Span(n, tableau), WordOf(measured)) * measured.sign
    IN  IF odd = {} /\ sign = 0 THEN Failed("InvalidClifford")
        ELSE IF odd = {} THEN [tableau |-> tableau, bit |-> IF sign = 1 THEN 0 ELSE 1, draws |-> 0]
        ELSE [bit |-> bit, draws |-> 1,
              tableau |-> [k \in DOMAIN tableau |->
                  IF k = pivot THEN [measured EXCEPT !.sign = @ * (1 - 2 * bit)]
                  ELSE IF k \in odd THEN [MultiplyInPlace(tableau[k], tableau[pivot]) EXCEPT !.sign = tableau[k].sign]
                  ELSE tableau[k]]]

\* measure_signed: the first generator that anticommutes is replaced, the others
\* are made to commute; with none the outcome is fixed and nothing is drawn.  An
\* observable that commutes with them all and is not in their group is an error.
MeasureSigned(n, tableau, measured, bit) ==
    LET odd == {k \in DOMAIN tableau : SymplecticInnerProduct(tableau[k], measured) = 1}
        pivot == Min(odd)
        sign == Expectation(n, tableau, Span(n, tableau), WordOf(measured)) * measured.sign
    IN  IF odd = {} /\ sign = 0 THEN Failed("InvalidClifford")
        ELSE IF odd = {} THEN [tableau |-> tableau, bit |-> IF sign = 1 THEN 0 ELSE 1, draws |-> 0]
        ELSE [bit |-> bit, draws |-> 1,
              tableau |-> [k \in DOMAIN tableau |->
                  IF k = pivot THEN [measured EXCEPT !.sign = @ * (1 - 2 * bit)]
                  ELSE IF k \in odd THEN MultiplyInPlace(tableau[k], tableau[pivot])
                  ELSE tableau[k]]]

-----------------------------------------------------------------------------
(***************************************************************************)
(* Binary systems: a row is the set of its columns, counted from 0.        *)
(***************************************************************************)
Pivoted(rows, dimension) ==
    FoldLeft(LAMBDA s, column :
                 LET rank == Len(s.pivots) + 1
                     sources == {r \in rank..Len(s.rows) : column \in s.rows[r]}
                     swapped == [s.rows EXCEPT ![rank] = s.rows[Min(sources)],
                                               ![Min(sources)] = s.rows[rank]]
                 IN  IF sources = {} THEN s
                     ELSE [pivots |-> Append(s.pivots, column),
                           rows |-> [r \in DOMAIN swapped |->
                               IF r # rank /\ column \in swapped[r]
                               THEN Xor(swapped[r], swapped[rank]) ELSE swapped[r]]],
             [pivots |-> <<>>, rows |-> rows], [c \in 1..dimension |-> c - 1])

\* One vector for every column without a pivot, in order.
NullspaceBasis(rows, dimension) ==
    LET e == Pivoted(rows, dimension)
        pivots == {e.pivots[r] : r \in DOMAIN e.pivots}
        free == SelectSeq([c \in 1..dimension |-> c - 1], LAMBDA c : c \notin pivots)
    IN  [k \in DOMAIN free |->
            {free[k]} \cup {e.pivots[r] : r \in {q \in DOMAIN e.pivots : free[k] \in e.rows[q]}}]

\* A solution of the rows for the right-hand side in the column after the last.
SolveBinaryAffine(rows, dimension) ==
    LET e == Pivoted(rows, dimension) IN
    IF \E r \in Len(e.pivots) + 1..Len(e.rows) : e.rows[r] = {dimension}
    THEN Failed("InvalidClifford")
    ELSE [solution |-> {e.pivots[r] : r \in {q \in DOMAIN e.pivots : dimension \in e.rows[q]}}]

-----------------------------------------------------------------------------
(***************************************************************************)
(* Overlaps.  stabilizer_overlap_squared: relations between the products   *)
(* of the two states; the result is 2 ** (rank - n), times 2 ** n here.    *)
(***************************************************************************)
Relations(n, left, right) ==
    LET both == left \o right IN
    NullspaceBasis([b \in 1..2 * n |-> {k - 1 : k \in {j \in DOMAIN both : b - 1 \in Bits(n, both[j])}}],
                   Len(both))

StabilizerOverlap(n, left, right) ==
    LET relations == Relations(n, left, right)
        first(r) == ProductOver(left, {k \in r : k < Len(left)})
        second(r) == ProductOver(right, {k - Len(left) : k \in {j \in r : j >= Len(left)}})
    IN  IF \E i \in DOMAIN relations : first(relations[i]) # second(relations[i])
        THEN 0 ELSE 2 ^ Len(relations)

\* stabilizer_x_basis: generators with distinct first X bits, by that bit.
StabilizerXBasis(n, tableau) ==
    LET reduced(row, basis) ==
            FoldLeft(LAMBDA r, q : IF q \in DOMAIN basis /\ r.x # {} /\ Min(r.x) = q
                                   THEN MultiplyInPlace(r, basis[q]) ELSE r,
                     row, [q \in 1..n |-> q - 1])
        basis == FoldLeft(LAMBDA b, g :
                              LET row == reduced(g, b) IN
                              IF row.x = {} THEN b
                              ELSE [q \in DOMAIN b \cup {Min(row.x)} |->
                                       IF q = Min(row.x) THEN row ELSE b[q]],
                          [q \in {} |-> {}], tableau)
        pivots == SelectSeq([q \in 1..n |-> q - 1], LAMBDA q : q \in DOMAIN basis)
    IN  [k \in DOMAIN pivots |-> basis[pivots[k]]]

StabilizerZGenerators(n, tableau) ==
    LET equations == [q \in 1..n |-> {k - 1 : k \in {j \in DOMAIN tableau : q - 1 \in tableau[j].x}}]
        selections == NullspaceBasis(equations, Len(tableau))
    IN  [k \in DOMAIN selections |->
            FoldLeft(LAMBDA p, j : IF j - 1 \in selections[k] THEN MultiplyInPlace(p, tableau[j]) ELSE p,
                     SignedIdentity, [j \in DOMAIN tableau |-> j])]

\* signed_pauli_amplitude: what the product makes of the base state.
SignedPauliAmplitude(p, base) == Scale(p.sign, ActionPhase(WordOf(p), base))

\* A basis state that satisfies every generator without X.
SupportBase(n, tableau) ==
    LET zs == StabilizerZGenerators(n, tableau) IN
    SolveBinaryAffine([k \in DOMAIN zs |-> IF zs[k].sign < 0 THEN zs[k].z \cup {n} ELSE zs[k].z], n).solution

\* Faulty: the masks are taken for Gray codes.
ChangedBitOfMask(mask) == Max({k \in 0..mask : 2 ^ k <= mask})

\* The bit in which two successive Gray codes differ.
ChangedBit(mask) == Max({k \in 0..mask : mask % 2 ^ k = 0})

\* The target's overlap with the support of the generators xs from a base state,
\* walked in Gray order with one product a step.
GrayWalk(target, xs, base) ==
    LET added(p) == Times(Conj(target[Xor(base, p.x)]), SignedPauliAmplitude(p, base))
        step(s, mask) ==
            LET p == MultiplyInPlace(s.product, xs[ChangedBit(mask) + 1]) IN
            [product |-> p, sum |-> Plus(s.sum, added(p))]
    IN  FoldLeft(step, [product |-> SignedIdentity, sum |-> added(SignedIdentity)],
                 [mask \in 1..2 ^ Len(xs) - 1 |-> mask]).sum

\* dense_stabilizer_overlap_squared, times 2 ** n and the squared norm of the target.
DenseOverlapSquared(n, target, tableau) ==
    LET squares == {(NormSqr(GrayWalk(target, xs, base)) * 2 ^ n) \div 2 ^ Len(xs) :
                       xs \in {StabilizerXBasis(n, tableau)}, base \in {SupportBase(n, tableau)}}
    IN  CHOOSE x \in squares : TRUE
=============================================================================
