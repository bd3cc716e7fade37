---------------------------- MODULE ShadowFrames ----------------------------
(***************************************************************************)
(* The random choices of a shadow setting and its measurement: counter     *)
(* streams (random.rs), Pauli bases, symplectic frames, and the outcomes   *)
(* of a repeat for stabilizer and for dense states (shadows.rs).  A draw   *)
(* is a word of Width bits, a real draw its upper part.  Dense states are  *)
(* not normalised: a probability is a ratio of squared norms.              *)
(***************************************************************************)
EXTENDS Stabilizer

LOCAL INSTANCE SequencesExt
LOCAL INSTANCE FiniteSetsExt
LOCAL INSTANCE Folds

CONSTANTS
    Width,                    \* bits of a draw (64)
    LowBits,                  \* bits a real draw leaves out (11)
    Counter(_, _, _, _, _),   \* seed, domain, first, second, draw
    MaxDraws                  \* bound on the draws looked at

Stream(seed, domain, first, second) ==
    [seed |-> seed, domain |-> domain, first |-> first, second |-> second]
Drawn(s, k) == Counter(s.seed, s.domain, s.first, s.second, k)
Coin(s, k) == Drawn(s, k) % 2
Coins(s) == [k \in 0..MaxDraws |-> Coin(s, k)]

\* next_f64 is Fraction / Resolution.
Fraction(s, k) == Drawn(s, k) \div 2 ^ LowBits
Resolution == 2 ^ (Width - LowBits)

\* bounded: draws under 2 ** Width mod upper are thrown away.
Accepted(s, from, upper) == Min({k \in from..MaxDraws : Drawn(s, k) >= (2 ^ Width) % upper})

PauliBases(n, s) ==
    FoldLeft(LAMBDA b, q : LET k == Accepted(s, b.draw, 3) IN
                           [codes |-> Append(b.codes, (Drawn(s, k) % 3) + 1), draw |-> k + 1],
             [codes |-> <<>>, draw |-> 0], [q \in 1..n |-> q]).codes

\* A Pauli basis as the observable it measures at qubit q.
BasisRow(q, code) ==
    Signed(Word(IF code \in {1, 2} THEN {q} ELSE {}, IF code \in {2, 3} THEN {q} ELSE {}), 1)

-----------------------------------------------------------------------------
(***************************************************************************)
(* Symplectic frames, from a function of coin flips.                       *)
(***************************************************************************)
Combined(basis, selected) ==
    FoldLeft(LAMBDA v, k : IF k \in selected THEN ProductWord(v, basis[k]) ELSE v,
             Word({}, {}), [k \in DOMAIN basis |-> k])

Heads(coins, from, count) == {k \in 1..count : coins[from + k - 1] = 1}

\* sample_nonzero_subspace: as many flips as vectors, again while all are tails.
SampleNonzero(basis, coins, from) ==
    LET m == Len(basis)
        attempts == {a \in 0..MaxDraws : from + (a + 1) * m - 1 \in DOMAIN coins
                                         /\ Heads(coins, from + a * m, m) # {}}
        start == from + Min(attempts) * m
    IN  [vector |-> Combined(basis, Heads(coins, start, m)), next |-> start + m]

\* sample_anticommuting_vector: one flip for each vector but the pivot, whose
\* share is set so that the sum anticommutes with z.
SampleAnticommuting(basis, z, coins, from) ==
    LET dual == {k \in DOMAIN basis : SymplecticInnerProduct(basis[k], z) = 1}
        pivot == Min(dual)
        flipped == {k \in DOMAIN basis \ {pivot} :
                       coins[from + (IF k < pivot THEN k - 1 ELSE k - 2)] = 1}
    IN  [vector |-> Combined(basis, IF Odd(flipped \cap dual) THEN flipped ELSE flipped \cup {pivot}),
         next |-> from + Len(basis) - 1]

SymplecticComplement(basis, x, z) ==
    LET constraint(v) == {k - 1 : k \in {j \in DOMAIN basis : SymplecticInnerProduct(basis[j], v) = 1}}
        kernel == NullspaceBasis(<<constraint(x), constraint(z)>>, Len(basis))
    IN  [i \in DOMAIN kernel |-> Combined(basis, {k + 1 : k \in kernel[i]})]

UnitBasis(n) ==
    [k \in 1..2 * n |-> LET q == (k - 1) \div 2 IN
                        IF k % 2 = 1 THEN Word({q}, {}) ELSE Word({}, {q})]

\* sample_symplectic_frame: the retained vectors and the flips read.
SymplecticFrame(n, coins) ==
    FoldLeft(LAMBDA f, q :
                 LET z == SampleNonzero(f.basis, coins, f.draw)
                     x == SampleAnticommuting(f.basis, z.vector, coins, z.next)
                 IN  [rows |-> Append(f.rows, z.vector), draw |-> x.next,
                      basis |-> SymplecticComplement(f.basis, x.vector, z.vector)],
             [rows |-> <<>>, draw |-> 0, basis |-> UnitBasis(n)], [q \in 1..n |-> q])

CliffordRows(n, frame, sign) ==
    LET rows == SymplecticFrame(n, Coins(frame)).rows IN
    [k \in 1..n |-> Signed(rows[k], 1 - 2 * Coin(sign, k - 1))]

-----------------------------------------------------------------------------
(***************************************************************************)
(* One repeat: the outcome bits of the rows, in order.                     *)
(***************************************************************************)
\* Successive measure_signed on a clone of the state, up to its first failure; only
\* a random outcome reads a flip.
MeasureRows(n, tableau, rows, coins) ==
    FoldLeft(LAMBDA m, row :
                 LET one == MeasureSigned(n, m.tableau, row, coins[m.draws]) IN
                 IF IsFailed(m) THEN m
                 ELSE IF IsFailed(one) THEN one
                 ELSE [tableau |-> one.tableau, bits |-> Append(m.bits, one.bit),
                       draws |-> m.draws + one.draws],
             [tableau |-> tableau, bits |-> <<>>, draws |-> 0], rows)

SquaredNorm(v) == Total(DOMAIN v, [b \in DOMAIN v |-> Gauss(NormSqr(v[b]), 0)]).re

\* apply_h_in_place and apply_y_measurement_rotation, without the factor 1/sqrt 2.
Rotated(v, q, code) ==
    LET right(b) == IF code = 1 THEN v[b \cup {q}] ELSE Times(Gauss(0, -1), v[b \cup {q}]) IN
    IF code = 3 THEN v
    ELSE [b \in DOMAIN v |-> IF q \in b THEN Minus(v[b \ {q}], right(b)) ELSE Plus(v[b], right(b))]

IndexBits(n, index) == [k \in 1..n |-> (index \div 2 ^ (n - k)) % 2]
StateAt(n, index) == {k - 1 : k \in {j \in 1..n : IndexBits(n, index)[j] = 1}}

\* The first index whose cumulative probability exceeds the draw, or the last.
ChosenIndex(n, v, draw) ==
    LET total == SquaredNorm(v)
        cumulative(i) == FoldLeft(LAMBDA s, j : s + NormSqr(v[StateAt(n, j - 1)]), 0, [j \in 1..i + 1 |-> j])
    IN  Min({i \in 0..2 ^ n - 1 : i = 2 ^ n - 1 \/ cumulative(i) * Resolution > draw * total})

\* Pauli outcomes of a dense state: rotate into the bases, then choose an index.
DensePauliBits(n, v, codes, draw) ==
    LET rotated == FoldLeft(LAMBDA u, q : Rotated(u, q, codes[q + 1]), v, [k \in 1..n |-> k - 1])
    IN  IndexBits(n, ChosenIndex(n, rotated, draw))

Applied(p, v) == [b \in DOMAIN v |-> Scale(p.sign, ValueAt(WordOf(p), v, b))]

\* project_from_action_in_place, without its normalisation.
Projected(p, v, eigenvalue) ==
    LET action == Applied(p, v) IN [b \in DOMAIN v |-> Plus(v[b], Scale(eigenvalue, action[b]))]

RealOverlap(u, v) == Total(DOMAIN v, [b \in DOMAIN v |-> Times(Conj(u[b]), v[b])]).re

\* Clifford outcomes of a dense state: each row is measured on what the rows
\* before it left, with one draw a row.
DenseCliffordBits(n, v, rows, stream) ==
    FoldLeft(LAMBDA m, row :
                 LET norm == SquaredNorm(m.state)
                     zero == norm + RealOverlap(m.state, Applied(row, m.state))
                     bit == IF Fraction(stream, Len(m.bits)) * 2 * norm < Resolution * zero THEN 0 ELSE 1
                 IN  [state |-> Projected(row, m.state, 1 - 2 * bit), bits |-> Append(m.bits, bit)],
             [state |-> v, bits |-> <<>>], rows).bits
=============================================================================
