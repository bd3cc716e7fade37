--------------------------- MODULE ShadowEstimates ---------------------------
(***************************************************************************)
(* What is estimated from recorded shadows (the methods of Snapshots in    *)
(* shadows.rs).  Snapshots are a record of flat arrays indexed from 0:     *)
(* rows (Pauli codes, or signed frame rows) and outcome bits.  Estimates   *)
(* are integers over a common denominator that each operator names.        *)
(***************************************************************************)
EXTENDS Stabilizer

LOCAL INSTANCE SequencesExt
LOCAL INSTANCE FiniteSetsExt
LOCAL INSTANCE Folds

Sum(S, f(_)) == MapThenFoldSet(+, 0, f, LAMBDA T : CHOOSE x \in T : TRUE, S)

RowsAt(S, setting) == [k \in 1..S.nqubits |-> S.rows[setting * S.nqubits + k - 1]]
BitsAt(S, setting, repeat) ==
    [k \in 1..S.nqubits |-> S.outcomes[(setting * S.repeats + repeat) * S.nqubits + k - 1]]

\* snapshot_stabilizer
SnapshotStabilizer(S, setting, repeat) ==
    LET rows == RowsAt(S, setting)
        bits == BitsAt(S, setting, repeat)
    IN  [k \in 1..S.nqubits |-> [rows[k] EXCEPT !.sign = @ * (1 - 2 * bits[k])]]

\* from_pauli_measurements, from_clifford_measurements: checks in order.
PackedBytes(S) == 2 * 8 * S.nsettings * S.nqubits * PackedWordCount(S.nqubits)
SnapshotBytes(S) ==
    S.nsettings * S.nqubits * (1 + S.repeats) + IF S.protocol = "clifford" THEN PackedBytes(S) ELSE 0

Imported(S, limit) ==
    IF S.nsettings = 0 \/ S.repeats = 0 THEN Failed("InvalidIndex")
    ELSE IF \/ DOMAIN S.rows # 0..S.nsettings * S.nqubits - 1
            \/ DOMAIN S.outcomes # 0..S.nsettings * S.repeats * S.nqubits - 1
    THEN Failed("InvalidStructureLength")
    ELSE IF S.protocol = "pauli" /\ \E k \in DOMAIN S.rows : S.rows[k] \notin 1..3
    THEN Failed("InvalidCode")
    ELSE IF \E k \in DOMAIN S.outcomes : S.outcomes[k] > 1 THEN Failed("InvalidCode")
    ELSE IF /\ S.protocol = "clifford"
            /\ \E s \in 0..S.nsettings - 1 : ~ValidGeneratorSet(S.nqubits, RowsAt(S, s))
    THEN Failed("InvalidClifford")
    ELSE IF SnapshotBytes(S) > limit THEN Failed("MemoryLimit")
    ELSE S

-----------------------------------------------------------------------------
(***************************************************************************)
(* Linear estimates.  A setting's value is a sum over its repeats.         *)
(***************************************************************************)
PauliTerm(n, rows, bits, w) ==
    LET measured == {k \in 1..n : k - 1 \in Support(w)} IN
    IF \E k \in measured : rows[k] # CodeAt(w, k - 1) THEN 0
    ELSE 3 ^ WeightOf(w) * (1 - 2 * (Cardinality({k \in measured : bits[k] = 1}) % 2))

CliffordTerm(n, snapshot, span, w) ==
    IF WeightOf(w) = 0 THEN 1 ELSE (2 ^ n + 1) * Expectation(n, snapshot, span, w)

ShotValues(S, setting, repeat, operators) ==
    LET n == S.nqubits
        snapshot == SnapshotStabilizer(S, setting, repeat)
        span == Span(n, snapshot)
        term(w) == IF S.protocol = "pauli"
                   THEN PauliTerm(n, RowsAt(S, setting), BitsAt(S, setting, repeat), w)
                   ELSE CliffordTerm(n, snapshot, span, w)
    IN  [o \in DOMAIN operators |->
            Sum(DOMAIN operators[o].terms,
                LAMBDA t : operators[o].terms[t].coefficient.re * term(operators[o].terms[t].word))]

SettingValue(S, operators, o, setting) ==
    Sum(0..S.repeats - 1, LAMBDA r : ShotValues(S, setting, r, operators)[o])

\* Operators are checked in turn, each for its width and then for being Hermitian.
OperatorsError(S, operators) ==
    LET error(op) == IF op.nqubits # S.nqubits THEN "IncompatibleQubitCounts"
                     ELSE IF ~IsHermitian(op) THEN "NonHermitianExpectation" ELSE "none"
        rejected == {o \in DOMAIN operators : error(operators[o]) # "none"}
    IN  IF operators = <<>> THEN "InvalidStructureLength"
        ELSE IF rejected = {} THEN "none"
        ELSE error(operators[Min(rejected)])

LinearBlocks(S, blocks) == blocks # 0 /\ blocks <= S.nsettings
PairedBlocks(S, blocks) == blocks # 0 /\ S.nsettings >= 2 * blocks

\* balanced_block_size: the first blocks take what is left over, one each.
BlockSize(S, blocks, b) == S.nsettings \div blocks + IF b < S.nsettings % blocks THEN 1 ELSE 0
BlockStart(S, blocks, b) == Sum(0..b - 1, LAMBDA c : BlockSize(S, blocks, c))
Block(S, blocks, b) ==
    BlockStart(S, blocks, b)..BlockStart(S, blocks, b) + BlockSize(S, blocks, b) - 1

\* Divisible by the sizes of all blocks, and by size * (size - 1).
Common(S, blocks) ==
    LET base == S.nsettings \div blocks IN
    base * (base + 1) * IF base > 1 THEN base - 1 ELSE 1

\* block_means over Common, of one value per setting.
BlockMeans(S, blocks, value) ==
    [b \in 1..blocks |-> Sum(Block(S, blocks, b - 1), LAMBDA s : value[s])
                         * (Common(S, blocks) \div BlockSize(S, blocks, b - 1))]

\* Twice the median.
Median2(values) ==
    LET s == SortSeq(values, <)
        m == Len(s) \div 2
    IN  IF Len(s) % 2 = 1 THEN 2 * s[m + 1] ELSE s[m] + s[m + 1]

\* Block values over D, or twice the median over D.
Reduced(blockValues, returnBlocks) ==
    IF returnBlocks THEN blockValues ELSE <<Median2(blockValues)>>

\* estimate_many: per operator, values over repeats * Common.
EstimateMany(S, operators, blocks, returnBlocks) ==
    IF ~LinearBlocks(S, blocks) THEN Failed("InvalidIndex")
    ELSE IF OperatorsError(S, operators) # "none" THEN Failed(OperatorsError(S, operators))
    ELSE [values |-> [o \in DOMAIN operators |->
             Reduced(BlockMeans(S, blocks, [s \in 0..S.nsettings - 1 |-> SettingValue(S, operators, o, s)]),
                     returnBlocks)]]

-----------------------------------------------------------------------------
(***************************************************************************)
(* Reduced density matrices, times 2 ** Len(keep): functions of a row and  *)
(* a column, each the set of the positions in keep whose bit is set.       *)
(***************************************************************************)
States(k) == SUBSET (0..k - 1)

\* 1 + 3 sign P for the measured Pauli P.
LocalEntry(code, sign, row, column) ==
    CASE row = column -> Gauss(1 + IF code = 3 THEN IF row THEN -3 * sign ELSE 3 * sign ELSE 0, 0)
      [] row # column /\ code = 1 -> Gauss(3 * sign, 0)
      [] row # column /\ code = 2 -> Gauss(0, IF row THEN 3 * sign ELSE -3 * sign)
      [] OTHER -> Zero

LocalPauliRdm(keep, rows, bits) ==
    [row \in States(Len(keep)) |-> [column \in States(Len(keep)) |->
        ProductOf([k \in DOMAIN keep |->
            LocalEntry(rows[keep[k] + 1], 1 - 2 * bits[keep[k] + 1], k - 1 \in row, k - 1 \in column)])]]

Restricted(w, keep) ==
    Word({k - 1 : k \in {j \in DOMAIN keep : keep[j] \in w.x}},
         {k - 1 : k \in {j \in DOMAIN keep : keep[j] \in w.z}})

\* The sum of signed Pauli matrices (add_pauli_matrix).
PauliSum(k, paulis) ==
    [row \in States(k) |-> [column \in States(k) |->
        Total(DOMAIN paulis, [i \in DOMAIN paulis |->
            IF Xor(column, paulis[i].x) = row
            THEN Scale(paulis[i].sign, ActionPhase(WordOf(paulis[i]), column)) ELSE Zero])]]

\* Products of the generators that act as the identity off the kept qubits.
RestrictedGroup(n, tableau, keep) ==
    LET traced == SelectSeq([q \in 1..n |-> q - 1], LAMBDA q : \A k \in DOMAIN keep : keep[k] # q)
        having(q, z) == {k - 1 : k \in {j \in DOMAIN tableau : q \in IF z THEN tableau[j].z ELSE tableau[j].x}}
        constraints == FlattenSeq([k \in DOMAIN traced |-> <<having(traced[k], FALSE), having(traced[k], TRUE)>>])
        kernel == NullspaceBasis(constraints, Len(tableau))
    IN  [mask \in SUBSET DOMAIN kernel |->
            LET product == FoldLeft(LAMBDA p, i : IF i \in mask THEN Multiply(p, ProductOver(tableau, kernel[i])) ELSE p,
                                    SignedIdentity, [i \in DOMAIN kernel |-> i])
            IN  Signed(Restricted(product, keep), product.sign)]

StabilizerRdm(n, tableau, keep) ==
    LET sum == PauliSum(Len(keep), RestrictedGroup(n, tableau, keep)) IN
    [row \in DOMAIN sum |-> [column \in DOMAIN sum |->
        Minus(Scale(2 ^ n + 1, sum[row][column]), IF row = column THEN Gauss(2 ^ n, 0) ELSE Zero)]]

SnapshotRdm(S, setting, repeat, keep) ==
    IF S.protocol = "pauli"
    THEN LocalPauliRdm(keep, RowsAt(S, setting), BitsAt(S, setting, repeat))
    ELSE StabilizerRdm(S.nqubits, SnapshotStabilizer(S, setting, repeat), keep)

MatrixSum(k, matrices) ==
    [row \in States(k) |-> [column \in States(k) |->
        Total(DOMAIN matrices, [i \in DOMAIN matrices |-> matrices[i][row][column]])]]

SettingRdm(S, setting, keep) ==
    MatrixSum(Len(keep), [r \in 0..S.repeats - 1 |-> SnapshotRdm(S, setting, r, keep)])

TraceProduct(a, b) ==
    LET entries == (DOMAIN a) \X (DOMAIN a) IN
    Total(entries, [rc \in entries |-> Times(a[rc[1]][rc[2]], b[rc[2]][rc[1]])]).re

ValidSubsystem(S, keep) ==
    /\ \A k \in DOMAIN keep : keep[k] < S.nqubits
    /\ \A j, k \in DOMAIN keep : j # k => keep[j] # keep[k]

\* rdm, over 2 ** Len(keep) * shots.
Rdm(S, keep, limit) ==
    IF ~ValidSubsystem(S, keep) THEN Failed("InvalidIndex")
    ELSE IF 16 * 4 ^ Len(keep) > limit THEN Failed("MemoryLimit")
    ELSE [matrix |-> MatrixSum(Len(keep), [s \in 0..S.nsettings - 1 |-> SettingRdm(S, s, keep)])]

-----------------------------------------------------------------------------
(***************************************************************************)
(* Estimates of products of states: differences of squares within blocks   *)
(* of at least two settings.                                               *)
(***************************************************************************)
\* Median purities and what -ln makes of them.
Entropy(values) ==
    LET purity == Median2(values) IN
    [purity |-> purity,
     entropy |-> IF purity < 0 THEN "NaN" ELSE IF purity = 0 THEN "Infinity" ELSE "-ln"]

\* Block purities over 4 ** Len(keep) * repeats ** 2 * Common.
ShadowPurities(S, keep, blocks, rdms) ==
    [b \in 1..blocks |->
        LET settings == Block(S, blocks, b - 1)
            sum == MatrixSum(Len(keep), [s \in settings |-> rdms[s]])
            size == BlockSize(S, blocks, b - 1)
        IN  (TraceProduct(sum, sum) - Sum(settings, LAMBDA s : TraceProduct(rdms[s], rdms[s])))
            * (Common(S, blocks) \div (size * (size - 1)))]

\* Pairs of repeats in one basis, over 2 ** Len(keep) * repeats * (repeats - 1),
\* with the factor 2 ** Len(keep) of the estimate left out of both.
RandomizedPurity(S, keep, setting) ==
    LET bits(r) == BitsAt(S, setting, r)
        distance(l, r) == Cardinality({k \in DOMAIN keep : bits(l)[keep[k] + 1] # bits(r)[keep[k] + 1]})
        pairs == {p \in (0..S.repeats - 1) \X (0..S.repeats - 1) : p[1] # p[2]}
    IN  Sum(pairs, LAMBDA p : LET d == distance(p[1], p[2]) IN
                              (1 - 2 * (d % 2)) * 2 ^ (Len(keep) - d))

\* renyi_entropy; the randomized values are over repeats * (repeats - 1) * Common.
RenyiEntropy(S, keep, blocks, method, limit) ==
    IF ~ValidSubsystem(S, keep) THEN Failed("InvalidIndex")
    ELSE IF method = "shadow"
    THEN IF ~PairedBlocks(S, blocks) THEN Failed("InvalidIndex")
         ELSE IF 3 * 16 * 4 ^ Len(keep) + 8 * blocks > limit THEN Failed("MemoryLimit")
         ELSE Entropy(ShadowPurities(S, keep, blocks, [s \in 0..S.nsettings - 1 |-> SettingRdm(S, s, keep)]))
    ELSE IF method # "randomized" THEN Failed("InvalidIndex")
    ELSE IF S.protocol # "pauli" \/ S.repeats < 2 THEN Failed("InvalidClifford")
    ELSE IF ~LinearBlocks(S, blocks) THEN Failed("InvalidIndex")
    ELSE IF 8 * (S.nsettings + blocks) > limit THEN Failed("MemoryLimit")
    ELSE Entropy(BlockMeans(S, blocks, [s \in 0..S.nsettings - 1 |-> RandomizedPurity(S, keep, s)]))

\* The square with the imaginary parts of its coefficients dropped.
RealSquare(square) ==
    Operator(square.nqubits,
        SelectSeq([k \in DOMAIN square.terms |->
                      [square.terms[k] EXCEPT !.coefficient = Gauss(@.re, 0)]],
                  LAMBDA t : t.coefficient # Zero))

\* Block variances over repeats ** 2 * Common.
Variances(S, blocks, first, second) ==
    [b \in 1..blocks |->
        LET settings == Block(S, blocks, b - 1)
            size == BlockSize(S, blocks, b - 1)
            sum == Sum(settings, LAMBDA s : first[s])
        IN  S.repeats * Sum(settings, LAMBDA s : second[s]) * (Common(S, blocks) \div size)
            - (sum * sum - Sum(settings, LAMBDA s : first[s] * first[s]))
              * (Common(S, blocks) \div (size * (size - 1)))]

EnergyVariance(S, hamiltonian, blocks, limit) ==
    LET square == MultiplyWithLimit(hamiltonian, hamiltonian, limit)
        values(op) == [s \in 0..S.nsettings - 1 |-> SettingValue(S, <<op>>, 1, s)]
    IN  IF ~PairedBlocks(S, blocks) THEN Failed("InvalidIndex")
        ELSE IF ~IsHermitian(hamiltonian) THEN Failed("NonHermitianExpectation")
        ELSE IF IsFailed(square) THEN square
        ELSE IF hamiltonian.nqubits # S.nqubits THEN Failed("IncompatibleQubitCounts")
        ELSE [variance |-> Median2(Variances(S, blocks, values(hamiltonian), values(RealSquare(square))))]

-----------------------------------------------------------------------------
(***************************************************************************)
(* Fidelities with a stabilizer state, over 2 ** n * repeats * Common, and *)
(* with a dense one, over its squared norm too.                            *)
(***************************************************************************)
StabilizerFidelity(n, target, snapshot) == (2 ^ n + 1) * StabilizerOverlap(n, target, snapshot) - 2 ^ n

DenseFidelity(n, target, norm, snapshot) ==
    (2 ^ n + 1) * DenseOverlapSquared(n, target, snapshot) - 2 ^ n * norm

StabilizerFidelities(S, target) ==
    [s \in 0..S.nsettings - 1 |->
        Sum(0..S.repeats - 1,
            LAMBDA r : StabilizerFidelity(S.nqubits, target, SnapshotStabilizer(S, s, r)))]

DenseFidelities(S, target, norm) ==
    [s \in 0..S.nsettings - 1 |->
        Sum(0..S.repeats - 1,
            LAMBDA r : DenseFidelity(S.nqubits, target, norm, SnapshotStabilizer(S, s, r)))]

Fidelity(S, target, blocks, returnBlocks) ==
    IF S.protocol # "clifford" THEN Failed("InvalidClifford")
    ELSE IF Len(target) # S.nqubits THEN Failed("IncompatibleQubitCounts")
    ELSE IF ~LinearBlocks(S, blocks) THEN Failed("InvalidIndex")
    ELSE [values |-> <<Reduced(BlockMeans(S, blocks, StabilizerFidelities(S, target)), returnBlocks)>>]

\* The target is normalised when the amplitudes as given have norm one.
FidelityStatevector(S, target, normalised, blocks, returnBlocks) ==
    LET norm == Sum(DOMAIN target, LAMBDA b : NormSqr(target[b])) IN
    IF S.protocol # "clifford" THEN Failed("InvalidClifford")
    ELSE IF DOMAIN target # SUBSET Qubits(S.nqubits) THEN Failed("InvalidStructureLength")
    ELSE IF ~normalised THEN Failed("InvalidClifford")
    ELSE IF ~LinearBlocks(S, blocks) THEN Failed("InvalidIndex")
    ELSE [values |-> <<Reduced(BlockMeans(S, blocks, DenseFidelities(S, target, norm)), returnBlocks)>>]
=============================================================================
