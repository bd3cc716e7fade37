---------------------------- MODULE ShadowSampling ----------------------------
(***************************************************************************)
(* Classical shadows from source to estimate (shadows.rs): a stabilizer    *)
(* state is made of a tape or a tableau, settings are sampled by workers   *)
(* that fill disjoint chunks of flat arrays, measured data may be imported *)
(* instead, and estimates are answered from what was recorded.             *)
(***************************************************************************)
EXTENDS ShadowFrames, ShadowEstimates

LOCAL INSTANCE SequencesExt
LOCAL INSTANCE FiniteSetsExt
LOCAL INSTANCE Folds

CONSTANTS
    NQubits,          \* width of the tapes
    Calls,            \* what is sampled: a source and how
    Requests,         \* what is then asked
    Threads,          \* current_num_threads
    StabilizerQubits, \* 64: narrower Pauli sampling of a tableau is sequential
    StatevectorWork,  \* MIN_CLIFFORD_STATEVECTOR_PARALLEL_WORK
    StabilizerWork    \* MIN_CLIFFORD_STABILIZER_PARALLEL_WORK

ASSUME ShadowAssumption ==
    /\ NQubits \in Nat /\ Threads \in Nat \ {0}
    /\ \A c \in Calls :
          /\ c.source.kind \in {"tape", "tableau", "vector", "measured"}
          /\ c.source.kind \in {"tableau", "vector"} => c.source.n \in Nat
          /\ c.sampling.protocol \in {"pauli", "clifford"}
          /\ c.sampling.nsettings \in Nat /\ c.sampling.repeats \in Nat /\ c.sampling.limit \in Nat

Kernels == INSTANCE PauliKernels

VARIABLES call, phase, step, state, plan, open, worker, snapshots, answer

vars == <<call, phase, step, state, plan, open, worker, snapshots, answer>>

Idle == [chunk |-> -1, local |-> 0, repeat |-> -1]

Fail(e) == phase' = "failed" /\ answer' = Failed(e)

Init ==
    /\ call \in Calls
    /\ phase = "new"
    /\ step = 0
    /\ state = <<>>
    /\ plan = <<>>
    /\ open = {}
    /\ worker = [w \in 1..Threads |-> Idle]
    /\ snapshots = <<>>
    /\ answer = <<>>

-----------------------------------------------------------------------------
(***************************************************************************)
(* Sources.                                                                *)
(***************************************************************************)
Source == call.source
Sampling == call.sampling
IsDense == Source.kind = "vector"

BeginTape ==
    /\ phase = "new" /\ Source.kind = "tape"
    /\ IF Source.parameters # 0
       THEN Fail("UnsupportedCircuitGate") /\ UNCHANGED state
       ELSE /\ state' = [n |-> NQubits, tableau |-> ZeroState(NQubits)]
            /\ phase' = IF Source.gates = <<>> THEN "ready" ELSE "build"
            /\ UNCHANGED answer
    /\ UNCHANGED <<call, step, plan, open, worker, snapshots>>

Key(n, p) == [q \in 0..n - 1 |-> CodeAt(p, q)]

\* Faulty: the sign of the image is not kept.
TransformedUnsigned(op, p) ==
    LET image == Kernels!CliffordImage(op, Key(NQubits, p))
    IN  Signed(FromCodes([k \in 1..NQubits |-> image.key[k - 1]]), p.sign)

\* A generator after one Clifford operation, as a packed key and back.
Transformed(op, p) ==
    LET image == Kernels!CliffordImage(op, Key(NQubits, p))
    IN  Signed(FromCodes([k \in 1..NQubits |-> image.key[k - 1]]), p.sign * image.c)

ApplyGate ==
    /\ phase = "build"
    /\ LET op == Source.gates[step + 1] IN
       IF op.kind \notin {"clifford1", "clifford2"}
       THEN Fail("UnsupportedCircuitGate") /\ UNCHANGED <<state, step>>
       ELSE /\ state' = [state EXCEPT !.tableau = [k \in DOMAIN @ |-> Transformed(op, @[k])]]
            /\ step' = step + 1
            /\ phase' = IF step + 1 = Len(Source.gates) THEN "ready" ELSE "build"
            /\ UNCHANGED answer
    /\ UNCHANGED <<call, plan, open, worker, snapshots>>

ReadTableau ==
    /\ phase = "new" /\ Source.kind = "tableau"
    /\ LET read == FromTableau(Source.n, Source.generators) IN
       IF IsFailed(read) THEN Fail(read.error) /\ UNCHANGED state
       ELSE /\ state' = [n |-> Source.n, tableau |-> read.generators]
            /\ phase' = "ready"
            /\ UNCHANGED answer
    /\ UNCHANGED <<call, step, plan, open, worker, snapshots>>

\* The first checks of sample_statevector, after those of the counts.
ReadVector ==
    /\ phase = "new" /\ Source.kind = "vector"
    /\ IF Sampling.nsettings = 0 \/ Sampling.repeats = 0
       THEN Fail("InvalidIndex") /\ UNCHANGED state
       ELSE IF ~Source.normalised THEN Fail("InvalidClifford") /\ UNCHANGED state
       ELSE /\ state' = [n |-> Source.n, vector |-> Source.amplitudes]
            /\ phase' = "ready"
            /\ UNCHANGED answer
    /\ UNCHANGED <<call, step, plan, open, worker, snapshots>>

ImportMeasurements ==
    /\ phase = "new" /\ Source.kind = "measured"
    /\ LET read == Imported(Source.data, Source.limit) IN
       IF IsFailed(read) THEN Fail(read.error) /\ UNCHANGED snapshots
       ELSE snapshots' = read /\ phase' = "sampled" /\ UNCHANGED answer
    /\ UNCHANGED <<call, step, state, plan, open, worker>>

-----------------------------------------------------------------------------
(***************************************************************************)
(* The plan of a sampling call: bytes, workers and chunks.                 *)
(***************************************************************************)
Outcomes(n) == Sampling.nsettings * Sampling.repeats * n
RetainedBytes(n) ==
    Sampling.nsettings * n + Outcomes(n)
    + IF Sampling.protocol = "pauli" THEN 0
      ELSE 2 * 8 * Sampling.nsettings * n * PackedWordCount(n)

WorkerBytes(n) ==
    IF ~IsDense THEN 16 * n * PackedWordCount(n)
    ELSE 2 ^ n * IF Sampling.protocol = "pauli" THEN 16 + 8 ELSE 32

\* Faulty: the limit is not looked at.
BoundedWorkersAnyLimit(n) == Min({Threads, Sampling.nsettings})

\* bounded_shadow_worker_count: as many as fit beside what is kept, at least one.
BoundedWorkers(n) ==
    LET left == Max({0, Sampling.limit - RetainedBytes(n)}) IN
    Min({Threads, Sampling.nsettings, Max({1, left \div Max({1, WorkerBytes(n)})})})

MayShare(n) ==
    CASE IsDense /\ Sampling.protocol = "pauli" -> TRUE
      [] IsDense /\ Sampling.protocol = "clifford" ->
            Sampling.nsettings >= 2 /\ Outcomes(n) * 2 ^ n >= StatevectorWork
      [] ~IsDense /\ Sampling.protocol = "pauli" -> n >= StabilizerQubits /\ Sampling.nsettings >= 2
      [] OTHER -> Sampling.nsettings >= 2 /\ Outcomes(n) * n >= StabilizerWork

WorkerCount(n) == IF MayShare(n) THEN BoundedWorkers(n) ELSE 1

\* A stabilizer call checks what it keeps, a dense one its workers' scratch too.
Requested(n) == RetainedBytes(n) + IF IsDense THEN WorkerBytes(n) * WorkerCount(n) ELSE 0

\* div_ceil for a dense state; a stabilizer setting is a task of its own.
ChunkSettings(n) ==
    IF IsDense THEN (Sampling.nsettings + WorkerCount(n) - 1) \div WorkerCount(n) ELSE 1

Recorded(n, rows, outcomes) ==
    [protocol |-> Sampling.protocol, nqubits |-> n, nsettings |-> Sampling.nsettings,
     repeats |-> Sampling.repeats, rows |-> rows, outcomes |-> outcomes]

BlankRow == IF Sampling.protocol = "pauli" THEN 0 ELSE SignedIdentity

StartSampling ==
    /\ phase = "ready"
    /\ LET n == state.n
           per == ChunkSettings(n)
       IN  IF Sampling.nsettings = 0 \/ Sampling.repeats = 0
           THEN Fail("InvalidIndex") /\ UNCHANGED <<plan, open, snapshots>>
           ELSE IF Requested(n) > Sampling.limit
           THEN Fail("MemoryLimit") /\ UNCHANGED <<plan, open, snapshots>>
           ELSE /\ phase' = "sampling"
                /\ plan' = [workers |-> WorkerCount(n), per |-> per]
                /\ open' = IF n = 0 THEN {} ELSE 0..(Sampling.nsettings + per - 1) \div per - 1
                /\ snapshots' = Recorded(n, [k \in 0..Sampling.nsettings * n - 1 |-> BlankRow],
                                         [k \in 0..Outcomes(n) - 1 |-> 0])
                /\ UNCHANGED answer
    /\ UNCHANGED <<call, step, state, worker>>

-----------------------------------------------------------------------------
(***************************************************************************)
(* Workers.  Each chunk is a slice of every array; a setting draws its     *)
(* rows and then its repeats, from streams named by the setting.           *)
(***************************************************************************)
ChunkLength(chunk) == Min({plan.per, Sampling.nsettings - chunk * plan.per})

\* One thread takes its tasks in order, a pool in any order.
TakeChunk(w) ==
    /\ phase = "sampling" /\ w <= plan.workers /\ worker[w] = Idle
    /\ \E chunk \in open :
          /\ plan.workers = 1 => chunk = Min(open)
          /\ open' = open \ {chunk}
          /\ worker' = [worker EXCEPT ![w] = [Idle EXCEPT !.chunk = chunk]]
    /\ UNCHANGED <<call, phase, step, state, plan, snapshots, answer>>

\* Faulty: the streams are those of the setting within the chunk.
SettingLocal(w) == worker[w].local

Setting(w) == plan.per * worker[w].chunk + worker[w].local

DrawnRows(n, setting) ==
    IF Sampling.protocol = "pauli"
    THEN PauliBases(n, Stream(Sampling.seed, "pauli_frame", setting, 0))
    ELSE CliffordRows(n, Stream(Sampling.seed, "clifford_frame", setting, 0),
                         Stream(Sampling.seed, "clifford_sign", setting, 0))

DrawRows(w) ==
    /\ phase = "sampling" /\ worker[w] # Idle /\ worker[w].repeat = -1
    /\ \E rows \in {DrawnRows(state.n, Setting(w))} :
          LET start == (worker[w].chunk * plan.per + worker[w].local) * state.n IN
          snapshots' = [snapshots EXCEPT !.rows =
                           [k \in DOMAIN @ |-> IF k \in start..start + state.n - 1
                                               THEN rows[k - start + 1] ELSE @[k]]]
    /\ worker' = [worker EXCEPT ![w].repeat = 0]
    /\ UNCHANGED <<call, phase, step, state, plan, open, answer>>

\* The rows as observables.
Observables(n, rows) ==
    IF Sampling.protocol = "pauli" THEN [k \in 1..n |-> BasisRow(k - 1, rows[k])] ELSE rows

\* The outcome bits of a repeat, or the error of its measurements.
Measurement(n, setting, repeat, rows) ==
    CASE IsDense /\ Sampling.protocol = "pauli" ->
            [bits |-> DensePauliBits(n, state.vector, rows,
                          Fraction(Stream(Sampling.seed, "pauli_outcome", setting, 0), repeat))]
      [] IsDense /\ Sampling.protocol = "clifford" ->
            [bits |-> DenseCliffordBits(n, state.vector, rows,
                          Stream(Sampling.seed, "clifford_outcome", setting, repeat))]
      [] OTHER ->
            MeasureRows(n, state.tableau, Observables(n, rows),
                Coins(Stream(Sampling.seed,
                             IF Sampling.protocol = "pauli" THEN "pauli_outcome" ELSE "clifford_outcome",
                             setting, repeat)))

\* The repeat's outcomes, and where the worker goes on; an error ends the call for all.
MeasureRepeat(w) ==
    /\ phase = "sampling" /\ worker[w].repeat >= 0
    /\ LET at == worker[w]
           base == at.chunk * plan.per + at.local
           rows == [k \in 1..state.n |-> snapshots.rows[base * state.n + k - 1]]
           start == (base * Sampling.repeats + at.repeat) * state.n
       IN  \E measured \in {Measurement(state.n, Setting(w), at.repeat, rows)} :
             IF IsFailed(measured)
             THEN /\ Fail("InvalidClifford")
                  /\ worker' = [v \in DOMAIN worker |-> Idle]
                  /\ UNCHANGED snapshots
             ELSE /\ snapshots' = [snapshots EXCEPT !.outcomes =
                         [k \in DOMAIN @ |-> IF k \in start..start + state.n - 1
                                             THEN measured.bits[k - start + 1] ELSE @[k]]]
                  /\ worker' = [worker EXCEPT ![w] =
                         IF at.repeat + 1 < Sampling.repeats THEN [at EXCEPT !.repeat = at.repeat + 1]
                         ELSE IF at.local + 1 < ChunkLength(at.chunk)
                         THEN [at EXCEPT !.local = at.local + 1, !.repeat = -1]
                         ELSE Idle]
                  /\ UNCHANGED <<phase, answer>>
    /\ UNCHANGED <<call, step, state, plan, open>>

\* The arrays go through the checks of an import.
FinishSampling ==
    /\ phase = "sampling" /\ open = {} /\ \A w \in DOMAIN worker : worker[w] = Idle
    /\ LET read == Imported(snapshots, Sampling.limit) IN
       IF IsFailed(read) THEN Fail(read.error) ELSE phase' = "sampled" /\ UNCHANGED answer
    /\ UNCHANGED <<call, step, state, plan, open, worker, snapshots>>

Answer(S, r) ==
    CASE r.kind = "estimate" -> EstimateMany(S, r.operators, r.blocks, r.returnBlocks)
      [] r.kind = "rdm" -> Rdm(S, r.keep, r.limit)
      [] r.kind = "renyi" -> RenyiEntropy(S, r.keep, r.blocks, r.method, r.limit)
      [] r.kind = "variance" -> EnergyVariance(S, r.operator, r.blocks, r.limit)
      [] r.kind = "fidelity" -> Fidelity(S, r.target, r.blocks, r.returnBlocks)
      [] OTHER -> FidelityStatevector(S, r.target, r.normalised, r.blocks, r.returnBlocks)

Ask ==
    /\ phase = "sampled"
    /\ \E r \in Requests :
          /\ answer' = Answer(snapshots, r) @@ [request |-> r]
          /\ phase' = "answered"
    /\ UNCHANGED <<call, step, state, plan, open, worker, snapshots>>

Next ==
    \/ BeginTape \/ ApplyGate \/ ReadTableau \/ ReadVector \/ ImportMeasurements
    \/ StartSampling \/ FinishSampling \/ Ask
    \/ \E w \in 1..Threads : TakeChunk(w) \/ DrawRows(w) \/ MeasureRepeat(w)

Spec == Init /\ [][Next]_vars

-----------------------------------------------------------------------------
(***************************************************************************)
(* Reference: gates and projections on dense states.                       *)
(***************************************************************************)
Flipped(b, q) == Xor(b, {q})
Phased(v, q, factor) == [b \in DOMAIN v |-> IF q \in b THEN Times(factor, v[b]) ELSE v[b]]

\* One gate on a vector; H is not normalised.
OnVector(op, v) ==
    LET p == op.wires[1]
        q == op.wires[Len(op.wires)]
    IN  CASE op.gate = "x" -> [b \in DOMAIN v |-> v[Flipped(b, p)]]
          [] op.gate = "y" -> [b \in DOMAIN v |-> Times(Gauss(0, IF p \in b THEN 1 ELSE -1), v[Flipped(b, p)])]
          [] op.gate = "z" -> Phased(v, p, Gauss(-1, 0))
          [] op.gate = "s" -> Phased(v, p, Gauss(0, 1))
          [] op.gate = "sdg" -> Phased(v, p, Gauss(0, -1))
          [] op.gate = "h" -> [b \in DOMAIN v |-> IF p \in b THEN Minus(v[Flipped(b, p)], v[b])
                                                  ELSE Plus(v[b], v[Flipped(b, p)])]
          [] op.gate = "cnot" -> [b \in DOMAIN v |-> IF p \in b THEN v[Flipped(b, q)] ELSE v[b]]
          [] op.gate = "cz" -> [b \in DOMAIN v |-> IF {p, q} \subseteq b THEN Neg(v[b]) ELSE v[b]]
          [] OTHER -> [b \in DOMAIN v |-> IF Cardinality({p, q} \cap b) = 1 THEN v[Xor(b, {p, q})] ELSE v[b]]

InverseGate(op) ==
    [op EXCEPT !.gate = IF @ = "s" THEN "sdg" ELSE IF @ = "sdg" THEN "s" ELSE @]

Basis(n, b) == [c \in SUBSET Qubits(n) |-> IF c = b THEN One ELSE Zero]

\* The state after the gates so far.
TapeVector == FoldLeft(LAMBDA v, op : OnVector(op, v), Basis(NQubits, {}), SubSeq(Source.gates, 1, step))
InverseTapeVector ==
    FoldLeft(LAMBDA v, op : OnVector(InverseGate(op), v), Basis(NQubits, {}), SubSeq(Source.gates, 1, step))

\* A vector that all generators stabilise.
PreparedVector(n, tableau) ==
    LET from(b) == FoldLeft(LAMBDA v, g : Projected(g, v, 1), Basis(n, b), tableau)
        b0 == CHOOSE b \in SUBSET Qubits(n) : SquaredNorm(from(b)) # 0
    IN  from(b0)

SourceVector ==
    CASE Source.kind = "vector" -> state.vector
      [] Source.kind = "tape" -> InverseTapeVector
      [] OTHER -> PreparedVector(state.n, state.tableau)

\* Bits of the rows by projecting the vector, a flip where both are possible.
ProjectedBits(v, rows, coins) ==
    FoldLeft(LAMBDA m, row :
                 LET up == Projected(row, m.state, 1)
                     down == Projected(row, m.state, -1)
                     random == SquaredNorm(up) # 0 /\ SquaredNorm(down) # 0
                     bit == IF random THEN coins[m.draws] ELSE IF SquaredNorm(up) = 0 THEN 1 ELSE 0
                 IN  [state |-> IF bit = 0 THEN up ELSE down, bits |-> Append(m.bits, bit),
                      draws |-> m.draws + IF random THEN 1 ELSE 0],
             [state |-> v, bits |-> <<>>, draws |-> 0], rows).bits

\* The same for real draws: the part of the norm that the outcome 0 keeps.
DrawnBits(v, rows, stream) ==
    FoldLeft(LAMBDA m, row :
                 LET up == Projected(row, m.state, 1)
                     bit == IF Fraction(stream, Len(m.bits)) * 4 * SquaredNorm(m.state)
                               < Resolution * SquaredNorm(up) THEN 0 ELSE 1
                 IN  [state |-> Projected(row, m.state, 1 - 2 * bit), bits |-> Append(m.bits, bit)],
             [state |-> v, bits |-> <<>>], rows).bits

\* Bits chosen among all outcomes by their weights, in the order of their integers.
WeightedBits(n, v, rows, draw) ==
    LET weight == [i \in 0..2 ^ n - 1 |->
                     SquaredNorm(FoldLeft(LAMBDA u, k : Projected(rows[k], u, 1 - 2 * IndexBits(n, i)[k]),
                                          v, [k \in 1..n |-> k]))]
        below(i) == Sum(0..i, LAMBDA j : weight[j])
    IN  IndexBits(n, Min({i \in 0..2 ^ n - 1 :
                             below(i) * Resolution > draw * below(2 ^ n - 1) \/ i = 2 ^ n - 1}))

ReferenceBits(n, v, setting, repeat, rows) ==
    LET observables == Observables(n, rows) IN
    IF ~IsDense
    THEN ProjectedBits(v, observables,
             Coins(Stream(Sampling.seed, IF Sampling.protocol = "pauli" THEN "pauli_outcome"
                                         ELSE "clifford_outcome", setting, repeat)))
    ELSE IF Sampling.protocol = "clifford"
    THEN DrawnBits(v, observables, Stream(Sampling.seed, "clifford_outcome", setting, repeat))
    ELSE WeightedBits(n, v, observables, Fraction(Stream(Sampling.seed, "pauli_outcome", setting, 0), repeat))

-----------------------------------------------------------------------------
(***************************************************************************)
(* Properties.                                                             *)
(***************************************************************************)
\* After every gate of a tape the generators commute, are independent and stabilise
\* the state that the inverses of the gates so far make of |0>: the maps applied
\* (from_tape) are those of observables in the Heisenberg picture.
TableauIsTheState ==
    (Source.kind = "tape" /\ phase \in {"build", "ready"}) =>
        /\ ValidGeneratorSet(NQubits, state.tableau)
        /\ \A v \in {InverseTapeVector} : \A k \in 1..NQubits : Applied(state.tableau[k], v) = v

\* The tableau made of a tape is that of the state the tape prepares from |0>
\* (what the facade says of from_tape).
TableauIsTheTapesState ==
    (Source.kind = "tape" /\ phase \in {"build", "ready"}) =>
        \A k \in 1..NQubits : Applied(state.tableau[k], TapeVector) = TapeVector

\* Whatever the workers, the chunks and their order, every setting is recorded in its
\* own place, with the rows of its own streams and the outcomes that projecting the
\* source state gives, one flip or draw per open outcome.
SettingsAreMeasured ==
    (phase = "sampled" /\ Source.kind # "measured") =>
        \A v \in {SourceVector} : \A s \in 0..Sampling.nsettings - 1 :
            LET rows == RowsAt(snapshots, s) IN
            /\ rows = DrawnRows(state.n, s)
            /\ \A r \in 0..Sampling.repeats - 1 :
                  BitsAt(snapshots, s, r) = ReferenceBits(state.n, v, s, r, rows)

\* Workers never hold more scratch beside the arrays than the limit allows, except the
\* only worker of a stabilizer call, and a call is refused only when one worker is
\* already too much.
ScratchWithinLimit ==
    LET busy == Cardinality({w \in DOMAIN worker : worker[w] # Idle}) IN
    /\ phase = "sampling" =>
          RetainedBytes(state.n) + (IF IsDense \/ busy > 1 THEN busy * WorkerBytes(state.n) ELSE 0)
              <= Sampling.limit
    /\ (phase = "failed" /\ state # <<>> /\ answer.error = "MemoryLimit") =>
          RetainedBytes(state.n) + (IF IsDense THEN WorkerBytes(state.n) ELSE 0) > Sampling.limit

\* The snapshot of one shot.
Shot(protocol, n, rows, bits) ==
    [protocol |-> protocol, nqubits |-> n, nsettings |-> 1, repeats |-> 1,
     rows |-> [k \in 0..n - 1 |-> rows[k + 1]], outcomes |-> [k \in 0..n - 1 |-> bits[k + 1]]]

\* The frames the sampler makes of flips without a rejected attempt, each with its
\* flips: in the block of a qubit, the first flips are not all tails.
FlipsBefore(q) == q * (4 * NQubits - 2 * q + 1)
AcceptedFlips ==
    {c \in [0..FlipsBefore(NQubits) - 1 -> {0, 1}] :
        \A q \in 0..NQubits - 1 : \E k \in 0..2 * (NQubits - q) - 1 : c[FlipsBefore(q) + k] = 1}
DrawnFrames == {<<c, SymplecticFrame(NQubits, c).rows>> : c \in AcceptedFlips}
Frames == {d[2] : d \in DrawnFrames}

\* What a protocol can draw of one shot: its rows and a flip for each.
Shots(protocol) ==
    (IF protocol = "pauli" THEN [1..NQubits -> 1..3] ELSE Frames) \X [0..NQubits - 1 -> {0, 1}]

ShotOf(protocol, rows, flips, tableau) ==
    LET signed == IF protocol = "pauli" THEN rows ELSE [k \in DOMAIN rows |-> Signed(rows[k], -1)] IN
    Shot(protocol, NQubits, signed,
         MeasureRows(NQubits, tableau, Observables(NQubits, signed), flips @@ (NQubits :> 0)).bits)

\* Every Pauli word, as an operator of one term.
Singles == [k \in 1..4 ^ NQubits |->
               Operator(NQubits, <<Term(FromCodes([q \in 1..NQubits |-> ((k - 1) \div 4 ^ (q - 1)) % 4]), One)>>)]

-----------------------------------------------------------------------------
(***************************************************************************)
(* Estimates from the reconstructed matrices of all qubits.                *)
(***************************************************************************)
AllQubits(n) == [k \in 1..n |-> k - 1]

\* Setting s is in this block when settings are dealt out in order, long blocks first.
BlockOf(S, blocks, s) ==
    LET base == S.nsettings \div blocks
        long == S.nsettings % blocks
    IN  IF s < (base + 1) * long THEN s \div (base + 1)
        ELSE long + (s - (base + 1) * long) \div base
InBlock(S, blocks, b) == {s \in 0..S.nsettings - 1 : BlockOf(S, blocks, s) = b}

\* Means of f over a block, and of g over its ordered pairs of settings.
MeansOf(S, blocks, f) ==
    [b \in 1..blocks |->
        LET settings == InBlock(S, blocks, b - 1) IN
        Sum(settings, LAMBDA s : f[s]) * (Common(S, blocks) \div Cardinality(settings))]
PairMeansOf(S, blocks, g) ==
    [b \in 1..blocks |->
        LET settings == InBlock(S, blocks, b - 1)
            pairs == {p \in settings \X settings : p[1] # p[2]}
        IN  Sum(pairs, LAMBDA p : g[p]) * (Common(S, blocks) \div Cardinality(pairs))]

\* The trace of a word, an operator or a product with a matrix; the partial trace.
WordTrace(w, m) ==
    Total(DOMAIN m, [c \in DOMAIN m |-> Times(ActionPhase(w, c), m[c][Xor(c, w.x)])]).re
OperatorTrace(operator, m) ==
    Sum(DOMAIN operator.terms, LAMBDA t : operator.terms[t].coefficient.re * WordTrace(operator.terms[t].word, m))
DenseMatrix(operator) ==
    LET term(t, r, c) == IF Xor(c, operator.terms[t].word.x) = r
                         THEN Times(operator.terms[t].coefficient, ActionPhase(operator.terms[t].word, c)) ELSE Zero
        all == SUBSET Qubits(operator.nqubits)
    IN  [r \in all |-> [c \in all |->
            Total(DOMAIN operator.terms, [t \in DOMAIN operator.terms |-> term(t, r, c)])]]
Product(a, b) ==
    [r \in DOMAIN a |-> [c \in DOMAIN a |-> Total(DOMAIN a, [k \in DOMAIN a |-> Times(a[r][k], b[k][c])])]]

Placed(keep, b) == {keep[k + 1] : k \in b}
PartialTrace(n, keep, m) ==
    LET rest == SUBSET (Qubits(n) \ {keep[k] : k \in DOMAIN keep}) IN
    [r \in States(Len(keep)) |-> [c \in States(Len(keep)) |->
        Total(rest, [e \in rest |-> m[Placed(keep, r) \cup e][Placed(keep, c) \cup e]])]]
Scaled(k, m) == [r \in DOMAIN m |-> [c \in DOMAIN m |-> Scale(k, m[r][c])]]

\* The same answer from m, the sums of a setting's reconstructed matrices, times 2 ** n.
AgreesWith(S, r, m) ==
    LET n == S.nqubits
        all == DOMAIN m
        scaled(values) == [k \in DOMAIN values |-> 2 ^ n * values[k]]
    IN  CASE r.kind = "estimate" ->
                \A o \in DOMAIN r.operators :
                    scaled(answer.values[o]) =
                    Reduced(MeansOf(S, r.blocks, [s \in all |-> OperatorTrace(r.operators[o], m[s])]), r.returnBlocks)
          [] r.kind = "rdm" ->
                Scaled(2 ^ (n - Len(r.keep)), answer.matrix) = PartialTrace(n, r.keep, MatrixSum(n, m))
          [] r.kind = "renyi" ->
                r.method = "shadow" =>
                    \A parts \in {[s \in all |-> PartialTrace(n, r.keep, m[s])]} :
                        answer.purity * 4 ^ (n - Len(r.keep)) =
                        Median2(PairMeansOf(S, r.blocks, [p \in all \X all |-> TraceProduct(parts[p[1]], parts[p[2]])]))
          [] r.kind = "variance" ->
                \A h \in {DenseMatrix(r.operator)} :
                \A one \in {[s \in all |-> TraceProduct(h, m[s])]} :
                \A two \in {[s \in all |-> TraceProduct(Product(h, h), m[s])]} :
                    LET second == MeansOf(S, r.blocks, two)
                        first == PairMeansOf(S, r.blocks, [p \in all \X all |-> one[p[1]] * one[p[2]]])
                    IN  answer.variance * 4 ^ n =
                        Median2([b \in 1..r.blocks |-> 2 ^ n * S.repeats * second[b] - first[b]])
          [] r.kind = "fidelity" ->
                \A span \in {Span(n, r.target)} :
                    LET f(s) == Sum({Word(x, z) : x, z \in SUBSET Qubits(n)},
                                    LAMBDA w : Expectation(n, r.target, span, w) * WordTrace(w, m[s]))
                    IN  scaled(answer.values[1]) = Reduced(MeansOf(S, r.blocks, [s \in all |-> f(s)]), r.returnBlocks)
          [] OTHER ->
                LET f(s) == Total(DOMAIN r.target, [b \in DOMAIN r.target |->
                                Times(Conj(r.target[b]),
                                      Total(DOMAIN r.target, [c \in DOMAIN r.target |-> Times(m[s][b][c], r.target[c])]))]).re
                IN  answer.values[1] = Reduced(MeansOf(S, r.blocks, [s \in all |-> f(s)]), r.returnBlocks)

\* Every estimator answers what the matrices reconstructed from the same shots give:
\* expectations their traces, reduced matrices their partial traces, purities and
\* variances their products over distinct settings of a block, fidelities their overlap
\* with the target, in blocks that deal the settings out evenly.
EstimatorsAgree ==
    (phase = "answered" /\ ~IsFailed(answer)) =>
        \A m \in {[s \in 0..snapshots.nsettings - 1 |-> SettingRdm(snapshots, s, AllQubits(snapshots.nqubits))]} :
            AgreesWith(snapshots, answer.request, m)
-----------------------------------------------------------------------------
(***************************************************************************)
(* Averages over everything that can be drawn.                             *)
(***************************************************************************)
\* The sum of the second parts of a set of pairs.
Summed(pairs) == Sum({e[2] : e \in pairs}, LAMBDA x : x * Cardinality({e \in pairs : e[2] = x}))

\* Two repeats of one Pauli setting.
PairOf(rows, flips, others, tableau) ==
    LET first == ShotOf("pauli", rows, flips, tableau)
        second == ShotOf("pauli", rows, others, tableau)
    IN  [first EXCEPT !.repeats = 2,
                      !.outcomes = [k \in 0..2 * NQubits - 1 |->
                          IF k < NQubits THEN @[k] ELSE second.outcomes[k - NQubits]]]

Purity(v, keep) ==
    LET rho == PartialTrace(NQubits, keep, [r \in DOMAIN v |-> [c \in DOMAIN v |-> Times(v[r], Conj(v[c]))]])
    IN  TraceProduct(rho, rho)

\* Averaged over all a call of one shot can draw, its estimate of any Pauli word is the
\* word's expectation in the source, and that of two repeats of one Pauli setting the
\* purity of the kept qubits: frames are drawn equally often, and rows that are
\* measured leave the rest of the state as it was.
ShadowsAreUnbiased ==
    (phase = "ready" /\ ~IsDense /\ state.n = NQubits /\ Sampling.nsettings = 1) =>
        /\ Sampling.protocol = "clifford" =>
               \A f \in Frames : Cardinality({d \in DrawnFrames : d[2] = f}) * Cardinality(Frames)
                                 = Cardinality(DrawnFrames)
        /\ \A v \in {SourceVector} : \A all \in {Shots(Sampling.protocol)} :
           \A estimates \in {{<<d, ShotValues(ShotOf(Sampling.protocol, d[1], d[2], state.tableau), 0, 0, Singles)>> :
                                 d \in all}} :
               \A k \in DOMAIN Singles :
                   SquaredNorm(v) * Summed({<<e[1], e[2][k]>> : e \in estimates})
                   = RealOverlap(v, Applied(Signed(Singles[k].terms[1].word, 1), v)) * Cardinality(all)
        /\ Sampling.protocol = "pauli" =>
               \A v \in {SourceVector} : \A keep \in {<<0>>, AllQubits(NQubits)} :
               \A all \in {{<<d[1], d[2], e>> : d \in Shots("pauli"), e \in [0..NQubits - 1 -> {0, 1}]}} :
                   SquaredNorm(v) * SquaredNorm(v)
                   * Summed({<<d, RandomizedPurity(PairOf(d[1], d[2], d[3], state.tableau), keep, 0)>> : d \in all})
                   = Purity(v, keep) * 2 * Cardinality(all)
=============================================================================
