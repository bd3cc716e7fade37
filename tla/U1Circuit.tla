----------------------------- MODULE U1Circuit ------------------------------
(***************************************************************************)
(* Fixed-particle-number circuits: the backend-neutral program             *)
(* (circuit_ir.rs), its compilation to blocks over one sector, the forward *)
(* pass, the terminals of a kept final state and the reverse pass of       *)
(* value_and_grad (u1_circuit.rs and its boundary in tencirpauli-native).  *)
(*                                                                         *)
(* An angle is a number of quarter turns: the unit complex number a gate   *)
(* makes of it is a power of i.  Derivatives are those of the code; iswap  *)
(* differentiates with a factor pi / 2, where Pi is any positive integer.  *)
(***************************************************************************)
EXTENDS U1Sector, PairUpdate

CONSTANTS Instances,        \* [program, particles, limit]: what a plan is compiled from
          Observables,      \* operators whose expectation is asked for
          Parameters,       \* parameter vectors a run may be given
          InitialState(_),  \* initial amplitudes of a sector of that dimension
          Threshold,        \* U1_CIRCUIT_PARALLEL_PAIR_THRESHOLD
          Pi

VARIABLES instance, plan, phase, at, values, state, lambda, adjoint, final, asked, result

u1Vars == <<instance, plan, phase, at, values, state, lambda, adjoint, final, asked, result>>
circuitVars == <<u1Vars, pairVars>>

-----------------------------------------------------------------------------
(***************************************************************************)
(* Programs.                                                               *)
(***************************************************************************)
IsStatic(a) == "static" \in DOMAIN a
HasAngle(op) == op.kind \in {"rz", "rzz", "cphase", "iswap"}

AngleError(program) ==
    LET slots == {program.angles[k].slot : k \in {j \in DOMAIN program.angles :
                                                      ~IsStatic(program.angles[j])}}
    IN  slots # 0..program.nparameters - 1

\* The entries of a table over that many wires.
LocalDimension(arity) ==
    LET size[k \in 0..arity] == IF k = 0 THEN 1 ELSE 2 * size[k - 1] IN size[arity]

GateError(op, program) ==
    \/ \E k \in DOMAIN op.wires : op.wires[k] >= program.nqubits
    \/ \E j, k \in DOMAIN op.wires : j # k /\ op.wires[j] = op.wires[k]
    \/ HasAngle(op) /\ op.angle \notin DOMAIN program.angles
    \/ /\ op.kind = "diagonal"
       /\ \/ Len(op.wires) = 0 \/ Len(op.payload) # LocalDimension(Len(op.wires))
          \/ \E j \in DOMAIN op.payload : NormSqr(op.payload[j]) # 1

ProgramError(program) ==
    AngleError(program) \/ \E k \in DOMAIN program.operations :
                               GateError(program.operations[k], program)

\* What the enums and the integer types of the IR say of a program.
IsOperation(op) ==
    /\ op.kind \in {"rz", "rzz", "cz", "cphase", "swap", "iswap", "diagonal"}
    /\ op.wires \in Seq(Nat)
    /\ op.kind = "rz" => Len(op.wires) = 1
    /\ op.kind \in {"rzz", "cz", "cphase", "swap", "iswap"} => Len(op.wires) = 2
    /\ HasAngle(op) => op.angle \in Nat
    /\ op.kind = "diagonal" => op.payload \in Seq(Complex)

IsProgram(program) ==
    /\ program.nqubits \in Nat /\ program.nparameters \in Nat
    /\ program.angles \in Seq(Range(program.angles))
    /\ \A k \in DOMAIN program.angles :
          IF IsStatic(program.angles[k]) THEN program.angles[k].static \in Int
                                         ELSE program.angles[k].slot \in Nat
    /\ program.operations \in Seq(Range(program.operations))
    /\ \A k \in DOMAIN program.operations : IsOperation(program.operations[k])

ASSUME InstancesAssumption ==
    \A i \in Instances :
        /\ IsProgram(i.program) /\ i.particles \in Nat /\ i.limit \in Nat
        /\ i.particles <= i.program.nqubits =>
              LET dimension == ChooseCount(i.program.nqubits, i.particles) IN
              InitialState(dimension) \in [0..dimension - 1 -> Complex]

ASSUME NumbersAssumption == Threshold \in Nat /\ Pi \in Nat \ {0}

ASSUME ParametersAssumption == \A parameters \in Parameters : parameters \in Seq(Int)

ASSUME ObservablesAssumption ==
    \A o \in Observables :
        /\ o.nqubits \in Nat
        /\ o.terms \in Seq([word : Words(o.nqubits), coefficient : Complex])

\* resolve_angle_values: the angle table with its slots filled in.
ResolveAngleValues(program, parameters) ==
    [k \in DOMAIN program.angles |->
        IF IsStatic(program.angles[k]) THEN program.angles[k].static
        ELSE parameters[program.angles[k].slot + 1]]

GradientFromAngleAdjoint(program, angle_adjoint) ==
    [slot \in 1..program.nparameters |->
        SumFunctionOnSet(angle_adjoint,
            {k \in DOMAIN program.angles :
                ~IsStatic(program.angles[k]) /\ program.angles[k].slot = slot - 1})]

-----------------------------------------------------------------------------
(***************************************************************************)
(* Compilation.                                                            *)
(***************************************************************************)
IsDiagonal(op) == op.kind \notin {"swap", "iswap"}
IsSparse(op) == op.kind \in {"cz", "cphase"}
PairKey(op) == {op.wires[1], op.wires[2]}
SameBlock(a, b) ==
    \/ IsDiagonal(a) /\ IsDiagonal(b)
    \/ ~IsDiagonal(a) /\ ~IsDiagonal(b) /\ PairKey(a) = PairKey(b)

\* Maximal runs of operations that belong to one block.
Runs(operations) ==
    LET joins(runs, op) == runs # <<>> /\ SameBlock(Last(Last(runs)), op)
        runs[k \in 0..Len(operations)] ==
            IF k = 0 THEN <<>>
            ELSE IF joins(runs[k - 1], operations[k])
            THEN [runs[k - 1] EXCEPT ![Len(runs[k - 1])] = Append(@, operations[k])]
            ELSE Append(runs[k - 1], <<operations[k]>>)
    IN  runs[Len(operations)]

LocalIndex(wires, word) ==
    LET index[k \in 0..Len(wires)] ==
            IF k = 0 THEN 0 ELSE 2 * index[k - 1] + (IF wires[k] \in word THEN 1 ELSE 0)
    IN  1 + index[Len(wires)]

\* The phase of a diagonal operation on one basis word.
DiagonalPhase(op, angle_values, word) ==
    LET on(k) == op.wires[k] \in word IN
    CASE op.kind = "rz" -> IPow(IF on(1) THEN angle_values[op.angle] ELSE -angle_values[op.angle])
      [] op.kind = "rzz" ->
            IPow(IF on(1) # on(2) THEN angle_values[op.angle] ELSE -angle_values[op.angle])
      [] op.kind = "cz" -> IF on(1) /\ on(2) THEN Gauss(-1, 0) ELSE One
      [] op.kind = "cphase" -> IF on(1) /\ on(2) THEN IPow(angle_values[op.angle]) ELSE One
      [] op.kind = "diagonal" -> op.payload[LocalIndex(op.wires, word)]

StaticAngle(op, program) == HasAngle(op) => IsStatic(program.angles[op.angle])

\* static_diagonal_payload: the operation as a table over its own wires.
AsPayload(op, program) ==
    LET v == ResolveAngleValues(program, [k \in 1..program.nparameters |-> 0])
        turn == IPow(v[op.angle])
        back == IPow(-v[op.angle])
    IN  [kind |-> "diagonal", wires |-> op.wires,
         payload |-> CASE op.kind = "rz" -> <<back, turn>>
                       [] op.kind = "rzz" -> <<back, turn, turn, back>>
                       [] op.kind = "diagonal" -> op.payload]

\* Faulty: two tables over the same qubits listed in another order merge.
SameWiresUnordered(a, b) == Range(a.wires) = Range(b.wires)
SameWires(a, b) == a.wires = b.wires

\* fold_static_diagonal_operations: neighbours that are static tables over
\* the same wires are multiplied into one; CZ and CPhase stay sparse.
FoldStatic(operations, program) ==
    LET foldable(op) == ~IsSparse(op) /\ StaticAngle(op, program)
        merged(a, b) == [a EXCEPT !.payload = [j \in DOMAIN a.payload |->
                                                  Times(a.payload[j], b.payload[j])]]
        merges(acc, t) == acc # <<>> /\ Last(acc).kind = "diagonal" /\ SameWires(Last(acc), t)
        folded[k \in 0..Len(operations)] ==
            IF k = 0 THEN <<>>
            ELSE IF ~foldable(operations[k]) THEN Append(folded[k - 1], operations[k])
            ELSE LET acc == folded[k - 1]
                     t == AsPayload(operations[k], program)
                 IN  IF merges(acc, t) THEN [acc EXCEPT ![Len(acc)] = merged(@, t)]
                     ELSE Append(acc, t)
    IN  folded[Len(operations)]

\* Wires other than the two of a pair block.
RemainingWires(n, wire0, wire1) == Qubits(n) \ {wire0, wire1}

\* pair_map: every assignment of the other wires, chosen by its particles or
\* by its holes, whichever are fewer, gives one pair.
PairMap(s, wire0, wire1) ==
    LET remaining == RemainingWires(s.nqubits, wire0, wire1)
        occupied == IF s.particle_number = 0 THEN 0 ELSE s.particle_number - 1
        holes == Cardinality(remaining) - occupied
        others == IF holes < occupied THEN {remaining \ c : c \in kSubset(holes, remaining)}
                  ELSE kSubset(occupied, remaining)
        pair(c) == [zero_one |-> RankWords(s, c \cup {wire1}),
                    one_zero |-> RankWords(s, c \cup {wire0})]
        order == CHOOSE f \in [1..Cardinality(others) -> others] :
                    \A k \in DOMAIN f : \A j \in 1..k - 1 :
                        f[j] # f[k] /\ pair(f[j]).zero_one <= pair(f[k]).zero_one
    IN  IF s.particle_number = 0 \/ holes < 0 THEN <<>>
        ELSE [k \in 1..Cardinality(others) |-> pair(order[k])]

\* The map of a key is built by the first operation that uses it.
PairsFor(s, operations, key) ==
    LET k == Min({j \in DOMAIN operations :
                     ~IsDiagonal(operations[j]) /\ PairKey(operations[j]) = key})
    IN  PairMap(s, operations[k].wires[1], operations[k].wires[2])

DiagonalIndices(basis, key) == {i \in DOMAIN basis : key \subseteq basis[i]}

MicroMatrix(op, angle_values) ==
    IF op.kind = "swap" THEN <<<<Zero, One>>, <<One, Zero>>>>
    ELSE LET u == IPow(angle_values[op.angle]) IN
         <<<<Gauss(u.re, 0), Gauss(0, u.im)>>, <<Gauss(0, u.im), Gauss(u.re, 0)>>>>

Composed(operations, angle_values) ==
    LET total[k \in 0..Len(operations)] ==
            IF k = 0 THEN Identity2
            ELSE Multiply2(MicroMatrix(operations[k], angle_values), total[k - 1])
    IN  total[Len(operations)]

Block(run, s, program) ==
    IF IsDiagonal(run[1])
    THEN [kind |-> "diagonal", operations |-> FoldStatic(run, program)]
    ELSE [kind |-> "pairs", operations |-> run,
          pairs |-> PairsFor(s, program.operations, PairKey(run[1]))]

\* Bytes the plan and one state hold: basis words, one table per pair of
\* wires and kind, payloads, amplitudes.  The tables are compared with the
\* limit one by one first; whatever fails there fails here.
MetadataBytes(s, basis, operations, gates) ==
    LET keys(positions) == {PairKey(operations[k]) : k \in positions}
        pairKeys == keys({k \in DOMAIN operations : ~IsDiagonal(operations[k])})
        sparseKeys == keys({k \in DOMAIN operations : IsSparse(operations[k])})
        payload(op) == IF op.kind = "diagonal" THEN 16 * Len(op.payload) ELSE 0
        payloads(g) == IF g.kind = "diagonal" THEN SumOver(g.operations, payload) ELSE 0
    IN  8 * PackedWordCount(s.nqubits) * s.dimension
        + SumFunctionOnSet([key \in pairKeys |-> 16 * Len(PairsFor(s, operations, key))], pairKeys)
        + SumFunctionOnSet([key \in sparseKeys |-> 8 * Cardinality(DiagonalIndices(basis, key))],
                           sparseKeys)
        + SumOver(gates, payloads)

StateBytes(dimension) == 16 * dimension

\* Faulty: the amplitudes are left out of the estimate.
CompiledBytesWithoutState(s, basis, operations, gates) == MetadataBytes(s, basis, operations, gates)
CompiledBytes(s, basis, operations, gates) ==
    MetadataBytes(s, basis, operations, gates) + StateBytes(s.dimension)

Compile(program, particles, limit) ==
    LET s == NewSector(program.nqubits, particles)
        basis == [i \in 0..s.dimension - 1 |-> Unrank(s, i)]
        runs == Runs(program.operations)
        gates == [k \in DOMAIN runs |-> Block(runs[k], s, program)]
    IN  IF ProgramError(program) THEN Failed("InvalidCircuit")
        ELSE IF IsFailed(s) THEN s
        ELSE IF CompiledBytes(s, basis, program.operations, gates) > limit
        THEN Failed("MemoryLimit")
        ELSE [program |-> program, sector |-> s, basis |-> basis, gates |-> gates,
              limit |-> limit]

-----------------------------------------------------------------------------
(***************************************************************************)
(* Execution of one block on a vector of amplitudes.                       *)
(***************************************************************************)
PhaseProduct(phases) ==
    LET product[k \in 0..Len(phases)] == IF k = 0 THEN One ELSE Times(product[k - 1], phases[k])
    IN  product[Len(phases)]

\* A block of CZ and CPhase only touches the amplitudes both wires occupy;
\* any other block multiplies every amplitude by its evaluated phase.
ApplyDiagonal(p, gate, v, angle_values, inverse) ==
    LET sparse(op, w) ==
            LET u == IF op.kind = "cz" THEN Gauss(-1, 0)
                     ELSE IPow(IF inverse THEN -angle_values[op.angle]
                               ELSE angle_values[op.angle])
                both == DiagonalIndices(p.basis, PairKey(op))
            IN  [i \in DOMAIN w |-> IF i \in both THEN Times(w[i], u) ELSE w[i]]
        factor(op, i) == LET u == DiagonalPhase(op, angle_values, p.basis[i]) IN
                        IF inverse THEN Conj(u) ELSE u
        touched[k \in 0..Len(gate.operations)] ==
            IF k = 0 THEN v ELSE sparse(gate.operations[k], touched[k - 1])
    IN  IF \A k \in DOMAIN gate.operations : IsSparse(gate.operations[k])
        THEN touched[Len(gate.operations)]
        ELSE [i \in DOMAIN v |->
                Times(v[i], PhaseProduct([k \in DOMAIN gate.operations |->
                                          factor(gate.operations[k], i)]))]

\* pair_block_matrix: composed once if every angle is static, else per call.
PairBlockMatrix(gate, angle_values, inverse) ==
    LET m == Composed(gate.operations, angle_values) IN IF inverse THEN Adjoint2(m) ELSE m

ApplyPairs(gate, v, m) ==
    LET updated[k \in 0..Len(gate.pairs)] ==
            IF k = 0 THEN v ELSE PairImage(m, updated[k - 1], gate.pairs[k])
    IN  updated[Len(gate.pairs)]

-----------------------------------------------------------------------------
(***************************************************************************)
(* accumulate_gate_derivative: what one block adds to the adjoint of every *)
(* angle, from the state before the block and the adjoint state after it.  *)
(***************************************************************************)
\* Twice the generator of a diagonal operation on one word.
Generator(op, word) ==
    LET sign(k) == IF op.wires[k] \in word THEN -1 ELSE 1 IN
    CASE op.kind = "rz" -> Gauss(0, -sign(1))
      [] op.kind = "rzz" -> Gauss(0, -(sign(1) * sign(2)))
      [] op.kind = "cphase" -> IF sign(1) = -1 /\ sign(2) = -1 THEN Gauss(0, 2) ELSE Zero
      [] OTHER -> Zero

IswapDerivative(v) ==
    LET u == IPow(v) IN
    <<<<Gauss(-u.im, 0), Gauss(0, u.re)>>, <<Gauss(0, u.re), Gauss(-u.im, 0)>>>>

\* Faulty: the operation differentiated is still among them.
SuffixFrom(operations, k, angle_values) ==
    Composed(SubSeq(operations, k, Len(operations)), angle_values)
\* The matrices of the block after micro operation k.
Suffix(operations, k, angle_values) ==
    Composed(SubSeq(operations, k + 1, Len(operations)), angle_values)

DiagonalDerivative(p, gate, k, before, after_adjoint, angle_values) ==
    LET factor(i) == PhaseProduct([j \in DOMAIN gate.operations |->
                        DiagonalPhase(gate.operations[j], angle_values, p.basis[i])])
        term(i) == Times(Conj(after_adjoint[i]),
                         Times(Generator(gate.operations[k], p.basis[i]),
                               Times(factor(i), before[i])))
    IN  Total(DOMAIN before, [i \in DOMAIN before |-> term(i)]).re

PairDerivative(gate, k, before, after_adjoint, angle_values) ==
    LET d == Multiply2(Multiply2(Suffix(gate.operations, k, angle_values),
                                 IswapDerivative(angle_values[gate.operations[k].angle])),
                       Composed(SubSeq(gate.operations, 1, k - 1), angle_values))
        term(p) == Plus(Times(Conj(after_adjoint[p.zero_one]),
                              Row2(d, 1, before[p.zero_one], before[p.one_zero])),
                        Times(Conj(after_adjoint[p.one_zero]),
                              Row2(d, 2, before[p.zero_one], before[p.one_zero])))
    IN  Pi * TotalOf([j \in DOMAIN gate.pairs |-> term(gate.pairs[j])]).re

\* Swaps and static tables carry no angle.
Differentiated(gate) == {k \in DOMAIN gate.operations : HasAngle(gate.operations[k])}

WithGateDerivative(p, gate, before, after_adjoint, angle_values, angle_adjoint) ==
    LET part(k) == IF gate.kind = "diagonal"
                   THEN DiagonalDerivative(p, gate, k, before, after_adjoint, angle_values)
                   ELSE PairDerivative(gate, k, before, after_adjoint, angle_values)
    IN  [a \in DOMAIN angle_adjoint |->
            angle_adjoint[a]
            + SumFunctionOnSet([k \in Differentiated(gate) |-> part(k)],
                               {k \in Differentiated(gate) : gate.operations[k].angle = a})]

-----------------------------------------------------------------------------
(***************************************************************************)
(* ProjectedObservablePlan: the observable on the sector.  A group of      *)
(* terms with one X mask moves a word to one destination; a move out of    *)
(* the sector is passed over.                                              *)
(***************************************************************************)
XGroups(o) == {o.terms[k].word.x : k \in DOMAIN o.terms}

TransitionValue(o, x, word) ==
    Total({k \in DOMAIN o.terms : o.terms[k].word.x = x},
          [k \in DOMAIN o.terms |-> Times(o.terms[k].coefficient,
                                          ActionPhase(o.terms[k].word, word))])

ObservableTransitions(p, o, source) ==
    {[destination |-> RankWords(p.sector, Xor(p.basis[source], x)),
      value |-> TransitionValue(o, x, p.basis[source])] :
        x \in {g \in XGroups(o) :
                  /\ p.sector.particle_number + Cardinality(g)
                        - 2 * Cardinality(g \cap p.basis[source]) = p.sector.particle_number
                  /\ TransitionValue(o, g, p.basis[source]) # Zero}}

\* Every X mask leads to another destination, so the sums are over sources.
ApplyObservable(p, o, v) ==
    LET moved == [source \in DOMAIN v |-> ObservableTransitions(p, o, source)] IN
    [i \in DOMAIN v |->
        Total(DOMAIN v, [source \in DOMAIN v |->
            Total(moved[source], [t \in moved[source] |->
                IF t.destination = i THEN Times(t.value, v[source]) ELSE Zero])])]

InnerProduct(v, w) == Total(DOMAIN v, [i \in DOMAIN v |-> Times(Conj(v[i]), w[i])])

Expectation(p, v, o) == InnerProduct(v, ApplyObservable(p, o, v))

ToDense(p, v) ==
    [b \in {BasisInteger(p.sector.nqubits, p.basis[i]) : i \in DOMAIN v} |->
        v[CHOOSE i \in DOMAIN v : BasisInteger(p.sector.nqubits, p.basis[i]) = b]]

Probability(v) == [i \in DOMAIN v |-> NormSqr(v[i])]

ObservableError(p, o) ==
    IF o.nqubits # p.sector.nqubits THEN {"IncompatibleQubitCounts"}
    ELSE IF ~IsHermitian(o) THEN {"NonHermitianExpectation"} ELSE {}

-----------------------------------------------------------------------------
(***************************************************************************)
(* Calls on one native plan.                                               *)
(***************************************************************************)
Nothing == <<>>

CircuitInit ==
    /\ instance \in Instances
    /\ plan = Nothing /\ phase = "new" /\ at = 0
    /\ values = Nothing /\ state = Nothing /\ lambda = Nothing /\ adjoint = Nothing
    /\ final = Nothing /\ asked = Nothing /\ result = Nothing
    /\ vector = Nothing /\ lent = Nothing /\ pairs = Nothing /\ matrix = Nothing
    /\ pending = {} /\ held = [w \in Worker |-> Free]

\* u1_circuit_plan; a refused program may be handed in again.
CompilePlan ==
    /\ phase \in {"new", "refused"}
    /\ plan' = Compile(instance.program, instance.particles, instance.limit)
    /\ phase' = IF IsFailed(plan') THEN "refused" ELSE "ready"
    /\ UNCHANGED <<instance, at, values, state, lambda, adjoint, final, asked, result, pairVars>>

\* validate_state: the budget is checked again for every state handed in.
StateError(p, dimension) == IF StateBytes(dimension) > p.limit THEN {"MemoryLimit"} ELSE {}

ParameterError(p, parameters) ==
    IF Len(parameters) # p.program.nparameters THEN {"InvalidParameterLength"} ELSE {}

\* run_cached: the forward pass begins, or the first failing check is reported.
RunCached(parameters) ==
    LET errors == StateError(plan, plan.sector.dimension) \cup ParameterError(plan, parameters) IN
    /\ phase = "ready"
    /\ IF errors # {}
       THEN /\ result' = Failed(CHOOSE e \in errors : e = "MemoryLimit" \/ errors = {e})
            /\ UNCHANGED <<phase, values, state, at>>
       ELSE /\ values' = ResolveAngleValues(plan.program, parameters)
            /\ state' = InitialState(plan.sector.dimension)
            /\ at' = 1
            /\ phase' = "forward"
            /\ UNCHANGED result
    /\ UNCHANGED <<instance, plan, lambda, adjoint, final, asked, pairVars>>

\* The forward pass has consumed every block: the state is kept with the plan
\* and the parameters.
KeepFinal ==
    /\ phase = "forward" /\ at > Len(plan.gates)
    /\ final' = state
    /\ phase' = "final"
    /\ UNCHANGED <<instance, plan, at, values, state, lambda, adjoint, asked, result, pairVars>>

\* value_and_grad of a kept final state: the adjoint state is the observable
\* applied to it, and the blocks are undone from the last on.
ValueAndGrad(o) ==
    /\ phase = "final"
    /\ asked' = o
    /\ IF ObservableError(plan, o) # {}
       THEN /\ result' = Failed(CHOOSE e \in ObservableError(plan, o) : TRUE)
            /\ UNCHANGED <<phase, at, state, lambda, adjoint>>
       ELSE /\ state' = final
            /\ lambda' = ApplyObservable(plan, o, final)
            /\ adjoint' = [a \in DOMAIN plan.program.angles |-> 0]
            /\ at' = Len(plan.gates)
            /\ phase' = "undo_state"
            /\ result' = Nothing
    /\ UNCHANGED <<instance, plan, values, final, pairVars>>

\* The vector the current phase applies a block to.
Working == phase \in {"forward", "undo_state", "undo_lambda"}
Target == IF phase = "undo_lambda" THEN lambda ELSE state
Gate == plan.gates[at]

\* Where a phase goes once its block has been applied.
Applied(v) ==
    /\ phase' = CASE phase = "forward" -> "forward"
                  [] phase = "undo_state" -> "derive"
                  [] phase = "undo_lambda" -> "undo_state"
    /\ at' = CASE phase = "forward" -> at + 1
               [] phase = "undo_state" -> at
               [] phase = "undo_lambda" -> at - 1
    /\ IF phase = "undo_lambda" THEN lambda' = v /\ UNCHANGED state
                                ELSE state' = v /\ UNCHANGED lambda
    /\ UNCHANGED <<instance, plan, values, adjoint, final, asked, result>>

Idle == lent = Nothing
HasBlock == Working /\ at \in DOMAIN plan.gates

DiagonalStep ==
    /\ HasBlock /\ Gate.kind = "diagonal"
    /\ Applied(ApplyDiagonal(plan, Gate, Target, values, phase # "forward"))
    /\ UNCHANGED pairVars

\* Few pairs are updated one after the other by the calling thread.
PairStep ==
    /\ HasBlock /\ Gate.kind = "pairs" /\ Len(Gate.pairs) < Threshold
    /\ Applied(ApplyPairs(Gate, Target, PairBlockMatrix(Gate, values, phase # "forward")))
    /\ UNCHANGED pairVars

\* Many pairs are shared out to the pool.
LendPairs ==
    /\ HasBlock /\ Idle /\ Gate.kind = "pairs" /\ Len(Gate.pairs) >= Threshold
    /\ Lend(Target, Gate.pairs, PairBlockMatrix(Gate, values, phase # "forward"))
    /\ UNCHANGED u1Vars

WorkPairs == ~Idle /\ WorkerStep /\ UNCHANGED u1Vars

JoinPairs ==
    /\ ~Idle /\ Joined
    /\ Applied(vector)
    /\ vector' = Nothing /\ lent' = Nothing /\ pairs' = Nothing /\ matrix' = Nothing
    /\ UNCHANGED <<pending, held>>

DeriveStep ==
    /\ phase = "derive"
    /\ adjoint' = WithGateDerivative(plan, Gate, state, lambda, values, adjoint)
    /\ phase' = "undo_lambda"
    /\ UNCHANGED <<instance, plan, at, values, state, lambda, final, asked, result, pairVars>>

\* Every block undone: the value and the gradient per slot are returned.
ReturnGradient ==
    /\ phase = "undo_state" /\ at = 0
    /\ result' = [value |-> Expectation(plan, final, asked).re,
                  gradient |-> GradientFromAngleAdjoint(plan.program, adjoint)]
    /\ phase' = "final"
    /\ UNCHANGED <<instance, plan, at, values, state, lambda, adjoint, final, asked, pairVars>>

CircuitNext ==
    \/ CompilePlan
    \/ \E parameters \in Parameters : RunCached(parameters)
    \/ KeepFinal
    \/ \E o \in Observables : ValueAndGrad(o)
    \/ DiagonalStep \/ PairStep \/ LendPairs \/ WorkPairs \/ JoinPairs
    \/ DeriveStep \/ ReturnGradient

CircuitSpec == CircuitInit /\ [][CircuitNext]_circuitVars

-----------------------------------------------------------------------------
(***************************************************************************)
(* Reference: the same operations one by one on all 2^n amplitudes.        *)
(***************************************************************************)
Embedded(p, v) ==
    [w \in SUBSET Qubits(p.sector.nqubits) |->
        IF \E i \in DOMAIN v : p.basis[i] = w THEN v[CHOOSE i \in DOMAIN v : p.basis[i] = w]
        ELSE Zero]

Exchanged(op, w) == IF Cardinality(PairKey(op) \cap w) = 1 THEN Xor(w, PairKey(op)) ELSE w

FullGate(op, angle_values, v) ==
    [w \in DOMAIN v |->
        CASE IsDiagonal(op) -> Times(DiagonalPhase(op, angle_values, w), v[w])
          [] op.kind = "swap" -> v[Exchanged(op, w)]
          [] op.kind = "iswap" ->
               IF Exchanged(op, w) = w THEN v[w]
               ELSE LET u == IPow(angle_values[op.angle]) IN
                    Plus(Times(Gauss(u.re, 0), v[w]), Times(Gauss(0, u.im), v[Exchanged(op, w)]))]

\* Twice its derivative with respect to its angle.
FullDerivative(op, angle_values, v) ==
    [w \in DOMAIN v |->
        IF IsDiagonal(op)
        THEN Times(Generator(op, w), Times(DiagonalPhase(op, angle_values, w), v[w]))
        ELSE IF Exchanged(op, w) = w THEN Zero
        ELSE LET u == IPow(angle_values[op.angle]) IN
             Plus(Times(Gauss(-(Pi * u.im), 0), v[w]),
                  Times(Gauss(0, Pi * u.re), v[Exchanged(op, w)]))]

FullRun(program, angle_values, v, upto) ==
    LET run[k \in 0..upto] ==
            IF k = 0 THEN v ELSE FullGate(program.operations[k], angle_values, run[k - 1])
    IN  run[upto]

\* Twice the tangent of the final state along one slot, forward through the
\* operations.
FullTangent(program, angle_values, v, slot) ==
    LET moves(op) == HasAngle(op) /\ ~IsStatic(program.angles[op.angle])
                     /\ program.angles[op.angle].slot = slot
        sum(a, b) == [w \in DOMAIN v |-> Plus(a[w], b[w])]
        step(acc, op) ==
            [psi |-> FullGate(op, angle_values, acc.psi),
             tangent |-> LET carried == FullGate(op, angle_values, acc.tangent) IN
                         IF moves(op) THEN sum(carried, FullDerivative(op, angle_values, acc.psi))
                         ELSE carried]
        run[k \in 0..Len(program.operations)] ==
            IF k = 0 THEN [psi |-> v, tangent |-> [w \in DOMAIN v |-> Zero]]
            ELSE step(run[k - 1], program.operations[k])
    IN  run[Len(program.operations)].tangent

\* Operations in the first blocks of a plan.
Consumed(p, k) ==
    LET runs == Runs(p.program.operations)
        count[j \in 0..k] == IF j = 0 THEN 0 ELSE count[j - 1] + Len(runs[j])
    IN  count[k]

-----------------------------------------------------------------------------
\* After every block, forward or undone, the amplitudes of the sector are
\* those of the full circuit up to that block, and none are outside it; the
\* expectation of every observable of a kept state is that of the full
\* vector.  Blocks, folded tables, pair maps, the sparse path and the pool
\* (u1_circuit.rs) change nothing of what the circuit means.
SimulatesFullSpace ==
    /\ (Working /\ Idle /\ phase # "undo_lambda") =>
          Embedded(plan, state) =
              FullRun(plan.program, values, Embedded(plan, InitialState(plan.sector.dimension)),
                      Consumed(plan, IF phase = "forward" THEN at - 1 ELSE at))
    /\ phase = "final" =>
          \A o \in Observables : o.nqubits = plan.sector.nqubits =>
              LET psi == Embedded(plan, final) IN
              Expectation(plan, final, o) = InnerProduct(psi, ApplyOperator(o, psi))

\* The value and the gradient a call returns are the expectation and its
\* derivative along every slot, differentiated forward through the full
\* circuit, for a state that is kept and asked again for another observable.
GradientMatchesTangent ==
    (result # Nothing /\ ~IsFailed(result)) =>
        LET start == Embedded(plan, InitialState(plan.sector.dimension))
            psi == FullRun(plan.program, values, start, Len(plan.program.operations))
            opsi == ApplyOperator(asked, psi)
        IN  /\ result.value = InnerProduct(psi, opsi).re
            /\ \A slot \in 1..plan.program.nparameters :
                  result.gradient[slot] =
                      InnerProduct(opsi, FullTangent(plan.program, values, start, slot - 1)).re

\* A plan that was compiled under a memory limit can be run: the check of
\* the state against the same limit cannot refuse it later.
PlanCanRun ==
    phase = "ready" /\ result # Nothing => result = Failed("InvalidParameterLength")
=============================================================================
