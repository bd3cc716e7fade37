-------------------------- MODULE ChargeExecution ---------------------------
(***************************************************************************)
(* One sector and one operator from the public plan to the two answers a   *)
(* caller can ask for: the eager graph, walked column by column, and the   *)
(* lazy product by whichever executor accepts the layout.  Beside them is  *)
(* what both must equal: the matrix of the ungrouped operator between the  *)
(* occupations that meet the charges, in lexicographic order.              *)
(***************************************************************************)
EXTENDS ChargeRoutes

LOCAL INSTANCE SequencesExt
LOCAL INSTANCE FiniteSetsExt
LOCAL INSTANCE Folds

CONSTANTS
    Instances,        \* sectors with an operator, a budget, a chunk capacity and a word size
    StateOf(_)        \* the input vector of a sector of that dimension

VARIABLES
    instance,         \* the sector, operator and budget asked for
    stage,            \* what happens next
    native,           \* the physical layout a sector retains
    plan,             \* the sector plan
    prepared,         \* the schedules of the operator
    column, source,   \* the eager walk: next column, occupation of the last one
    sink,             \* bounded runs of entries
    graph,            \* the eager answer
    lazy,             \* the executors the lazy answer retains
    output            \* the lazy answer

vars == <<instance, stage, native, plan, prepared, column, source, sink, graph, lazy, output>>

Conserved == TermwiseConserved(instance.terms, instance.weights)

Init ==
    /\ instance \in Instances
    /\ stage = "plan" /\ column = 0 /\ source = <<>>
    /\ native = None /\ plan = None /\ prepared = None /\ sink = None
    /\ graph = None /\ lazy = None /\ output = None

PlanSector ==
    /\ stage = "plan"
    /\ plan' = CompactPlan(instance.dims, instance.kinds, instance.indices, instance.weights,
                           instance.target, instance.limit)
    /\ native' = NativeLayout(instance.dims, instance.kinds, instance.indices)
    /\ stage' = IF IsFailed(plan') THEN "refused" ELSE "prepare"
    /\ UNCHANGED <<instance, prepared, column, source, sink, graph, lazy, output>>

PrepareOperator ==
    /\ stage = "prepare"
    /\ prepared' = ScheduleLayout(plan, native, instance.terms, instance.word, instance.limit)
    /\ stage' = IF IsFailed(prepared') THEN "refused" ELSE "eager"
    /\ UNCHANGED <<instance, native, plan, column, source, sink, graph, lazy, output>>

EagerBudget == instance.limit - prepared.retained

BeginEager ==
    LET refusal == EagerRefusal(plan, prepared, instance.capacity, EagerBudget) IN
    /\ stage = "eager"
    /\ IF refusal # {}
       THEN /\ graph' = Failed(CHOOSE e \in refusal : TRUE) /\ stage' = "lazy"
            /\ UNCHANGED sink
       ELSE /\ sink' = ChunkedSink(plan.dimension, instance.capacity) /\ stage' = "columns"
            /\ UNCHANGED graph
    /\ UNCHANGED <<instance, native, plan, prepared, column, source, lazy, output>>

EagerColumn ==
    /\ stage = "columns" /\ column < plan.dimension
    /\ source' = NextSource(plan, column, source)
    /\ IF source' = <<>>
       THEN /\ graph' = Failed("InvalidSector") /\ stage' = "lazy"
            /\ UNCHANGED <<sink, column>>
       ELSE \E entries \in {ColumnOf(plan, prepared, source')} :
            IF IsNone(FirstFailure(entries))
            THEN /\ sink' = PushColumn(sink, column, entries) /\ column' = column + 1
                 /\ UNCHANGED <<stage, graph>>
            ELSE /\ graph' = FirstFailure(entries) /\ stage' = "lazy"
                 /\ UNCHANGED <<sink, column>>
    /\ UNCHANGED <<instance, native, plan, prepared, lazy, output>>

FinishEager ==
    /\ stage = "columns" /\ column = plan.dimension
    /\ graph' = FinishedGraph(plan, prepared, sink, instance.capacity, EagerBudget)
    /\ stage' = "lazy"
    /\ UNCHANGED <<instance, native, plan, prepared, column, source, sink, lazy, output>>

CompileLazy ==
    /\ stage = "lazy"
    /\ lazy' = CompileExecutors(plan, prepared, Conserved)
    /\ IF IsFailed(lazy') THEN output' = lazy' /\ stage' = "done" ELSE UNCHANGED output /\ stage' = "apply"
    /\ UNCHANGED <<instance, native, plan, prepared, column, source, sink, graph>>

Answer(result) ==
    /\ stage = "apply" /\ stage' = "done"
    /\ output' = IF 16 * plan.dimension > instance.limit THEN Failed("MemoryLimit") ELSE result
    /\ UNCHANGED <<instance, native, plan, prepared, column, source, sink, graph, lazy>>

Gathers == GatherAccepts(plan, prepared, Conserved)

ApplyLocally ==
    /\ stage = "apply" /\ ~IsNone(lazy.aggregate)
    /\ Answer(ApplyAggregate(lazy.aggregate, plan, StateOf(plan.dimension)))
ApplyGathered ==
    /\ stage = "apply" /\ IsNone(lazy.aggregate) /\ Gathers
    /\ Answer(ApplyGather(plan, prepared, StateOf(plan.dimension)))
ApplyFactored ==
    /\ stage = "apply" /\ IsNone(lazy.aggregate) /\ ~Gathers /\ ~IsNone(lazy.factor)
    /\ Answer(ApplyFactor(lazy.factor, plan, prepared, StateOf(plan.dimension)))
ApplyInGeneral ==
    /\ stage = "apply" /\ IsNone(lazy.aggregate) /\ ~Gathers /\ IsNone(lazy.factor)
    /\ Answer(ApplyLoop(plan, prepared, Conserved, StateOf(plan.dimension), instance.limit))

Next ==
    \/ PlanSector \/ PrepareOperator \/ BeginEager \/ EagerColumn \/ FinishEager
    \/ CompileLazy \/ ApplyLocally \/ ApplyGathered \/ ApplyFactored \/ ApplyInGeneral

Spec == Init /\ [][Next]_vars

-----------------------------------------------------------------------------
(***************************************************************************)
(* Reference: occupations that meet the charges, and one matrix element of *)
(* the operator as the caller wrote it.                                    *)
(***************************************************************************)
Ordered == [n \in 1..FullStride(instance.dims, 0) |-> DecodeFull(instance.dims, n - 1)]
Box == Range(Ordered)

MeetsCharges(values) ==
    \A r \in DOMAIN instance.target :
        SumOver(DOMAIN values, LAMBDA a :
            LevelCharge(instance.kinds[a], instance.weights[r][instance.kinds[a] + 1][instance.indices[a]],
                        instance.dims[a], values[a])) = instance.target[r]

Members == SelectSeq(Ordered, MeetsCharges)

\* One ladder operator on a set of occupied modes; the sign counts the modes
\* below it.
Ladder(s, op) ==
    IF s.amplitude = Zero \/ (op.mode \in s.values) = op.create THEN Dead
    ELSE State(Xor(s.values, {op.mode}),
               IF Odd(s.values \cap 0..op.mode - 1) THEN Neg(s.amplitude) ELSE s.amplitude)

FermionElement(t, to, from) ==
    LET s == FoldLeft(Ladder, State(from, One),
                      Steps(t.annihilation, FALSE) \o Steps(t.creation, TRUE))
    IN  IF ~IsDead(s) /\ s.values = to THEN s.amplitude ELSE Zero

PauliElement(code, to, from) ==
    IF (to # from) # (code \in {1, 2}) THEN Zero
    ELSE CASE code = 2 -> IF from = 0 THEN IPow(1) ELSE IPow(3)
           [] code = 3 /\ from = 1 -> IPow(2)
           [] OTHER -> One

BosonElement(op, to, from) ==
    IF from < op[3] \/ to # from - op[3] + op[2] THEN Zero
    ELSE Times(ProductOf([k \in 1..op[3] |-> Root(from - k + 1)]),
               ProductOf([k \in 1..op[2] |-> Root(to - k + 1)]))

QuditElement(op, d, to, from) ==
    IF to = (from + op[2]) % d THEN QuditPhase(d, op[3] * from) ELSE Zero

\* Axes no operation of the term acts on must not change.
TermElement(t, to, from) ==
    LET occupied(v) == {m \in 0..Len(native.fermions) - 1 : v[native.fermions[m + 1]] = 1}
        moved == {a \in DOMAIN to : to[a] # from[a]}
        acted == {native.bosons[t.bosons[k][1] + 1] : k \in DOMAIN t.bosons}
                 \cup {native.qudits[t.qudits[k][1] + 1] : k \in DOMAIN t.qudits}
                 \cup Range(native.fermions) \cup Range(native.qubits)
        at(k, axes) == <<to[axes[k]], from[axes[k]]>>
        fermions == IF t.mapped
                    THEN ProductOf([k \in DOMAIN native.fermions |->
                             PauliElement(t.mappedCodes[k], to[native.fermions[k]], from[native.fermions[k]])])
                    ELSE FermionElement(t, occupied(to), occupied(from))
        qubits == ProductOf([k \in DOMAIN native.qubits |->
                      PauliElement(t.qubits[k], to[native.qubits[k]], from[native.qubits[k]])])
        bosons == ProductOf([k \in DOMAIN t.bosons |->
                      BosonElement(t.bosons[k], to[native.bosons[t.bosons[k][1] + 1]],
                                   from[native.bosons[t.bosons[k][1] + 1]])])
        qudits == ProductOf([k \in DOMAIN t.qudits |->
                      QuditElement(t.qudits[k], native.quditDimension,
                                   to[native.qudits[t.qudits[k][1] + 1]],
                                   from[native.qudits[t.qudits[k][1] + 1]])])
    IN  IF ~(moved \subseteq acted) THEN Zero
        ELSE Times(t.coefficient, Times(Times(fermions, qubits), Times(bosons, qudits)))

Element(to, from) == TotalOf([k \in DOMAIN instance.terms |-> TermElement(instance.terms[k], to, from)])

OperatorLeaks ==
    LET inside == Range(Members) IN
    \E from \in inside, to \in Box \ inside : Element(to, from) # Zero

OperatorMatrix ==
    LET M == Members IN
    [row \in DOMAIN M |-> [k \in DOMAIN M |-> Element(M[row], M[k])]]

GraphMatrix ==
    [row \in 1..graph.dimension |-> [k \in 1..graph.dimension |->
        Total({e \in RowEntries(graph, row - 1) : graph.columns[e] = k - 1}, graph.values)]]

Product(matrix, state) ==
    [row \in DOMAIN matrix |-> TotalOf([k \in DOMAIN state |-> Times(matrix[row][k], state[k])])]

-----------------------------------------------------------------------------
\* An answer, or a refusal that is about the operator: budgets and capacities
\* are refused before the operator is looked at.
Answered(answer) ==
    answer # None /\ (IsFailed(answer) => answer.error \notin {"MemoryLimit", "InvalidStructureLength"})

\* The plan counts exactly the occupations that meet the charges, and its rank
\* and unrank, with and without a factorized layout, are their lexicographic
\* order; anything else in the box has no rank.
PlanIndexesTheSector ==
    stage = "prepare" =>
        LET M == Members IN
        /\ plan.dimension = Len(M)
        /\ \A k \in DOMAIN M :
              /\ Unrank(plan, k - 1) = M[k] /\ AdditiveUnrank(plan, k - 1) = M[k]
              /\ Rank(plan, M[k]) = [rank |-> k - 1] /\ AdditiveRank(plan, M[k]) = [rank |-> k - 1]
        /\ \A values \in Box \ Range(M) : IsFailed(Rank(plan, values))
        /\ IsFailed(Unrank(plan, plan.dimension))

\* The cursor the eager build advances meets the members in that same order,
\* whatever components the axes were split into and however they interleave.
CursorFollowsRank ==
    stage = "columns" /\ column > 0 => source = Members[column]

\* The graph is the operator between the members: terms grouped, lowered to
\* masks, aggregated, cut into runs and merged again.  A build that refuses
\* the operator as leaking has a matrix element that leaves the sector.
EagerMatchesOperator ==
    Answered(graph) =>
        IF IsFailed(graph) THEN graph = Leak /\ OperatorLeaks
        ELSE ~OperatorLeaks /\ GraphMatrix = OperatorMatrix

\* So is the lazy product, by every executor.
LazyMatchesOperator ==
    stage = "done" /\ Answered(output) =>
        IF IsFailed(output) THEN output = Leak /\ OperatorLeaks
        ELSE ~OperatorLeaks /\ output.values = Product(OperatorMatrix, StateOf(plan.dimension))

\* The lazy product is the counterpart of the graph: the same vector.
LazyMatchesEager ==
    stage = "done" /\ ~IsFailed(graph) /\ Answered(output) =>
        output = [values |-> ApplyGraph(graph, StateOf(plan.dimension))]
=============================================================================
