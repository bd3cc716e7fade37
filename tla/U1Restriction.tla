--------------------------- MODULE U1Restriction ---------------------------
(***************************************************************************)
(* An operator restricted to a fixed particle number (sector.rs) behind    *)
(* its Python facade (symmetry.py): threads share one object with two      *)
(* lazily filled caches, the compiled terms and the transition graph.  The *)
(* graph is built in two passes under the object's lock, while other       *)
(* threads read the caches without it.                                     *)
(***************************************************************************)
EXTENDS Csr, U1Sector, TwoPassFill

CONSTANTS
    Thread,           \* the Python threads sharing the facade
    Requests,         \* operators with a sector, a state and the calls made
    MinEnforced,      \* MIN_ENFORCED_MAX_BYTES: smaller limits are advisory
    NoLimit           \* a limit nothing here exceeds: max_bytes=None

VARIABLES
    request,          \* the operator, its sector's particles and the calls made
    basis,            \* the sector
    reference,        \* the block of the operator's matrix in it, and what leaves it
    storage,          \* "absent" until the facade is constructed
    estimate,         \* its _lazy_estimate
    lazy, eager,      \* its caches: compiled terms, transition graph
    lock,             \* the thread that holds its lock
    pc, call,         \* where every thread is, and the call it makes
    positions,        \* the basis iterator of the builder
    terms,            \* the terms the builder compiled
    answer            \* how the call of every thread ended

facadeVars == <<request, basis, reference, storage, estimate, lazy, eager, lock, pc, call, answer>>
vars == <<facadeVars, positions, terms, passVars>>

\* An operator is a sequence of terms with words of its qubits; the particles
\* fit them, and the state has an amplitude for every word of the sector.
ASSUME RequestsAssumption ==
    \A r \in Requests :
        /\ r.operator.nqubits \in Nat
        /\ r.operator.terms \in Seq([word : Words(r.operator.nqubits), coefficient : Complex])
        /\ r.particles \in 0..r.operator.nqubits
        /\ r.state \in [1..ChooseCount(r.operator.nqubits, r.particles) -> Complex]

None == [none |-> TRUE]
IsNone(x) == "none" \in DOMAIN x

-----------------------------------------------------------------------------
(***************************************************************************)
(* Compiled terms: groups of one X mask in order of first occurrence, with *)
(* the i of every Y folded into the coefficients.                          *)
(***************************************************************************)
CompileTerms(operator) ==
    LET ts == operator.terms
        firsts == Kept([k \in DOMAIN ts |-> k],
                       {k \in DOMAIN ts : \A j \in 1..k - 1 : ts[j].word.x # ts[k].word.x})
        sharing(x) == KeepIf(ts, LAMBDA t : t.word.x = x)
        weighted(t) == [z |-> t.word.z, coefficient |-> Times(t.coefficient, YPhase(t.word))]
    IN  [g \in DOMAIN firsts |->
            LET mine == sharing(ts[firsts[g]].word.x) IN
            [x |-> ts[firsts[g]].word.x, terms |-> [k \in DOMAIN mine |-> weighted(mine[k])]]]

\* Faulty: the parity of the holes is taken for that of the particles.
ZParityOfActive(s, active, z) == Cardinality(active \cap z) % 2
\* The parity of a Z mask, from the holes where those are the active ones.
ZParity(s, active, z) ==
    (Cardinality(active \cap z) + (IF s.complement THEN Cardinality(z) ELSE 0)) % 2

GroupValue(s, active, g) ==
    TotalOf([k \in DOMAIN g.terms |->
        IF ZParity(s, active, g.terms[k].z) = 0 THEN g.terms[k].coefficient
        ELSE Neg(g.terms[k].coefficient)])

DestinationWeight(s, active, x) ==
    LET moved == Cardinality(active) + Cardinality(x) - 2 * Cardinality(active \cap x) IN
    IF s.complement THEN s.nqubits - moved ELSE moved

\* aggregate_source: a group that cancels may lead anywhere, any other must
\* keep the particle number.
Contributions(s, groups, word, active) ==
    LET live == {g \in Range(groups) : GroupValue(s, active, g) # Zero} IN
    IF \E g \in live : DestinationWeight(s, active, g.x) # s.particle_number
    THEN Failed("SectorLeakage")
    ELSE [entries |-> {[row |-> RankWords(s, Xor(word, g.x)), value |-> GroupValue(s, active, g)] :
                       g \in live}]
AggregateSource(s, groups, at) == Contributions(s, groups, PackedWord(s, at), ActiveQubits(s, at))

\* Faulty: words that have all of an X mask occupied.
TransitionUpperBoundWhole(s, groups) ==
    LET pairs(x) == IF Cardinality(x) > s.particle_number THEN 0
                    ELSE Combination(s, s.nqubits - Cardinality(x), s.particle_number - Cardinality(x))
    IN  SumOver(groups, LAMBDA g : pairs(g.x))
\* transition_upper_bound: words that have half of an X mask occupied.
TransitionUpperBound(s, groups) ==
    LET pairs(w) == IF w % 2 # 0 \/ w \div 2 > s.particle_number
                       \/ w \div 2 > s.nqubits - s.particle_number THEN 0
                    ELSE Combination(s, w, w \div 2)
                         * Combination(s, s.nqubits - w, s.particle_number - w \div 2)
    IN  SumOver(groups, LAMBDA g : pairs(Cardinality(g.x)))

TermsBytes(s, groups) ==
    LET zs(g) == FoldLeft(LAMBDA n, t : n + 8 * Cardinality(t.z), 0, g.terms)
        group(g) == 40 + 8 * PackedWordCount(s.nqubits) + 8 * Cardinality(g.x)
                    + Len(g.terms) * (8 * PackedWordCount(s.nqubits) + 24) + zs(g)
    IN  FoldLeft(LAMBDA n, g : n + group(g), 8, groups) + 8 * (s.nqubits + 1) * (s.active_number + 1)

PlanBytes(s, groups) ==
    TermsBytes(s, groups) + 24 * s.dimension + 8 + 24 * TransitionUpperBound(s, groups)

\* One walk over the sector adds every column to the output.
LazyApply(s, groups, state) ==
    LET start == [at |-> FirstPositions(s), output |-> [k \in 1..s.dimension |-> Zero]]
        added(output, entries, value) ==
            [k \in DOMAIN output |->
                LET mine == {e \in entries : e.row = k - 1} IN
                IF mine = {} THEN output[k]
                ELSE Plus(output[k], Times((CHOOSE e \in mine : TRUE).value, value))]
        step(walk, k) ==
            IF IsFailed(walk) THEN walk
            ELSE LET c == AggregateSource(s, groups, walk.at) IN
                 IF IsFailed(c) THEN c
                 ELSE [at |-> AdvancePositions(s, walk.at),
                       output |-> added(walk.output, c.entries, state[k])]
        walk[k \in 0..s.dimension] == IF k = 0 THEN start ELSE step(walk[k - 1], k)
        end == walk[s.dimension]
    IN  IF IsFailed(end) THEN end ELSE [vector |-> end.output]

-----------------------------------------------------------------------------
(***************************************************************************)
(* Budgets of the facade: limits under the floor are not enforced.         *)
(***************************************************************************)
Effective(limit) == IF limit < MinEnforced THEN NoLimit ELSE limit
Exceeds(bytes, limit) == bytes > Effective(limit)

MaterializationBytes(dimension, transitions, target) ==
    CASE target = "dense" -> 16 * dimension * dimension
      [] target = "coo" -> 32 * transitions
      [] target = "csr" -> 8 * (dimension + 1) + 24 * transitions
      [] OTHER -> 0
Transitions(graph) == Len(graph.values)

\* Budget left for the construction, or a refusal.
ConstructionBudget(limit, target) ==
    LET floor == MaterializationBytes(basis.dimension, 0, target)
        remaining == limit - estimate
    IN  IF Effective(limit) = NoLimit THEN [bytes |-> NoLimit]
        ELSE IF estimate > limit \/ Exceeds(floor, remaining) THEN Failed("MemoryLimit")
        ELSE [bytes |-> Effective(remaining - floor)]

RetainedBytes(graph, target) ==
    estimate + 32 * Transitions(graph) + MaterializationBytes(basis.dimension, Transitions(graph), target)

EagerEstimate(s, operator) ==
    16 * s.dimension + 8 * (s.dimension + 1) + Len(operator.terms) * (s.nqubits \div 8 + 32)

-----------------------------------------------------------------------------
(***************************************************************************)
(* Reference: the matrix of the whole operator, and its rows and columns   *)
(* with the particle number, in ascending public order.                    *)
(***************************************************************************)
\* Public order: the first qubit that tells two words apart is the most
\* significant, and occupied in the greater word.
Before(v, w) == \E q \in w \ v : \A r \in v \ w : q < r

WordsInOrder(n, p) ==
    LET words == {w \in SUBSET Qubits(n) : Cardinality(w) = p} IN
    [i \in 1..Cardinality(words) |->
        CHOOSE w \in words : Cardinality({v \in words : Before(v, w)}) = i - 1]

Restricted(r) ==
    LET M == WordsInOrder(r.operator.nqubits, r.particles) IN
    [i \in DOMAIN M |-> [j \in DOMAIN M |-> Entry(r.operator, M[i], M[j])]]
Leaks(r) ==
    LET M == WordsInOrder(r.operator.nqubits, r.particles) IN
    \E column \in Range(M), row \in SUBSET Qubits(r.operator.nqubits) :
        Cardinality(row) # r.particles /\ Entry(r.operator, row, column) # Zero

Product(matrix, state) ==
    [row \in DOMAIN matrix |-> TotalOf([k \in DOMAIN state |-> Times(matrix[row][k], state[k])])]

NonZeros(matrix) ==
    {<<i, j, matrix[i][j]>> : i \in DOMAIN matrix, j \in DOMAIN matrix}
    \ {<<i, j, Zero>> : i \in DOMAIN matrix, j \in DOMAIN matrix}

-----------------------------------------------------------------------------
Init ==
    /\ request \in Requests
    /\ basis = NewSector(request.operator.nqubits, request.particles)
    /\ reference = [matrix |-> Restricted(request), leaks |-> Leaks(request)]
    /\ storage = "absent" /\ estimate = 0
    /\ lazy = None /\ eager = None /\ lock = {}
    /\ pc = [t \in Thread |-> "idle"] /\ call = [t \in Thread |-> None]
    /\ answer = [t \in Thread |-> None]
    /\ positions = <<>> /\ terms = None
    /\ pass = "idle" /\ source = 0 /\ sized = 0
    /\ counts = [r \in {} |-> 0] /\ indptr = [r \in {0} |-> 0]
    /\ next = [r \in {} |-> 0] /\ cells = [k \in {} |-> Blank]

Go(t, label) == pc' = [pc EXCEPT ![t] = label]
Done(t, result) == Go(t, "done") /\ answer' = [answer EXCEPT ![t] = result]
NoBuild == UNCHANGED <<positions, terms, passVars>>

\* _restrict_u1 in a lazy facade: only an operator that conserves the number
\* in every sector is compiled.
ConstructLazy(t) ==
    /\ storage = "absent" /\ pc[t] = "idle" /\ \A u \in Thread : pc[u] = "idle"
    /\ request.storage = "lazy"
    /\ \E groups \in {CompileTerms(request.operator)} :
          /\ TermsBytes(basis, groups) <= request.construction
          /\ \A g \in Range(groups), word \in SUBSET Qubits(request.operator.nqubits) :
                Cardinality(Xor(word, g.x)) # Cardinality(word) =>
                    TotalOf([k \in DOMAIN g.terms |->
                        IF Odd(g.terms[k].z \cap word) THEN Neg(g.terms[k].coefficient)
                        ELSE g.terms[k].coefficient]) = Zero
          /\ lazy' = [groups |-> groups]
          /\ estimate' = TermsBytes(basis, groups)
    /\ storage' = "lazy"
    /\ UNCHANGED <<request, basis, reference, eager, lock, pc, call, answer>> /\ NoBuild

\* In an eager one, the graph is built before anybody shares the object.
ConstructEager(t) ==
    /\ storage = "absent" /\ \A u \in Thread : pc[u] = "idle"
    /\ request.storage = "eager"
    /\ \E groups \in {CompileTerms(request.operator)} :
          IF PlanBytes(basis, groups) > request.construction
          THEN /\ Done(t, Failed("MemoryLimit"))
               /\ UNCHANGED <<terms, positions, passVars>>
          ELSE /\ terms' = [groups |-> groups] /\ positions' = FirstPositions(basis)
               /\ StartCount(basis.dimension)
               /\ Go(t, "constructing") /\ UNCHANGED answer
    /\ UNCHANGED <<request, basis, reference, storage, estimate, lazy, eager, lock, call>>

\* A thread makes its call.
Start(t) ==
    /\ storage # "absent" /\ pc[t] = "idle"
    /\ \E c \in request.calls :
          /\ call' = [call EXCEPT ![t] = c]
          /\ Go(t, CASE c.kind = "apply" -> "apply" [] c.kind = "lazy" -> "lazy_read"
                     [] OTHER -> "eager_read")
    /\ UNCHANGED <<request, basis, reference, storage, estimate, lazy, eager, lock, answer>> /\ NoBuild

\* apply: the graph when there is one, the compiled terms otherwise.
Apply(t) ==
    /\ pc[t] = "apply"
    /\ LET output == 16 * basis.dimension
           scratch == 8 * basis.active_number + 16 * PackedWordCount(basis.nqubits)
                      + 24 * Len(lazy.groups)
           limit == Effective(call[t].limit)
       IN  Done(t, IF output > limit THEN Failed("MemoryLimit")
                   ELSE IF ~IsNone(eager) THEN [vector |-> ApplyGraph(eager, request.state)]
                   ELSE IF scratch > limit - output THEN Failed("MemoryLimit")
                   ELSE LazyApply(basis, lazy.groups, request.state))
    /\ UNCHANGED <<request, basis, reference, storage, estimate, lazy, eager, lock, call>> /\ NoBuild

\* _ensure_lazy, with its check outside and inside the lock.
ReadLazy(t) ==
    /\ pc[t] = "lazy_read"
    /\ Go(t, IF IsNone(lazy) THEN "lazy_wait" ELSE "lazy_check")
    /\ UNCHANGED <<request, basis, reference, storage, estimate, lazy, eager, lock, call, answer>> /\ NoBuild

Acquire(t) ==
    /\ pc[t] \in {"lazy_wait", "eager_wait"} /\ lock = {}
    /\ lock' = {t}
    /\ Go(t, IF pc[t] = "lazy_wait" THEN "lazy_locked" ELSE "eager_locked")
    /\ UNCHANGED <<request, basis, reference, storage, estimate, lazy, eager, call, answer>> /\ NoBuild

EnsureLazy(t) ==
    /\ pc[t] = "lazy_locked"
    /\ lock' = {}
    /\ \E groups \in {CompileTerms(request.operator)} :
          IF ~IsNone(lazy) THEN Go(t, "lazy_check") /\ UNCHANGED <<lazy, answer>>
          ELSE IF \/ Exceeds(estimate, call[t].limit)
                  \/ TermsBytes(basis, groups) > Effective(call[t].limit)
          THEN Done(t, Failed("MemoryLimit")) /\ UNCHANGED lazy
          ELSE lazy' = [groups |-> groups] /\ Go(t, "lazy_check") /\ UNCHANGED answer
    /\ UNCHANGED <<request, basis, reference, storage, estimate, eager, call>> /\ NoBuild

ReturnLazy(t) ==
    /\ pc[t] = "lazy_check"
    /\ Done(t, IF Exceeds(TermsBytes(basis, lazy.groups), call[t].limit) THEN Failed("MemoryLimit")
               ELSE LazyApply(basis, lazy.groups, request.state))
    /\ UNCHANGED <<request, basis, reference, storage, estimate, lazy, eager, lock, call>> /\ NoBuild

\* _ensure_eager_for_target, likewise; the first check also charges the target.
ReadEager(t) ==
    /\ pc[t] = "eager_read"
    /\ IF IsNone(eager) THEN Go(t, "eager_wait") /\ UNCHANGED answer
       ELSE IF Exceeds(MaterializationBytes(basis.dimension, Transitions(eager), call[t].kind), call[t].limit)
       THEN Done(t, Failed("MemoryLimit"))
       ELSE Go(t, "materialize") /\ UNCHANGED answer
    /\ UNCHANGED <<request, basis, reference, storage, estimate, lazy, eager, lock, call>> /\ NoBuild

\* Faulty: the cache is not read again under the lock.
BeginBuildUnchecked(t) ==
    /\ pc[t] = "eager_locked"
    /\ \E groups \in {CompileTerms(request.operator)},
          budget \in {ConstructionBudget(call[t].limit, call[t].kind)} :
          IF IsFailed(budget) \/ (~IsFailed(budget) /\ PlanBytes(basis, groups) > budget.bytes)
          THEN /\ lock' = {} /\ Done(t, Failed("MemoryLimit")) /\ NoBuild
          ELSE /\ terms' = [groups |-> groups] /\ positions' = FirstPositions(basis)
               /\ StartCount(basis.dimension)
               /\ Go(t, "building") /\ UNCHANGED <<lock, answer>>
    /\ UNCHANGED <<request, basis, reference, storage, estimate, lazy, eager, call>>

BeginBuild(t) ==
    /\ pc[t] = "eager_locked"
    /\ \E groups \in {CompileTerms(request.operator)},
          budget \in {ConstructionBudget(call[t].limit, call[t].kind)} :
          IF ~IsNone(eager)
          THEN /\ lock' = {} /\ Go(t, "materialize") /\ UNCHANGED answer /\ NoBuild
          ELSE IF IsFailed(budget) \/ (~IsFailed(budget) /\ PlanBytes(basis, groups) > budget.bytes)
          THEN /\ lock' = {} /\ Done(t, Failed("MemoryLimit")) /\ NoBuild
          ELSE /\ terms' = [groups |-> groups] /\ positions' = FirstPositions(basis)
               /\ StartCount(basis.dimension)
               /\ Go(t, "building") /\ UNCHANGED <<lock, answer>>
    /\ UNCHANGED <<request, basis, reference, storage, estimate, lazy, eager, call>>

\* Both passes aggregate the source the iterator stands on and advance it.
Aggregate(t) ==
    /\ pc[t] \in {"building", "constructing"}
    /\ source < Size
    /\ \E c \in {AggregateSource(basis, terms.groups, positions)} :
          IF IsFailed(c)
          THEN /\ pass \in {"count", "fill"}
               /\ Done(t, c) /\ lock' = lock \ {t}
               /\ ForgetPasses /\ positions' = <<>> /\ terms' = None
          ELSE /\ CountSource(c.entries) \/ FillSource(c.entries)
               /\ positions' = AdvancePositions(basis, positions)
               /\ UNCHANGED <<pc, answer, lock, terms>>
    /\ UNCHANGED <<request, basis, reference, storage, estimate, lazy, eager, call>>

\* The second pass has an iterator of its own.
Turn(t) ==
    /\ pc[t] \in {"building", "constructing"}
    /\ StartSizing \/ SizeRow \/ FinishFill \/ StartFill
    /\ positions' = IF pass' = "fill" THEN FirstPositions(basis) ELSE positions
    /\ UNCHANGED <<facadeVars, terms>>

BuiltGraph ==
    TryNew(Size, [k \in 1..Size + 1 |-> indptr[k - 1]],
           [k \in 1..Cardinality(DOMAIN cells) |-> cells[k - 1].column],
           [k \in 1..Cardinality(DOMAIN cells) |-> cells[k - 1].value])

\* The graph is installed only if it fits beside the terms and the target.
Install(t) ==
    /\ pc[t] = "building" /\ pass = "full"
    /\ \E graph \in {BuiltGraph} :
          IF Exceeds(RetainedBytes(graph, call[t].kind), call[t].limit)
          THEN Done(t, Failed("MemoryLimit")) /\ UNCHANGED eager
          ELSE eager' = graph /\ Go(t, "materialize") /\ UNCHANGED answer
    /\ lock' = {}
    /\ ForgetPasses /\ positions' = <<>> /\ terms' = None
    /\ UNCHANGED <<request, basis, reference, storage, estimate, lazy, call>>

FinishConstruction(t) ==
    /\ pc[t] = "constructing" /\ pass = "full"
    /\ eager' = BuiltGraph
    /\ storage' = "eager" /\ estimate' = EagerEstimate(basis, request.operator)
    /\ Go(t, "idle")
    /\ ForgetPasses /\ positions' = <<>> /\ terms' = None
    /\ UNCHANGED <<request, basis, reference, lazy, lock, call, answer>>

Dense(graph) ==
    [row \in 1..graph.dimension |-> [k \in 1..graph.dimension |->
        Total({e \in RowEntries(graph, row - 1) : graph.columns[e] = k - 1}, graph.values)]]

\* dense, coo, csr and the eager plan read the graph back within the limit.
Materialize(t) ==
    /\ pc[t] = "materialize"
    /\ LET limit == Effective(call[t].limit) IN
       Done(t, CASE call[t].kind = "dense" ->
                      IF 16 * eager.dimension * eager.dimension > limit THEN Failed("MemoryLimit")
                      ELSE [matrix |-> Dense(eager)]
                 [] call[t].kind = "coo" -> CooArrays(eager, limit)
                 [] call[t].kind = "csr" -> CsrArrays(eager, limit)
                 [] OTHER -> IF GraphBytes(eager) > limit THEN Failed("MemoryLimit")
                             ELSE [vector |-> ApplyGraph(eager, request.state)])
    /\ UNCHANGED <<request, basis, reference, storage, estimate, lazy, eager, lock, call>> /\ NoBuild

Next ==
    \E t \in Thread :
        \/ ConstructLazy(t) \/ ConstructEager(t) \/ FinishConstruction(t)
        \/ Start(t) \/ Apply(t) \/ ReadLazy(t) \/ ReadEager(t) \/ Acquire(t)
        \/ EnsureLazy(t) \/ ReturnLazy(t)
        \/ BeginBuild(t) \/ Aggregate(t) \/ Turn(t) \/ Install(t) \/ Materialize(t)

Spec == Init /\ [][Next]_vars

-----------------------------------------------------------------------------
\* Whatever a thread is handed, by whichever cache and however threads met, is
\* the block of the operator's matrix in the sector: a product with it, the
\* matrix, or its entries row by row.  A refusal that is not about memory is a
\* matrix element that leaves the sector.
AnswersAreTheRestriction ==
    \A t \in Thread :
        LET a == answer[t]
            matrix == reference.matrix
        IN  ~IsNone(a) =>
                CASE IsFailed(a) -> a.error = "MemoryLimit" \/ (a.error = "SectorLeakage" /\ reference.leaks)
                  [] "vector" \in DOMAIN a -> a.vector = Product(matrix, request.state) /\ ~reference.leaks
                  [] "matrix" \in DOMAIN a -> a.matrix = matrix
                  [] "rows" \in DOMAIN a ->
                        {<<a.rows[k] + 1, a.columns[k] + 1, a.values[k]>> : k \in DOMAIN a.values}
                        = NonZeros(matrix)
                  [] OTHER ->
                        UNION {{<<i, a.columns[k] + 1, a.values[k]>> :
                                k \in a.indptr[i] + 1..a.indptr[i + 1]} : i \in DOMAIN matrix}
                        = NonZeros(matrix)

\* Nobody builds a graph while one is cached, and never two at once.
NoBuildBesideCache ==
    \A t \in Thread : pc[t] = "building" =>
        IsNone(eager) /\ lock = {t} /\ \A u \in Thread \ {t} : pc[u] # "building"

\* What a build allocates stays within what was checked before it: no more
\* transitions than the bound counts.
BuildWithinEstimate ==
    pass \in {"fill", "full"} =>
        Cardinality(DOMAIN cells) <= TransitionUpperBound(basis, terms.groups)
=============================================================================
