---------------------------- MODULE ChargeRoutes ----------------------------
(***************************************************************************)
(* One operator restricted to one charge sector by every route of the      *)
(* native extension: the eager graph, built column by column into bounded  *)
(* runs (charge/eager.rs), and the lazy product, which takes the first of  *)
(* four executors that accepts the layout (charge/generic.rs).  The entry  *)
(* points and their budgets are those of the native charge_sector.rs.      *)
(***************************************************************************)
EXTENDS ChargeSchedule, Csr

LOCAL INSTANCE SequencesExt
LOCAL INSTANCE FiniteSetsExt
LOCAL INSTANCE Folds

None == [none |-> TRUE]
Leak == Failed("Leak")
LeakOf(r) == IF IsFailed(r) /\ r.error = "InvalidSector" THEN Leak ELSE r

-----------------------------------------------------------------------------
(***************************************************************************)
(* Bytes of a graph while it is built, and the budgets of the extension.   *)
(***************************************************************************)
ChunkCapacity == 16384

CsrPeak(dimension, terms, axes, entries, capacity) ==
    LET chunks == (entries + capacity - 1) \div capacity IN
    56 * chunks + 72 * entries + 8 * (dimension + 1) + 16 * axes + 64 * terms + 32

EagerRefusal(plan, prepared, capacity, limit) ==
    LET terms == Len(prepared.schedules)
        axes == Len(prepared.dims)
    IN  IF capacity = 0 THEN {"InvalidStructureLength"}
        ELSE IF \/ CsrPeak(plan.dimension, terms, axes, plan.dimension * terms, ChunkCapacity) > limit
                \/ 8 * axes + 64 * terms + 32 > limit
        THEN {"MemoryLimit"}
        ELSE {}

\* The schedules of an operator, paid for beside the plan and its layout.
ScheduleLayout(plan, native, terms, word, limit) ==
    LET grouped == GroupTerms(terms)
        base == plan.bytes + NativeLayoutBytes(native) + TermsBytes(grouped)
        prepared == PrepareLayout(native, grouped, word, limit - base)
    IN  IF base > limit THEN Failed("MemoryLimit")
        ELSE IF IsFailed(prepared) THEN prepared
        ELSE prepared @@ [retained |-> base + PreparedBytes(prepared)]

-----------------------------------------------------------------------------
(***************************************************************************)
(* The walk over source columns that the eager build and the general lazy  *)
(* loop share.                                                             *)
(***************************************************************************)
NextSource(plan, k, current) ==
    LET l == ExecutionLayout(plan) IN
    IF IsNone(l) THEN AdditiveUnrank(plan, k)
    ELSE IF k = 0 THEN UnrankWithScratch(l, 0)
    ELSE AdvanceCursor(l, current)

RowOf(plan, values) ==
    LET l == ExecutionLayout(plan) IN
    IF IsNone(l) THEN AdditiveRank(plan, values) ELSE RankWithScratch(l, values)

\* The aggregated contributions of one column: exact zeros are dropped before
\* the sector is asked for a row.
Placed(plan, moved) ==
    [k \in DOMAIN moved |-> [row |-> RowOf(plan, moved[k].values), value |-> moved[k].amplitude]]
ColumnOf(plan, prepared, current) ==
    LET placed == Placed(plan, SelectSeq(Destinations(prepared, current), LAMBDA s : ~IsDead(s))) IN
    [k \in DOMAIN placed |-> [placed[k] EXCEPT !.row = LeakOf(@)]]

\* The first contribution without a row ends the build.
FirstFailure(contributions) ==
    LET bad == {k \in DOMAIN contributions : IsFailed(contributions[k].row)} IN
    IF bad = {} THEN None ELSE contributions[Min(bad)].row

PushColumn(s, k, contributions) ==
    FoldLeft(LAMBDA acc, c : Push(acc, c.row.rank, k, c.value), s, contributions)

Buffered(s) == FoldLeft(LAMBDA n, chunk : n + Len(chunk), 0, s.chunks)

FinishedGraph(plan, prepared, s, capacity, limit) ==
    LET arrays == IntoCsr(s) IN
    IF CsrPeak(plan.dimension, Len(prepared.schedules), Len(prepared.dims), Buffered(s), capacity) > limit
    THEN Failed("MemoryLimit")
    ELSE TryNew(plan.dimension, arrays.indptr, arrays.columns, arrays.values)

-----------------------------------------------------------------------------
(***************************************************************************)
(* Lazy executor 1: every action lies in one contiguous component, whose   *)
(* transitions are tabulated after aggregation.                            *)
(***************************************************************************)
TouchedAxes(x) ==
    {x.bosons[k][1] : k \in DOMAIN x.bosons} \cup {x.paulis[k][1] : k \in DOMAIN x.paulis}
    \cup {x.qudits[k][1] : k \in DOMAIN x.qudits}

IsContiguousLayout(l) == ~IsNone(l) /\ IsContiguous(l)

\* The whole layout with the occupations of one component, zero elsewhere.
Embedded(c, rank, dims) ==
    LET local == ComponentUnrank(c, rank) IN
    [a \in DOMAIN dims |-> IF a \in Range(c.axes)
                           THEN local[CHOOSE k \in DOMAIN c.axes : c.axes[k] = a] ELSE 0]

TableEntries(c, moved) ==
    [k \in DOMAIN moved |-> [row |-> ComponentRank(c, LocalValues(c, moved[k].values)),
                             value |-> moved[k].amplitude]]
TableRow(prepared, c, rank) ==
    TableEntries(c, SelectSeq(Destinations(prepared, Embedded(c, rank, prepared.dims)),
                              LAMBDA s : ~IsDead(s)))
Tabulated(i, table) ==
    IF \E rank \in DOMAIN table : ~IsNone(FirstFailure(table[rank])) THEN Leak
    ELSE [component |-> i, table |-> table]

LocalAggregate(plan, prepared) ==
    LET l == ExecutionLayout(plan)
        schedules == Range(prepared.schedules)
        active == {l.axisComponents[a] : a \in UNION {TouchedAxes(x) : x \in schedules}}
        i == CHOOSE n \in active : TRUE
    IN  IF \/ ~IsContiguousLayout(l)
           \/ \E x \in schedules : ~IsNone(x.mask)
        THEN None
        ELSE IF Cardinality(active) # 1 THEN None
        ELSE Tabulated(i, [rank \in 0..l.components[i].dimension - 1 |->
                              TableRow(prepared, l.components[i], rank)])

Scattered(contributions, dimension) ==
    [values |-> [row \in 1..dimension |->
        TotalOf([k \in DOMAIN contributions |->
            IF contributions[k][1] = row - 1 THEN contributions[k][2] ELSE Zero])]]

ApplyAggregate(executor, plan, state) ==
    LET l == plan.layout
        stride == Stride(l, executor.component)
        n == l.components[executor.component].dimension
        one(k) == LET rank == (k \div stride) % n
                      moves == executor.table[rank]
                  IN  [j \in DOMAIN moves |-> <<k + (moves[j].row.rank - rank) * stride,
                                                Times(moves[j].value, state[k + 1])>>]
    IN  Scattered(FlattenSeq([k \in 1..plan.dimension |-> one(k - 1)]), plan.dimension)

-----------------------------------------------------------------------------
(***************************************************************************)
(* Lazy executor 2: contiguous binary populations, one or a pair, gathered *)
(* destination by destination on occupation words.                         *)
(***************************************************************************)
ArePopulations(l) ==
    /\ IsContiguousLayout(l) /\ Len(l.components) \in {1, 2}
    /\ \A i \in DOMAIN l.components : l.components[i].kind = "FixedPopulation"

GatherAccepts(plan, prepared, conserved) ==
    /\ conserved /\ ArePopulations(plan.layout) /\ Len(prepared.dims) <= 64
    /\ \A k \in DOMAIN prepared.schedules :
           LET x == prepared.schedules[k] IN
           /\ TouchedAxes(x) = {}
           /\ ~x.zero /\ ~IsNone(x.mask) => HasContiguousAction(x.mask)

SitesAfter(l, i) == SumOver(i + 1..Len(l.components), LAMBDA j : Len(l.components[j].axes))

WordOfRank(l, rank) ==
    UNION {{b + SitesAfter(l, i) : b \in
                UnrankBinaryWord(l.components[i], (rank \div Stride(l, i)) % l.components[i].dimension)}
           : i \in DOMAIN l.components}

RankOfWord(l, word) ==
    LET part(i) == {b - SitesAfter(l, i) : b \in
                       {x \in word : x - SitesAfter(l, i) \in 0..Len(l.components[i].axes) - 1}}
        r(i) == RankBinaryWord(l.components[i], part(i))
        bad == {i \in DOMAIN l.components : IsFailed(r(i))}
    IN  IF bad # {} THEN r(Min(bad))
        ELSE [rank |-> SumOver(DOMAIN l.components, LAMBDA i : r(i).rank * Stride(l, i))]

\* What one schedule brings to a destination: from which rank, how much.
Gathered(x, l, rank) ==
    LET action == ContiguousAction(x.mask)
        from == Xor(WordOfRank(l, rank), action.flip)
        amplitude == MaskAmplitude(action, from, x.coefficient)
    IN  IF x.zero THEN [row |-> [rank |-> rank], value |-> Zero]
        ELSE IF IsNone(x.mask) THEN [row |-> [rank |-> rank], value |-> x.coefficient]
        ELSE [row |-> IF amplitude = Zero THEN [rank |-> rank] ELSE RankOfWord(l, from),
              value |-> amplitude]

ApplyGather(plan, prepared, state) ==
    LET row(rank) == [k \in DOMAIN prepared.schedules |-> Gathered(prepared.schedules[k], plan.layout, rank)]
        all == FlattenSeq([n \in 1..plan.dimension |-> row(n - 1)])
    IN  IF ~IsNone(FirstFailure(all)) THEN FirstFailure(all)
        ELSE [values |-> [n \in 1..plan.dimension |->
                 TotalOf([k \in DOMAIN prepared.schedules |->
                     Times(row(n - 1)[k].value, state[row(n - 1)[k].row.rank + 1])])]]

-----------------------------------------------------------------------------
(***************************************************************************)
(* Lazy executor 3: schedules that keep every charge, one table for every  *)
(* contiguous component they touch; the sign spans the components.         *)
(***************************************************************************)
ModesIn(mask, c) == {m \in 0..Len(mask.axes) - 1 : mask.axes[m + 1] \in Range(c.axes)}

Touches(x, c) ==
    \/ TouchedAxes(x) \cap Range(c.axes) # {}
    \/ ~IsNone(x.mask) /\ ModesIn(x.mask, c) \cap (x.mask.occupied \cup x.mask.empty \cup x.mask.flip) # {}

\* The action of a schedule on one component, whatever the others hold.
ComponentAction(x, c, prepared, rank) ==
    LET values == Embedded(c, rank, prepared.dims)
        mine == ModesIn(x.mask, c)
        occupied == PackSource(x.mask, values)
        meets == /\ x.mask.occupied \cap mine \subseteq occupied
                 /\ x.mask.empty \cap mine \cap occupied = {}
        moved == Flipped([x.mask EXCEPT !.flip = @ \cap mine], values)
        start == IF IsNone(x.mask) THEN State(values, One)
                 ELSE IF meets THEN State(moved, One) ELSE Dead
        s == LocalOps(x, start, prepared, LAMBDA a : a \in Range(c.axes))
    IN  IF IsDead(s) THEN [row |-> None, value |-> Zero]
        ELSE [row |-> ComponentRank(c, LocalValues(c, s.values)), value |-> s.amplitude]

Factored(live, tables) ==
    IF \E k \in DOMAIN live : \E i \in DOMAIN tables[k] : \E rank \in DOMAIN tables[k][i] :
           IsFailed(tables[k][i][rank].row)
    THEN Leak
    ELSE [schedules |-> live, tables |-> tables]

FactorSchedules(plan, prepared, conserved) ==
    LET l == ExecutionLayout(plan)
        live == SelectSeq(prepared.schedules, LAMBDA x : ~x.zero)
    IN  IF ~conserved \/ ~IsContiguousLayout(l) THEN None
        ELSE Factored(live, [k \in DOMAIN live |->
                 [i \in {j \in DOMAIN l.components : Touches(live[k], l.components[j])} |->
                     [rank \in 0..l.components[i].dimension - 1 |->
                         ComponentAction(live[k], l.components[i], prepared, rank)]]])

\* Faulty: a sign is taken from the components the schedule touches.
OccupiedTouched(l, mask, prepared, k) ==
    UNION {PackSource(mask, Embedded(l.components[i], (k \div Stride(l, i)) % l.components[i].dimension,
                                     prepared.dims)) :
           i \in {j \in DOMAIN l.components : ModesIn(mask, l.components[j]) \cap mask.flip # {}}}

\* Modes occupied in the component states that make up a column.
OccupiedModes(l, mask, prepared, k) ==
    UNION {PackSource(mask, Embedded(l.components[i], (k \div Stride(l, i)) % l.components[i].dimension,
                                     prepared.dims)) : i \in DOMAIN l.components}

ApplyFactor(executor, plan, prepared, state) ==
    LET l == plan.layout
        rank(k, i) == (k \div Stride(l, i)) % l.components[i].dimension
        one(n, k) ==
            LET x == executor.schedules[n]
                T == executor.tables[n]
                move(i) == T[i][rank(k, i)]
                row == k + SumOver(DOMAIN T, LAMBDA i : (move(i).row.rank - rank(k, i)) * Stride(l, i))
                value == Times(x.coefficient, ProductOf([i \in DOMAIN T |-> move(i).value]))
            IN  IF \E i \in DOMAIN T : IsNone(move(i).row) THEN <<k, Zero>>
                ELSE IF IsNone(x.mask) THEN <<row, Times(value, state[k + 1])>>
                ELSE <<row, Times(MaskAmplitude(x.mask, OccupiedModes(l, x.mask, prepared, k), value),
                                  state[k + 1])>>
    IN  Scattered(FlattenSeq([n \in DOMAIN executor.schedules |->
                     [k \in 1..plan.dimension |-> one(n, k - 1)]]), plan.dimension)

-----------------------------------------------------------------------------
(***************************************************************************)
(* Lazy executor 4: the general loop.  A conserved schedule is placed on   *)
(* its own; otherwise a column is aggregated like the eager one.           *)
(***************************************************************************)
LoopBytes(prepared) ==
    LET axes == Len(prepared.dims) IN
    16 * axes + Len(prepared.schedules) * (IF prepared.wide THEN 64 + 8 * axes ELSE 24) + 32

PlacedAlone(plan, prepared, current) ==
    Placed(plan, SelectSeq([k \in DOMAIN prepared.schedules |->
                               ApplySchedule(prepared.schedules[k], current, prepared)],
                           LAMBDA s : ~IsDead(s)))

LoopColumns(plan, prepared, conserved) ==
    LET sources == FoldLeft(LAMBDA seen, k : Append(seen, NextSource(plan, k - 1, Last(seen))),
                            <<<<>>>>, [k \in 1..plan.dimension |-> k])
    IN  [k \in 1..plan.dimension |->
            IF conserved THEN PlacedAlone(plan, prepared, sources[k + 1])
            ELSE ColumnOf(plan, prepared, sources[k + 1])]

LoopAnswer(plan, prepared, columns, state, limit) ==
    LET scaled(k) == [j \in DOMAIN columns[k] |->
                         <<columns[k][j].row.rank, Times(columns[k][j].value, state[k])>>]
    IN  IF LoopBytes(prepared) > limit - 16 * plan.dimension THEN Failed("MemoryLimit")
        ELSE IF ~IsNone(FirstFailure(FlattenSeq(columns))) THEN FirstFailure(FlattenSeq(columns))
        ELSE Scattered(FlattenSeq([k \in DOMAIN columns |-> scaled(k)]), plan.dimension)

ApplyLoop(plan, prepared, conserved, state, limit) ==
    LoopAnswer(plan, prepared, LoopColumns(plan, prepared, conserved), state, limit)

\* prepare_charge_mvp_plan: the executors an operator retains.  A leak that
\* the tables show refuses the operator at once.
Executors(aggregate, factor) ==
    IF IsFailed(aggregate) THEN aggregate
    ELSE IF ~IsNone(aggregate) THEN [aggregate |-> aggregate, factor |-> None]
    ELSE IF IsFailed(factor) THEN factor
    ELSE [aggregate |-> None, factor |-> factor]
CompileExecutors(plan, prepared, conserved) ==
    Executors(LocalAggregate(plan, prepared), FactorSchedules(plan, prepared, conserved))
=============================================================================
