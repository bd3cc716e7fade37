---------------------------- MODULE ChargeSector ----------------------------
(***************************************************************************)
(* Additive charge sectors (charge_sector.rs): the occupations of finite   *)
(* axes whose charges meet every target, indexed in lexicographic order.   *)
(* An exact plan counts completions axis by axis; beside it a factorized   *)
(* layout, proved from the charge equations, splits the axes into          *)
(* independent components with indexes of their own.  Axes, levels tables  *)
(* and components are numbered from 1, occupations from 0.                 *)
(***************************************************************************)
EXTENDS PauliOperators

LOCAL INSTANCE SequencesExt
LOCAL INSTANCE FiniteSetsExt
LOCAL INSTANCE Folds

Added(a, b) == [r \in DOMAIN a |-> a[r] + b[r]]
Subtracted(a, b) == [r \in DOMAIN a |-> a[r] - b[r]]
Zeros(width) == [r \in 1..width |-> 0]
SumOver(S, f(_)) == MapThenFoldSet(+, 0, f, Min, S)
ProductOver(S, f(_)) == MapThenFoldSet(LAMBDA a, b : a * b, 1, f, Min, S)
CountIn(table, key) == IF key \in DOMAIN table THEN table[key] ELSE 0

-----------------------------------------------------------------------------
(***************************************************************************)
(* Suffix counts: for every suffix of the axes, the number of ways each    *)
(* remainder can be met.  The plan and the additive component index walk   *)
(* them in the same way.                                                   *)
(***************************************************************************)
Extended(levels, next) ==
    LET keys == {Added(levels[v], r) : v \in DOMAIN levels, r \in DOMAIN next} IN
    [key \in keys |->
        SumOver(DOMAIN levels, LAMBDA v : CountIn(next, Subtracted(key, levels[v])))]

SuffixTables(levels, width) ==
    FoldRight(LAMBDA one, tables : <<Extended(one, tables[1])>> \o tables,
              levels, <<[r \in {Zeros(width)} |-> 1]>>)

\* What is left of the target after a prefix of the occupations.
Remainder(index, prefix) ==
    FoldLeft(LAMBDA r, a : Subtracted(r, index.levels[a][prefix[a] + 1]),
             index.target, [a \in DOMAIN prefix |-> a])

Completions(index, prefix) ==
    CountIn(index.tables[Len(prefix) + 1], Remainder(index, prefix))

AdditiveRank(index, values) ==
    IF \E a \in DOMAIN values : values[a] >= Len(index.levels[a]) THEN Failed("InvalidIndex")
    ELSE IF Remainder(index, values) # Zeros(Len(index.target)) THEN Failed("InvalidSector")
    ELSE [rank |-> SumOver(DOMAIN values, LAMBDA a :
             SumOver(0..values[a] - 1, LAMBDA c :
                 Completions(index, Append(SubSeq(values, 1, a - 1), c))))]

\* The first level of an axis whose block of completions holds the rank, and
\* the rank within the block.
ChooseLevel(rank, nlevels, count(_)) ==
    LET below[c \in 0..nlevels] == IF c = 0 THEN 0 ELSE below[c - 1] + count(c - 1)
        chosen == Min({c \in 0..nlevels - 1 : rank < below[c + 1]})
    IN  [level |-> chosen, rank |-> rank - below[chosen]]

AdditiveUnrank(index, rank) ==
    LET step(acc, a) ==
            LET chosen == ChooseLevel(acc.rank, Len(index.levels[a]),
                              LAMBDA c : Completions(index, Append(acc.values, c)))
            IN  [values |-> Append(acc.values, chosen.level), rank |-> chosen.rank]
    IN  FoldLeft(step, [values |-> <<>>, rank |-> rank],
                 [a \in DOMAIN index.levels |-> a]).values

-----------------------------------------------------------------------------
(***************************************************************************)
(* Component indexes: a plain product of axes, the words of a fixed        *)
(* population, or a finite additive constraint.                            *)
(***************************************************************************)
NoLayout == [none |-> TRUE]
IsNone(l) == "none" \in DOMAIN l

CombinationOf(n, k) ==
    IF k > n THEN 0
    ELSE LET m == IF k < n - k THEN k ELSE n - k IN
         FoldLeft(LAMBDA v, s : (v * (n - s + 1)) \div s, 1, [s \in 1..m |-> s])

\* Struct sizes on a 64-bit target: component, additive and population index.
ComponentSize == 136
AdditiveSize == 104
PopulationSize == 48
CombinationCacheLimit == 1024 * 1024

Cartesian(axis, d) ==
    [kind |-> "Cartesian", axes |-> <<axis>>, dims |-> <<d>>, dimension |-> d, bytes |-> 16]

CacheBytes(sites, population) ==
    LET bytes == (sites + 1) * (population + 1) * 16 IN
    IF bytes > CombinationCacheLimit THEN 0 ELSE bytes

FixedPopulation(axes, population) ==
    [kind |-> "FixedPopulation", axes |-> axes, dims |-> [k \in DOMAIN axes |-> 2],
     population |-> population, dimension |-> CombinationOf(Len(axes), population),
     bytes |-> PopulationSize + CacheBytes(Len(axes), population)]

\* NoLayout when the tables do not fit or the target cannot be met.
AdditiveIndex(axes, levels, target, limit, tables) ==
    LET entries == SumOver(1..Len(axes), LAMBDA a : Cardinality(DOMAIN tables[a]))
        entry_bytes == IF Len(target) = 1 THEN 32 ELSE 64
        nlevels == SumOver(DOMAIN levels, LAMBDA a : Len(levels[a]))
    IN  IF entries * entry_bytes > limit \/ target \notin DOMAIN tables[1] THEN NoLayout
        ELSE [kind |-> "FiniteAdditive", axes |-> axes,
              dims |-> [a \in DOMAIN levels |-> Len(levels[a])],
              levels |-> levels, target |-> target, tables |-> tables,
              dimension |-> tables[1][target],
              bytes |-> AdditiveSize + 8 * Len(axes) + 32 * nlevels
                        + (entries + 1) * entry_bytes]
FiniteAdditive(axes, levels, target, limit) ==
    AdditiveIndex(axes, levels, target, limit, SuffixTables(levels, Len(target)))

Occupied(values) == Cardinality({k \in DOMAIN values : values[k] = 1})

\* Number of ways to complete a prefix of the component's occupations.
CompletionOf(c, prefix) ==
    CASE c.kind = "Cartesian" -> ProductOver(Len(prefix) + 1..Len(c.dims), LAMBDA k : c.dims[k])
      [] c.kind = "FixedPopulation" ->
            IF Occupied(prefix) > c.population THEN 0
            ELSE CombinationOf(Len(c.dims) - Len(prefix), c.population - Occupied(prefix))
      [] OTHER -> Completions(c, prefix)

\* Each set bit adds the words that leave it out.
PopulationRank(c, values) ==
    LET bad == {k \in DOMAIN values : values[k] > 1}
        over == {k \in DOMAIN values : Occupied(SubSeq(values, 1, k)) > c.population}
        needed(k) == c.population - Occupied(SubSeq(values, 1, k - 1))
    IN  IF bad # {} /\ (over = {} \/ Min(bad) < Min(over)) THEN Failed("InvalidIndex")
        ELSE IF Occupied(values) # c.population THEN Failed("InvalidSector")
        ELSE [rank |-> SumOver({k \in DOMAIN values : values[k] = 1},
                 LAMBDA k : CombinationOf(Len(values) - k, needed(k)))]

PopulationUnrank(c, rank) ==
    LET step(acc, k) ==
            LET zeros == CombinationOf(Len(c.dims) - k, acc.needed) IN
            IF acc.rank < zeros THEN [acc EXCEPT !.values = Append(@, 0)]
            ELSE [values |-> Append(acc.values, 1), rank |-> acc.rank - zeros,
                  needed |-> acc.needed - 1]
    IN  FoldLeft(step, [values |-> <<>>, rank |-> rank, needed |-> c.population],
                 [k \in DOMAIN c.dims |-> k]).values

ComponentRank(c, values) ==
    CASE c.kind = "Cartesian" ->
            IF \E k \in DOMAIN values : values[k] >= c.dims[k] THEN Failed("InvalidIndex")
            ELSE [rank |-> SumOver(DOMAIN values, LAMBDA k : values[k] * CompletionOf(c, SubSeq(values, 1, k)))]
      [] c.kind = "FixedPopulation" -> PopulationRank(c, values)
      [] OTHER -> AdditiveRank(c, values)

ComponentUnrank(c, rank) ==
    CASE c.kind = "Cartesian" ->
            [k \in DOMAIN c.dims |->
                (rank \div ProductOver(k + 1..Len(c.dims), LAMBDA j : c.dims[j])) % c.dims[k]]
      [] c.kind = "FixedPopulation" -> PopulationUnrank(c, rank)
      [] OTHER -> AdditiveUnrank(c, rank)

\* The same on one binary word of contiguous sites: axis 0 is its top bit.
RankBinaryWord(c, word) ==
    PopulationRank(c, [k \in DOMAIN c.dims |-> IF Len(c.dims) - k \in word THEN 1 ELSE 0])
UnrankBinaryWord(c, rank) ==
    LET values == PopulationUnrank(c, rank) IN
    {Len(c.dims) - k : k \in {j \in DOMAIN values : values[j] = 1}}

-----------------------------------------------------------------------------
(***************************************************************************)
(* The factorized layout: rank, unrank and the public cursor over several  *)
(* components whose axes may interleave.                                   *)
(***************************************************************************)
LocalPrefix(c, prefix) ==
    LET inside == SelectSeq(c.axes, LAMBDA a : a <= Len(prefix)) IN
    [k \in DOMAIN inside |-> prefix[inside[k]]]

\* Completions of a public prefix: every component completes on its own.
PrefixCompletions(l, prefix) ==
    ProductOver(DOMAIN l.components,
        LAMBDA i : CompletionOf(l.components[i], LocalPrefix(l.components[i], prefix)))

LocalValues(c, values) == [k \in DOMAIN c.axes |-> values[c.axes[k]]]

FactorRank(l, values) ==
    LET r(i) == ComponentRank(l.components[i], LocalValues(l.components[i], values))
        bad == {i \in DOMAIN l.components : IsFailed(r(i))}
    IN  IF bad # {} THEN r(Min(bad))
        ELSE [rank |-> SumOver(DOMAIN values, LAMBDA a :
                 SumOver(0..values[a] - 1, LAMBDA v :
                     PrefixCompletions(l, Append(SubSeq(values, 1, a - 1), v))))]

AxisDimension(l, a) ==
    LET c == l.components[l.axisComponents[a]] IN c.dims[CHOOSE k \in DOMAIN c.axes : c.axes[k] = a]

FactorUnrank(l, rank) ==
    LET step(acc, a) ==
            LET chosen == ChooseLevel(acc.rank, AxisDimension(l, a),
                              LAMBDA v : PrefixCompletions(l, Append(acc.values, v)))
            IN  [values |-> Append(acc.values, chosen.level), rank |-> chosen.rank]
    IN  FoldLeft(step, [values |-> <<>>, rank |-> rank],
                 [a \in DOMAIN l.axisComponents |-> a]).values

\* Components that lie behind each other: their ranks are digits.
IsContiguous(l) ==
    FlattenSeq([i \in DOMAIN l.components |-> l.components[i].axes])
        = [a \in DOMAIN l.axisComponents |-> a]
Stride(l, i) == ProductOver(i + 1..Len(l.components), LAMBDA j : l.components[j].dimension)

RankWithScratch(l, values) ==
    IF ~IsContiguous(l) THEN FactorRank(l, values)
    ELSE LET r(i) == ComponentRank(l.components[i], LocalValues(l.components[i], values))
             bad == {i \in DOMAIN l.components : IsFailed(r(i))}
         IN
         IF bad # {} THEN r(Min(bad))
         ELSE [rank |-> SumOver(DOMAIN l.components, LAMBDA i : r(i).rank * Stride(l, i))]

UnrankWithScratch(l, rank) ==
    IF ~IsContiguous(l) THEN FactorUnrank(l, rank)
    ELSE FlattenSeq([i \in DOMAIN l.components |->
             ComponentUnrank(l.components[i],
                 (rank \div Stride(l, i)) % l.components[i].dimension)])

\* Faulty: what was placed before the last axis is asked.
PrefixFits(l, values, k) == PrefixCompletions(l, SubSeq(values, 1, k - 1)) # 0
PrefixHasCompletion(l, values, k) == PrefixCompletions(l, SubSeq(values, 1, k)) # 0

\* The single population: raise the last site that can be, pack the rest.
\* An empty sequence when no state is left.
AdvancePopulation(c, values) ==
    LET sites == Len(values)
        before(k) == Occupied(SubSeq(values, 1, k - 1))
        pivots == {k \in 1..sites : values[k] = 0 /\ before(k) < c.population}
        k == Max(pivots)
        rest == c.population - before(k) - 1
    IN  IF pivots = {} THEN <<>>
        ELSE [j \in 1..sites |->
                 IF j < k THEN values[j] ELSE IF j = k \/ j > sites - rest THEN 1 ELSE 0]

\* Any layout: raise the last axis that has a completion, complete the rest
\* with the smallest levels.
AdvanceMixed(l, values) ==
    LET axes == DOMAIN values
        options(prefix, low) ==
            {v \in low..AxisDimension(l, Len(prefix) + 1) - 1 :
                PrefixHasCompletion(l, Append(prefix, v), Len(prefix) + 1)}
        raised(a) == options(SubSeq(values, 1, a - 1), values[a] + 1)
        movable == {a \in axes : raised(a) # {}}
        a == Max(movable)
    IN  IF movable = {} THEN <<>>
        ELSE FoldLeft(LAMBDA prefix, b : Append(prefix, Min(options(prefix, 0))),
                      Append(SubSeq(values, 1, a - 1), Min(raised(a))),
                      [b \in 1..Len(values) - a |-> b])

IsSinglePopulation(l) ==
    Len(l.components) = 1 /\ l.components[1].kind = "FixedPopulation" /\ IsContiguous(l)

AdvanceCursor(l, values) ==
    IF IsSinglePopulation(l) THEN AdvancePopulation(l.components[1], values)
    ELSE AdvanceMixed(l, values)

-----------------------------------------------------------------------------
(***************************************************************************)
(* Factor analysis: the charge equations as rows over one column for every *)
(* level above the lowest of an axis, reduced over the integers when their *)
(* supports overlap, and split into groups that share no axis.             *)
(***************************************************************************)
Columns(dims) ==
    FlattenSeq([a \in DOMAIN dims |-> [v \in 1..dims[a] - 1 |-> [axis |-> a, level |-> v]]])
Row(coefficients, target) == [coefficients |-> coefficients, target |-> target]
ZeroRow(row) == \A k \in DOMAIN row.coefficients : row.coefficients[k] = 0

\* Faulty: the target is not moved with the baseline.
ChargeRowsUnshifted(dims, levels, target) ==
    LET columns == Columns(dims) IN
    [r \in DOMAIN target |->
        Row([k \in DOMAIN columns |->
                levels[columns[k].axis][columns[k].level + 1][r] - levels[columns[k].axis][1][r]],
            target[r])]

\* One row per constraint, relative to every axis at its level 0.
ChargeRows(dims, levels, target) ==
    LET columns == Columns(dims) IN
    [r \in DOMAIN target |->
        Row([k \in DOMAIN columns |->
                levels[columns[k].axis][columns[k].level + 1][r] - levels[columns[k].axis][1][r]],
            target[r] - SumOver(DOMAIN dims, LAMBDA a : levels[a][1][r]))]

RowSupport(row, columns) == {columns[k].axis : k \in {j \in DOMAIN columns : row.coefficients[j] # 0}}

Abs(x) == IF x < 0 THEN -x ELSE x

\* Divide by the common divisor, target included; leading coefficient positive.
PrimitiveNormalize(row) ==
    LET all == Append(row.coefficients, row.target)
        nonzero == {Abs(all[k]) : k \in DOMAIN all} \ {0}
        divisor == IF nonzero = {} THEN 1
                   ELSE Max({d \in 1..Min(nonzero) : \A x \in nonzero : x % d = 0})
        leading == {k \in DOMAIN row.coefficients : row.coefficients[k] # 0}
        sign == IF leading # {} /\ row.coefficients[Min(leading)] < 0 THEN -1 ELSE 1
        scaled(x) == sign * (IF x < 0 THEN -((-x) \div divisor) ELSE x \div divisor)
    IN  Row([k \in DOMAIN row.coefficients |-> scaled(row.coefficients[k])], scaled(row.target))

Eliminated(row, pivot, column) ==
    IF row.coefficients[column] = 0 THEN row
    ELSE LET p == pivot.coefficients[column]
             c == row.coefficients[column]
         IN  PrimitiveNormalize(
                Row([k \in DOMAIN row.coefficients |->
                        p * row.coefficients[k] - c * pivot.coefficients[k]],
                    p * row.target - c * pivot.target))

\* One column of the elimination: the largest coefficient is the pivot.
ReduceColumn(acc, column) ==
    LET rows == acc.rows
        candidates == {r \in acc.pivot..Len(rows) : rows[r].coefficients[column] # 0}
        size(r) == Abs(rows[r].coefficients[column])
        selected == Min({r \in candidates : \A s \in candidates : size(s) <= size(r)})
        swapped == [rows EXCEPT ![acc.pivot] = rows[selected], ![selected] = rows[acc.pivot]]
        pivot == PrimitiveNormalize(swapped[acc.pivot])
    IN  IF candidates = {} THEN acc
        ELSE [rows |-> [r \in DOMAIN rows |-> IF r = acc.pivot THEN pivot
                                               ELSE Eliminated(swapped[r], pivot, column)],
              pivot |-> acc.pivot + 1]

\* Once every row holds a pivot the remaining columns change nothing.  The
\* order of the rows is not told by what follows, only which are distinct.
ReduceRows(rows) ==
    SetToSeq(Range(FoldLeft(ReduceColumn, [rows |-> rows, pivot |-> 1],
                            [k \in DOMAIN rows[1].coefficients |-> k]).rows))

FixedPopulationOf(row, axes, dims, columns) ==
    LET coefficients == {row.coefficients[k] : k \in {j \in DOMAIN columns : columns[j].axis \in Range(axes)}}
        c == CHOOSE x \in coefficients : TRUE
        population == (Abs(row.target) \div Abs(c)) * (IF row.target * c < 0 THEN -1 ELSE 1)
    IN  IF /\ \A a \in Range(axes) : dims[a] = 2
           /\ Cardinality(coefficients) = 1 /\ Abs(row.target) % Abs(c) = 0
           /\ population \in 0..Len(axes)
        THEN population ELSE -1

ComponentOf(group, axes, dims, columns, limit) ==
    LET population == IF Len(group) = 1 THEN FixedPopulationOf(group[1], axes, dims, columns) ELSE -1
        contribution(a, v) ==
            IF v = 0 THEN Zeros(Len(group))
            ELSE LET k == CHOOSE j \in DOMAIN columns : columns[j] = [axis |-> a, level |-> v]
                 IN  [r \in DOMAIN group |-> group[r].coefficients[k]]
    IN  IF population >= 0 THEN FixedPopulation(axes, population)
        ELSE FiniteAdditive(axes,
                 [k \in DOMAIN axes |-> [v \in 1..dims[axes[k]] |-> contribution(axes[k], v - 1)]],
                 [r \in DOMAIN group |-> group[r].target], limit)

\* Rows that share an axis, directly or through other rows, are one group.
GroupAxes(rows, columns) ==
    LET supports == {RowSupport(rows[r], columns) : r \in DOMAIN rows}
        join(S, s) == LET met == {t \in S : t \cap s # {}} IN (S \ met) \cup {UNION (met \cup {s})}
    IN  FoldLeft(join, {}, SetToSeq(supports))

LayoutOf(components, dims, limit) ==
    LET ordered == SetToSortSeq(components, LAMBDA c, d : c.axes[1] < d.axes[1])
    IN  IF NoLayout \in components THEN NoLayout
        ELSE LET total == Len(ordered) * ComponentSize + 16 * Len(dims)
                          + FoldLeft(LAMBDA n, c : n + c.bytes, 0, ordered)
             IN  IF total > limit THEN NoLayout
                 ELSE [components |-> ordered,
                       axisComponents |-> [a \in DOMAIN dims |->
                           CHOOSE i \in DOMAIN ordered : a \in Range(ordered[i].axes)],
                       bytes |-> total]

LayoutFromRows(rows, dims, limit) ==
    LET columns == Columns(dims)
        groups == GroupAxes(rows, columns)
        component(G) == ComponentOf(SelectSeq(rows, LAMBDA row : RowSupport(row, columns) \subseteq G),
                                    SelectSeq([a \in DOMAIN dims |-> a], LAMBDA a : a \in G), dims, columns, limit)
        free == DOMAIN dims \ UNION groups
    IN  LayoutOf({component(G) : G \in groups} \cup {Cartesian(a, dims[a]) : a \in free}, dims, limit)

DisjointSupports(rows, columns) ==
    \A r, s \in DOMAIN rows : r # s => RowSupport(rows[r], columns) \cap RowSupport(rows[s], columns) = {}

Impossible(rows) == \E r \in DOMAIN rows : ZeroRow(rows[r]) /\ rows[r].target # 0
ActiveRows(rows) == SelectSeq(rows, LAMBDA row : ~ZeroRow(row))

\* Equations that share axes are reduced first; those that share none, or at
\* most one of them, are taken as they are.
IndependentRows(rows, columns) ==
    IF Len(rows) <= 1 \/ DisjointSupports(rows, columns) THEN rows ELSE ReduceRows(rows)
LayoutFromAll(rows, dims, limit) ==
    IF Impossible(rows) THEN NoLayout ELSE LayoutFromRows(ActiveRows(rows), dims, limit)

\* NoLayout whenever the analysis declines; the plan is exact without it.
AnalyzeLayout(dims, levels, target, limit) ==
    LET rows == ChargeRows(dims, levels, target) IN
    IF \/ Len(target) > 4 \/ \E a \in DOMAIN dims : dims[a] = 0
       \/ Len(target) * (Len(Columns(dims)) + 1) * 8 > limit
       \/ Impossible(rows)
    THEN NoLayout
    ELSE LayoutFromAll(IndependentRows(ActiveRows(rows), Columns(dims)), dims, limit)

IsSingleCoupled(l) ==
    /\ Len(l.components) = 1 /\ l.components[1].kind = "FiniteAdditive"
    /\ Len(l.components[1].target) \in 2..4

-----------------------------------------------------------------------------
(***************************************************************************)
(* The plan: exact suffix counts, with the layout beside them.             *)
(***************************************************************************)
ContributionBytes(dims, width) ==
    SumOver(DOMAIN dims, LAMBDA a : dims[a]) * width * 16 + 64 * Len(dims) + 16 * width

PlanOf(dims, levels, target, limit, tables, layout) ==
    LET width == Len(target)
        entry == 64 + 24 * width
        size(t) == Cardinality(DOMAIN t) * entry
        bytes == ContributionBytes(dims, width) + SumOver(DOMAIN tables, LAMBDA k : size(tables[k]))
                 + 8 * Len(dims) + (IF IsNone(layout) THEN 0 ELSE layout.bytes)
    IN  IF Len(levels) # Len(dims) THEN Failed("InvalidStructureLength")
        ELSE IF target = <<>> THEN Failed("InvalidSector")
        ELSE IF ContributionBytes(dims, width) > limit THEN Failed("MemoryLimit")
        ELSE IF \E a \in DOMAIN dims : \/ Len(levels[a]) # dims[a]
                                       \/ \E v \in DOMAIN levels[a] : Len(levels[a][v]) # width
        THEN Failed("InvalidStructureLength")
        ELSE IF \E a \in DOMAIN dims : size(tables[a]) > limit THEN Failed("MemoryLimit")
        ELSE IF bytes > limit THEN Failed("MemoryLimit")
        ELSE [dims |-> dims, levels |-> levels, target |-> target, tables |-> tables,
              dimension |-> CountIn(tables[1], target), layout |-> layout, bytes |-> bytes]

BuildPlan(dims, levels, target, limit) ==
    PlanOf(dims, levels, target, limit, SuffixTables(levels, Len(target)),
           AnalyzeLayout(dims, levels, target, limit))

ExecutionLayout(plan) ==
    IF IsNone(plan.layout) \/ IsSingleCoupled(plan.layout) THEN NoLayout ELSE plan.layout

Rank(plan, values) ==
    IF Len(values) # Len(plan.dims) THEN Failed("InvalidStructureLength")
    ELSE IF IsNone(plan.layout) THEN AdditiveRank(plan, values) ELSE FactorRank(plan.layout, values)

Unrank(plan, index) ==
    IF index >= plan.dimension THEN Failed("InvalidIndex")
    ELSE IF IsNone(plan.layout) THEN AdditiveUnrank(plan, index) ELSE FactorUnrank(plan.layout, index)

BasisStates(plan, limit) ==
    IF plan.dimension * (IF plan.dims = <<>> THEN 1 ELSE Len(plan.dims)) * 8 > limit
    THEN Failed("MemoryLimit")
    ELSE [states |-> [i \in 1..plan.dimension |-> AdditiveUnrank(plan, i - 1)]]

(***************************************************************************)
(* Plans from axis metadata: kind 0 and 1 weigh the occupation, 2 names a  *)
(* charge for either level of a qubit, 3 weighs the spin of a qudit.       *)
(* weights[r][k] is the list of constraint r for kind k (from 1).          *)
(***************************************************************************)
LevelCharge(kind, weight, d, v) ==
    CASE kind \in {0, 1} -> weight * v
      [] kind = 2 -> weight[v + 1]
      [] OTHER -> weight * (IF d % 2 = 1 THEN (d - 1) \div 2 - v ELSE d - 1 - 2 * v)

AxisIsInvalid(kind, index, d, weights) ==
    \/ kind \notin 0..3
    \/ \E r \in DOMAIN weights : index \notin DOMAIN weights[r][kind + 1]
    \/ kind = 2 /\ d > 2
    \/ kind = 3 /\ d < 3

BuildCompactPlan(dims, kinds, indices, weights, target, limit) ==
    IF Len(kinds) # Len(dims) \/ Len(indices) # Len(dims) THEN Failed("InvalidStructureLength")
    ELSE IF target = <<>> \/ \E a \in DOMAIN dims : dims[a] = 0 THEN Failed("InvalidSector")
    ELSE IF ContributionBytes(dims, Len(target)) > limit THEN Failed("MemoryLimit")
    ELSE IF \E a \in DOMAIN dims : AxisIsInvalid(kinds[a], indices[a], dims[a], weights)
    THEN Failed("InvalidSector")
    ELSE BuildPlan(dims,
             [a \in DOMAIN dims |-> [v \in 1..dims[a] |-> [r \in DOMAIN target |->
                 LevelCharge(kinds[a], weights[r][kinds[a] + 1][indices[a]], dims[a], v - 1)]]],
             target, limit)
=============================================================================
