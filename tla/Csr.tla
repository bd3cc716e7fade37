-------------------------------- MODULE Csr --------------------------------
(***************************************************************************)
(* Destination-major sparse graphs and the sink that builds them (csr.rs). *)
(* Rows, columns and row pointers are numbered from 0, sequences from 1.   *)
(***************************************************************************)
EXTENDS PauliOperators, SequencesExt

Graph(dimension, indptr, columns, values) ==
    [dimension |-> dimension, indptr |-> indptr, columns |-> columns, values |-> values]

TryNew(dimension, indptr, columns, values) ==
    IF \/ Len(indptr) # dimension + 1
       \/ Len(columns) # Len(values)
       \/ indptr[1] # 0 \/ indptr[Len(indptr)] # Len(columns)
       \/ \E k \in 2..Len(indptr) : indptr[k - 1] > indptr[k]
       \/ \E k \in DOMAIN columns : columns[k] >= dimension
    THEN Failed("InvalidSector")
    ELSE Graph(dimension, indptr, columns, values)

\* Positions of the entries of one row.
RowEntries(g, row) == g.indptr[row + 1] + 1..g.indptr[row + 2]

GraphBytes(g) == 8 * Len(g.indptr) + 8 * Len(g.columns) + 16 * Len(g.values)

\* Every row sums its own entries; rows are independent of each other.
ApplyGraph(g, state) ==
    [row \in 1..g.dimension |->
        Total(RowEntries(g, row - 1), [k \in DOMAIN g.columns |->
            Times(g.values[k], state[g.columns[k] + 1])])]

\* to_u64_arrays and to_coo_u64, within a limit.
CsrArrays(g, limit) ==
    IF GraphBytes(g) > limit THEN Failed("MemoryLimit")
    ELSE [indptr |-> g.indptr, columns |-> g.columns, values |-> g.values]

CooArrays(g, limit) ==
    IF 32 * Len(g.values) > limit THEN Failed("MemoryLimit")
    ELSE [rows |-> FlattenSeq([r \in 1..g.dimension |->
                       [k \in 1..g.indptr[r + 1] - g.indptr[r] |-> r - 1]]),
          columns |-> g.columns, values |-> g.values]

-----------------------------------------------------------------------------
(***************************************************************************)
(* The sink: bounded runs of entries from a source-major producer, merged  *)
(* at the end.  (No caller feeds it complete rows in order.)               *)
(***************************************************************************)
RunEntry(row, column, value) == [row |-> row, column |-> column, value |-> value]

ChunkedSink(dimension, capacity) ==
    [dimension |-> dimension, capacity |-> capacity, chunks |-> <<<<>>>>]

Push(s, row, column, value) ==
    LET chunks == IF Len(Last(s.chunks)) = s.capacity THEN Append(s.chunks, <<>>) ELSE s.chunks IN
    IF row >= s.dimension THEN Failed("InvalidIndex")
    ELSE IF value = Zero THEN s
    ELSE [s EXCEPT !.chunks = [chunks EXCEPT ![Len(chunks)] = Append(@, RunEntry(row, column, value))]]

RunBefore(a, b) == a.row < b.row \/ (a.row = b.row /\ a.column < b.column)
SameCell(a, b) == a.row = b.row /\ a.column = b.column
\* Insertion behind every entry that is not greater: a stable sort.
SortedRun(chunk) ==
    LET insert(run, e) ==
            LET ahead == SelectSeq(run, LAMBDA x : ~RunBefore(e, x)) IN
            ahead \o <<e>> \o SelectSeq(run, LAMBDA x : RunBefore(e, x))
    IN  FoldLeft(insert, <<>>, chunk)

\* Faulty: the runs are taken one behind the other.
ConcatenatedRuns(runs) == FlattenSeq(runs)

\* The heap holds the head of every run: the next entry is the smallest of
\* them, the earliest run first among equals.
MergedRuns(runs) ==
    LET total == FoldLeft(LAMBDA n, r : n + Len(r), 0, runs)
        step(acc, i) ==
            LET live == {r \in DOMAIN runs : acc.cursors[r] < Len(runs[r])}
                head(r) == runs[r][acc.cursors[r] + 1]
                next == Min({r \in live : \A s \in live : ~RunBefore(head(s), head(r))})
            IN  [cursors |-> [acc.cursors EXCEPT ![next] = @ + 1],
                 out |-> Append(acc.out, head(next))]
    IN  FoldLeft(step, [cursors |-> [r \in DOMAIN runs |-> 0], out |-> <<>>],
                 [i \in 1..total |-> i]).out

\* Entries of one cell are summed before an exact zero is dropped.
SummedCells(entries) ==
    LET join(out, e) ==
            IF out # <<>> /\ SameCell(Last(out), e)
            THEN [out EXCEPT ![Len(out)].value = Plus(@, e.value)]
            ELSE Append(out, e)
    IN  SelectSeq(FoldLeft(join, <<>>, entries), LAMBDA e : e.value # Zero)

IntoCsr(s) ==
    LET cells == SummedCells(MergedRuns([c \in DOMAIN s.chunks |-> SortedRun(s.chunks[c])])) IN
    [indptr |-> [r \in 1..s.dimension + 1 |->
         Cardinality({k \in DOMAIN cells : cells[k].row < r - 1})],
     columns |-> [k \in DOMAIN cells |-> cells[k].column],
     values |-> [k \in DOMAIN cells |-> cells[k].value]]
=============================================================================
