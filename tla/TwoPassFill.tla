---------------------------- MODULE TwoPassFill ----------------------------
(***************************************************************************)
(* The two passes of U1RestrictedOperator::new (sector.rs) over the source *)
(* columns of a matrix: the first counts the entries of every row, a       *)
(* prefix sum turns the counts into row pointers, and the second writes    *)
(* each entry where its row's cursor stands.  The entries of a source are  *)
(* computed twice; they are passed here as a set of [row, value].          *)
(***************************************************************************)
EXTENDS Integers, FiniteSets

VARIABLES
    pass,        \* "idle", "count", "size", "fill" or "full"
    source,      \* the next source column
    counts,      \* entries counted for every row
    sized,       \* rows whose pointer is known
    indptr,      \* row pointers
    next,        \* where the next entry of a row goes
    cells        \* columns and values, one cell for every counted entry

passVars == <<pass, source, counts, sized, indptr, next, cells>>

Blank == [column |-> -1]
Size == Cardinality(DOMAIN counts)
Hits(entries, r) == \E e \in entries : e.row = r

StartCount(n) ==
    /\ pass' = "count" /\ source' = 0 /\ sized' = 0
    /\ counts' = [r \in 0..n - 1 |-> 0]
    /\ indptr' = [r \in 0..n |-> 0]
    /\ next' = [r \in 0..n - 1 |-> 0]
    /\ cells' = [k \in {} |-> Blank]

CountSource(entries) ==
    /\ pass = "count" /\ source < Size
    /\ counts' = [r \in DOMAIN counts |-> IF Hits(entries, r) THEN counts[r] + 1 ELSE counts[r]]
    /\ source' = source + 1
    /\ UNCHANGED <<pass, sized, indptr, next, cells>>

StartSizing ==
    /\ pass = "count" /\ source = Size
    /\ pass' = "size"
    /\ UNCHANGED <<source, counts, sized, indptr, next, cells>>

SizeRow ==
    /\ pass = "size" /\ sized < Size
    /\ indptr' = [indptr EXCEPT ![sized + 1] = indptr[sized] + counts[sized]]
    /\ sized' = sized + 1
    /\ UNCHANGED <<pass, source, counts, next, cells>>

\* Faulty: the second pass goes on where the first one stopped.
StartFillWithoutReset ==
    /\ pass = "size" /\ sized = Size
    /\ pass' = "fill"
    /\ next' = [r \in DOMAIN counts |-> indptr[r + 1]]
    /\ source' = 0
    /\ cells' = [k \in 0..indptr[Size] - 1 |-> Blank]
    /\ UNCHANGED <<counts, sized, indptr>>

StartFill ==
    /\ pass = "size" /\ sized = Size
    /\ pass' = "fill"
    /\ next' = [r \in DOMAIN counts |-> indptr[r]]
    /\ source' = 0
    /\ cells' = [k \in 0..indptr[Size] - 1 |-> Blank]
    /\ UNCHANGED <<counts, sized, indptr>>

FillSource(entries) ==
    /\ pass = "fill" /\ source < Size
    /\ cells' = [k \in DOMAIN cells |->
                    IF \E e \in entries : next[e.row] = k
                    THEN [column |-> source,
                          value |-> (CHOOSE e \in entries : next[e.row] = k).value]
                    ELSE cells[k]]
    /\ next' = [r \in DOMAIN next |-> IF Hits(entries, r) THEN next[r] + 1 ELSE next[r]]
    /\ source' = source + 1
    /\ UNCHANGED <<pass, counts, sized, indptr>>

FinishFill ==
    /\ pass = "fill" /\ source = Size
    /\ pass' = "full"
    /\ UNCHANGED <<source, counts, sized, indptr, next, cells>>

\* The builder gives up, or has handed its arrays over.
ForgetPasses ==
    /\ pass' = "idle" /\ source' = 0 /\ sized' = 0
    /\ counts' = [r \in {} |-> 0] /\ indptr' = [r \in {0} |-> 0]
    /\ next' = [r \in {} |-> 0] /\ cells' = [k \in {} |-> Blank]

-----------------------------------------------------------------------------
\* The second pass never leaves the cells the first one counted for a row,
\* whatever row it writes next, and fills every one of them; the columns of a
\* row come in ascending order.
FilledAsCounted ==
    pass \in {"fill", "full"} =>
        \A r \in DOMAIN counts :
            /\ indptr[r] <= next[r] /\ next[r] <= indptr[r + 1]
            /\ pass = "full" => next[r] = indptr[r + 1]
            /\ \A k \in indptr[r]..next[r] - 1 : cells[k] # Blank
            /\ \A j, k \in indptr[r]..next[r] - 1 : j < k => cells[j].column < cells[k].column
=============================================================================
