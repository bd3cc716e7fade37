----------------------------- MODULE PairUpdate -----------------------------
(***************************************************************************)
(* The parallel branch of apply_pair_matrix (u1_circuit.rs): worker        *)
(* threads take index pairs from a list and replace both amplitudes of     *)
(* each pair, in place and without a lock, by the two rows of one matrix   *)
(* applied to them.  A worker reads both amplitudes before it writes any,  *)
(* so another worker may write in between if the two pairs share an index. *)
(***************************************************************************)
EXTENDS Integers, FiniteSets, Gaussian

CONSTANT Worker           \* the threads of the pool

VARIABLES vector,         \* the slice being updated, shared by all workers
          lent,           \* the slice as it was handed to the workers
          pairs,          \* the index pairs, [zero_one, one_zero]
          matrix,         \* the two by two matrix of the block
          pending,        \* positions of the pairs no worker has taken yet
          held            \* per worker: nothing, or the pair it works on and
                          \* the two amplitudes it has read


pairVars == <<vector, lent, pairs, matrix, pending, held>>

Free == [pair |-> 0]
Indices(p) == {p.zero_one, p.one_zero}

\* What sequential code computes for one pair: both new amplitudes come
\* from the two old ones.
PairImage(m, v, p) ==
    [v EXCEPT ![p.zero_one] = Row2(m, 1, v[p.zero_one], v[p.one_zero]),
              ![p.one_zero] = Row2(m, 2, v[p.zero_one], v[p.one_zero])]

-----------------------------------------------------------------------------
\* The slice, the pairs and the matrix are lent to the pool.
Lend(v, ps, m) ==
    /\ vector' = v
    /\ lent' = v
    /\ pairs' = ps
    /\ matrix' = m
    /\ pending' = DOMAIN ps
    /\ held' = [w \in Worker |-> Free]

\* A worker takes a pair nobody has taken and reads its two amplitudes.
Load(w) ==
    /\ held[w] = Free
    /\ \E k \in pending :
          /\ pending' = pending \ {k}
          /\ held' = [held EXCEPT ![w] = [pair |-> k,
                                          left |-> vector[pairs[k].zero_one],
                                          right |-> vector[pairs[k].one_zero]]]
    /\ UNCHANGED <<vector, lent, pairs, matrix>>

\* It writes both rows of the matrix applied to what it has read.
Store(w) ==
    /\ held[w] # Free
    /\ LET p == pairs[held[w].pair] IN
       vector' = [vector EXCEPT
                    ![p.zero_one] = Row2(matrix, 1, held[w].left, held[w].right),
                    ![p.one_zero] = Row2(matrix, 2, held[w].left, held[w].right)]
    /\ held' = [held EXCEPT ![w] = Free]
    /\ UNCHANGED <<lent, pairs, matrix, pending>>

\* par_iter().for_each returns when every pair has been written.
Joined == pending = {} /\ \A w \in Worker : held[w] = Free

WorkerStep == \E w \in Worker : Load(w) \/ Store(w)

-----------------------------------------------------------------------------
\* What the SAFETY comment of apply_pair_matrix claims of a pair list: both
\* endpoints are indices of the slice, they differ, and no index occurs in
\* two pairs.
PairsOf(ps, Index) ==
    /\ \A k \in DOMAIN ps : ps[k].zero_one \in Index /\ ps[k].one_zero \in Index
    /\ \A k \in DOMAIN ps : ps[k].zero_one # ps[k].one_zero
    /\ \A j, k \in DOMAIN ps : j # k => Indices(ps[j]) \cap Indices(ps[k]) = {}

\* No two workers ever hold pairs that share an amplitude: the raw pointers
\* of apply_pair_matrix never alias.
NoSharedAmplitude ==
    \A v, w \in Worker :
        (v # w /\ held[v] # Free /\ held[w] # Free) =>
            Indices(pairs[held[v].pair]) \cap Indices(pairs[held[w].pair]) = {}

\* When the section has been joined, every pair of amplitudes is the matrix
\* applied to the pair that was lent, in whatever order the workers came,
\* and every other amplitude is as it was.
JoinedIsSequential ==
    Joined =>
        \A i \in DOMAIN lent :
            \/ \E k \in DOMAIN pairs : i \in Indices(pairs[k])
                                       /\ vector[i] = PairImage(matrix, lent, pairs[k])[i]
            \/ /\ \A k \in DOMAIN pairs : i \notin Indices(pairs[k])
               /\ vector[i] = lent[i]
=============================================================================
