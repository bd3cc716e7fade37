------------------------------ MODULE U1Sector ------------------------------
(***************************************************************************)
(* Fixed-particle-number sectors (sector.rs): the basis of the words of n  *)
(* qubits with p occupied, its combinatorial rank and unrank, and the      *)
(* incremental iterator.  The smaller of particles and holes is "active";  *)
(* with more particles than holes everything is done on the holes and the  *)
(* order is reversed ("complement").                                       *)
(***************************************************************************)
EXTENDS PauliOperators, Accumulate

Smaller(a, b) == IF a < b THEN a ELSE b

\* choose_u64 and choose_count: multiply then divide, factor by factor.
ChooseCount(n, k) ==
    IF k > n THEN 0
    ELSE LET m == Smaller(k, n - k)
             product[i \in 0..m] ==
                 IF i = 0 THEN 1 ELSE (product[i - 1] * (n - m + i)) \div i
         IN  product[m]

\* build_choose_table: Pascal's rule up to the active column.
ChooseTable(n, active) ==
    LET table[row \in 0..n] == [column \in 0..active |->
            IF column = 0 \/ column = row THEN 1
            ELSE IF column > row THEN 0
            ELSE table[row - 1][column - 1] + table[row - 1][column]]
    IN  table

NewSector(n, p) ==
    IF p > n THEN Failed("InvalidSector")
    ELSE [nqubits |-> n,
          particle_number |-> p,
          dimension |-> ChooseCount(n, p),
          active_number |-> Smaller(p, n - p),
          complement |-> p > n - p,
          choose |-> ChooseTable(n, Smaller(p, n - p))]

ChooseValue(s, n, k) ==
    IF k > n THEN 0 ELSE s.choose[n][Smaller(k, n - k)]

\* The same table, with a fallback outside it.
Combination(s, n, k) ==
    IF k > n THEN 0
    ELSE LET m == Smaller(k, n - k) IN
         IF m <= s.active_number /\ n <= s.nqubits THEN s.choose[n][m] ELSE ChooseCount(n, m)

\* The active qubits of a word: its particles, or its holes.
Active(s, word) == IF s.complement THEN Qubits(s.nqubits) \ word ELSE word

\* Faulty: the active qubits already passed are forgotten.
RankActiveForgetful(s, word) ==
    LET active == Active(s, word) IN
    SumFunctionOnSet([q \in active |-> ChooseValue(s, s.nqubits - q - 1, s.active_number)], active)
\* rank_active_words: qubits in ascending order, each adds the number of
\* words that leave it out.
RankActive(s, word) ==
    LET active == Active(s, word)
        before(q) == Cardinality({r \in active : r < q})
    IN  SumFunctionOnSet(
            [q \in active |-> ChooseValue(s, s.nqubits - q - 1, s.active_number - before(q))], active)

RankWords(s, word) ==
    IF Cardinality(word) # s.particle_number THEN Failed("InvalidIndex")
    ELSE IF s.complement THEN s.dimension - 1 - RankActive(s, word)
    ELSE RankActive(s, word)

\* unrank_into: the inverse walk over the qubits.
Unrank(s, index) ==
    LET start == [index |-> IF s.complement THEN s.dimension - 1 - index ELSE index,
                  remaining |-> s.active_number, active |-> {}]
        step(acc, q) ==
            LET zero_count == ChooseValue(s, s.nqubits - q - 1, acc.remaining) IN
            IF acc.index >= zero_count
            THEN [index |-> acc.index - zero_count,
                  remaining |-> acc.remaining - 1, active |-> acc.active \cup {q}]
            ELSE acc
        walk[q \in 0..s.nqubits] == IF q = 0 THEN start ELSE step(walk[q - 1], q - 1)
        end == walk[s.nqubits]
    IN  IF index >= s.dimension \/ end.remaining # 0 \/ end.index # 0
        THEN Failed("InvalidIndex")
        ELSE Active(s, end.active)

-----------------------------------------------------------------------------
(***************************************************************************)
(* U1BasisIterator: the active combination in public bit positions (bit 0  *)
(* the least significant), stepped in place.                               *)
(***************************************************************************)
FirstPositions(s) ==
    LET first == IF s.complement THEN s.nqubits - s.active_number ELSE 0 IN
    [k \in 1..s.active_number |-> first + k - 1]

\* next_colex: raise the first position that can rise, pack those below it
\* at the bottom.  A failed step leaves the positions alone.
NextColex(positions, n) ==
    LET bound(k) == IF k = Len(positions) THEN n ELSE positions[k + 1]
        movable == {k \in DOMAIN positions : positions[k] + 1 < bound(k)}
    IN  IF movable = {} THEN positions
        ELSE LET k == Min(movable) IN
             [j \in DOMAIN positions |->
                 IF j < k THEN j - 1 ELSE IF j = k THEN positions[j] + 1 ELSE positions[j]]

\* previous_colex: lower the first position that can sink, pack those below
\* it right under it.
PreviousColex(positions) ==
    LET movable == {k \in DOMAIN positions : positions[k] > k - 1}
    IN  IF movable = {} THEN positions
        ELSE LET k == Min(movable) IN
             [j \in DOMAIN positions |->
                 IF j < k THEN positions[k] - 1 - (k - j)
                 ELSE IF j = k THEN positions[j] - 1 ELSE positions[j]]

AdvancePositions(s, positions) ==
    IF s.complement THEN PreviousColex(positions) ELSE NextColex(positions, s.nqubits)

ActiveQubits(s, positions) == {s.nqubits - positions[k] - 1 : k \in DOMAIN positions}
PackedWord(s, positions) == Active(s, ActiveQubits(s, positions))
=============================================================================
