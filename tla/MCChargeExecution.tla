------------------------- MODULE MCChargeExecution --------------------------
(***************************************************************************)
(* Instances of ChargeExecution: sectors whose axes are one population, a  *)
(* pair of them, contiguous or interleaved components, coupled equations   *)
(* or more constraints than the analysis takes, with operators that        *)
(* conserve every charge term by term, only together, or not at all.       *)
(***************************************************************************)
EXTENDS ChargeExecution

Real(k) == Gauss(k, 0)

\* A term of a layout of f fermion modes and q qubits.
Bare(f, q, c) ==
    [creation |-> <<>>, annihilation |-> <<>>, bosons |-> <<>>, qubits |-> [k \in 1..q |-> 0],
     mapped |-> FALSE, mappedCodes |-> [k \in 1..f |-> 0],
     quditPresent |-> FALSE, qudits |-> <<>>, coefficient |-> c]
Ladders(t, creation, annihilation) == [t EXCEPT !.creation = creation, !.annihilation = annihilation]
WithBosons(t, blocks) == [t EXCEPT !.bosons = blocks]
WithQubits(t, codes) == [t EXCEPT !.qubits = codes]
WithQudits(t, ops) == [t EXCEPT !.quditPresent = TRUE, !.qudits = ops]
Mapped(t, codes) == [t EXCEPT !.mapped = TRUE, !.mappedCodes = codes]

Sector(dims, kinds, indices, weights, target, terms) ==
    [dims |-> dims, kinds |-> kinds, indices |-> indices, weights |-> weights, target |-> target,
     terms |-> terms, limit |-> 1000000, capacity |-> 3, word |-> 1000]

FermionWeights(w) == <<w, <<>>, <<>>, <<>>>>
Modes(f) == [dims |-> [k \in 1..f |-> 2], kinds |-> [k \in 1..f |-> 0], indices |-> [k \in 1..f |-> k]]
Fermions(f, weights, target, terms) ==
    Sector(Modes(f).dims, Modes(f).kinds, Modes(f).indices,
           [r \in DOMAIN weights |-> FermionWeights(weights[r])], target, terms)

F4(creation, annihilation, c) == Ladders(Bare(4, 0, c), creation, annihilation)
F6(creation, annihilation, c) == Ladders(Bare(6, 0, c), creation, annihilation)
Hopping == <<F4(<<0>>, <<1>>, Gauss(1, 2)), F4(<<1>>, <<0>>, Gauss(1, -2)), F4(<<2>>, <<3>>, Real(3)),
             F4(<<0, 2>>, <<2, 0>>, Real(5)), F4(<<0>>, <<0>>, Real(-1)), F4(<<>>, <<>>, Real(2)),
             F4(<<2, 2>>, <<3, 3>>, Real(7))>>
Across == Hopping \o <<F4(<<0>>, <<3>>, Real(2)), F4(<<3, 1>>, <<0, 2>>, Gauss(0, 3)), F4(<<2>>, <<0>>, Real(4))>>
Leaking == <<F4(<<0>>, <<1>>, Real(1)), F4(<<1>>, <<>>, Real(2)), F4(<<>>, <<1>>, Real(2))>>

Number == <<1, 1, 1, 1>>
Spins == <<<<1, 1, 0, 0>>, <<0, 0, 1, 1>>>>
Mixed == <<<<1, 0, 1, 0>>, <<0, 1, 0, 1>>>>
Staggered == <<F4(<<0>>, <<2>>, Gauss(1, 2)), F4(<<3>>, <<1>>, Real(2)), F4(<<2, 1>>, <<3, 0>>, Gauss(0, 5))>>

Hubbard == <<F6(<<0>>, <<2>>, Gauss(1, 2)), F6(<<1>>, <<0>>, Real(-3)), F6(<<5>>, <<3>>, Real(2)),
             F6(<<2, 3>>, <<4, 0>>, Gauss(2, 1)), F6(<<1, 4>>, <<4, 1>>, Real(7))>>

PopulationInstances == {
    Fermions(6, <<<<1, 1, 1, 0, 0, 0>>, <<0, 0, 0, 1, 1, 1>>>>, <<2, 1>>, Hubbard),
    Fermions(6, <<<<1, 1, 1, 1, 1, 1>>>>, <<3>>, Hubbard),
    Fermions(6, <<<<1, 1, 1, 1, 1, 1>>, <<1, 1, 1, -1, -1, -1>>>>, <<3, 1>>, Hubbard),
    Fermions(4, <<Number>>, <<2>>, Across), Fermions(4, <<Number>>, <<2>>, Leaking),
    Fermions(4, <<Number>>, <<4>>, Across), Fermions(4, <<Number>>, <<5>>, Across),
    Fermions(4, Spins, <<1, 1>>, Hopping), Fermions(4, Spins, <<1, 1>>, Across),
    Fermions(4, Mixed, <<1, 1>>, Staggered),
    Fermions(4, <<<<1, 1, 1, 1>>, <<1, 1, 0, 0>>>>, <<2, 1>>, Hopping),
    Fermions(4, <<<<1, 2, 1, 2>>>>, <<3>>, Staggered),
    Fermions(4, <<<<1, 2, 1, 2>>, <<1, 0, 0, 1>>>>, <<3, 1>>, <<F4(<<0>>, <<0>>, Real(2))>>),
    Fermions(4, [r \in 1..5 |-> Number], <<2, 2, 2, 2, 2>>, Across)}

\* Jordan-Wigner strings on the modes conserve only together.
J4(codes, c) == Mapped(Bare(4, 0, c), codes)
MappedInstances == {
    Fermions(4, <<Number>>, <<2>>, <<J4(<<1, 3, 1, 0>>, Real(2)), J4(<<2, 3, 2, 0>>, Real(2)), J4(<<0, 3, 0, 3>>, Real(1))>>),
    Fermions(4, Spins, <<1, 1>>, <<J4(<<1, 1, 0, 0>>, Real(2)), J4(<<2, 2, 0, 0>>, Real(2))>>),
    Fermions(4, <<Number>>, <<2>>, <<J4(<<1, 3, 1, 0>>, Real(2)), J4(<<2, 3, 2, 0>>, Real(1))>>)}

\* Qubits in two interleaved or contiguous components, a free boson behind.
QubitWeights(pairs) == <<<<>>, <<0>>, pairs, <<>>>>
Spin(q, w) == [k \in 1..q |-> <<0, w[k]>>]
Q(codes, c) == WithQubits(Bare(0, Len(codes), c), codes)
Exchange(q, a, b, c) ==
    <<Q([k \in 1..q |-> IF k \in {a, b} THEN 1 ELSE 0], c), Q([k \in 1..q |-> IF k \in {a, b} THEN 2 ELSE 0], c)>>
Qubits4(weights, target, terms) ==
    Sector(<<2, 2, 2, 2>>, <<2, 2, 2, 2>>, <<1, 2, 3, 4>>,
           [r \in DOMAIN weights |-> QubitWeights(Spin(4, weights[r]))], target, terms)
QubitsAndBoson(terms) ==
    Sector(<<2, 2, 2, 3>>, <<2, 2, 2, 1>>, <<1, 2, 3, 1>>,
           <<QubitWeights(<<<<1, 0>>, <<1, 0>>, <<1, 0>>>>)>>, <<1>>, terms)
QubitInstances == {
    Qubits4(Mixed, <<1, 1>>, Exchange(4, 1, 3, Real(2)) \o Exchange(4, 2, 4, Gauss(1, 1))),
    Qubits4(Mixed, <<1, 1>>, Exchange(4, 1, 3, Real(2)) \o <<Q(<<0, 1, 0, 1>>, Real(1))>>),
    Qubits4(<<Number>>, <<1>>, Exchange(4, 1, 4, Real(2)) \o <<Q(<<3, 0, 3, 0>>, Real(1))>>),
    QubitsAndBoson(Exchange(3, 1, 2, Real(2)) \o <<Q(<<3, 0, 0>>, Real(3))>>),
    QubitsAndBoson(Exchange(3, 1, 2, Real(2)) \o <<Q(<<1, 0, 0>>, Real(3))>>),
    QubitsAndBoson(<<WithBosons(Q(<<3, 0, 0>>, Real(2)), <<<<0, 1, 0>>>>),
                     WithBosons(Q(<<0, 3, 3>>, Real(3)), <<<<0, 1, 2>>>>)>>)}

\* Two spins' worth of modes with a free or a coupled boson of three levels.
FB(creation, annihilation, blocks, f, c) == WithBosons(Ladders(Bare(f, 0, c), creation, annihilation), blocks)
FermionsAndBoson(f, rows, target, terms) ==
    Sector([k \in 1..f + 1 |-> IF k <= f THEN 2 ELSE 3], [k \in 1..f + 1 |-> IF k <= f THEN 0 ELSE 1],
           [k \in 1..f + 1 |-> IF k <= f THEN k ELSE 1],
           [r \in DOMAIN rows |-> <<rows[r][1], <<rows[r][2]>>, <<>>, <<>>>>], target, terms)
BosonInstances == {
    FermionsAndBoson(4, <<<<<<1, 1, 0, 0>>, 0>>, <<<<0, 0, 1, 1>>, 0>>>>, <<1, 1>>,
        <<FB(<<0>>, <<1>>, <<<<0, 1, 1>>>>, 4, Real(2)), FB(<<3>>, <<2>>, <<<<0, 1, 0>>>>, 4, Gauss(1, 1)),
          FB(<<0, 2>>, <<3, 1>>, <<>>, 4, Real(3)), FB(<<>>, <<>>, <<<<0, 0, 1>>>>, 4, Real(1))>>),
    FermionsAndBoson(3, <<<<<<1, 0, 1>>, 0>>, <<<<0, 1, 0>>, 0>>>>, <<1, 1>>,
        <<FB(<<0>>, <<2>>, <<>>, 3, Real(2)), FB(<<2>>, <<0>>, <<<<0, 1, 1>>>>, 3, Real(1))>>),
    FermionsAndBoson(3, <<<<<<1, 1, 0>>, 0>>, <<<<0, 0, 1>>, 1>>>>, <<1, 2>>,
        <<FB(<<2>>, <<>>, <<<<0, 0, 1>>>>, 3, Real(2)), FB(<<>>, <<2>>, <<<<0, 1, 0>>>>, 3, Real(2)),
          FB(<<0>>, <<1>>, <<>>, 3, Gauss(0, 1))>>),
    FermionsAndBoson(2, <<<<<<1, 1>>, 0>>, <<<<1, 0>>, 1>>>>, <<1, 2>>,
        <<FB(<<1>>, <<0>>, <<<<0, 1, 0>>>>, 2, Real(2)), FB(<<0>>, <<1>>, <<<<0, 0, 1>>>>, 2, Real(2)),
          FB(<<>>, <<>>, <<<<0, 1, 1>>>>, 2, Gauss(0, 1))>>),
    FermionsAndBoson(2, <<<<<<1, 1>>, 1>>>>, <<2>>,
        <<FB(<<1>>, <<>>, <<<<0, 0, 1>>>>, 2, Real(2)), FB(<<>>, <<0>>, <<<<0, 1, 0>>>>, 2, Real(2))>>)}

\* Two four-level spins: a cyclic shift conserves only where it wraps.
D(ops, c) == WithQudits(Bare(0, 0, c), ops)
Qudits(target, terms) ==
    Sector(<<4, 4>>, <<3, 3>>, <<1, 2>>, <<<<<<>>, <<>>, <<>>, <<1, 1>>>>>>, target, terms)
QuditInstances == {
    Qudits(<<0>>, <<D(<<<<0, 1, 1>>, <<1, 3, 0>>>>, Real(2)), D(<<<<0, 0, 3>>>>, Gauss(1, 1))>>),
    Qudits(<<2>>, <<D(<<<<0, 1, 0>>, <<1, 3, 2>>>>, Real(1))>>)}

MCInstances ==
    PopulationInstances \cup MappedInstances \cup QubitInstances \cup BosonInstances \cup QuditInstances
    \cup {[Fermions(4, Mixed, <<1, 1>>, Staggered) EXCEPT !.word = 8, !.capacity = c] : c \in {0, 1, 16384}}
    \cup {[Fermions(4, Spins, <<1, 1>>, Hopping) EXCEPT !.limit = 3000 + 500 * k] : k \in 0..14}

MCStateOf(dimension) == [k \in 1..dimension |-> Gauss(k * k, 3 - k)]

\* A boson of two levels behind two fermion modes: the same population.
TwoLevelBoson ==
    Sector(<<2, 2, 2>>, <<0, 0, 1>>, <<1, 2, 1>>, <<<<<<1, 1>>, <<1>>, <<>>, <<>>>>>>, <<1>>,
           <<FB(<<0>>, <<1>>, <<>>, 2, Real(1)), FB(<<1>>, <<0>>, <<>>, 2, Real(1)),
             FB(<<0>>, <<0>>, <<>>, 2, Real(2))>>)
MCTwoLevelBosons ==
    {[TwoLevelBoson EXCEPT !.terms = SubSeq(@, first, last)] : first \in 1..3, last \in 1..3}
    \cup PopulationInstances
=============================================================================
