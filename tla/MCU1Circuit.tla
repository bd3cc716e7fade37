---------------------------- MODULE MCU1Circuit -----------------------------
(***************************************************************************)
(* Instances of U1Circuit: hand-written programs in which every kind of    *)
(* gate occurs beside every other, blocks are split and merged, tables     *)
(* fold or may not fold, pair maps are reused the other way round, and the *)
(* sector is taken by particles and by holes.                              *)
(***************************************************************************)
EXTENDS U1Circuit

Slot(k) == [slot |-> k]
Static(v) == [static |-> v]
Rz(q, a) == [kind |-> "rz", wires |-> <<q>>, angle |-> a]
Two(kind, q, r, a) == [kind |-> kind, wires |-> <<q, r>>, angle |-> a]
Cz(q, r) == [kind |-> "cz", wires |-> <<q, r>>]
Swap(q, r) == [kind |-> "swap", wires |-> <<q, r>>]
Table(wires, powers) ==
    [kind |-> "diagonal", wires |-> wires, payload |-> [j \in DOMAIN powers |-> IPow(powers[j])]]

Program(n, operations, angles, nparameters) ==
    [nqubits |-> n, operations |-> operations, angles |-> angles, nparameters |-> nparameters]

Mixed == Program(4,
    <<Rz(0, 1), Two("rzz", 0, 1, 3), Two("iswap", 1, 2, 1), Swap(2, 1), Cz(1, 2),
      Two("cphase", 1, 3, 3), Two("iswap", 2, 1, 4)>>,
    <<Slot(0), Static(1), Slot(1), Slot(0)>>, 2)

Tables == Program(4,
    <<Table(<<0, 1>>, <<0, 1, 2, 1>>), Table(<<1, 0>>, <<1, 0, 3, 2>>), Rz(2, 1), Rz(2, 2),
      Two("iswap", 0, 3, 1), Two("iswap", 3, 0, 2), Cz(0, 3), Two("cphase", 0, 2, 1),
      Rz(1, 3), Two("rzz", 3, 1, 1)>>,
    <<Static(1), Static(3), Slot(0)>>, 1)

Sparse == Program(4,
    <<Two("iswap", 0, 1, 1), Cz(0, 1), Two("cphase", 1, 2, 1), Two("iswap", 2, 0, 2),
      Two("iswap", 0, 2, 1), Swap(1, 3), Rz(2, 2)>>,
    <<Slot(0), Slot(1)>>, 2)

Wide == Program(5,
    <<Two("iswap", 0, 4, 1), Two("rzz", 1, 4, 1), Swap(4, 0)>>, <<Slot(0)>>, 1)

Single == Program(4, <<Rz(0, 1)>>, <<Slot(0)>>, 1)

\* Slot 0 is never used, so the slots have a hole.
WithHole == Program(4, <<Rz(0, 1)>>, <<Slot(1)>>, 2)

Instance(program, particles, limit) ==
    [program |-> program, particles |-> particles, limit |-> limit]

MCInstances ==
    {Instance(p, k, 1000) : p \in {Mixed, Tables, Sparse}, k \in 0..5}
    \cup {Instance(Wide, 2, 1000), Instance(Wide, 3, 1000), Instance(WithHole, 2, 1000)}
    \cup {Instance(Single, 2, limit) : limit \in {47, 48, 95, 96, 143, 144}}

MCParameters == {<<>>, <<1>>, <<3>>, <<1, 2>>, <<3, 1>>}

MCInitialState(dimension) == [i \in 0..dimension - 1 |-> Gauss(i + 1, 2 - i * i)]

Observable(codes, coefficients) == FromTerms(Len(codes[1]), codes, coefficients)

MCObservables == {
    Observable(<<<<3, 0, 0, 0>>, <<1, 1, 0, 0>>, <<2, 2, 0, 0>>, <<0, 1, 3, 2>>, <<1, 0, 0, 0>>>>,
               <<Gauss(1, 0), Gauss(2, 0), Gauss(3, 0), Gauss(-1, 0), Gauss(5, 0)>>),
    Observable(<<<<1, 2, 2, 1>>, <<0, 3, 3, 0>>, <<0, 0, 2, 2>>>>,
               <<Gauss(1, 0), Gauss(-2, 0), Gauss(1, 0)>>),
    Observable(<<<<3, 0, 0, 0>>>>, <<Gauss(0, 1)>>),
    Observable(<<<<2, 0, 0, 0, 2>>, <<0, 3, 0, 0, 3>>, <<1, 1, 0, 0, 0>>>>,
               <<Gauss(1, 0), Gauss(2, 0), Gauss(1, 0)>>)}
=============================================================================
