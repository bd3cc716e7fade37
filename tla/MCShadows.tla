------------------------------ MODULE MCShadows ------------------------------
(***************************************************************************)
(* Small shadow calls for TLC: every tape of up to two gates, sampling of  *)
(* a few states with two workers, and imports of five settings.            *)
(***************************************************************************)
EXTENDS ShadowSampling

LOCAL INSTANCE SequencesExt
LOCAL INSTANCE FiniteSetsExt

DomainNumber == [pauli_frame |-> 1, pauli_outcome |-> 6, clifford_frame |-> 3,
                 clifford_sign |-> 11, clifford_outcome |-> 9]

Mixed(k, prime) == (k * k + 17 * k + 3) % prime
MCCounter(seed, domain, first, second, k) ==
    Mixed(Mixed((311 * seed + 37 * DomainNumber[domain] + 1009 * first + 503 * second + 97 * k) % 4093, 4091),
          4079) % 16

One1(gate, q) == [kind |-> "clifford1", gate |-> gate, wires |-> <<q>>]
Two2(gate, p, q) == [kind |-> "clifford2", gate |-> gate, wires |-> <<p, q>>]
Gates ==
    {One1(g, q) : g \in {"x", "y", "z", "h", "s", "sdg"}, q \in {0, 1}}
        \cup {Two2("cnot", 0, 1), Two2("cnot", 1, 0), Two2("cz", 0, 1), Two2("swap", 0, 1)}

Tape(gates) == [kind |-> "tape", gates |-> gates, parameters |-> 0]
Tableau(n, generators) == [kind |-> "tableau", n |-> n, generators |-> generators]
Vector(n, amplitudes) == [kind |-> "vector", n |-> n, amplitudes |-> amplitudes, normalised |-> TRUE]

Plan(protocol, nsettings, repeats, seed, limit) ==
    [protocol |-> protocol, nsettings |-> nsettings, repeats |-> repeats, seed |-> seed, limit |-> limit]

Signed2(codes, sign) == Signed(FromCodes(codes), sign)

\* States of two qubits, one of them not a stabilizer state.
Skew == (({} :> Gauss(1, 0)) @@ ({0} :> Gauss(1, 1)) @@ ({1} :> Gauss(-1, 0)) @@ ({0, 1} :> Gauss(0, 2)))
Spread == Tape(<<One1("h", 0), Two2("cnot", 0, 1), One1("s", 1), One1("h", 1)>>)
Bell == Tableau(2, <<Signed2(<<1, 1>>, -1), Signed2(<<2, 2>>, -1)>>)

SampledSources == {Spread, Bell, Tape(<<One1("y", 1)>>), Vector(2, Skew)}
SampledPlans ==
    {Plan(p, 3, 2, seed, limit) : p \in {"pauli", "clifford"}, seed \in {1, 2}, limit \in {17, 100, 300, 1000}}
        \cup {Plan(p, 1, 1, 1, 1000) : p \in {"pauli", "clifford"}}

NoPlan == Plan("pauli", 0, 1, 1, 1000)
Invalid ==
    {[Spread EXCEPT !.parameters = 1],
     Tape(<<One1("h", 0), [kind |-> "rotation", gate |-> "rx", wires |-> <<0>>]>>),
     Tableau(2, <<Signed2(<<1, 1>>, 1), Signed2(<<3, 0>>, 1)>>),
     Tableau(2, <<Signed2(<<1, 1>>, 1), Signed2(<<1, 1>>, 1)>>),
     Tableau(2, <<Signed2(<<1, 1>>, 1)>>),
     [Vector(2, Skew) EXCEPT !.normalised = FALSE]}

Flat(data) == [k \in 0..Len(data) - 1 |-> data[k + 1]]
Data(protocol, n, nsettings, repeats, rows, outcomes) ==
    [protocol |-> protocol, nqubits |-> n, nsettings |-> nsettings, repeats |-> repeats,
     rows |-> Flat(rows), outcomes |-> Flat(outcomes)]

PauliData == Data("pauli", 2, 5, 2, <<1, 3, 2, 1, 3, 3, 3, 2, 1, 1>>,
                  <<0, 1, 1, 1, 0, 0, 1, 0, 1, 1, 0, 1, 0, 0, 0, 1, 1, 1, 0, 1>>)
CliffordData ==
    Data("clifford", 2, 5, 1,
         <<Signed2(<<1, 1>>, 1), Signed2(<<3, 3>>, -1), Signed2(<<2, 0>>, 1), Signed2(<<0, 1>>, 1),
           Signed2(<<1, 3>>, -1), Signed2(<<3, 2>>, -1), Signed2(<<3, 0>>, 1), Signed2(<<3, 3>>, 1),
           Signed2(<<1, 2>>, 1), Signed2(<<2, 3>>, 1)>>,
         <<0, 1, 1, 1, 0, 0, 1, 0, 1, 1>>)

Measured(data, limit) == [kind |-> "measured", data |-> data, limit |-> limit]
Imports ==
    {Measured(PauliData, 30), Measured(PauliData, 29), Measured(CliffordData, 500),
     Measured([PauliData EXCEPT !.nsettings = 0], 30), Measured([PauliData EXCEPT !.nsettings = 4], 30),
     Measured([PauliData EXCEPT !.rows[3] = 0], 30), Measured([PauliData EXCEPT !.outcomes[3] = 2], 30),
     Measured([CliffordData EXCEPT !.rows[1] = Signed2(<<3, 0>>, 1)], 500)}

MCCalls ==
    {[source |-> Tape(gates), sampling |-> NoPlan] :
        gates \in {<<>>} \cup {<<a>> : a \in Gates} \cup {<<a, b>> : a, b \in Gates}}
    \cup {[source |-> s, sampling |-> p] : s \in SampledSources, p \in SampledPlans}
    \cup {[source |-> s, sampling |-> Plan("pauli", 1, 1, 1, 1000)] :
             s \in Invalid \cup Imports \cup {Vector(0, {} :> One), Tableau(0, <<>>)}}
    \cup {[source |-> Vector(2, Skew), sampling |-> NoPlan]}

Operators ==
    <<FromTerms(2, <<<<3, 3>>, <<1, 0>>>>, <<One, Gauss(2, 0)>>),
      FromTerms(2, <<<<2, 2>>, <<0, 0>>, <<0, 3>>>>, <<Gauss(-1, 0), Gauss(3, 0), One>>)>>
Hamiltonian == FromTerms(2, <<<<3, 3>>, <<1, 0>>, <<3, 2>>>>, <<One, Gauss(2, 0), Gauss(-1, 0)>>)

Estimate(operators, blocks, returnBlocks) ==
    [kind |-> "estimate", operators |-> operators, blocks |-> blocks, returnBlocks |-> returnBlocks]

MCRequests ==
    {Estimate(Operators, b, r) : b \in {1, 2, 3}, r \in {TRUE, FALSE}}
    \cup {Estimate(<<>>, 1, TRUE), Estimate(Operators, 0, TRUE),
          Estimate(<<Operator(1, <<>>)>>, 1, TRUE),
          Estimate(<<FromTerms(2, <<<<1, 1>>>>, <<Gauss(0, 1)>>), Operator(1, <<>>)>>, 1, TRUE)}
    \cup {[kind |-> "rdm", keep |-> k, limit |-> 300] : k \in {<<>>, <<0>>, <<1>>, <<1, 0>>, <<2>>, <<0, 0>>}}
    \cup {[kind |-> "rdm", keep |-> <<0, 1>>, limit |-> 255]}
    \cup {[kind |-> "renyi", keep |-> k, blocks |-> b, method |-> m, limit |-> l] :
             k \in {<<1>>, <<1, 0>>}, b \in {1, 2}, m \in {"shadow", "randomized"}, l \in {12, 800}}
    \cup {[kind |-> "renyi", keep |-> <<0>>, blocks |-> 1, method |-> "dense", limit |-> 800]}
    \cup {[kind |-> "variance", operator |-> Hamiltonian, blocks |-> b, limit |-> l] : b \in {1, 2}, l \in {100, 800}}
    \cup {[kind |-> "fidelity", target |-> t.generators, blocks |-> b, returnBlocks |-> TRUE] :
             t \in {Bell, Tableau(1, <<Signed2(<<3>>, 1)>>)}, b \in {1, 2}}
    \cup {[kind |-> "statevector", target |-> Skew, normalised |-> x, blocks |-> b, returnBlocks |-> FALSE] :
             x \in BOOLEAN, b \in {1, 2}}
=============================================================================
