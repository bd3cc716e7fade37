--------------------------- MODULE MCPropagation ---------------------------
(***************************************************************************)
(* Two wires, tapes of up to five gates over every kind of operation,      *)
(* observables whose words meet, and every checkpoint interval.            *)
(***************************************************************************)
EXTENDS Propagation

\* cos 3/5, sin 4/5; rate 3/4; probability 1 as a channel scalar.
Third == [cos |-> 3, sin |-> 4, norm |-> 5, root |-> 1, prob |-> 2]
\* A right angle; rate 0 and probability 0.
Right == [cos |-> 0, sin |-> 1, norm |-> 1, root |-> 2, prob |-> 0]
\* No rotation; rate 1 and probability 1/2.
Flat == [cos |-> 1, sin |-> 0, norm |-> 1, root |-> 0, prob |-> 1]

Slot(k) == [slot |-> k, scalar |-> Flat]

H(q) == [kind |-> "clifford1", gate |-> "h", wires |-> <<q>>]
S(q) == [kind |-> "clifford1", gate |-> "s", wires |-> <<q>>]
Cnot(p, q) == [kind |-> "clifford2", gate |-> "cnot", wires |-> <<p, q>>]
Cz(p, q) == [kind |-> "clifford2", gate |-> "cz", wires |-> <<p, q>>]
Swap(p, q) == [kind |-> "clifford2", gate |-> "swap", wires |-> <<p, q>>]
Rotation(axis, wires, ref) == [kind |-> "rotation", axis |-> axis, wires |-> wires, refs |-> <<ref>>]
Ptm == [kind |-> "ptm", wires |-> <<1>>,
        rows |-> <<<<<<0, 1>>>>, <<<<1, 1>>, <<3, -1>>>>, <<>>, <<<<0, 2>>, <<1, -1>>, <<3, 1>>>>>>]
Depolarize(q, a, b, c) == [kind |-> "depolarizing", wires |-> <<q>>, refs |-> <<a, b, c>>]
Dephase(q, a) == [kind |-> "phasedamping", wires |-> <<q>>, refs |-> <<a>>]
Damp(q, a, b) == [kind |-> "amplitudedamping", wires |-> <<q>>, refs |-> <<a, b>>]

Tapes0 == {<<>>, <<H(0), Cnot(0, 1), Ptm>>}
Tapes1 ==
  {<<H(0), Rotation(1, <<0>>, Slot(0))>>,
   <<Rotation(2, <<0, 1>>, Slot(0)), Cnot(0, 1), Rotation(3, <<1>>, Slot(0))>>}
Tapes2 ==
  {<<Cz(0, 1), Rotation(1, <<0>>, Slot(1)), S(1), Rotation(2, <<1>>, Slot(0)), Cnot(1, 0)>>,
   <<Damp(0, Slot(0), Slot(1)), Rotation(2, <<0>>, Static(Third)), Ptm>>,
   <<Rotation(1, <<0>>, Slot(0)), Damp(0, Slot(1), Slot(0)), Damp(1, Slot(1), Static(Third))>>,
   <<Ptm, Depolarize(0, Slot(0), Static(Right), Slot(1)), H(1), Dephase(1, Slot(1))>>}
Tapes3 ==
  {<<Rotation(1, <<0, 1>>, Slot(0)), Ptm, Damp(1, Slot(1), Slot(2)), Cnot(0, 1),
     Rotation(3, <<0>>, Slot(2))>>}
\* Slot 0 is missing.
BadTapes == {<<Rotation(1, <<0>>, Slot(1))>>}

\* Every kind of gate before and after every parametric one.
Plain == {H(1), S(0), Cz(0, 1), Cnot(0, 1), Swap(0, 1), Ptm, Dephase(1, Static(Third)),
          Damp(0, Static(Third), Static(Right))}
Parametric == {Rotation(2, <<0>>, Slot(0)), Rotation(1, <<0, 1>>, Slot(0)),
               Damp(1, Slot(0), Slot(0)), Dephase(0, Slot(0)),
               Depolarize(0, Slot(0), Slot(0), Static(Flat))}
Pairs == {<<a, b>> : a \in Plain, b \in Parametric} \cup {<<b, a>> : a \in Plain, b \in Parametric}

Word(a, b) == [q \in Wires |-> IF q = 0 THEN a ELSE b]

Observables ==
  {<<>>,
   <<Term(Word(3, 0), 1)>>,
   <<Term(Word(0, 1), 4), Term(Word(0, 3), -3), Term(Word(3, 3), 1)>>,
   <<Term(Word(0, 2), 1), Term(Word(1, 0), -2), Term(Word(1, 3), 3), Term(Word(3, 1), 1)>>}

\* Bloch vectors (1, 2, 2)/3 and (0, -3, 4)/5.
State == [q \in Wires |-> IF q = 0 THEN <<3, 1, 2, 2>> ELSE <<5, 0, -3, 4>>]

CallsOf(entry, intervals, tapes, values, limits) ==
  [entry : {entry}, ops : tapes, observable : Observables, cutoff : {1, 2},
   interval : intervals, values : values, state : {State}, limit : limits]

\* Every tape with values for its slots, and some without.
Suited(entry, intervals) ==
  {CallsOf(entry, intervals, Tapes0, {<<>>, <<Third>>}, {35, 1000}),
   CallsOf(entry, intervals, Tapes1, {<<Third>>, <<Flat>>}, {35, 1000}),
   CallsOf(entry, intervals, Tapes2, {<<Third, Right>>, <<Right, Third>>, <<Flat, Third>>}, {35, 1000}),
   CallsOf(entry, intervals, Tapes3, {<<Third, Flat, Third>>, <<Right, Third, Third>>}, {35, 1000}),
   CallsOf(entry, intervals \cap {NoInterval, 1}, Pairs, {<<Third>>, <<Right>>}, {1000}),
   CallsOf(entry, intervals, BadTapes, {<<Third, Third>>}, {35, 1000})}

MCCalls == UNION (Suited("gradient", {NoInterval, 0, 1, 2, 3}) \cup Suited("profile", {NoInterval}))
=============================================================================
