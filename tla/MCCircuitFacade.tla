-------------------------- MODULE MCCircuitFacade --------------------------
(***************************************************************************)
(* Two threads, two addresses and two observables; a small limit under     *)
(* which the second observable does not fit and a tape of five gates does  *)
(* not either, and a large one.  The circuit starts from a converted tape  *)
(* of every other kind of operation, and a channel is appended to it; or   *)
(* from a long one, for which no limit has room.                           *)
(***************************************************************************)
EXTENDS CircuitFacade, TLC

Symmetry == Permutations(Threads) \cup Permutations(Addresses)

Gate(kind, first) == Operation(kind, [k \in 1 .. Arity[kind] |-> first + k - 1])
Numbered(kinds) ==
    [k \in DOMAIN kinds |->
        Gate(kinds[k], FoldLeft(+, 0, [j \in 1 .. k - 1 |-> Arity[kinds[j]]]))]

Short == Numbered(<<"amplitudedamping", "fixed", "rotation", "phasedamping">>)

\* Every kind of operation before every other and itself.
EveryPair ==
    Numbered(<<"fixed", "fixed", "rotation", "fixed", "depolarizing", "fixed", "phasedamping", "fixed",
               "amplitudedamping", "rotation", "rotation", "depolarizing", "rotation", "phasedamping",
               "rotation", "amplitudedamping", "depolarizing", "depolarizing", "phasedamping",
               "depolarizing", "amplitudedamping", "phasedamping", "phasedamping", "amplitudedamping",
               "amplitudedamping", "fixed">>)
MCConverted == {Short, EveryPair}
MCLimits == {1, 2}
MCTapeRoom == [l \in MCLimits |-> IF l = 1 THEN 4 ELSE MaxGates]
MCEngineRoom == [l \in MCLimits |-> IF l = 1 THEN {"first"} ELSE {"first", "second"}]
=============================================================================
