-------------------------- MODULE MCU1Restriction --------------------------
(***************************************************************************)
(* Instances of U1Restriction: sectors taken by particles and by holes,    *)
(* operators that conserve the number everywhere, only in the sector or    *)
(* not at all, and limits on both sides of the floor.                      *)
(***************************************************************************)
EXTENDS U1Restriction

LOCAL INSTANCE SequencesExt

T(codes, re, im) == Term(FromCodes(codes), Gauss(re, im))
Op(n, ts) == Aggregated(n, ts)

All(limits) ==
    [kind : {"apply", "lazy", "eager", "dense", "coo", "csr"}, limit : limits]
Some(kinds) == [kind : kinds, limit : {NoLimit}]

Vector(n) == [k \in 1..n |-> Gauss(k, 2 - k * k)]
Restriction(operator, p, kept, calls) ==
    [operator |-> operator, particles |-> p, storage |-> kept, calls |-> calls,
     construction |-> NoLimit, state |-> Vector(ChooseCount(operator.nqubits, p))]

Chain3 == Op(3, <<T(<<1, 1, 0>>, 1, 0), T(<<2, 2, 0>>, 1, 0), T(<<0, 1, 1>>, 2, 0), T(<<0, 2, 2>>, 2, 0),
                  T(<<3, 0, 3>>, 3, 0), T(<<0, 3, 0>>, -1, 0)>>)
Chiral4 == Op(4, <<T(<<1, 3, 2, 0>>, 1, 0), T(<<2, 3, 1, 0>>, -1, 0), T(<<1, 0, 0, 1>>, 0, 2),
                   T(<<2, 0, 0, 2>>, 0, 2), T(<<0, 3, 0, 3>>, 5, 0), T(<<3, 0, 0, 0>>, 1, 1)>>)
Pairs5 == Op(5, <<T(<<1, 1, 0, 0, 0>>, 1, 0), T(<<2, 2, 0, 0, 0>>, 1, 0), T(<<0, 0, 1, 3, 1>>, 2, 0),
                  T(<<0, 0, 2, 3, 2>>, 2, 0), T(<<0, 3, 0, 0, 3>>, 1, 0)>>)
\* A flip that cancels where qubit 1 is occupied: it leaves other sectors.
Blocked == Op(2, <<T(<<1, 0>>, 1, 0), T(<<1, 3>>, 1, 0), T(<<3, 3>>, 2, 0)>>)
Hopping == Op(3, <<T(<<1, 1, 0>>, 1, 0), T(<<2, 2, 0>>, 1, 0), T(<<0, 1, 1>>, 2, 0)>>)

MCRequests == {
    Restriction(Chain3, 1, "lazy", All({NoLimit})),
    Restriction(Chain3, 2, "eager", All({NoLimit})),
    Restriction(Chain3, 2, "lazy", [kind : {"apply", "lazy", "eager", "csr"}, limit : {300, 500, 600, 900}]),
    Restriction(Chain3, 1, "eager", [kind : {"dense", "coo", "eager"}, limit : {300, 500, 600, 900}]),
    Restriction(Chiral4, 2, "lazy", Some({"apply", "dense", "csr"})),
    Restriction(Chiral4, 3, "lazy", Some({"apply", "coo", "eager"})),
    Restriction(Chiral4, 1, "eager", Some({"lazy", "dense"})),
    Restriction(Pairs5, 3, "lazy", Some({"apply", "dense"})),
    Restriction(Pairs5, 2, "lazy", Some({"lazy", "csr"})),
    Restriction(Blocked, 2, "eager", Some({"apply", "lazy", "dense"})),
    Restriction(Blocked, 1, "eager", Some({"apply"})),
    Restriction(Hopping, 1, "eager", Some({"apply"})),
    [Restriction(Chain3, 0, "lazy", Some({"apply", "coo"})) EXCEPT !.construction = 600],
    [Restriction(Chain3, 1, "eager", Some({"apply"})) EXCEPT !.construction = 400]}

Symmetric == Permutations(Thread)
=============================================================================
