---------------------------- MODULE PauliKernels ----------------------------
(***************************************************************************)
(* What one operation of a gate tape does to a sparse Pauli operator: the  *)
(* forward kernels and the reverse frame of propagation.rs, in             *)
(* crates/tencir-pauli-core, without state.                                *)
(*                                                                         *)
(* Coefficients are integers: an operation of denominator D (the norm of a *)
(* rotation, 4 for amplitude damping, ...) multiplies by D each word that  *)
(* the code multiplies by 1, so that a state is the code's state times the *)
(* denominators of the operations done.  Exact zeros stay exact zeros.     *)
(***************************************************************************)
EXTENDS Accumulate

CONSTANT NQubits

ASSUME NQubitsAssumption == NQubits \in Nat

Wires == 0 .. NQubits - 1
Codes == 0 .. 3                      \* I, X, Y, Z
Words == [Wires -> Codes]

XMask(word) == {q \in Wires : word[q] \in {1, 2}}
ZMask(word) == {q \in Wires : word[q] \in {2, 3}}
Weight(word) == Cardinality(XMask(word) \cup ZMask(word))

\* Masks are integers with wire 0 least significant; one machine word is enough here.
MaskLess(a, b) == \E q \in b \ a : \A r \in Wires : r > q => (r \in a <=> r \in b)

\* The order of packed keys: X masks first.
KeyLess(v, w) ==
  \/ MaskLess(XMask(v), XMask(w))
  \/ XMask(v) = XMask(w) /\ MaskLess(ZMask(v), ZMask(w))

\* The order of public words, and so of an observable's terms: code by code.
CodeLess(v, w) == \E q \in Wires : v[q] < w[q] /\ \A r \in 0 .. q - 1 : v[r] = w[r]

---------------------------------------------------------------------------
(* Term sequences                                                          *)

Term(key, c) == [key |-> key, c |-> c]
Terms == [key : Words, c : Int]
KeysOf(terms) == {terms[i].key : i \in DOMAIN terms}
Distinct(terms) == Cardinality(KeysOf(terms)) = Len(terms)

\* The coefficient a term sequence gives a word.
Collect(terms, key) == SumOver(terms, LAMBDA t : IF t.key = key THEN t.c ELSE 0)

\* A cutoff of NQubits is none: is_exact().
Retain(terms, cutoff) == KeepIf(terms, LAMBDA t : t.c # 0 /\ Weight(t.key) <= cutoff)

InKeyOrder(keys) ==
  [i \in 1 .. Cardinality(keys) |->
     CHOOSE k \in keys : Cardinality({j \in keys : KeyLess(j, k)}) = i - 1]

\* Sums equal words, then orders, then drops zeros and heavy words.
Aggregate(contributions, cutoff) ==
  LET keys == InKeyOrder(KeysOf(contributions))
  IN  Retain([i \in DOMAIN keys |-> Term(keys[i], Collect(contributions, keys[i]))], cutoff)

\* initial_dynamic_terms: the observable's own order, only the projection applied.
InitialTerms(observable, cutoff) == KeepIf(observable, LAMBDA t : Weight(t.key) <= cutoff)

---------------------------------------------------------------------------
(* Parameters.  A real scalar stands for what the kernels compute from it: *)
(* an angle is cos/norm, sin/norm; a damping rate g has root = 2*sqrt(1-g),*)
(* a probability p has prob = 2p.                                          *)

NoSlot == -1
Static(scalar) == [slot |-> NoSlot, scalar |-> scalar]
Resolve(ref, values) == IF ref.slot = NoSlot THEN ref.scalar ELSE values[ref.slot + 1]

RefsOf(op) == IF op.kind \in {"rotation", "depolarizing", "phasedamping", "amplitudedamping"}
              THEN op.refs ELSE <<>>
SlotsOf(op) == {RefsOf(op)[i].slot : i \in DOMAIN RefsOf(op)} \ {NoSlot}

IsScalar(x) == {x.cos, x.sin, x.norm} \subseteq Int /\ x.root \in 0 .. 2 /\ x.prob \in 0 .. 2
IsRef(ref) == ref.slot \in Nat \cup {NoSlot} /\ IsScalar(ref.scalar)
AreRefs(refs, n) == /\ refs \in Seq(Range(refs)) /\ Len(refs) = n
                    /\ \A i \in 1 .. n : IsRef(refs[i])

OneWire(wires) == \E q \in Wires : wires = <<q>>
TwoWires(wires) == \E p, q \in Wires : p # q /\ wires = <<p, q>>

\* What the constructors of GateOperation let through.
IsOperation(op) ==
  \/ op.kind = "clifford1" /\ op.gate \in {"x", "y", "z", "h", "s", "sdg"} /\ OneWire(op.wires)
  \/ op.kind = "clifford2" /\ op.gate \in {"cnot", "cz", "swap"} /\ TwoWires(op.wires)
  \/ /\ op.kind = "rotation" /\ op.axis \in 1 .. 3
     /\ OneWire(op.wires) \/ TwoWires(op.wires)
     /\ AreRefs(op.refs, 1)
  \/ /\ op.kind = "ptm"
     /\ \/ OneWire(op.wires) /\ Len(op.rows) = 4
        \/ TwoWires(op.wires) /\ Len(op.rows) = 16
     /\ op.rows \in Seq(Seq((0 .. Len(op.rows) - 1) \X (Int \ {0})))
  \/ op.kind = "depolarizing" /\ OneWire(op.wires) /\ AreRefs(op.refs, 3)
  \/ op.kind = "phasedamping" /\ OneWire(op.wires) /\ AreRefs(op.refs, 1)
  \/ op.kind = "amplitudedamping" /\ OneWire(op.wires) /\ AreRefs(op.refs, 2)

\* Physical domains; only the three probabilities of depolarizing can leave theirs
\* here, where roots and probabilities are in 0 .. 2.
ValidChannel(op, values) ==
  op.kind = "depolarizing" =>
    SumOver(op.refs, LAMBDA ref : Resolve(ref, values).prob) <= 2

---------------------------------------------------------------------------
(* Clifford maps and products                                              *)

Clifford1Code ==
  [x |-> <<0, 1, 2, 3>>, y |-> <<0, 1, 2, 3>>, z |-> <<0, 1, 2, 3>>,
   h |-> <<0, 3, 2, 1>>, s |-> <<0, 2, 1, 3>>, sdg |-> <<0, 2, 1, 3>>]
Clifford1Sign ==
  [x |-> <<1, 1, -1, -1>>, y |-> <<1, -1, 1, -1>>, z |-> <<1, -1, -1, 1>>,
   h |-> <<1, 1, -1, 1>>, s |-> <<1, -1, 1, 1>>, sdg |-> <<1, 1, -1, 1>>]

Clifford2Table ==
  [cnot |-> <<<<0, 0, 1>>, <<0, 1, 1>>, <<3, 2, 1>>, <<3, 3, 1>>,
              <<1, 1, 1>>, <<1, 0, 1>>, <<2, 3, 1>>, <<2, 2, -1>>,
              <<2, 1, 1>>, <<2, 0, 1>>, <<1, 3, -1>>, <<1, 2, 1>>,
              <<3, 0, 1>>, <<3, 1, 1>>, <<0, 2, 1>>, <<0, 3, 1>>>>,
   cz   |-> <<<<0, 0, 1>>, <<3, 1, 1>>, <<3, 2, 1>>, <<0, 3, 1>>,
              <<1, 3, 1>>, <<2, 2, 1>>, <<2, 1, -1>>, <<1, 0, 1>>,
              <<2, 3, 1>>, <<1, 2, -1>>, <<1, 1, 1>>, <<2, 0, 1>>,
              <<3, 0, 1>>, <<0, 1, 1>>, <<0, 2, 1>>, <<3, 3, 1>>>>,
   swap |-> [k \in 1 .. 16 |-> <<(k - 1) % 4, (k - 1) \div 4, 1>>]]

\* A Clifford operation takes a word to one word, with a sign.
CliffordImage(op, key) ==
  IF op.kind = "clifford1"
  THEN LET code == key[op.wires[1]] + 1
       IN  Term([key EXCEPT ![op.wires[1]] = Clifford1Code[op.gate][code]],
                Clifford1Sign[op.gate][code])
  ELSE LET image == Clifford2Table[op.gate][4 * key[op.wires[1]] + key[op.wires[2]] + 1]
       IN  Term([key EXCEPT ![op.wires[1]] = image[1], ![op.wires[2]] = image[2]], image[3])

LocalCode(a, b) == IF 0 \in {a, b} THEN a + b ELSE IF a = b THEN 0 ELSE 6 - a - b
\* Phases are exponents of i.
LocalPhase(a, b) == IF 0 \in {a, b} \/ a = b THEN 0 ELSE IF (b - a) % 3 = 1 THEN 1 ELSE 3

\* multiply_by_generator
Product(axis, wires, key) ==
  [q \in Wires |-> IF q \in Range(wires) THEN LocalCode(axis, key[q]) ELSE key[q]]
ProductPhase(axis, wires, key) ==
  SumOver(wires, LAMBDA q : LocalPhase(axis, key[q])) % 4
Anticommutes(phase) == phase \in {1, 3}
PhaseSign(phase) == phase - 2

---------------------------------------------------------------------------
(* Forward kernels: apply_operation                                        *)

\* Faulty: the fast path does not project.
CliffordTermsUnprojected(op, terms, cutoff) ==
  [i \in DOMAIN terms |->
     LET image == CliffordImage(op, terms[i].key)
     IN  Term(image.key, image.c * terms[i].c)]

CliffordTerms(op, terms, cutoff) ==
  Retain([i \in DOMAIN terms |->
            LET image == CliffordImage(op, terms[i].key)
            IN  Term(image.key, image.c * terms[i].c)], cutoff)

RotationContributions(op, term, angle) ==
  LET phase == ProductPhase(op.axis, op.wires, term.key)
  IN  IF ~Anticommutes(phase) THEN <<Term(term.key, term.c * angle.norm)>>
      ELSE <<Term(term.key, term.c * angle.cos)>> \o
           (IF angle.sin = 0 THEN <<>>
            ELSE <<Term(Product(op.axis, op.wires, term.key),
                        term.c * angle.sin * PhaseSign(phase))>>)

\* A transfer matrix lists, per local input, the nonzero <<output, entry>>.
LocalIndex(key, wires) ==
  IF Len(wires) = 1 THEN key[wires[1]] ELSE 4 * key[wires[1]] + key[wires[2]]
WithLocal(key, wires, index) ==
  IF Len(wires) = 1 THEN [key EXCEPT ![wires[1]] = index]
  ELSE [key EXCEPT ![wires[1]] = index \div 4, ![wires[2]] = index % 4]
PtmRow(op, key) == op.rows[LocalIndex(key, op.wires) + 1]

PtmContributions(op, term) ==
  [i \in DOMAIN PtmRow(op, term.key) |->
     Term(WithLocal(term.key, op.wires, PtmRow(op, term.key)[i][1]),
          term.c * PtmRow(op, term.key)[i][2])]

\* Depolarizing and phase damping scale each word in place, amplitude damping does
\* so for its base: the factor of each local code.
Multipliers(op, values) ==
  LET v(i) == Resolve(op.refs[i], values)
  IN  CASE op.kind = "depolarizing" ->
             <<1, 1 - (v(2).prob + v(3).prob), 1 - (v(1).prob + v(3).prob),
               1 - (v(1).prob + v(2).prob)>>
        [] op.kind = "phasedamping" -> <<2, v(1).root, v(1).root, 2>>
        [] op.kind = "amplitudedamping" ->
             <<4, 2 * v(1).root, 2 * v(1).root, v(1).root * v(1).root>>

SplitMultiplier(op, values) ==
  LET root == Resolve(op.refs[1], values).root
  IN  (4 - root * root) * (Resolve(op.refs[2], values).prob - 1)

ScaledTerms(op, terms, values, cutoff) ==
  Retain([i \in DOMAIN terms |->
            Term(terms[i].key,
                 terms[i].c * Multipliers(op, values)[terms[i].key[op.wires[1]] + 1])], cutoff)

\* The Z words of an amplitude damping also feed the word with I there.
SplitContributions(op, terms, values) ==
  LET zs == KeepIf(terms, LAMBDA t : t.key[op.wires[1]] = 3)
  IN  [i \in DOMAIN zs |-> Term([zs[i].key EXCEPT ![op.wires[1]] = 0],
                                zs[i].c * SplitMultiplier(op, values))]

\* One turn of the merge: s has the next index of each sequence and the terms pushed.
\* Faulty: equal keys are both pushed.
MergeTurnKeepsBoth(base, extras, s) ==
  IF s.i > Len(base) \/ s.j > Len(extras) THEN s
  ELSE IF KeyLess(extras[s.j].key, base[s.i].key)
  THEN [s EXCEPT !.j = s.j + 1, !.pushed = Append(s.pushed, extras[s.j])]
  ELSE [s EXCEPT !.i = s.i + 1, !.pushed = Append(s.pushed, base[s.i])]

MergeTurn(base, extras, s) ==
  IF s.i > Len(base) \/ s.j > Len(extras) THEN s
  ELSE IF KeyLess(base[s.i].key, extras[s.j].key)
  THEN [s EXCEPT !.i = s.i + 1, !.pushed = Append(s.pushed, base[s.i])]
  ELSE IF KeyLess(extras[s.j].key, base[s.i].key)
  THEN [s EXCEPT !.j = s.j + 1, !.pushed = Append(s.pushed, extras[s.j])]
  ELSE [i |-> s.i + 1, j |-> s.j + 1,
        pushed |-> IF base[s.i].c + extras[s.j].c = 0 THEN s.pushed
                   ELSE Append(s.pushed, Term(base[s.i].key, base[s.i].c + extras[s.j].c))]

\* merge_amplitude_split: one pass over two sequences, equal keys met head to head
\* are summed.  The extras are in key order; nothing puts the base in key order.
MergeSplit(base, extras) ==
  LET turns == Len(base) + Len(extras)
      merge[n \in 0 .. turns] == IF n = 0 THEN [i |-> 1, j |-> 1, pushed |-> <<>>]
                                 ELSE MergeTurn(base, extras, merge[n - 1])
      last == merge[turns]
  IN  last.pushed \o SubSeq(base, last.i, Len(base)) \o SubSeq(extras, last.j, Len(extras))

ApplyOperation(op, terms, values, cutoff) ==
  CASE op.kind \in {"clifford1", "clifford2"} -> CliffordTerms(op, terms, cutoff)
    [] op.kind = "rotation" ->
         Aggregate(FlattenSeq([i \in DOMAIN terms |->
           RotationContributions(op, terms[i], Resolve(op.refs[1], values))]), cutoff)
    [] op.kind = "ptm" ->
         Aggregate(FlattenSeq([i \in DOMAIN terms |-> PtmContributions(op, terms[i])]), cutoff)
    [] op.kind \in {"depolarizing", "phasedamping"} -> ScaledTerms(op, terms, values, cutoff)
    [] op.kind = "amplitudedamping" ->
         MergeSplit(ScaledTerms(op, terms, values, cutoff),
                    Aggregate(SplitContributions(op, terms, values), cutoff))

\* Faulty: a rotation is taken not to branch.
BranchFactorUnbranched(op) ==
  CASE op.kind = "amplitudedamping" -> 2
    [] op.kind = "ptm" -> CHOOSE m \in {Len(op.rows[i]) : i \in DOMAIN op.rows} :
                            \A i \in DOMAIN op.rows : Len(op.rows[i]) <= m
    [] OTHER -> 1

\* The most words one word can become.
BranchFactor(op) ==
  CASE op.kind \in {"rotation", "amplitudedamping"} -> 2
    [] op.kind = "ptm" -> CHOOSE m \in {Len(op.rows[i]) : i \in DOMAIN op.rows} :
                            \A i \in DOMAIN op.rows : Len(op.rows[i]) <= m
    [] OTHER -> 1

---------------------------------------------------------------------------
(* Reverse: visit_retained_edges and reverse_frame                         *)

Edge(key, m, d) == [key |-> key, m |-> m, d |-> d]

\* collect_channel_derivatives: <<reference, derivative>> for the references that are slots.
ForSlots(op, derivatives) ==
  LET dynamic == KeepIf(derivatives, LAMBDA d : op.refs[d[1]].slot # NoSlot)
  IN  [i \in DOMAIN dynamic |-> <<op.refs[dynamic[i][1]].slot, dynamic[i][2]>>]

RotationEdges(op, key, angle) ==
  LET phase == ProductPhase(op.axis, op.wires, key)
      sign == PhaseSign(phase)
  IN  IF ~Anticommutes(phase) THEN <<Edge(key, angle.norm, <<>>)>>
      ELSE <<Edge(key, angle.cos, ForSlots(op, <<<<1, -angle.sin>>>>)),
             Edge(Product(op.axis, op.wires, key), angle.sin * sign,
                  ForSlots(op, <<<<1, angle.cos * sign>>>>))>>

\* The derivative of sqrt(1-g) times the denominator of m.
RootDerivative(code, root, denominator) ==
  IF code \in {1, 2} /\ root # 0 THEN <<<<1, -(denominator \div root)>>>> ELSE <<>>

ChannelEdges(op, key, values) ==
  LET code == key[op.wires[1]]
      m == Multipliers(op, values)[code + 1]
      root == Resolve(op.refs[1], values).root
      others == KeepIf(<<<<1, -2>>, <<2, -2>>, <<3, -2>>>>, LAMBDA d : code # 0 /\ d[1] # code)
  IN  CASE op.kind = "depolarizing" -> <<Edge(key, m, ForSlots(op, others))>>
        [] op.kind = "phasedamping" ->
             <<Edge(key, m, ForSlots(op, RootDerivative(code, root, 2)))>>
        [] op.kind = "amplitudedamping" /\ code = 3 ->
             <<Edge([key EXCEPT ![op.wires[1]] = 0], SplitMultiplier(op, values),
                    ForSlots(op, <<<<1, 4 * (Resolve(op.refs[2], values).prob - 1)>>,
                                   <<2, 2 * (4 - root * root)>>>>)),
               Edge(key, m, ForSlots(op, <<<<1, -4>>>>))>>
        [] OTHER -> <<Edge(key, m, ForSlots(op, RootDerivative(code, root, 4)))>>

Edges(op, key, values) ==
  CASE op.kind \in {"clifford1", "clifford2"} ->
         <<Edge(CliffordImage(op, key).key, CliffordImage(op, key).c, <<>>)>>
    [] op.kind = "rotation" -> RotationEdges(op, key, Resolve(op.refs[1], values))
    [] op.kind = "ptm" -> [i \in DOMAIN PtmContributions(op, Term(key, 1)) |->
                             LET t == PtmContributions(op, Term(key, 1))[i]
                             IN  Edge(t.key, t.c, <<>>)]
    [] OTHER -> ChannelEdges(op, key, values)

\* The edges that carried something to an output the forward pass kept.
RetainedEdges(op, key, output, values, cutoff) ==
  KeepIf(Edges(op, key, values),
         LAMBDA e : e.m # 0 /\ Weight(e.key) <= cutoff /\ e.key \in KeysOf(output))

\* output_indices: an insertion per term, so that the last of equal keys stays.
IndexOf(output, key) ==
  CHOOSE i \in DOMAIN output :
    output[i].key = key /\ \A j \in i + 1 .. Len(output) : output[j].key # key

\* What an edge's derivatives give a slot.
Derivative(edge, slot) == SumOver(edge.d, LAMBDA d : IF d[1] = slot THEN d[2] ELSE 0)

\* The adjoints of the inputs, and what the frame adds to each slot of the gradient.
InputAdjoint(op, input, output, values, cutoff, lambda) ==
  [i \in DOMAIN input |->
     SumOver(RetainedEdges(op, input[i].key, output, values, cutoff),
             LAMBDA e : e.m * lambda[IndexOf(output, e.key)])]

\* Faulty: the coefficient of the word reached, not of the word left.
FrameGradientOfOutput(op, input, output, values, cutoff, lambda, slot) ==
  SumOver(input, LAMBDA t :
    SumOver(RetainedEdges(op, t.key, output, values, cutoff), LAMBDA e :
      output[IndexOf(output, e.key)].c * Derivative(e, slot) * lambda[IndexOf(output, e.key)]))

FrameGradient(op, input, output, values, cutoff, lambda, slot) ==
  SumOver(input, LAMBDA t :
    SumOver(RetainedEdges(op, t.key, output, values, cutoff), LAMBDA e :
      t.c * Derivative(e, slot) * lambda[IndexOf(output, e.key)]))

\* The matrix of an operation: the factor from one word to another.
Entry(op, values, v, w) ==
  SumOver(Edges(op, v, values), LAMBDA e : IF e.key = w THEN e.m ELSE 0)

---------------------------------------------------------------------------
(* expectation_of_key in a product state: per wire the numerators of 1 and *)
(* of the Bloch components, over the wire's own denominator.               *)
WordExpectation(key, state) ==
  FoldFunctionOnSet(LAMBDA a, b : a * b, 1, [q \in Wires |-> state[q][key[q] + 1]], Wires)

Expectation(terms, state) == SumOver(terms, LAMBDA t : t.c * WordExpectation(t.key, state))
=============================================================================
