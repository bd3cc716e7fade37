--------------------------- MODULE ChargeSchedule ---------------------------
(***************************************************************************)
(* Structured terms on a charge layout and their compiled schedules        *)
(* (charge/types.rs, charge/schedule.rs, fermion_mask.rs).  Modes, sites   *)
(* and bits are numbered from 0 as in the source, axes from 1.  The weight *)
(* of one boson step from k quanta, the square root of k, is the symbol    *)
(* Root(k): every route multiplies and adds the same symbols.              *)
(***************************************************************************)
EXTENDS ChargeSector

LOCAL INSTANCE SequencesExt
LOCAL INSTANCE FiniteSetsExt
LOCAL INSTANCE Folds

Root(k) == Gauss(k, 0)

\* Everything of a term but its coefficient.
Shape(t) == [f \in DOMAIN t \ {"coefficient"} |-> t[f]]

\* Terms of one shape become one; the order of the shapes is not told by what
\* follows.
GroupTerms(terms) ==
    LET alike(k) == {j \in DOMAIN terms : Shape(terms[j]) = Shape(terms[k])}
        firsts == SelectSeq([k \in DOMAIN terms |-> k], LAMBDA k : k = Min(alike(k)))
        grouped == [k \in DOMAIN firsts |->
                       [terms[firsts[k]] EXCEPT !.coefficient =
                           Total(alike(firsts[k]), [j \in DOMAIN terms |-> terms[j].coefficient])]]
    IN  SelectSeq(grouped, LAMBDA t : t.coefficient # Zero)

-----------------------------------------------------------------------------
(***************************************************************************)
(* A product of fermion ladder operators lowered to what it requires of a  *)
(* state, what it flips, and where its sign comes from.                    *)
(***************************************************************************)
NoMask == [none |-> TRUE]

\* Faulty: the operators before this one add nothing to its sign.
MaskStepUnsigned(mask, op) ==
    LET mustBeOccupied == (~op.create) # (op.mode \in mask.flip)
        signed == [mask EXCEPT !.parity = Xor(@, 0..op.mode - 1), !.flip = Xor(@, {op.mode})]
    IN  IF IsNone(mask) THEN mask
        ELSE IF op.mode \in (IF mustBeOccupied THEN mask.empty ELSE mask.occupied) THEN NoMask
        ELSE IF mustBeOccupied THEN [signed EXCEPT !.occupied = @ \cup {op.mode}]
        ELSE [signed EXCEPT !.empty = @ \cup {op.mode}]

\* One more operator, applied after the others: [mode, create].
MaskStep(mask, op) ==
    LET below == 0..op.mode - 1
        mustBeOccupied == (~op.create) # (op.mode \in mask.flip)
        signed == [mask EXCEPT !.parity = Xor(@, below),
                               !.negative = @ # Odd(mask.flip \cap below),
                               !.flip = Xor(@, {op.mode})]
    IN  IF IsNone(mask) THEN mask
        ELSE IF mustBeOccupied
             THEN IF op.mode \in mask.empty THEN NoMask
                  ELSE [signed EXCEPT !.occupied = @ \cup {op.mode}]
             ELSE IF op.mode \in mask.occupied THEN NoMask
                  ELSE [signed EXCEPT !.empty = @ \cup {op.mode}]

FromSteps(modeAxes, steps) ==
    IF modeAxes = <<>> \/ \E k \in DOMAIN steps : steps[k].mode >= Len(modeAxes) THEN NoMask
    ELSE FoldLeft(MaskStep, [occupied |-> {}, empty |-> {}, flip |-> {}, parity |-> {},
                             negative |-> FALSE, axes |-> modeAxes], steps)

Steps(modes, create) ==
    [k \in DOMAIN modes |-> [mode |-> Reverse(modes)[k], create |-> create]]
FromCreationAnnihilation(modeAxes, creation, annihilation) ==
    FromSteps(modeAxes, Steps(annihilation, FALSE) \o Steps(creation, TRUE))

\* Modes that are occupied; a level above 1 is refused.
PackSource(mask, values) == {m \in 0..Len(mask.axes) - 1 : values[mask.axes[m + 1]] # 0}

\* Zero when the state lacks what the product requires.
MaskAmplitude(mask, occupied, coefficient) ==
    IF ~(mask.occupied \subseteq occupied) \/ mask.empty \cap occupied # {} THEN Zero
    ELSE IF mask.negative # Odd(occupied \cap mask.parity) THEN Neg(coefficient) ELSE coefficient

Flipped(mask, values) ==
    [a \in DOMAIN values |->
        IF \E m \in mask.flip : mask.axes[m + 1] = a THEN 1 - values[a] ELSE values[a]]

\* The same action on a word of bits, when mode m is public axis m: the modes
\* of the term are counted from the top of a word as wide as the modes.
HasContiguousAction(mask) ==
    Len(mask.axes) <= 64 /\ \A m \in DOMAIN mask.axes : mask.axes[m] = m
ContiguousAction(mask) ==
    LET public(S) == {Len(mask.axes) - 1 - m : m \in S} IN
    [mask EXCEPT !.occupied = public(@), !.empty = public(@), !.flip = public(@),
                 !.parity = public(@)]

-----------------------------------------------------------------------------
(***************************************************************************)
(* Compiled schedules and their action on one occupation.                  *)
(***************************************************************************)
\* Pairs of an axis and a code.
PauliOps(codes, positions) == [k \in DOMAIN codes |-> <<positions[k], codes[k]>>]

Schedule(layout, t) ==
    LET mask == FromCreationAnnihilation(layout.fermions, t.creation, t.annihilation)
        fermionic == t.creation # <<>> \/ t.annihilation # <<>>
    IN  [coefficient |-> t.coefficient,
         zero |-> fermionic /\ IsNone(mask),
         mask |-> IF fermionic THEN mask ELSE NoMask,
         bosons |-> [k \in DOMAIN t.bosons |-> <<layout.bosons[t.bosons[k][1] + 1],
                                                 t.bosons[k][2], t.bosons[k][3]>>],
         paulis |-> PauliOps(t.qubits, layout.qubits)
                    \o (IF t.mapped THEN PauliOps(t.mappedCodes, layout.fermions) ELSE <<>>),
         qudits |-> [k \in DOMAIN t.qudits |-> <<layout.qudits[t.qudits[k][1] + 1],
                                                 t.qudits[k][2], t.qudits[k][3]>>]]

\* An occupation with its amplitude; Dead when the action vanishes.
State(values, amplitude) == [values |-> values, amplitude |-> amplitude]
Dead == State(<<>>, Zero)
IsDead(s) == s.amplitude = Zero

\* Annihilate, then create, within the levels of the axis.
BosonOp(s, op, dims) ==
    LET n == s.values[op[1]]
        down == [k \in 1..op[3] |-> Root(n - k + 1)]
        up == [k \in 1..op[2] |-> Root(n - op[3] + k)]
        final == n - op[3] + op[2]
    IN  IF IsDead(s) \/ n < op[3] \/ final >= dims[op[1]] THEN Dead
        ELSE State([s.values EXCEPT ![op[1]] = final],
                   Times(s.amplitude, Times(ProductOf(down), ProductOf(up))))

PauliOp(s, op) ==
    LET bit == s.values[op[1]]
        sign == CASE op[2] = 2 -> IF bit = 0 THEN IPow(1) ELSE IPow(3)
                  [] op[2] = 3 /\ bit = 1 -> IPow(2)
                  [] OTHER -> One
    IN  IF IsDead(s) THEN Dead
        ELSE State([s.values EXCEPT ![op[1]] = IF op[2] \in {1, 2} THEN 1 - bit ELSE bit],
                   Times(s.amplitude, sign))

\* Phase of the input level, then the shift; d-th roots that are Gaussian.
QuditPhase(d, e) == IPow((4 * (e % d)) \div d)
QuditOp(s, op, d) ==
    LET input == s.values[op[1]] IN
    IF IsDead(s) THEN Dead
    ELSE State([s.values EXCEPT ![op[1]] = (input + op[2]) % d],
               Times(s.amplitude, QuditPhase(d, op[3] * input)))

\* Everything after the fermions, on the axes that are kept.
LocalOps(schedule, s, layout, keep(_)) ==
    LET bosons == SelectSeq(Reverse(schedule.bosons), LAMBDA o : keep(o[1]))
        paulis == SelectSeq(schedule.paulis, LAMBDA o : keep(o[1]))
        qudits == SelectSeq(schedule.qudits, LAMBDA o : keep(o[1]))
        afterBosons == FoldLeft(LAMBDA x, o : BosonOp(x, o, layout.dims), s, bosons)
        afterPaulis == FoldLeft(PauliOp, afterBosons, paulis)
    IN  FoldLeft(LAMBDA x, o : QuditOp(x, o, layout.quditDimension), afterPaulis, qudits)

ApplySchedule(schedule, source, layout) ==
    LET amplitude == IF IsNone(schedule.mask) THEN schedule.coefficient
                     ELSE MaskAmplitude(schedule.mask, PackSource(schedule.mask, source),
                                        schedule.coefficient)
        values == IF IsNone(schedule.mask) THEN source ELSE Flipped(schedule.mask, source)
    IN  IF schedule.zero \/ amplitude = Zero THEN Dead
        ELSE LocalOps(schedule, State(values, amplitude), layout, LAMBDA a : TRUE)

-----------------------------------------------------------------------------
(***************************************************************************)
(* The destinations of one source, in order of first contribution: keyed   *)
(* by the mixed-radix integer of the whole layout while it fits a machine  *)
(* word, by the occupation itself otherwise.                               *)
(***************************************************************************)
FullStride(dims, a) == ProductOver(a + 1..Len(dims), LAMBDA b : dims[b])
EncodeFull(dims, values) == SumOver(DOMAIN dims, LAMBDA a : values[a] * FullStride(dims, a))
DecodeFull(dims, key) == [a \in DOMAIN dims |-> (key \div FullStride(dims, a)) % dims[a]]

KeyOf(wide, dims, values) == IF wide THEN values ELSE EncodeFull(dims, values)
ValuesOf(wide, dims, key) == IF wide THEN key ELSE DecodeFull(dims, key)

Insert(entries, capacity, key, value) ==
    LET at == {k \in DOMAIN entries : entries[k][1] = key} IN
    IF at # {} THEN [entries EXCEPT ![Min(at)][2] = Plus(@, value)]
    ELSE IF Len(entries) = capacity THEN Failed("MemoryLimit")
    ELSE Append(entries, <<key, value>>)

Destinations(layout, source) ==
    LET add(entries, schedule) ==
            LET s == ApplySchedule(schedule, source, layout) IN
            IF IsDead(s) THEN entries
            ELSE Insert(entries, Len(layout.schedules), KeyOf(layout.wide, layout.dims, s.values), s.amplitude)
        entries == FoldLeft(add, <<>>, layout.schedules)
    IN  [k \in DOMAIN entries |-> State(ValuesOf(layout.wide, layout.dims, entries[k][1]), entries[k][2])]

-----------------------------------------------------------------------------
(***************************************************************************)
(* The physical layout a plan retains and the prepared layout of an        *)
(* operator on it.                                                         *)
(***************************************************************************)
\* Axes of one kind by their index; -1 marks an index no axis has.
PositionsOf(kind, kinds, indices) ==
    LET mine == {a \in DOMAIN kinds : kinds[a] = kind}
        count == IF mine = {} THEN 0 ELSE Max({indices[a] : a \in mine})
        holders(i) == {a \in mine : indices[a] = i}
    IN  IF \E i \in 1..count : Cardinality(holders(i)) # 1 THEN Failed("InvalidSector")
        ELSE [positions |-> [i \in 1..count |-> Min(holders(i))]]

NativeLayout(dims, kinds, indices) ==
    LET p(kind) == PositionsOf(kind, kinds, indices)
        qudits == p(3).positions
        d == IF qudits = <<>> THEN 0 ELSE dims[qudits[1]]
    IN  IF Len(kinds) # Len(dims) \/ Len(indices) # Len(dims) THEN Failed("InvalidStructureLength")
        ELSE IF \/ \E kind \in 0..3 : IsFailed(p(kind))
                \/ \E k \in DOMAIN qudits : dims[qudits[k]] # d
        THEN Failed("InvalidSector")
        ELSE [dims |-> dims, fermions |-> p(0).positions, bosons |-> p(1).positions,
              qubits |-> p(2).positions, qudits |-> qudits, quditDimension |-> d]

\* 128 bytes of headers and 8 for every entry of the five lists.
NativeLayoutBytes(l) ==
    128 + 8 * (Len(l.dims) + Len(l.fermions) + Len(l.bosons) + Len(l.qubits) + Len(l.qudits))

\* charge_sector_plan_compact: the layout is paid for out of the same budget.
CompactPlan(dims, kinds, indices, weights, target, limit) ==
    LET layout == NativeLayout(dims, kinds, indices) IN
    IF IsFailed(layout) THEN layout
    ELSE IF NativeLayoutBytes(layout) > limit THEN Failed("MemoryLimit")
    ELSE BuildCompactPlan(dims, kinds, indices, weights, target, limit - NativeLayoutBytes(layout))

TermsBytes(terms) ==
    SumOver(DOMAIN terms, LAMBDA k :
        168 + 4 * (Len(terms[k].creation) + Len(terms[k].annihilation))
            + 12 * (Len(terms[k].bosons) + Len(terms[k].qudits))
            + Len(terms[k].qubits) + Len(terms[k].mappedCodes))

QuditsAreCanonical(t, nsites, d) ==
    /\ t.quditPresent \/ t.qudits = <<>>
    /\ \A k \in 2..Len(t.qudits) : t.qudits[k - 1][1] < t.qudits[k][1]
    /\ \A k \in DOMAIN t.qudits : t.qudits[k][1] < nsites /\ t.qudits[k][2] < d /\ t.qudits[k][3] < d

\* Schedules of 224 bytes, their operations and masks, and the strides.
PreparedBytes(layout) ==
    LET modes == Len(layout.fermions)
        ops(x) == Len(x.bosons) + Len(x.paulis) + Len(x.qudits)
        mask(x) == IF IsNone(x.mask) THEN 0 ELSE 32 * PackedWordCount(modes) + 8 * modes
    IN  NativeLayoutBytes(layout) - 128 + (IF layout.wide THEN 0 ELSE 8 * Len(layout.dims))
        + SumOver(DOMAIN layout.schedules, LAMBDA k :
              224 + 16 * ops(layout.schedules[k]) + mask(layout.schedules[k]))

\* wide says that the full radix overflows a machine word of that many states.
PrepareLayout(native, terms, word, limit) ==
    LET prepared == native @@ [schedules |-> [k \in DOMAIN terms |-> Schedule(native, terms[k])],
                               wide |-> FullStride(native.dims, 0) > word]
        shaped(t) == /\ Len(t.qubits) = Len(native.qubits)
                     /\ Len(t.mappedCodes) = Len(native.fermions)
                     /\ t.mapped => t.creation = <<>> /\ t.annihilation = <<>>
        wrong == {k \in DOMAIN terms : \/ ~shaped(terms[k])
                                       \/ ~QuditsAreCanonical(terms[k], Len(native.qudits), native.quditDimension)}
    IN  IF \E a \in DOMAIN native.dims : native.dims[a] = 0 THEN Failed("InvalidSector")
        ELSE IF wrong # {} THEN Failed(IF shaped(terms[Min(wrong)]) THEN "NonCanonicalTerms" ELSE "InvalidSector")
        ELSE IF \E k \in DOMAIN terms : \E b \in DOMAIN terms[k].bosons :
                    terms[k].bosons[b][1] >= Len(native.bosons)
        THEN Failed("InvalidSector")
        ELSE IF PreparedBytes(prepared) > limit THEN Failed("MemoryLimit")
        ELSE prepared

\* Does every term keep every charge, whatever state it meets?
TermwiseConserved(terms, weights) ==
    LET fermions(w, modes) == SumOver(DOMAIN modes, LAMBDA k : w[1][modes[k] + 1])
        bosons(w, t) == SumOver(DOMAIN t.bosons, LAMBDA k :
                            w[2][t.bosons[k][1] + 1] * (t.bosons[k][2] - t.bosons[k][3]))
    IN  \A k \in DOMAIN terms, r \in DOMAIN weights :
            LET t == terms[k]
                w == weights[r]
            IN  /\ ~t.mapped
                /\ \A s \in DOMAIN t.qudits : t.qudits[s][2] = 0 \/ w[4][t.qudits[s][1] + 1] = 0
                /\ fermions(w, t.creation) - fermions(w, t.annihilation) + bosons(w, t) = 0
                /\ \A q \in DOMAIN t.qubits : t.qubits[q] \in {1, 2} => w[3][q][1] = w[3][q][2]
=============================================================================
