---------------------------- MODULE TapeLowering ----------------------------
(***************************************************************************)
(* How a circuit facade becomes a native tape: _build_tape of              *)
(* propagation_circuit.py numbers the parameters, GateTape of              *)
(* propagation.py packs each gate into a flat tuple, compile_operation of  *)
(* the native crate unpacks it, and the engine returns one derivative per  *)
(* slot.  Pure definitions.                                                *)
(*                                                                         *)
(* Wires and matrices are left out: nothing here looks at them.  A         *)
(* parameter value is an integer; values of channels are not negative,     *)
(* which the packing relies on.                                            *)
(***************************************************************************)
EXTENDS Integers, Sequences, SequencesExt, FiniteSets

\* The parameters of each kind of operation: fixed gates and matrices have none.
Arity == [fixed |-> 0, rotation |-> 1, depolarizing |-> 3,
          phasedamping |-> 1, amplitudedamping |-> 2]
Kinds == DOMAIN Arity
ChannelKinds == {"depolarizing", "phasedamping", "amplitudedamping"}

\* An entry of _operations: theta or channel_parameters are the values.
Operation(kind, values) == [kind |-> kind, values |-> values]

AngleCount(ops) == Cardinality({i \in DOMAIN ops : ops[i].kind = "rotation"})

\* The values of the operations of some kinds, in occurrence order.
ValuesOf(ops, kinds) ==
  FlattenSeq([i \in DOMAIN ops |-> IF ops[i].kind \in kinds THEN ops[i].values ELSE <<>>])

\* The flat vector: all angles, then all channel values.
ParameterValues(ops) == ValuesOf(ops, {"rotation"}) \o ValuesOf(ops, ChannelKinds)

\* Entry j of the channel gradient is about the parameter this names.
ChannelParameterLayout(ops) ==
  FlattenSeq([i \in DOMAIN ops |->
    IF ops[i].kind \in ChannelKinds
    THEN [k \in DOMAIN ops[i].values |-> [operation |-> i, parameter |-> k]]
    ELSE <<>>])

---------------------------------------------------------------------------
(* GateTape: a parameter is a static value or a slot; the first one has    *)
(* fields of its own, a slot among the others is sent as a negative number.*)

Static(v) == [value |-> v, slot |-> -1]
Slot(s) == [value |-> 0, slot |-> s]

\* Faulty: a slot among the later parameters is negated without the shift.
PackedUnshifted(ref) == IF ref.slot = -1 THEN ref.value ELSE -ref.slot

Packed(ref) == IF ref.slot = -1 THEN ref.value ELSE -(ref.slot + 1)

PackGate(kind, refs) ==
  LET first == IF refs = <<>> THEN Static(0) ELSE Head(refs)
  IN  [kind |-> kind, parameter |-> first.slot, angle |-> first.value,
       payload |-> [k \in 1 .. Len(refs) - 1 |-> Packed(refs[k + 1])]]

\* Channels are numbered after all the angles.
FirstChannelSlot(ops) == AngleCount(ops)

\* Refs of the next operation, when so many slots of each sort are taken.
Refs(op, gradient, slots) ==
  [k \in DOMAIN op.values |->
     IF ~gradient THEN Static(op.values[k])
     ELSE IF op.kind = "rotation" THEN Slot(slots.angle)
     ELSE Slot(slots.channel + k - 1)]

NextSlots(op, gradient, slots) ==
  [angle |-> IF op.kind = "rotation" THEN slots.angle + 1 ELSE slots.angle,
   channel |-> IF gradient /\ op.kind \in ChannelKinds
               THEN slots.channel + Arity[op.kind] ELSE slots.channel]

BuildTape(ops, gradient) ==
  LET slots[n \in 0 .. Len(ops)] ==
        IF n = 0 THEN [angle |-> 0, channel |-> FirstChannelSlot(ops)]
        ELSE NextSlots(ops[n], gradient, slots[n - 1])
  IN  [i \in DOMAIN ops |->
         PackGate(ops[i].kind, Refs(ops[i], gradient, slots[i - 1]))]

\* from_circuit reads a converted tape back; every value must be static.
OperationFromTape(gate) ==
  Operation(gate.kind,
    IF gate.kind = "fixed" THEN <<>> ELSE <<gate.angle>> \o gate.payload)
Concrete(gate) ==
  /\ gate.parameter = -1
  /\ \A k \in DOMAIN gate.payload : gate.payload[k] >= 0

---------------------------------------------------------------------------
(* The native side.                                                        *)

DecodeScalarRef(parameter, value) ==
  IF parameter = -1 THEN Static(value) ELSE Slot(parameter)
DecodeScalarValue(value) == IF value < 0 THEN Slot(-value - 1) ELSE Static(value)

CompileOperation(gate) ==
  IF gate.kind = "fixed" THEN <<>>
  ELSE <<DecodeScalarRef(gate.parameter, gate.angle)>>
         \o [k \in DOMAIN gate.payload |-> DecodeScalarValue(gate.payload[k])]

\* The compiled gates: what each does and where its parameters come from.
CompileTape(tape) ==
  [i \in DOMAIN tape |->
     [kind |-> tape[i].kind, refs |-> CompileOperation(tape[i])]]

SlotsOfGate(gate) == {gate.refs[k].slot : k \in DOMAIN gate.refs} \ {-1}
SlotsOfTape(gates) == UNION {SlotsOfGate(gates[i]) : i \in DOMAIN gates}
TapeParameters(gates) == Cardinality(SlotsOfTape(gates))

\* PropagationTape::new refuses slots with holes.
SlotsCover(gates) == SlotsOfTape(gates) = 0 .. TapeParameters(gates) - 1

\* What a gate applies, given the parameter vector of the call.
ResolvedGate(gate, parameters) ==
  [kind |-> gate.kind,
   values |-> [k \in DOMAIN gate.refs |->
     IF gate.refs[k].slot = -1 THEN gate.refs[k].value
     ELSE parameters[gate.refs[k].slot + 1]]]

\* The derivative of a slot collects the contributions of these parameters.
Contributors(gates, slot) ==
  UNION {{[operation |-> i, parameter |-> k] :
            k \in {k \in DOMAIN gates[i].refs : gates[i].refs[k].slot = slot}} :
         i \in DOMAIN gates}

Failed(error) == [error |-> error]

\* One call of an engine: the gates it applies and its gradient, slot by slot.
\* The engine checks the length of the vector.
Evaluate(gates, parameters) ==
  IF Len(parameters) # TapeParameters(gates) THEN Failed("ValueError")
  ELSE [applied |-> [i \in DOMAIN gates |-> ResolvedGate(gates[i], parameters)],
        gradient |-> [s \in DOMAIN parameters |-> Contributors(gates, s - 1)]]
=============================================================================
