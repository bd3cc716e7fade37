---------------------------- MODULE Propagation ----------------------------
(***************************************************************************)
(* One call of a propagation engine (propagation.rs): compiling the tape,  *)
(* the forward pass of expectation/profile or of value_and_grad, and the   *)
(* reverse pass, which keeps only some of the forward states (checkpoints) *)
(* and replays the blocks between them.  Tape and engine are immutable and *)
(* everything a call changes is local to it, so calls do not interact.     *)
(***************************************************************************)
EXTENDS PauliKernels

CONSTANTS
  Calls,         \* what is called: see CallsAssumption
  TermBytes      \* dynamic_term_storage_bytes, like every size here in units of 8 bytes

NoInterval == -1   \* checkpoint_interval=None

ASSUME CallsAssumption ==
  \A c \in Calls :
    /\ c.entry \in {"profile", "gradient"}
    /\ c.cutoff \in 0 .. NQubits        \* NQubits: exact
    /\ c.interval \in Nat \cup {NoInterval}
    /\ c.limit \in Nat
    /\ c.ops \in Seq(Range(c.ops)) /\ \A i \in DOMAIN c.ops : IsOperation(c.ops[i])
    /\ c.values \in Seq(Range(c.values)) /\ \A i \in DOMAIN c.values : IsScalar(c.values[i])
    /\ c.state \in [Wires -> [1 .. 4 -> Int]]
    \* A PauliOperator is canonical: in code order, no zeros.
    /\ c.observable \in Seq(Terms)
    /\ \A i \in DOMAIN c.observable : c.observable[i].c # 0
    /\ \A i \in 1 .. Len(c.observable) - 1 :
         CodeLess(c.observable[i].key, c.observable[i + 1].key)

ASSUME TermBytesAssumption == TermBytes \in Nat \ {0}

VARIABLES
  call,
  phase,
  error,
  step,         \* gates done by the forward pass
  terms,        \* current: the state after them
  peak,         \* of a profile: the most terms, the most bytes
  checkpoints,
  charged,      \* checkpoint_bytes
  value,
  lambda,       \* the adjoints of the state the reverse pass has come back to
  gradient,     \* per slot
  at,           \* checkpoint_index: the block being reversed starts at this checkpoint
  block,        \* block_states, those not yet reversed
  trace,        \* every forward state: not kept by the code
  tangents      \* and the derivative of each, per slot: not kept by the code

local == <<peak, checkpoints, charged, value, lambda, gradient, at, block>>
ghosts == <<trace, tangents>>
vars == <<call, phase, error, step, terms, peak, checkpoints, charged, value, lambda,
          gradient, at, block, trace, tangents>>

---------------------------------------------------------------------------
Gates == Len(call.ops)
\* Gates are applied last first.
OpAt(k) == call.ops[Gates - k]

Slots == UNION {SlotsOf(call.ops[i]) : i \in DOMAIN call.ops}
NParameters == Cardinality(Slots)
ParameterSlots == 0 .. NParameters - 1

Bytes(states) == TermBytes * SumOver(states, Len)
OperationBytes(op) == IF op.kind = "ptm" THEN SumOver(op.rows, Len) ELSE 1
TransitionBytes == SumOver(call.ops, OperationBytes)

Interval ==
  IF call.interval # NoInterval THEN call.interval
  ELSE CHOOSE k \in 1 .. Gates + 1 : k * k >= Gates + 1 /\ (k - 1) * (k - 1) < Gates + 1

Zeros == [w \in Words |-> 0]

Init ==
  /\ call \in Calls
  /\ phase = "called"
  /\ error = "none"
  /\ step = 0
  /\ terms = InitialTerms(call.observable, call.cutoff)
  /\ peak = [terms |-> 0, bytes |-> 0]
  /\ checkpoints = <<>> /\ charged = 0
  /\ value = 0
  /\ lambda = <<>>
  /\ gradient = [s \in ParameterSlots |-> 0]
  /\ at = 0
  /\ block = <<>>
  /\ trace = <<terms>>
  /\ tangents = <<[s \in ParameterSlots |-> Zeros]>>

Fail(reason) ==
  /\ phase' = "failed"
  /\ error' = reason
  /\ UNCHANGED <<call, step, terms, local, ghosts>>

\* PropagationTape::new and from_program.
Compile ==
  /\ phase = "called"
  /\ IF Slots # ParameterSlots THEN Fail("InvalidSlots")
     ELSE IF TransitionBytes + TermBytes * Len(call.observable) > call.limit
     THEN Fail("MemoryLimit")
     ELSE /\ phase' = "compiled"
          /\ UNCHANGED <<call, error, step, terms, local, ghosts>>

Begin ==
  /\ phase = "compiled"
  /\ IF Len(call.values) # NParameters THEN Fail("InvalidParameterLength")
     ELSE IF call.entry = "gradient" /\ call.interval = 0
     THEN Fail("InvalidCheckpointInterval")
     ELSE IF Bytes(<<terms>>) > call.limit THEN Fail("MemoryLimit")
     ELSE /\ phase' = "forward"
          /\ IF call.entry = "profile"
             THEN /\ peak' = [terms |-> Len(terms), bytes |-> Bytes(<<terms>>)]
                  /\ UNCHANGED <<checkpoints, charged>>
             ELSE /\ checkpoints' = <<[boundary |-> 0, terms |-> terms]>>
                  /\ charged' = Bytes(<<terms>>)
                  /\ UNCHANGED peak
          /\ UNCHANGED <<call, error, step, terms, value, lambda, gradient, at, block, ghosts>>

\* What the edges from v to w carry into the derivative of the state after an operation,
\* given that of the state before it.
Carried(op, values, before, tangent, slot, v, w) ==
  SumOver(Edges(op, v, values), LAMBDA e :
    IF e.m # 0 /\ e.key = w THEN e.m * tangent[v] + Collect(before, v) * Derivative(e, slot)
    ELSE 0)

\* That derivative, along the edges the step retains.
NextTangent(op, values, before, after, tangent, slot) ==
  [w \in Words |->
     IF w \in KeysOf(after)
     THEN SumFunction([v \in KeysOf(before) |->
                        Carried(op, values, before, tangent, slot, v, w)])
     ELSE 0]

\* apply_operation.
Apply(op, next) ==
  /\ step' = step + 1
  /\ terms' = next
  /\ trace' = Append(trace, next)
  /\ tangents' = Append(tangents,
                   [s \in ParameterSlots |->
                      NextTangent(op, call.values, terms, next, Last(tangents)[s], s)])

PeakTerms(next) == IF Len(next) > peak.terms THEN Len(next) ELSE peak.terms

\* One gate of propagate_dynamic.
ProfileGate ==
  /\ phase = "forward" /\ call.entry = "profile" /\ step < Gates
  /\ LET op == OpAt(step)
         candidates == TermBytes * Len(terms) * BranchFactor(op)
         next == ApplyOperation(op, terms, call.values, call.cutoff)
         bytes == CHOOSE b \in {peak.bytes, candidates, Bytes(<<next>>)} :
                    b >= peak.bytes /\ b >= candidates /\ b >= Bytes(<<next>>)
     IN  IF candidates > call.limit THEN Fail("MemoryLimit")
         ELSE IF ~ValidChannel(op, call.values) THEN Fail("InvalidChannel")
         ELSE /\ Apply(op, next)
              /\ peak' = [terms |-> PeakTerms(next), bytes |-> bytes]
              /\ UNCHANGED <<call, phase, error, checkpoints, charged, value, lambda, gradient,
                             at, block>>

\* One gate of value_and_grad's forward pass.
IsBoundary(k) == k % Interval = 0 \/ k = Gates

GradientGate ==
  /\ phase = "forward" /\ call.entry = "gradient" /\ step < Gates
  /\ LET op == OpAt(step)
         next == ApplyOperation(op, terms, call.values, call.cutoff)
     IN  IF ~ValidChannel(op, call.values) THEN Fail("InvalidChannel")
         ELSE IF IsBoundary(step + 1) /\ charged + Bytes(<<next>>) > call.limit
         THEN Fail("MemoryLimit")
         ELSE /\ Apply(op, next)
              /\ IF IsBoundary(step + 1)
                 THEN /\ checkpoints' =
                           Append(checkpoints, [boundary |-> step + 1, terms |-> next])
                      /\ charged' = charged + Bytes(<<next>>)
                 ELSE UNCHANGED <<checkpoints, charged>>
              /\ UNCHANGED <<call, phase, error, peak, value, lambda, gradient, at, block>>

ProfileAnswer ==
  /\ phase = "forward" /\ call.entry = "profile" /\ step = Gates
  /\ value' = Expectation(terms, call.state)
  /\ phase' = "done"
  /\ UNCHANGED <<call, error, step, terms, peak, checkpoints, charged, lambda, gradient, at,
                 block, ghosts>>

\* The value, the final adjoints, and the gradient's own storage check.
StartReverse ==
  /\ phase = "forward" /\ call.entry = "gradient" /\ step = Gates
  /\ IF NParameters > call.limit THEN Fail("MemoryLimit")
     ELSE /\ value' = Expectation(terms, call.state)
          /\ lambda' = [i \in DOMAIN terms |-> WordExpectation(terms[i].key, call.state)]
          /\ at' = Len(checkpoints) - 1
          /\ phase' = IF Len(checkpoints) = 1 THEN "done" ELSE "reverse"
          /\ UNCHANGED <<call, error, step, terms, peak, checkpoints, charged, gradient,
                         block, ghosts>>

BlockStart == checkpoints[at].boundary
BlockEnd == checkpoints[at + 1].boundary

\* A block of one gate needs no replay: both its states are checkpoints.
OpenBlock ==
  /\ phase = "reverse"
  /\ IF BlockEnd - BlockStart = 1
     THEN /\ block' = <<checkpoints[at].terms, checkpoints[at + 1].terms>>
          /\ phase' = "frames"
     ELSE /\ block' = <<checkpoints[at].terms>>
          /\ phase' = "replay"
  /\ UNCHANGED <<call, error, step, terms, peak, checkpoints, charged, value, lambda, gradient,
                 at, ghosts>>

\* The gate after the last state of the block.  Faulty: one gate on.
ReplayOpNext == OpAt(BlockStart + Len(block))

ReplayOp == OpAt(BlockStart + Len(block) - 1)

ReplayGate ==
  /\ phase = "replay"
  /\ LET op == ReplayOp
         replayed == Append(block, ApplyOperation(op, Last(block), call.values, call.cutoff))
     IN  IF Bytes(replayed) > call.limit THEN Fail("MemoryLimit")
         ELSE /\ block' = replayed
              /\ phase' = IF BlockStart + Len(replayed) - 1 = BlockEnd THEN "frames" ELSE "replay"
              /\ UNCHANGED <<call, error, step, terms, peak, checkpoints, charged, value, lambda,
                             gradient, at, ghosts>>

\* Faulty: the index does not move.
NextBlockStays ==
  /\ block' = <<>> /\ at' = at
  /\ phase' = IF at = 1 THEN "done" ELSE "reverse"

NextBlock ==
  /\ block' = <<>> /\ at' = at - 1
  /\ phase' = IF at = 1 THEN "done" ELSE "reverse"

\* reverse_frame on the last two states of the block.
ReverseFrame ==
  /\ phase = "frames"
  /\ LET n == Len(block)
         op == OpAt(BlockStart + n - 2)
     IN  /\ lambda' = InputAdjoint(op, block[n - 1], block[n], call.values, call.cutoff, lambda)
         /\ gradient' = [s \in DOMAIN gradient |->
              gradient[s] +
                FrameGradient(op, block[n - 1], block[n], call.values, call.cutoff, lambda, s)]
         /\ IF n > 2
            THEN /\ block' = SubSeq(block, 1, n - 1)
                 /\ UNCHANGED <<at, phase>>
            ELSE NextBlock
  /\ UNCHANGED <<call, error, step, terms, peak, checkpoints, charged, value, ghosts>>

Returned == phase \in {"done", "failed"} /\ UNCHANGED vars

Next ==
  \/ Compile \/ Begin \/ ProfileGate \/ GradientGate \/ ProfileAnswer
  \/ StartReverse \/ OpenBlock \/ ReplayGate \/ ReverseFrame \/ Returned

Spec == Init /\ [][Next]_vars

---------------------------------------------------------------------------
(* Properties                                                              *)

Phases == {"called", "compiled", "forward", "reverse", "replay", "frames", "done", "failed"}
Errors == {"none", "InvalidSlots", "MemoryLimit", "InvalidParameterLength",
           "InvalidCheckpointInterval", "InvalidChannel"}

\* Variables hold the values value_and_grad and propagate_dynamic keep in them; the
\* adjoints are those of the state the reverse pass has come back to.
TypeOK ==
  /\ call \in Calls
  /\ phase \in Phases
  /\ error \in Errors /\ (error # "none" <=> phase = "failed")
  /\ step \in 0 .. Gates /\ at \in 0 .. Gates
  /\ terms \in Seq(Terms) /\ terms = Last(trace) /\ Len(trace) = step + 1
  /\ \A i \in DOMAIN checkpoints : checkpoints[i].boundary \in 0 .. Gates
  /\ {value, charged, peak.terms, peak.bytes} \subseteq Int
  /\ gradient \in [ParameterSlots -> Int]
  /\ lambda \in Seq(Int)
  /\ phase = "reverse" => Len(lambda) = Len(checkpoints[at + 1].terms)
  /\ phase = "frames" => Len(lambda) = Len(Last(block))

\* From a state in key order every gate, amplitude damping too, leaves distinct words:
\* what merge_amplitude_split needs of its input.
OrderedStaysDistinct ==
  [][(step' = step + 1 /\ \A i, j \in DOMAIN terms : i < j => KeyLess(terms[i].key, terms[j].key))
       => Distinct(terms')]_vars

\* Whatever the checkpoint interval, the reverse pass works on the states the forward
\* pass went through, each with the gate between them: checkpoints are complete and in
\* order, and replaying a block from its checkpoint gives the forward states again.
FramesReplay ==
  /\ \A i \in DOMAIN checkpoints : checkpoints[i].terms = trace[checkpoints[i].boundary + 1]
  /\ phase \in {"replay", "frames"} =>
       \A i \in DOMAIN block : block[i] = trace[BlockStart + i]
  /\ phase = "frames" =>
       /\ BlockStart + Len(block) - 1 <= BlockEnd
       /\ block[Len(block)] = ApplyOperation(OpAt(BlockStart + Len(block) - 2),
                                block[Len(block) - 1], call.values, call.cutoff)
  /\ phase = "reverse" => at >= 1 /\ checkpoints[Len(checkpoints)].boundary = Gates

\* A gradient is the derivative of the value along the words and edges the forward
\* pass kept: reverse accumulation over checkpoints equals carrying the derivative
\* forwards, slots shared by several gates included.
GradientIsTangent ==
  (phase = "done" /\ call.entry = "gradient") =>
     \A s \in ParameterSlots :
       gradient[s] = SumFunction(
         [w \in Words |-> Last(tangents)[s][w] * WordExpectation(w, call.state)])

\* A call that returns never held a state over the limit, although the forward pass of
\* value_and_grad checks only the states it keeps.
BudgetHeld ==
  phase = "done" => \A i \in DOMAIN trace : Bytes(<<trace[i]>>) <= call.limit

Recurrence == INSTANCE PauliRecurrence WITH
  status <- IF phase \in {"done", "failed"} THEN phase ELSE "running",
  image  <- [w \in Words |-> Collect(terms, w)],
  answer <- IF phase = "done" THEN value ELSE 0

\* Every call follows the recurrence of projected Heisenberg images and answers its
\* expectation, or fails and answers nothing.
ImplementsRecurrence == Recurrence!Spec

\* The words an explicit transfer matrix with the gate's entries would leave.
AsMatrix(op) ==
  Aggregate(FlattenSeq([i \in DOMAIN terms |->
    LET edges == Edges(op, terms[i].key, call.values)
    IN  [j \in DOMAIN edges |-> Term(edges[j].key, terms[i].c * edges[j].m)]]), call.cutoff)

\* What the channel specification says: an amplitude damping leaves the same canonical
\* words and coefficients as the corresponding explicit transfer matrix.
DampingMatchesMatrix ==
  [][(step' = step + 1 /\ OpAt(step).kind = "amplitudedamping")
       => ToSet(terms') = ToSet(AsMatrix(OpAt(step)))]_vars
=============================================================================
