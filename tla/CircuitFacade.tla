--------------------------- MODULE CircuitFacade ---------------------------
(***************************************************************************)
(* PropagationCircuit (python/tencirpauli/propagation_circuit.py): a list  *)
(* of operations with three caches, a forward tape, a gradient tape and    *)
(* the last objective, each stamped with the generation of the list; and   *)
(* the native handle a GateTape (propagation.py) keeps for itself.         *)
(*                                                                         *)
(* Objectives are found again by the identity of their inputs, that is by  *)
(* an address, which the allocator may reuse once the object there is      *)
(* gone.  An input stands for the observable and the initial state, which  *)
(* the code treats alike.                                                  *)
(*                                                                         *)
(* Terminals may run in several threads, appends may not run beside them.  *)
(* CPython, from the oldest version the project admits, hands the GIL over *)
(* only at calls and backward jumps, so the test and the use of a cache    *)
(* entry within one statement, with no call between, are one step.         *)
(***************************************************************************)
EXTENDS TapeLowering

CONSTANTS
  Threads,      \* threads that call terminals
  Addresses,    \* what id() returns
  Inputs,       \* the contents of observables and states
  Free,         \* what an address without an object holds
  NoCache,      \* None in a cache
  Weights,      \* max_weight values
  Limits,       \* max_bytes values
  TapeRoom,     \* gates a tape can have under each limit
  EngineRoom,   \* inputs an engine can be built for under each limit
  Converted,    \* operations a circuit can be converted from
  Appended,     \* bound: the kinds of operation appended later
  MaxGates,     \* bound: operations of a circuit
  MaxCalls      \* bound: terminals called

\* Operations as _append and _operation_from_tape validate them.
WellFormed(list) ==
  /\ list \in Seq([kind : Kinds, values : Seq(Int)])
  /\ \A i \in DOMAIN list :
       /\ Len(list[i].values) = Arity[list[i].kind]
       /\ list[i].kind \in ChannelKinds => list[i].values \in Seq(Nat)

ASSUME FacadeAssumption ==
  /\ \A list \in Converted : WellFormed(list)
  /\ Free \notin Inputs
  /\ Appended \subseteq Kinds
  /\ MaxGates \in Nat /\ MaxCalls \in Nat
  /\ TapeRoom \in [Limits -> Nat]
  /\ EngineRoom \in [Limits -> SUBSET Inputs]

VARIABLES
  ops,          \* _operations
  generation,   \* _generation
  tapes,        \* the GateTape objects built, with their _native_cache
  tapeCache,    \* _forward_tape_cache and _gradient_tape_cache
  objectiveCache,
  heap,         \* the object at each address
  pc, call, seen,  \* per thread: position, arguments, locals
  returned,     \* what the step just taken returned to its caller, if it did
  calls         \* terminals called so far

vars == <<ops, generation, tapes, tapeCache, objectiveCache, heap,
          pc, call, seen, returned, calls>>

Terminals == {"expectation", "value_and_grad", "expectation_jax"}
\* The locals of a terminal before it found anything.
Nothing == [tape |-> 0, handle |-> NoCache, objective |-> NoCache]

NeedsGradient(c) == c.terminal # "expectation"

\* Values tell parameters apart: the next operation's are fresh.
FreshValues(kind) ==
  [k \in 1 .. Arity[kind] |-> Len(ValuesOf(ops, Kinds)) + k - 1]

---------------------------------------------------------------------------
(* What a terminal returns, given the compiled tape of its engine.         *)

\* Faulty: the channels are taken from the front.
SplitChannelsFirst(gradient, angles) ==
  [angles |-> SubSeq(gradient, Len(gradient) - angles + 1, Len(gradient)),
   channels |-> SubSeq(gradient, 1, Len(gradient) - angles)]

\* value_and_grad cuts the native gradient after the angles.
SplitGradient(gradient, angles) ==
  [angles |-> SubSeq(gradient, 1, angles),
   channels |-> SubSeq(gradient, angles + 1, Len(gradient))]

\* A static tape is called with no parameters.  value_and_grad collects the
\* parameters of the circuit, expectation_jax those kept in the objective.
Arguments(c, objective) ==
  CASE c.terminal = "expectation"     -> <<>>
    [] c.terminal = "value_and_grad"  -> ParameterValues(ops)
    [] c.terminal = "expectation_jax" -> objective.parameters

Answer(c, objective) ==
  LET values == Evaluate(objective.engine.gates, Arguments(c, objective))
  IN  IF values = Failed("ValueError") THEN values
      ELSE [applied |-> values.applied,
            input |-> objective.engine.input,
            weight |-> objective.engine.weight,
            gradient |-> IF NeedsGradient(c)
                         THEN SplitGradient(values.gradient, AngleCount(ops))
                         ELSE <<>>]

Objective(gates, input, weight) ==
  [engine |-> [gates |-> gates, input |-> input, weight |-> weight],
   parameters |-> ParameterValues(ops)]

\* Why the native side refuses a tape.
TapeError(tape, limit) ==
  IF ~SlotsCover(CompileTape(tape)) THEN "ValueError"
  ELSE IF Len(tape) > TapeRoom[limit] THEN "MemoryError"
  ELSE "none"

\* What a circuit with the same operations and empty caches returns.
Uncached(c) ==
  LET tape == BuildTape(ops, NeedsGradient(c))
      input == heap[c.address]
  IN  IF TapeError(tape, c.limit) # "none" THEN Failed(TapeError(tape, c.limit))
      ELSE IF input \notin EngineRoom[c.limit] THEN Failed("MemoryError")
      ELSE Answer(c, Objective(CompileTape(tape), input, c.weight))

---------------------------------------------------------------------------

Idle == \A t \in Threads : pc[t] = "idle"

Init ==
  /\ ops \in Converted
  /\ generation = Len(ops)
  /\ tapes = <<>>
  /\ tapeCache = [gradient \in BOOLEAN |-> NoCache]
  /\ objectiveCache = NoCache
  /\ heap = [a \in Addresses |-> Free]
  /\ pc = [t \in Threads |-> "idle"]
  /\ call = [t \in Threads |-> NoCache]
  /\ seen = [t \in Threads |-> Nothing]
  /\ returned = NoCache
  /\ calls = 0

\* Faulty: the branch of _append for channels forgets the generation and the caches.
InvalidateGatesOnly(kind) ==
  IF kind \in ChannelKinds
  THEN UNCHANGED <<generation, tapeCache, objectiveCache>>
  ELSE /\ generation' = generation + 1
       /\ tapeCache' = [gradient \in BOOLEAN |-> NoCache]
       /\ objectiveCache' = NoCache

Invalidate(kind) ==
  /\ generation' = generation + 1
  /\ tapeCache' = [gradient \in BOOLEAN |-> NoCache]
  /\ objectiveCache' = NoCache

AppendGate(kind) ==
  /\ Idle
  /\ Len(ops) < MaxGates
  /\ ops' = Append(ops, Operation(kind, FreshValues(kind)))
  /\ Invalidate(kind)
  /\ returned' = NoCache
  /\ UNCHANGED <<tapes, heap, pc, call, seen, calls>>

\* The caller creates an observable; the allocator picks a free address.
Allocate(a, input) ==
  /\ heap[a] = Free
  /\ heap' = [heap EXCEPT ![a] = input]
  /\ returned' = NoCache
  /\ UNCHANGED <<ops, generation, tapes, tapeCache, objectiveCache,
                 pc, call, seen, calls>>

\* Faulty: the cache entry does not hold on to its inputs.
CachePinsNothing(a) == FALSE

\* The cache entry holds a reference to the objects whose ids are in its key.
CachePins(a) == objectiveCache # NoCache /\ objectiveCache.pinned = a

InUse(a) == \E t \in Threads : pc[t] # "idle" /\ call[t].address = a

\* The last reference is dropped and the object goes.
Reclaim(a) ==
  /\ heap[a] # Free
  /\ ~CachePins(a)
  /\ ~InUse(a)
  /\ heap' = [heap EXCEPT ![a] = Free]
  /\ returned' = NoCache
  /\ UNCHANGED <<ops, generation, tapes, tapeCache, objectiveCache,
                 pc, call, seen, calls>>

Calls == [terminal : Terminals, address : Addresses, weight : Weights, limit : Limits]

Call(t, c) ==
  /\ pc[t] = "idle"
  /\ calls < MaxCalls
  /\ heap[c.address] # Free
  /\ calls' = calls + 1
  /\ call' = [call EXCEPT ![t] = c]
  /\ pc' = [pc EXCEPT ![t] = "lookup"]
  /\ returned' = NoCache
  /\ UNCHANGED <<ops, generation, tapes, tapeCache, objectiveCache, heap, seen>>

Key(c) ==
  [generation |-> generation, address |-> c.address, weight |-> c.weight,
   limit |-> c.limit, gradient |-> NeedsGradient(c)]

\* The objective of the last terminal serves again if every part of its key agrees.
Lookup(t) ==
  /\ pc[t] = "lookup"
  /\ IF objectiveCache # NoCache /\ objectiveCache.key = Key(call[t])
     THEN /\ seen' = [seen EXCEPT ![t] = [Nothing EXCEPT !.objective = objectiveCache.objective]]
          /\ pc' = [pc EXCEPT ![t] = "evaluate"]
     ELSE /\ pc' = [pc EXCEPT ![t] = "tape"]
          /\ UNCHANGED seen
  /\ returned' = NoCache
  /\ UNCHANGED <<ops, generation, tapes, tapeCache, objectiveCache, heap,
                 call, calls>>

\* _native_tape: the cached tape, if it is of this generation.
FindTape(t) ==
  LET cache == tapeCache[NeedsGradient(call[t])]
  IN  /\ pc[t] = "tape"
      /\ IF cache # NoCache /\ cache.generation = generation
         THEN /\ seen' = [seen EXCEPT ![t] = [Nothing EXCEPT !.tape = cache.tape]]
              /\ pc' = [pc EXCEPT ![t] = "handle"]
         ELSE /\ pc' = [pc EXCEPT ![t] = "build"]
              /\ UNCHANGED seen
      /\ returned' = NoCache
      /\ UNCHANGED <<ops, generation, tapes, tapeCache, objectiveCache, heap,
                     call, calls>>

\* A new tape; of two threads that build one the later wins the cache.
LowerCircuit(t) ==
  LET gradient == NeedsGradient(call[t])
  IN  /\ pc[t] = "build"
      /\ tapes' = Append(tapes, [gates |-> BuildTape(ops, gradient), native |-> NoCache])
      /\ tapeCache' = [tapeCache EXCEPT ![gradient] =
                         [generation |-> generation, tape |-> Len(tapes) + 1]]
      /\ seen' = [seen EXCEPT ![t] = [Nothing EXCEPT !.tape = Len(tapes) + 1]]
      /\ pc' = [pc EXCEPT ![t] = "handle"]
      /\ returned' = NoCache
      /\ UNCHANGED <<ops, generation, objectiveCache, heap, call, calls>>

Return(t, answer) ==
  /\ returned' = answer
  /\ pc' = [pc EXCEPT ![t] = "idle"]
  /\ call' = [call EXCEPT ![t] = NoCache]
  /\ seen' = [seen EXCEPT ![t] = Nothing]

\* GateTape._native_handle: compile once per limit.  The tape of a facade is
\* never appended to again, so its version never differs.
FindHandle(t) ==
  LET native == tapes[seen[t].tape].native
  IN  /\ pc[t] = "handle"
      /\ IF native # NoCache /\ native.limit = call[t].limit
         THEN /\ seen' = [seen EXCEPT ![t] = [Nothing EXCEPT !.handle = native.handle]]
              /\ pc' = [pc EXCEPT ![t] = "engine"]
         ELSE /\ pc' = [pc EXCEPT ![t] = "compile"]
              /\ UNCHANGED seen
      /\ returned' = NoCache
      /\ UNCHANGED <<ops, generation, tapes, tapeCache, objectiveCache, heap,
                     call, calls>>

CompileHandle(t) ==
  LET tape == tapes[seen[t].tape].gates
      handle == CompileTape(tape)
      error == TapeError(tape, call[t].limit)
  IN  /\ pc[t] = "compile"
      /\ IF error # "none"
         THEN /\ Return(t, Failed(error))
              /\ UNCHANGED tapes
         ELSE /\ tapes' = [tapes EXCEPT ![seen[t].tape] =
                   [gates |-> tape,
                    native |-> [limit |-> call[t].limit, handle |-> handle]]]
              /\ seen' = [seen EXCEPT ![t] = [Nothing EXCEPT !.handle = handle]]
              /\ pc' = [pc EXCEPT ![t] = "engine"]
              /\ returned' = NoCache
              /\ UNCHANGED call
      /\ UNCHANGED <<ops, generation, tapeCache, objectiveCache, heap, calls>>

\* The engine copies the observable; the entry keeps the objects its key names.
BuildObjective(t) ==
  LET c == call[t]
      objective == Objective(seen[t].handle, heap[c.address], c.weight)
  IN  /\ pc[t] = "engine"
      /\ IF heap[c.address] \notin EngineRoom[c.limit]
         THEN /\ Return(t, Failed("MemoryError"))
              /\ UNCHANGED objectiveCache
         ELSE /\ objectiveCache' = [key |-> Key(c), objective |-> objective,
                                    pinned |-> c.address]
              /\ seen' = [seen EXCEPT ![t] = [Nothing EXCEPT !.objective = objective]]
              /\ pc' = [pc EXCEPT ![t] = "evaluate"]
              /\ returned' = NoCache
              /\ UNCHANGED call
      /\ UNCHANGED <<ops, generation, tapes, tapeCache, heap, calls>>

\* Faulty: the terminal goes back to the cache for its objective.
EvaluatedFromCache(t) == objectiveCache.objective

\* A terminal evaluates the objective _objective returned to it.
Evaluated(t) == seen[t].objective

EvaluateObjective(t) ==
  /\ pc[t] = "evaluate"
  /\ Return(t, Answer(call[t], Evaluated(t)))
  /\ UNCHANGED <<ops, generation, tapes, tapeCache, objectiveCache, heap, calls>>

Step(t) ==
  \/ Lookup(t)
  \/ FindTape(t)
  \/ LowerCircuit(t)
  \/ FindHandle(t)
  \/ CompileHandle(t)
  \/ BuildObjective(t)
  \/ EvaluateObjective(t)

\* The bounds are reached and nobody calls again.
Rest == Idle /\ UNCHANGED vars

Next ==
  \/ \E kind \in Appended : AppendGate(kind)
  \/ \E a \in Addresses : Reclaim(a) \/ \E input \in Inputs : Allocate(a, input)
  \/ \E t \in Threads : Step(t) \/ \E c \in Calls : Call(t, c)
  \/ Rest

Spec == Init /\ [][Next]_vars

---------------------------------------------------------------------------
(* Properties.                                                             *)

\* The types: every cache names a tape that exists and every thread a call.
TypeOK ==
  /\ generation \in Nat
  /\ WellFormed(ops)
  /\ \A gradient \in BOOLEAN : tapeCache[gradient] # NoCache =>
       /\ tapeCache[gradient].generation \in Nat
       /\ tapeCache[gradient].tape \in 1 .. Len(tapes)
  /\ heap \in [Addresses -> Inputs \cup {Free}]
  /\ pc \in [Threads -> {"idle", "lookup", "tape", "build", "handle", "compile",
                          "engine", "evaluate"}]
  /\ \A t \in Threads :
       /\ pc[t] # "idle" => call[t] \in Calls /\ heap[call[t].address] # Free
       /\ pc[t] \in {"handle", "compile"} => seen[t].tape \in 1 .. Len(tapes)
  /\ calls \in 0 .. MaxCalls

\* A tape cached under the current generation is the lowering of the operations
\* the circuit has now, and a handle cached in it was compiled from its gates: no
\* append leaves a tape of an older circuit behind.
CachedTapesAreCurrent ==
  /\ \A gradient \in BOOLEAN :
       LET cache == tapeCache[gradient]
       IN  cache # NoCache /\ cache.generation = generation =>
             tapes[cache.tape].gates = BuildTape(ops, gradient)
  /\ \A n \in DOMAIN tapes :
       tapes[n].native # NoCache =>
         /\ tapes[n].native.handle = CompileTape(tapes[n].gates)
         /\ TapeError(tapes[n].gates, tapes[n].native.limit) = "none"

\* The address in the key of the cached objective still belongs to the object the
\* objective was built for: the entry keeps its inputs alive, so that their ids are
\* not given to other objects.
KeyNamesItsInput ==
  objectiveCache # NoCache =>
    heap[objectiveCache.key.address] = objectiveCache.objective.engine.input

\* A terminal returns, value, gradient or error, what a circuit with the same
\* operations and no caches would return for the same arguments, whatever other
\* threads put into the caches meanwhile.
CachesAreTransparent ==
  [][\A t \in Threads :
       pc[t] # "idle" /\ pc'[t] = "idle" => returned' = Uncached(call[t])]_vars

\* Through packing, slots and unpacking, every gate of either tape is applied with
\* the values of its own occurrence, in the order they were appended; and
\* from_circuit rebuilds the operations from the concrete tape.  (Operations are
\* only appended while no terminal runs.)
LoweringResolves ==
  Idle => \A gradient \in BOOLEAN :
    LET gates == CompileTape(BuildTape(ops, gradient))
        values == Evaluate(gates, IF gradient THEN ParameterValues(ops) ELSE <<>>)
    IN  /\ SlotsCover(gates)
        /\ values # Failed("ValueError")
        /\ values.applied = ops
        /\ ~gradient =>
             LET tape == BuildTape(ops, FALSE)
             IN  /\ \A i \in DOMAIN tape : Concrete(tape[i])
                 /\ [i \in DOMAIN tape |-> OperationFromTape(tape[i])] = ops

\* Every entry of the channel gradient is the derivative for the parameter that
\* channel_parameter_layout names at its index, and no angle is counted among them.
GradientFollowsLayout ==
  Idle =>
  LET gates == CompileTape(BuildTape(ops, TRUE))
      gradient == Evaluate(gates, ParameterValues(ops)).gradient
      split == SplitGradient(gradient, AngleCount(ops))
      layout == ChannelParameterLayout(ops)
  IN  /\ split.channels = [j \in DOMAIN layout |-> {layout[j]}]
      /\ \A j \in DOMAIN split.angles : \A p \in split.angles[j] :
           ops[p.operation].kind = "rotation"
=============================================================================
