------------------------ MODULE CircuitFacade_proofs ------------------------
(***************************************************************************)
(* A circuit with caches answers like one without, for any threads,        *)
(* addresses, limits and operations: there what lowering, compiling and    *)
(* evaluating do stays hidden, and only which arguments they get matters.  *)
(* The lowering of any circuit is right: references survive packing, slots *)
(* name the parameters of their operations, the gradient its layout.       *)
(***************************************************************************)
EXTENDS CircuitFacade, FoldLemmas

\* A function on the indices of a sequence is a sequence as long.
LEMMA SameIndices ==
  ASSUME NEW s, IsSeq(s), NEW S, NEW r \in [1 .. Len(s) -> S]
  PROVE  IsSeq(r) /\ Len(r) = Len(s)
<1>1. Len(s) \in Nat
  BY LenProperties DEF IsSeq
<1>2. r \in Seq(S)
  BY <1>1, SeqDef
<1>3. DOMAIN r = 1 .. Len(r) /\ Len(r) \in Nat /\ DOMAIN r = 1 .. Len(s)
  BY <1>2, LenProperties
<1>4. Len(r) = Len(s)
  BY <1>1, <1>3
<1> QED
  BY <1>2, <1>4, OwnElements

---------------------------------------------------------------------------
(* The inductive invariant                                                 *)

Lowered(gradient) == CompileTape(BuildTape(ops, gradient))

\* The variables the actions update pointwise are functions on the right domains.
Shapes ==
  /\ IsSeq(tapes)
  /\ tapeCache = [gradient \in BOOLEAN |-> tapeCache[gradient]]
  /\ heap = [a \in Addresses |-> heap[a]]
  /\ pc = [t \in Threads |-> pc[t]]
  /\ call = [t \in Threads |-> call[t]]
  /\ seen = [t \in Threads |-> seen[t]]

\* Cached tapes exist, and are current when their stamp is.
TapesInv ==
  /\ \A gradient \in BOOLEAN :
       LET cache == tapeCache[gradient]
       IN  cache # NoCache =>
             /\ cache.tape \in 1 .. Len(tapes)
             /\ cache.generation = generation =>
                  tapes[cache.tape].gates = BuildTape(ops, gradient)
  /\ \A n \in 1 .. Len(tapes) :
       tapes[n].native # NoCache =>
         /\ tapes[n].native.handle = CompileTape(tapes[n].gates)
         /\ TapeError(tapes[n].gates, tapes[n].native.limit) = "none"

\* The objective a terminal with arguments c would build now, if it can.
IsObjectiveFor(objective, address, weight, limit, gradient) ==
  /\ TapeError(BuildTape(ops, gradient), limit) = "none"
  /\ heap[address] \in EngineRoom[limit]
  /\ objective = Objective(Lowered(gradient), heap[address], weight)

\* The cached objective pins what its key names.
ObjectiveInv ==
  objectiveCache # NoCache =>
    LET key == objectiveCache.key
    IN  /\ objectiveCache.pinned = key.address
        /\ key.address \in Addresses
        /\ heap[key.address] # Free
        /\ heap[key.address] = objectiveCache.objective.engine.input
        /\ key.generation = generation =>
             IsObjectiveFor(objectiveCache.objective, key.address, key.weight,
                            key.limit, key.gradient)

\* What a thread in the middle of a terminal holds is right for its arguments.
LocalsInv(t) ==
  LET c == call[t]
      gradient == NeedsGradient(c)
  IN  /\ pc[t] # "idle" => c.address \in Addresses /\ heap[c.address] # Free
      /\ pc[t] \in {"handle", "compile"} =>
           /\ seen[t].tape \in 1 .. Len(tapes)
           /\ tapes[seen[t].tape].gates = BuildTape(ops, gradient)
      /\ pc[t] = "engine" =>
           /\ TapeError(BuildTape(ops, gradient), c.limit) = "none"
           /\ seen[t].handle = Lowered(gradient)
      /\ pc[t] = "evaluate" =>
           IsObjectiveFor(seen[t].objective, c.address, c.weight, c.limit, gradient)

IInv == Shapes /\ TapesInv /\ ObjectiveInv /\ \A t \in Threads : LocalsInv(t)

\* There are two tape caches, and each terminal uses one.
LEMMA GradientIsBoolean == \A c : NeedsGradient(c) \in BOOLEAN
BY DEF NeedsGradient

\* It holds in the beginning, and every step preserves it.
LEMMA Initially == Init => IInv
<1> SUFFICES ASSUME Init PROVE IInv
  OBVIOUS
<1>1. Shapes
  <2>1. tapes \in Seq({}) /\ tapes = <<>>
    BY DEF Init
  <2> QED
    BY <2>1, OwnElements DEF Init, Shapes
<1>2. TapesInv
  BY DEF Init, TapesInv
<1>3. ObjectiveInv
  BY DEF Init, ObjectiveInv
<1>4. \A t \in Threads : LocalsInv(t)
  BY DEF Init, LocalsInv
<1> QED
  BY <1>1, <1>2, <1>3, <1>4 DEF IInv

\* The locals of the threads that did not move, when nothing they rest on moved.
LEMMA OthersKeep ==
  ASSUME IInv, NEW u \in Threads, UNCHANGED <<ops, heap>>,
         pc'[u] = pc[u], call'[u] = call[u], seen'[u] = seen[u],
         \A n \in 1 .. Len(tapes) : n \in 1 .. Len(tapes') /\ tapes'[n].gates = tapes[n].gates
  PROVE  LocalsInv(u)'
<1>1. LocalsInv(u)
  BY DEF IInv
<1> QED
  BY <1>1 DEF LocalsInv, IsObjectiveFor, Lowered, Objective, NeedsGradient, TapeError

LEMMA AppendStep == ASSUME IInv, NEW kind, AppendGate(kind) PROVE IInv'
<1>1. Shapes'
  BY DEF IInv, Shapes, AppendGate, Invalidate
<1>2. TapesInv'
  BY DEF IInv, TapesInv, AppendGate, Invalidate, TapeError
<1>3. ObjectiveInv'
  BY DEF ObjectiveInv, AppendGate, Invalidate
<1>4. \A t \in Threads : LocalsInv(t)'
  BY DEF AppendGate, Idle, LocalsInv
<1> QED
  BY <1>1, <1>2, <1>3, <1>4 DEF IInv

\* The heap changes only at addresses nobody needs.
LEMMA HeapStep ==
  ASSUME IInv, NEW a \in Addresses, NEW object,
         heap[a] = Free \/ (~CachePins(a) /\ ~InUse(a)),
         heap' = [heap EXCEPT ![a] = object],
         UNCHANGED <<ops, generation, tapes, tapeCache, objectiveCache, pc, call, seen>>
  PROVE  IInv'
<1>1. Shapes'
  BY DEF IInv, Shapes
<1>2. TapesInv'
  BY DEF IInv, TapesInv, TapeError
<1>3. ObjectiveInv'
  <2> SUFFICES ASSUME objectiveCache # NoCache PROVE ObjectiveInv'
    BY DEF ObjectiveInv
  <2>1. objectiveCache.key.address # a /\ objectiveCache.key.address \in Addresses
    BY DEF IInv, ObjectiveInv, CachePins
  <2>2. heap'[objectiveCache.key.address] = heap[objectiveCache.key.address]
    BY <2>1 DEF IInv, Shapes
  <2> QED
    BY <2>1, <2>2 DEF IInv, ObjectiveInv, IsObjectiveFor, Lowered, Objective, TapeError
<1>4. ASSUME NEW t \in Threads PROVE LocalsInv(t)'
  <2> SUFFICES ASSUME pc[t] # "idle" PROVE LocalsInv(t)'
    BY DEF LocalsInv
  <2>1. call[t].address # a /\ call[t].address \in Addresses
    BY DEF IInv, LocalsInv, InUse
  <2>2. heap'[call[t].address] = heap[call[t].address]
    BY <2>1 DEF IInv, Shapes
  <2> QED
    BY <2>1, <2>2 DEF IInv, LocalsInv, IsObjectiveFor, Lowered, Objective, NeedsGradient,
       TapeError
<1> QED
  BY <1>1, <1>2, <1>3, <1>4 DEF IInv

LEMMA CallStep == ASSUME IInv, NEW t \in Threads, NEW c \in Calls, Call(t, c) PROVE IInv'
<1>1. Shapes'
  BY DEF IInv, Shapes, Call
<1>2. TapesInv'
  BY DEF IInv, TapesInv, Call, TapeError
<1>3. ObjectiveInv'
  BY DEF IInv, ObjectiveInv, Call, IsObjectiveFor, Lowered, Objective, TapeError
<1>4. LocalsInv(t)'
  <2>1. pc'[t] = "lookup" /\ call'[t] = c /\ heap' = heap /\ heap[c.address] # Free
    BY DEF IInv, Shapes, Call
  <2>2. c.address \in Addresses
    BY DEF Calls
  <2> QED
    BY <2>1, <2>2 DEF LocalsInv
<1>5. ASSUME NEW u \in Threads, u # t PROVE LocalsInv(u)'
  <2>1. pc'[u] = pc[u] /\ call'[u] = call[u] /\ seen'[u] = seen[u]
    BY <1>5 DEF IInv, Shapes, Call
  <2> QED
    BY <2>1, OthersKeep DEF Call
<1> QED
  BY <1>1, <1>2, <1>3, <1>4, <1>5 DEF IInv

LEMMA LookupStep == ASSUME IInv, NEW t \in Threads, Lookup(t) PROVE IInv'
<1>1. Shapes'
  BY DEF IInv, Shapes, Lookup
<1>2. TapesInv'
  BY DEF IInv, TapesInv, Lookup, TapeError
<1>3. ObjectiveInv'
  BY DEF IInv, ObjectiveInv, Lookup, IsObjectiveFor, Lowered, Objective, TapeError
<1>4. LocalsInv(t)'
  <2>1. call[t].address \in Addresses /\ heap[call[t].address] # Free
    BY DEF IInv, LocalsInv, Lookup
  <2>2. UNCHANGED <<ops, heap, tapes, call>>
    BY DEF Lookup
  <2>3. CASE objectiveCache # NoCache /\ objectiveCache.key = Key(call[t])
    <3>1. pc'[t] = "evaluate" /\ seen'[t].objective = objectiveCache.objective
      BY <2>3 DEF IInv, Shapes, Lookup, Nothing
    <3>2. LET key == objectiveCache.key
              c == call[t]
          IN  /\ key.generation = generation
              /\ key.address = c.address /\ key.weight = c.weight
              /\ key.limit = c.limit /\ key.gradient = NeedsGradient(c)
      BY <2>3 DEF Key
    <3>3. IsObjectiveFor(objectiveCache.objective, call[t].address, call[t].weight,
                         call[t].limit, NeedsGradient(call[t]))
      BY <2>3, <3>2 DEF IInv, ObjectiveInv
    <3> QED
      BY <2>1, <2>2, <3>1, <3>3
      DEF LocalsInv, IsObjectiveFor, Lowered, Objective, NeedsGradient, TapeError
  <2>4. CASE ~(objectiveCache # NoCache /\ objectiveCache.key = Key(call[t]))
    <3>1. pc'[t] = "tape"
      BY <2>4 DEF IInv, Shapes, Lookup
    <3> QED
      BY <2>1, <2>2, <3>1 DEF LocalsInv
  <2> QED
    BY <2>3, <2>4
<1>5. ASSUME NEW u \in Threads, u # t PROVE LocalsInv(u)'
  <2>1. pc'[u] = pc[u] /\ call'[u] = call[u] /\ seen'[u] = seen[u]
    BY <1>5 DEF IInv, Shapes, Lookup
  <2> QED
    BY <2>1, OthersKeep DEF Lookup
<1> QED
  BY <1>1, <1>2, <1>3, <1>4, <1>5 DEF IInv

LEMMA FindTapeStep == ASSUME IInv, NEW t \in Threads, FindTape(t) PROVE IInv'
<1>1. Shapes'
  BY DEF IInv, Shapes, FindTape
<1>2. TapesInv'
  BY DEF IInv, TapesInv, FindTape, TapeError
<1>3. ObjectiveInv'
  BY DEF IInv, ObjectiveInv, FindTape, IsObjectiveFor, Lowered, Objective, TapeError
<1>4. LocalsInv(t)'
  <2> DEFINE gradient == NeedsGradient(call[t])
             cache == tapeCache[gradient]
  <2>1. call[t].address \in Addresses /\ heap[call[t].address] # Free
    BY DEF IInv, LocalsInv, FindTape
  <2>2. UNCHANGED <<ops, heap, tapes, call>> /\ gradient \in BOOLEAN
    BY GradientIsBoolean DEF FindTape
  <2>3. CASE cache # NoCache /\ cache.generation = generation
    <3>1. pc'[t] = "handle" /\ seen'[t].tape = cache.tape
      BY <2>3 DEF IInv, Shapes, FindTape, Nothing
    <3>2. cache.tape \in 1 .. Len(tapes) /\ tapes[cache.tape].gates = BuildTape(ops, gradient)
      BY <2>2, <2>3 DEF IInv, TapesInv
    <3> QED
      BY <2>1, <2>2, <3>1, <3>2 DEF LocalsInv, NeedsGradient
  <2>4. CASE ~(cache # NoCache /\ cache.generation = generation)
    <3>1. pc'[t] = "build"
      BY <2>4 DEF IInv, Shapes, FindTape
    <3> QED
      BY <2>1, <2>2, <3>1 DEF LocalsInv
  <2> QED
    BY <2>3, <2>4
<1>5. ASSUME NEW u \in Threads, u # t PROVE LocalsInv(u)'
  <2>1. pc'[u] = pc[u] /\ call'[u] = call[u] /\ seen'[u] = seen[u]
    BY <1>5 DEF IInv, Shapes, FindTape
  <2> QED
    BY <2>1, OthersKeep DEF FindTape
<1> QED
  BY <1>1, <1>2, <1>3, <1>4, <1>5 DEF IInv

LEMMA LowerStep == ASSUME IInv, NEW t \in Threads, LowerCircuit(t) PROVE IInv'
<1> DEFINE gradient == NeedsGradient(call[t])
           tape == [gates |-> BuildTape(ops, gradient), native |-> NoCache]
<1>1. /\ gradient \in BOOLEAN
      /\ IsSeq(tapes) /\ Len(tapes) \in Nat
  BY GradientIsBoolean DEF IInv, Shapes, IsSeq
<1>2. /\ IsSeq(tapes') /\ Len(tapes') = Len(tapes) + 1
      /\ \A i \in 1 .. Len(tapes) : tapes'[i] = tapes[i]
      /\ tapes'[Len(tapes) + 1] = tape
  BY <1>1, AppendToSeq DEF LowerCircuit
<1>3. Shapes'
  BY <1>2 DEF IInv, Shapes, LowerCircuit
<1>4. UNCHANGED <<ops, generation, heap, call, objectiveCache>>
  BY DEF LowerCircuit
<1>5. TapesInv'
  <2>1. ASSUME NEW g \in BOOLEAN, tapeCache'[g] # NoCache
        PROVE  /\ tapeCache'[g].tape \in 1 .. Len(tapes')
               /\ tapeCache'[g].generation = generation =>
                    tapes'[tapeCache'[g].tape].gates = BuildTape(ops, g)
    <3>1. CASE g = gradient
      <4>1. tapeCache'[g] = [generation |-> generation, tape |-> Len(tapes) + 1]
        BY <1>1, <3>1 DEF IInv, Shapes, LowerCircuit
      <4> QED
        BY <1>1, <1>2, <3>1, <4>1
    <3>2. CASE g # gradient
      <4>1. tapeCache'[g] = tapeCache[g]
        BY <1>1, <3>2 DEF IInv, Shapes, LowerCircuit
      <4>2. tapeCache[g].tape \in 1 .. Len(tapes)
        BY <2>1, <4>1 DEF IInv, TapesInv
      <4> HIDE DEF tape
      <4> QED
        BY <1>1, <1>2, <2>1, <4>1, <4>2 DEF IInv, TapesInv
    <3> QED
      BY <3>1, <3>2
  <2>2. ASSUME NEW n \in 1 .. Len(tapes'), tapes'[n].native # NoCache
        PROVE  /\ tapes'[n].native.handle = CompileTape(tapes'[n].gates)
               /\ TapeError(tapes'[n].gates, tapes'[n].native.limit) = "none"
    <3>1. n # Len(tapes) + 1
      BY <1>2, <2>2
    <3>2. n \in 1 .. Len(tapes) /\ tapes'[n] = tapes[n]
      BY <1>1, <1>2, <3>1
    <3> QED
      BY <2>2, <3>2 DEF IInv, TapesInv
  <2> QED
    BY <1>4, <2>1, <2>2 DEF TapesInv, TapeError
<1>6. ObjectiveInv'
  BY <1>4 DEF IInv, ObjectiveInv, IsObjectiveFor, Lowered, Objective, TapeError
<1>7. LocalsInv(t)'
  <2>1. call[t].address \in Addresses /\ heap[call[t].address] # Free
    BY DEF IInv, LocalsInv, LowerCircuit
  <2>2. pc'[t] = "handle" /\ seen'[t].tape = Len(tapes) + 1
    BY DEF IInv, Shapes, LowerCircuit, Nothing
  <2> QED
    BY <1>1, <1>2, <1>4, <2>1, <2>2 DEF LocalsInv, NeedsGradient
<1>8. ASSUME NEW u \in Threads, u # t PROVE LocalsInv(u)'
  <2>1. pc'[u] = pc[u] /\ call'[u] = call[u] /\ seen'[u] = seen[u]
    BY <1>8 DEF IInv, Shapes, LowerCircuit
  <2>2. \A n \in 1 .. Len(tapes) : n \in 1 .. Len(tapes') /\ tapes'[n].gates = tapes[n].gates
    BY <1>1, <1>2
  <2> QED
    BY <1>4, <2>1, <2>2, OthersKeep
<1> QED
  BY <1>3, <1>5, <1>6, <1>7, <1>8 DEF IInv

LEMMA FindHandleStep == ASSUME IInv, NEW t \in Threads, FindHandle(t) PROVE IInv'
<1>1. Shapes'
  BY DEF IInv, Shapes, FindHandle
<1>2. TapesInv'
  BY DEF IInv, TapesInv, FindHandle, TapeError
<1>3. ObjectiveInv'
  BY DEF IInv, ObjectiveInv, FindHandle, IsObjectiveFor, Lowered, Objective, TapeError
<1>4. LocalsInv(t)'
  <2> DEFINE c == call[t]
             n == seen[t].tape
             native == tapes[n].native
  <2>1. /\ c.address \in Addresses /\ heap[c.address] # Free
        /\ n \in 1 .. Len(tapes)
        /\ tapes[n].gates = BuildTape(ops, NeedsGradient(c))
    BY DEF IInv, LocalsInv, FindHandle
  <2>2. UNCHANGED <<ops, heap, tapes, call>>
    BY DEF FindHandle
  <2>3. CASE native # NoCache /\ native.limit = c.limit
    <3>1. pc'[t] = "engine" /\ seen'[t].handle = native.handle
      BY <2>3 DEF IInv, Shapes, FindHandle, Nothing
    <3>2. /\ native.handle = CompileTape(tapes[n].gates)
          /\ TapeError(tapes[n].gates, native.limit) = "none"
      BY <2>1, <2>3 DEF IInv, TapesInv
    <3>3. /\ TapeError(BuildTape(ops, NeedsGradient(c)), c.limit) = "none"
          /\ seen'[t].handle = Lowered(NeedsGradient(c))
      BY <2>1, <2>3, <3>1, <3>2 DEF Lowered
    <3> QED
      BY <2>1, <2>2, <3>1, <3>3 DEF LocalsInv, Lowered, NeedsGradient, TapeError
  <2>4. CASE ~(native # NoCache /\ native.limit = c.limit)
    <3>1. pc'[t] = "compile" /\ seen'[t] = seen[t]
      BY <2>4 DEF IInv, Shapes, FindHandle
    <3> QED
      BY <2>1, <2>2, <3>1 DEF LocalsInv, NeedsGradient
  <2> QED
    BY <2>3, <2>4
<1>5. ASSUME NEW u \in Threads, u # t PROVE LocalsInv(u)'
  <2>1. pc'[u] = pc[u] /\ call'[u] = call[u] /\ seen'[u] = seen[u]
    BY <1>5 DEF IInv, Shapes, FindHandle
  <2> QED
    BY <2>1, OthersKeep DEF FindHandle
<1> QED
  BY <1>1, <1>2, <1>3, <1>4, <1>5 DEF IInv

\* A thread that returned holds nothing.
LEMMA ReturnStep ==
  ASSUME IInv, NEW t \in Threads, NEW answer, Return(t, answer),
         UNCHANGED <<ops, generation, tapes, tapeCache, objectiveCache, heap>>
  PROVE  IInv'
<1>1. Shapes'
  BY DEF IInv, Shapes, Return
<1>2. TapesInv'
  BY DEF IInv, TapesInv, TapeError
<1>3. ObjectiveInv'
  BY DEF IInv, ObjectiveInv, IsObjectiveFor, Lowered, Objective, TapeError
<1>4. LocalsInv(t)'
  <2>1. pc'[t] = "idle"
    BY DEF IInv, Shapes, Return
  <2> QED
    BY <2>1 DEF LocalsInv
<1>5. ASSUME NEW u \in Threads, u # t PROVE LocalsInv(u)'
  <2>1. pc'[u] = pc[u] /\ call'[u] = call[u] /\ seen'[u] = seen[u]
    BY <1>5 DEF IInv, Shapes, Return
  <2> QED
    BY <2>1, OthersKeep
<1> QED
  BY <1>1, <1>2, <1>3, <1>4, <1>5 DEF IInv

LEMMA CompileStep == ASSUME IInv, NEW t \in Threads, CompileHandle(t) PROVE IInv'
<1> DEFINE c == call[t]
           n == seen[t].tape
           tape == tapes[n].gates
           entry == [gates |-> tape,
                     native |-> [limit |-> c.limit, handle |-> CompileTape(tape)]]
<1>1. CASE TapeError(tape, c.limit) # "none"
  <2>1. PICK answer : Return(t, answer)
    BY <1>1 DEF CompileHandle
  <2> QED
    BY <1>1, <2>1, ReturnStep DEF CompileHandle
<1>2. CASE TapeError(tape, c.limit) = "none"
  <2>1. /\ c.address \in Addresses /\ heap[c.address] # Free
        /\ n \in 1 .. Len(tapes)
        /\ tape = BuildTape(ops, NeedsGradient(c))
    BY DEF IInv, LocalsInv, CompileHandle
  <2>2. /\ tapes' = [tapes EXCEPT ![n] = entry]
        /\ seen' = [seen EXCEPT ![t] = [Nothing EXCEPT !.handle = CompileTape(tape)]]
        /\ pc' = [pc EXCEPT ![t] = "engine"]
        /\ UNCHANGED <<ops, generation, tapeCache, objectiveCache, heap, call>>
    BY <1>2 DEF CompileHandle
  <2>3. /\ IsSeq(tapes') /\ Len(tapes') = Len(tapes)
        /\ \A i \in 1 .. Len(tapes) : tapes'[i] = IF i = n THEN entry ELSE tapes[i]
    <3> DEFINE S == Range(tapes) \cup {entry}
    <3>1. IsSeq(tapes) /\ n \in 1 .. Len(tapes) /\ tapes' = [tapes EXCEPT ![n] = entry]
      BY <2>1, <2>2 DEF IInv, Shapes
    <3>2. tapes \in [1 .. Len(tapes) -> Range(tapes)]
      BY <3>1, LenProperties, ElementOfSeq DEF IsSeq
    <3> HIDE DEF entry, n
    <3>3. /\ tapes' \in [1 .. Len(tapes) -> S]
          /\ \A i \in 1 .. Len(tapes) : tapes'[i] = IF i = n THEN entry ELSE tapes[i]
      BY <3>1, <3>2
    <3> HIDE DEF S
    <3> QED
      BY <3>1, <3>3, SameIndices
  <2>4. Shapes'
    BY <2>2, <2>3 DEF IInv, Shapes
  <2>5. \A i \in 1 .. Len(tapes) : tapes'[i].gates = tapes[i].gates
    BY <2>3
  <2>6. TapesInv'
    <3>1. ASSUME NEW g \in BOOLEAN, tapeCache[g] # NoCache
          PROVE  /\ tapeCache[g].tape \in 1 .. Len(tapes')
                 /\ tapeCache[g].generation = generation =>
                      tapes'[tapeCache[g].tape].gates = BuildTape(ops, g)
      BY <2>3, <2>5, <3>1 DEF IInv, TapesInv
    <3>2. ASSUME NEW i \in 1 .. Len(tapes'), tapes'[i].native # NoCache
          PROVE  /\ tapes'[i].native.handle = CompileTape(tapes'[i].gates)
                 /\ TapeError(tapes'[i].gates, tapes'[i].native.limit) = "none"
      <4>1. CASE i = n
        BY <1>2, <2>3, <4>1
      <4>2. CASE i # n
        <5>1. tapes'[i] = tapes[i] /\ i \in 1 .. Len(tapes)
          BY <2>3, <4>2
        <5> QED
          BY <3>2, <5>1 DEF IInv, TapesInv
      <4> QED
        BY <4>1, <4>2
    <3> QED
      BY <2>2, <3>1, <3>2 DEF TapesInv, TapeError
  <2>7. ObjectiveInv'
    BY <2>2 DEF IInv, ObjectiveInv, IsObjectiveFor, Lowered, Objective, TapeError
  <2>8. LocalsInv(t)'
    <3>1. pc'[t] = "engine" /\ seen'[t].handle = CompileTape(tape)
      BY <2>2 DEF IInv, Shapes, Nothing
    <3>2. /\ TapeError(BuildTape(ops, NeedsGradient(c)), c.limit) = "none"
          /\ seen'[t].handle = Lowered(NeedsGradient(c))
      BY <1>2, <2>1, <3>1 DEF Lowered
    <3> QED
      BY <2>1, <2>2, <3>1, <3>2 DEF LocalsInv, Lowered, NeedsGradient, TapeError
  <2>9. ASSUME NEW u \in Threads, u # t PROVE LocalsInv(u)'
    <3>1. pc'[u] = pc[u] /\ call'[u] = call[u] /\ seen'[u] = seen[u]
      BY <2>2, <2>9 DEF IInv, Shapes
    <3> QED
      BY <2>2, <2>3, <2>5, <3>1, OthersKeep
  <2> QED
    BY <2>4, <2>6, <2>7, <2>8, <2>9 DEF IInv
<1> QED
  BY <1>1, <1>2

LEMMA BuildStep == ASSUME IInv, NEW t \in Threads, BuildObjective(t) PROVE IInv'
<1> DEFINE c == call[t]
           gradient == NeedsGradient(c)
           objective == Objective(seen[t].handle, heap[c.address], c.weight)
<1>1. CASE heap[c.address] \notin EngineRoom[c.limit]
  <2>1. PICK answer : Return(t, answer)
    BY <1>1 DEF BuildObjective
  <2> QED
    BY <1>1, <2>1, ReturnStep DEF BuildObjective
<1>2. CASE heap[c.address] \in EngineRoom[c.limit]
  <2>1. /\ c.address \in Addresses /\ heap[c.address] # Free
        /\ TapeError(BuildTape(ops, gradient), c.limit) = "none"
        /\ seen[t].handle = Lowered(gradient)
    BY DEF IInv, LocalsInv, BuildObjective
  <2>2. /\ objectiveCache' = [key |-> Key(c), objective |-> objective, pinned |-> c.address]
        /\ seen' = [seen EXCEPT ![t] = [Nothing EXCEPT !.objective = objective]]
        /\ pc' = [pc EXCEPT ![t] = "evaluate"]
        /\ UNCHANGED <<ops, generation, tapes, tapeCache, heap, call>>
    BY <1>2 DEF BuildObjective
  <2>3. IsObjectiveFor(objective, c.address, c.weight, c.limit, gradient)
    BY <1>2, <2>1 DEF IsObjectiveFor
  <2>4. objective.engine.input = heap[c.address]
    BY DEF Objective
  <2>5. Shapes'
    BY <2>2 DEF IInv, Shapes
  <2>6. TapesInv'
    BY <2>2 DEF IInv, TapesInv, TapeError
  <2>7. ObjectiveInv'
    <3> HIDE DEF objective, gradient
    <3>1. /\ objectiveCache'.objective = objective /\ objectiveCache'.pinned = c.address
          /\ objectiveCache'.key.address = c.address /\ objectiveCache'.key.weight = c.weight
          /\ objectiveCache'.key.limit = c.limit /\ objectiveCache'.key.gradient = gradient
      BY <2>2 DEF Key, gradient
    <3> QED
      BY <2>1, <2>2, <2>3, <2>4, <3>1
      DEF ObjectiveInv, IsObjectiveFor, Lowered, Objective, TapeError
  <2>8. LocalsInv(t)'
    <3>1. pc'[t] = "evaluate" /\ seen'[t].objective = objective
      BY <2>2 DEF IInv, Shapes, Nothing
    <3> HIDE DEF objective
    <3> QED
      BY <2>1, <2>2, <2>3, <3>1
      DEF LocalsInv, IsObjectiveFor, Lowered, Objective, NeedsGradient, TapeError
  <2>9. ASSUME NEW u \in Threads, u # t PROVE LocalsInv(u)'
    <3>1. pc'[u] = pc[u] /\ call'[u] = call[u] /\ seen'[u] = seen[u]
      BY <2>2, <2>9 DEF IInv, Shapes
    <3> QED
      BY <2>2, <3>1, OthersKeep
  <2> QED
    BY <2>5, <2>6, <2>7, <2>8, <2>9 DEF IInv
<1> QED
  BY <1>1, <1>2

LEMMA StutterStep == ASSUME IInv, UNCHANGED vars PROVE IInv'
<1>1. Shapes'
  BY DEF IInv, Shapes, vars
<1>2. TapesInv'
  BY DEF IInv, TapesInv, vars, TapeError
<1>3. ObjectiveInv'
  BY DEF IInv, ObjectiveInv, vars, IsObjectiveFor, Lowered, Objective, TapeError
<1>4. ASSUME NEW u \in Threads PROVE LocalsInv(u)'
  BY OthersKeep DEF vars
<1> QED
  BY <1>1, <1>2, <1>3, <1>4 DEF IInv

LEMMA Preserved == IInv /\ [Next]_vars => IInv'
<1> SUFFICES ASSUME IInv, [Next]_vars PROVE IInv'
  OBVIOUS
<1>1. ASSUME NEW kind \in Appended, AppendGate(kind) PROVE IInv'
  BY <1>1, AppendStep
<1>2. ASSUME NEW a \in Addresses, Reclaim(a) PROVE IInv'
  BY <1>2, HeapStep DEF Reclaim
<1>3. ASSUME NEW a \in Addresses, NEW input \in Inputs, Allocate(a, input) PROVE IInv'
  BY <1>3, HeapStep DEF Allocate
<1>4. ASSUME NEW t \in Threads, NEW c \in Calls, Call(t, c) PROVE IInv'
  BY <1>4, CallStep
<1>5. ASSUME NEW t \in Threads, Step(t) PROVE IInv'
  <2>1. CASE EvaluateObjective(t)
    BY <1>5, <2>1, ReturnStep DEF EvaluateObjective
  <2> QED
    BY <1>5, <2>1, LookupStep, FindTapeStep, LowerStep, FindHandleStep, CompileStep, BuildStep
    DEF Step
<1>6. ASSUME Rest \/ UNCHANGED vars PROVE IInv'
  BY <1>6, StutterStep DEF Rest
<1> QED
  BY <1>1, <1>2, <1>3, <1>4, <1>5, <1>6 DEF Next

---------------------------------------------------------------------------
(* The theorems                                                            *)

\* What follows holds in every reachable state.
THEOREM Invariant == Spec => []IInv
<1>1. Init => IInv
  BY Initially
<1>2. IInv /\ [Next]_vars => IInv'
  BY Preserved
<1> QED
  BY <1>1, <1>2, PTL DEF Spec

\* The object whose address keys the cached objective is still the one the objective
\* was built for, because _objective keeps a reference to it.
THEOREM KeysNameTheirInputs == Spec => []KeyNamesItsInput
<1>1. IInv => KeyNamesItsInput
  BY DEF IInv, ObjectiveInv, KeyNamesItsInput
<1> QED
  BY <1>1, Invariant, PTL

\* A tape cached under the current generation is the lowering of the current
\* operations, and a handle was compiled from the gates of its tape.
THEOREM TapesAreCurrent == Spec => []CachedTapesAreCurrent
<1>1. ASSUME IInv PROVE CachedTapesAreCurrent
  <2>1. DOMAIN tapes = 1 .. Len(tapes)
    BY <1>1 DEF IInv, Shapes, IsSeq
  <2> QED
    BY <1>1, <2>1 DEF IInv, TapesInv, CachedTapesAreCurrent
<1> QED
  BY <1>1, Invariant, PTL

\* What a terminal returns is what it would return without the caches.
LEMMA ReturnsUncached ==
  ASSUME IInv, [Next]_vars, NEW t \in Threads, pc[t] # "idle", pc'[t] = "idle"
  PROVE  returned' = Uncached(call[t])
<1> DEFINE c == call[t]
           tape == BuildTape(ops, NeedsGradient(c))
<1>1. Step(t)
  <2>1. ASSUME NEW kind \in Appended, AppendGate(kind) PROVE FALSE
    BY <2>1 DEF AppendGate
  <2>2. ASSUME NEW a \in Addresses, NEW input \in Inputs,
               Reclaim(a) \/ Allocate(a, input) PROVE FALSE
    BY <2>2 DEF Reclaim, Allocate
  <2>3. ASSUME NEW a \in Addresses, Reclaim(a) PROVE FALSE
    BY <2>3 DEF Reclaim
  <2>4. ASSUME NEW u \in Threads, NEW d \in Calls, Call(u, d) PROVE FALSE
    BY <2>4 DEF Call, IInv, Shapes
  <2>5. ASSUME NEW u \in Threads, u # t, Step(u) PROVE FALSE
    <3>1. pc' = [pc EXCEPT ![u] = pc'[u]]
      BY <2>5 DEF Step, Lookup, FindTape, LowerCircuit, FindHandle, CompileHandle,
         BuildObjective, EvaluateObjective, Return, IInv, Shapes
    <3> QED
      BY <2>5, <3>1 DEF IInv, Shapes
  <2>6. ~Rest /\ ~UNCHANGED vars
    BY DEF Rest, vars
  <2> QED
    BY <2>1, <2>2, <2>3, <2>4, <2>5, <2>6 DEF Next
<1>2. CASE EvaluateObjective(t)
  <2>1. returned' = Answer(c, seen[t].objective)
    BY <1>2 DEF EvaluateObjective, Return, Evaluated
  <2>2. IsObjectiveFor(seen[t].objective, c.address, c.weight, c.limit, NeedsGradient(c))
    BY <1>2 DEF IInv, LocalsInv, EvaluateObjective
  <2> QED
    BY <2>1, <2>2 DEF IsObjectiveFor, Lowered, Uncached
<1>3. CASE CompileHandle(t)
  <2>1. tapes[seen[t].tape].gates = tape
    BY <1>3 DEF IInv, LocalsInv, CompileHandle
  <2>2. TapeError(tape, c.limit) # "none" /\ returned' = Failed(TapeError(tape, c.limit))
    BY <1>3, <2>1 DEF CompileHandle, Return, IInv, Shapes
  <2> QED
    BY <2>2 DEF Uncached
<1>4. CASE BuildObjective(t)
  <2>1. heap[c.address] \notin EngineRoom[c.limit] /\ returned' = Failed("MemoryError")
    BY <1>4 DEF BuildObjective, Return, IInv, Shapes
  <2>2. TapeError(tape, c.limit) = "none"
    BY <1>4 DEF IInv, LocalsInv, BuildObjective
  <2> QED
    BY <2>1, <2>2 DEF Uncached
<1>5. CASE Lookup(t) \/ FindTape(t) \/ LowerCircuit(t) \/ FindHandle(t)
  BY <1>5 DEF Lookup, FindTape, LowerCircuit, FindHandle, IInv, Shapes
<1> QED
  BY <1>1, <1>2, <1>3, <1>4, <1>5 DEF Step

\* Every terminal of PropagationCircuit returns what a circuit with the same operations
\* and empty caches returns for the same arguments, in every interleaving.
THEOREM Transparency == Spec => CachesAreTransparent
<1>1. ASSUME IInv, [Next]_vars
      PROVE  [\A t \in Threads :
                pc[t] # "idle" /\ pc'[t] = "idle" => returned' = Uncached(call[t])]_vars
  BY <1>1, ReturnsUncached
<1> QED
  BY <1>1, Invariant, PTL DEF Spec, CachesAreTransparent

---------------------------------------------------------------------------
(* Packing and unpacking                                                  *)

\* What ArityIsNat says, and that only fixed operations have no parameters.
LEMMA Arities ==
  /\ \A kind \in Kinds : Arity[kind] \in Nat /\ (Arity[kind] = 0 <=> kind = "fixed")
  /\ Arity["rotation"] = 1
  /\ ChannelKinds \subseteq Kinds /\ "rotation" \in Kinds /\ "fixed" \in Kinds
  /\ \A kind \in Kinds : kind \in ChannelKinds \/ kind = "rotation" \/ kind = "fixed"
BY DEF Kinds, Arity, ChannelKinds

\* References PackGate can carry: a static value that is not the first is not negative.
Carried(refs, n) ==
  /\ refs \in [1 .. n -> [value : Int, slot : Int]]
  /\ \A k \in 1 .. n : \/ refs[k].slot = -1 /\ (k > 1 => refs[k].value >= 0)
                       \/ refs[k].value = 0 /\ refs[k].slot >= 0

\* The native side reads back the references that were packed.
LEMMA RoundTrip ==
  ASSUME NEW kind, NEW n \in Nat, NEW refs, Carried(refs, n), kind = "fixed" <=> n = 0
  PROVE  CompileOperation(PackGate(kind, refs)) = refs
<1> DEFINE R == [value : Int, slot : Int]
           gate == PackGate(kind, refs)
<1>1. refs \in Seq(R) /\ refs \in [1 .. n -> R] /\ Len(refs) = n /\ DOMAIN refs = 1 .. n
  <2>1. refs \in Seq(R)
    BY SeqDef DEF Carried
  <2>2. DOMAIN refs = 1 .. Len(refs) /\ Len(refs) \in Nat /\ DOMAIN refs = 1 .. n
    BY <2>1, LenProperties DEF Carried
  <2> QED
    BY <2>1, <2>2 DEF Carried
<1>2. CASE n = 0
  <2>1. refs = <<>>
    BY <1>1, <1>2
  <2> QED
    BY <1>2, <2>1 DEF CompileOperation, PackGate
<1>3. CASE n # 0
  <2>1. refs # <<>> /\ Head(refs) = refs[1] /\ 1 \in 1 .. n /\ kind # "fixed"
    BY <1>1, <1>3
  <2>2. /\ gate.kind = kind /\ gate.parameter = refs[1].slot /\ gate.angle = refs[1].value
        /\ gate.payload = [k \in 1 .. n - 1 |-> Packed(refs[k + 1])]
    BY <1>1, <2>1 DEF PackGate
  <2>3. \A k \in 1 .. n : refs[k] = [value |-> refs[k].value, slot |-> refs[k].slot]
    BY <1>1
  <2>4. DecodeScalarRef(gate.parameter, gate.angle) = refs[1]
    <3>1. CASE refs[1].slot = -1
      BY <2>1, <2>2, <2>3, <3>1 DEF DecodeScalarRef, Static
    <3>2. CASE refs[1].slot # -1
      <4>1. refs[1].value = 0
        BY <2>1, <3>2 DEF Carried
      <4> QED
        BY <2>1, <2>2, <2>3, <3>2, <4>1 DEF DecodeScalarRef, Slot
    <3> QED
      BY <3>1, <3>2
  <2>5. ASSUME NEW k \in 2 .. n PROVE DecodeScalarValue(Packed(refs[k])) = refs[k]
    <3>1. /\ k \in 1 .. n /\ k > 1 /\ refs[k].value \in Int /\ refs[k].slot \in Int
          /\ refs[k] = [value |-> refs[k].value, slot |-> refs[k].slot]
      BY <1>1, <2>3
    <3> DEFINE v == refs[k].value
               s == refs[k].slot
    <3>2. (s = -1 /\ v >= 0) \/ (v = 0 /\ s >= 0)
      <4>1. (refs[k].slot = -1 /\ (k > 1 => refs[k].value >= 0)) \/ (refs[k].value = 0 /\ refs[k].slot >= 0)
        BY <3>1 DEF Carried
      <4> QED
        BY <3>1, <4>1
    <3>3. CASE s = -1
      BY <3>1, <3>2, <3>3 DEF Packed, DecodeScalarValue, Static
    <3>4. CASE s # -1
      <4>1. v = 0 /\ s >= 0 /\ Packed(refs[k]) = -(s + 1)
        BY <3>1, <3>2, <3>4 DEF Packed
      <4>2. -(s + 1) < 0 /\ -(-(s + 1)) - 1 = s
        BY <3>1, <4>1
      <4> QED
        BY <3>1, <4>1, <4>2 DEF DecodeScalarValue, Slot
    <3> QED
      BY <3>3, <3>4
  <2> DEFINE later == [k \in 1 .. n - 1 |-> DecodeScalarValue(gate.payload[k])]
             first == <<DecodeScalarRef(gate.parameter, gate.angle)>>
  <2>6. CompileOperation(gate) = first \o later
    <3>1. DOMAIN gate.payload = 1 .. n - 1
      BY <2>2
    <3> QED
      BY <2>1, <2>2, <3>1 DEF CompileOperation
  <2>7. \A k \in 1 .. n - 1 : later[k] = refs[k + 1]
    <3> SUFFICES ASSUME NEW k \in 1 .. n - 1 PROVE later[k] = refs[k + 1]
      OBVIOUS
    <3>1. k + 1 \in 2 .. n
      OBVIOUS
    <3>2. later[k] = DecodeScalarValue(Packed(refs[k + 1]))
      BY <2>2
    <3> QED
      BY <2>5, <3>1, <3>2
  <2>8. later \in Seq(R) /\ Len(later) = n - 1 /\ first \in Seq(R) /\ Len(first) = 1 /\ first[1] = refs[1]
    <3>1. later \in [1 .. n - 1 -> R]
      <4>1. \A k \in 1 .. n - 1 : later[k] \in R
        <5> SUFFICES ASSUME NEW k \in 1 .. n - 1 PROVE later[k] \in R
          OBVIOUS
        <5>1. k + 1 \in 1 .. n
          OBVIOUS
        <5> HIDE DEF later
        <5> QED
          BY <1>1, <2>7, <5>1
      <4> QED
        BY <4>1
    <3>2. n - 1 \in Nat
      BY <1>3
    <3>3. later \in Seq(R)
      BY <3>1, <3>2, SeqDef
    <3>4. DOMAIN later = 1 .. Len(later) /\ Len(later) \in Nat /\ DOMAIN later = 1 .. n - 1
      BY <3>3, LenProperties
    <3> HIDE DEF later
    <3> QED
      BY <1>1, <2>1, <2>4, <3>2, <3>3, <3>4
  <2> HIDE DEF gate, later, first, R
  <2>9. /\ first \o later \in Seq(R) /\ Len(first \o later) = n
        /\ \A j \in 1 .. n : (first \o later)[j] = IF j <= 1 THEN first[j] ELSE later[j - 1]
    <3>1. n \in Nat /\ 1 + (n - 1) = n
      OBVIOUS
    <3>2. Len(first) + Len(later) = n
      BY <2>8, <3>1
    <3> QED
      BY <2>8, <3>2, ConcatProperties
  <2>10. \A j \in 1 .. n : (first \o later)[j] = refs[j]
    <3> SUFFICES ASSUME NEW j \in 1 .. n PROVE (first \o later)[j] = refs[j]
      OBVIOUS
    <3>1. CASE j <= 1
      BY <2>8, <2>9, <3>1
    <3>2. CASE ~(j <= 1)
      <4> DEFINE k == j - 1
      <4>1. k \in 1 .. n - 1 /\ k + 1 = j
        BY <3>2
      <4>2. (first \o later)[j] = later[k]
        BY <2>9, <3>2
      <4> HIDE DEF k
      <4> QED
        BY <2>7, <4>1, <4>2
    <3> QED
      BY <3>1, <3>2
  <2> QED
    BY <1>1, <2>6, <2>9, <2>10, SeqEqual DEF gate
<1> QED
  BY <1>2, <1>3

---------------------------------------------------------------------------
(* The slot counters                                                      *)

\* The values of the slot counters before the first operation and after each.
Counts(slots, list, gradient) ==
  /\ slots[0] = [angle |-> 0, channel |-> FirstChannelSlot(list)]
  /\ \A n \in 1 .. Len(list) : slots[n] = NextSlots(list[n], gradient, slots[n - 1])
  /\ \A n \in 0 .. Len(list) : slots[n] \in [angle : Nat, channel : Nat]

\* The indices up to n that are in a set.
Upto(at, n) == {i \in 1 .. n : i \in at}

\* How many there are.
LEMMA CountUpTo ==
  ASSUME NEW at, NEW n \in Nat
  PROVE  /\ Cardinality(Upto(at, n)) \in Nat
         /\ Cardinality(Upto(at, 0)) = 0
         /\ \A m \in 1 .. n : Cardinality(Upto(at, m)) =
              IF m \in at THEN Cardinality(Upto(at, m - 1)) + 1 ELSE Cardinality(Upto(at, m - 1))
<1> DEFINE U(m) == Upto(at, m)
<1> USE DEF Upto
<1>1. \A m \in Nat : IsFiniteSet(U(m)) /\ Cardinality(U(m)) \in Nat
  <2> SUFFICES ASSUME NEW m \in Nat PROVE IsFiniteSet(U(m)) /\ Cardinality(U(m)) \in Nat
    OBVIOUS
  <2>1. IsFiniteSet(1 .. m)
    BY FS_Interval
  <2>2. IsFiniteSet(U(m))
    BY <2>1, FS_Subset
  <2> QED
    BY <2>2, FS_CardinalityType
<1>2. Cardinality(U(0)) = 0
  <2>1. U(0) = {}
    OBVIOUS
  <2> QED
    BY <2>1, FS_EmptySet
<1>3. ASSUME NEW m \in 1 .. n
      PROVE  Cardinality(U(m)) = IF m \in at THEN Cardinality(U(m - 1)) + 1 ELSE Cardinality(U(m - 1))
  <2>1. CASE m \in at
    <3>1. U(m) = U(m - 1) \cup {m} /\ m \notin U(m - 1) /\ m - 1 \in Nat
      BY <2>1
    <3> HIDE DEF U
    <3> QED
      BY <1>1, <2>1, <3>1, FS_AddElement
  <2>2. CASE m \notin at
    <3>1. U(m) = U(m - 1)
      BY <2>2
    <3> QED
      BY <2>2, <3>1
  <2> QED
    BY <2>1, <2>2
<1> QED
  BY <1>1, <1>2, <1>3

\* The indices of the rotations.
RotationsAt(list) == {i \in 1 .. Len(list) : list[i].kind = "rotation"}

\* There are as many angles as the first counter says in the end.
LEMMA AngleCounts ==
  ASSUME NEW list, WellFormed(list), NEW gradient \in BOOLEAN, NEW slots, Counts(slots, list, gradient)
  PROVE  slots[Len(list)].angle = AngleCount(list)
<1> DEFINE N == Len(list)
           at == RotationsAt(list)
           U(m) == Upto(at, m)
           T == {n \in 0 .. N : slots[n].angle = Cardinality(U(n))}
<1>1. N \in Nat /\ DOMAIN list = 1 .. N
  BY LenProperties DEF WellFormed
<1>2. /\ Cardinality(U(0)) = 0
      /\ \A m \in 1 .. N : Cardinality(U(m)) = IF m \in at THEN Cardinality(U(m - 1)) + 1
                                               ELSE Cardinality(U(m - 1))
  <2> HIDE DEF N, at
  <2> QED
    BY <1>1, CountUpTo
<1>3. \A m \in 1 .. N : m \in at <=> list[m].kind = "rotation"
  BY DEF RotationsAt
<1>4. U(N) = {i \in DOMAIN list : list[i].kind = "rotation"}
  BY <1>1 DEF RotationsAt, Upto
<1> HIDE DEF U, at, N
<1>5. 0 \in T
  BY <1>1, <1>2 DEF Counts, N
<1>6. ASSUME NEW n \in 1 .. N, n - 1 \in T PROVE n \in T
  <2>1. slots[n - 1].angle = Cardinality(U(n - 1)) /\ n \in 0 .. N
    BY <1>1, <1>6
  <2>2. slots[n].angle = IF list[n].kind = "rotation" THEN slots[n - 1].angle + 1 ELSE slots[n - 1].angle
    <3>1. slots[n] = NextSlots(list[n], gradient, slots[n - 1])
      BY DEF Counts, N
    <3> QED
      BY <3>1 DEF NextSlots
  <2>3. slots[n].angle = Cardinality(U(n))
    BY <1>2, <1>3, <2>1, <2>2
  <2> QED
    BY <2>1, <2>3
<1> HIDE DEF T
<1>7. \A n \in 0 .. N : n \in T
  BY <1>1, <1>5, <1>6, UpTo
<1>8. N \in T
  BY <1>1, <1>7
<1> QED
  BY <1>4, <1>8 DEF T, AngleCount, N

\* There are finitely many angles.
LEMMA AngleCountIsNat ==
  ASSUME NEW list, WellFormed(list)
  PROVE  AngleCount(list) \in Nat
<1> DEFINE N == Len(list)
           at == RotationsAt(list)
<1>1. N \in Nat /\ DOMAIN list = 1 .. N
  BY LenProperties DEF WellFormed
<1>2. Upto(at, N) = {i \in DOMAIN list : list[i].kind = "rotation"}
  BY <1>1 DEF RotationsAt, Upto
<1> HIDE DEF N, at
<1>3. Cardinality(Upto(at, N)) \in Nat
  BY <1>1, CountUpTo
<1> QED
  BY <1>2, <1>3 DEF AngleCount

\* What the elements of a circuit are.
LEMMA OperationsAre ==
  ASSUME NEW list, WellFormed(list)
  PROVE  /\ Len(list) \in Nat /\ DOMAIN list = 1 .. Len(list)
         /\ \A i \in 1 .. Len(list) :
              /\ list[i] = [kind |-> list[i].kind, values |-> list[i].values]
              /\ list[i].kind \in Kinds /\ list[i].values \in Seq(Int)
              /\ Len(list[i].values) = Arity[list[i].kind]
              /\ list[i].kind \in ChannelKinds => list[i].values \in Seq(Nat)
<1> DEFINE O == [kind : Kinds, values : Seq(Int)]
<1>1. list \in Seq(O)
  BY DEF WellFormed
<1>2. Len(list) \in Nat /\ DOMAIN list = 1 .. Len(list) /\ \A i \in 1 .. Len(list) : list[i] \in O
  <2> HIDE DEF O
  <2> QED
    BY <1>1, LenProperties, ElementOfSeq
<1>3. \A o \in O : o = [kind |-> o.kind, values |-> o.values] /\ o.kind \in Kinds /\ o.values \in Seq(Int)
  OBVIOUS
<1> HIDE DEF O
<1>4. \A i \in 1 .. Len(list) : /\ Len(list[i].values) = Arity[list[i].kind]
                                /\ list[i].kind \in ChannelKinds => list[i].values \in Seq(Nat)
  BY <1>2 DEF WellFormed
<1> QED
  BY <1>2, <1>3, <1>4

\* The tape, given the counters.
PackedWith(slots, list, gradient) ==
  [i \in DOMAIN list |-> PackGate(list[i].kind, Refs(list[i], gradient, slots[i - 1]))]

\* Building a tape goes through the operations and counts.
LEMMA BuildCounts ==
  ASSUME NEW list, WellFormed(list), NEW gradient \in BOOLEAN
  PROVE  \E slots : /\ Counts(slots, list, gradient)
                    /\ BuildTape(list, gradient) = PackedWith(slots, list, gradient)
<1> DEFINE N == Len(list)
           V == [angle : Nat, channel : Nat]
           base == [angle |-> 0, channel |-> FirstChannelSlot(list)]
           step == [k \in 1 .. N |-> [v \in V |-> NextSlots(list[k], gradient, v)]]
           Body(g) == [n \in 0 .. N |-> IF n = 0 THEN base ELSE NextSlots(list[n], gradient, g[n - 1])]
           slots == CHOOSE g : g = Body(g)
<1>1. N \in Nat /\ DOMAIN list = 1 .. N /\ \A k \in 1 .. N : list[k].kind \in Kinds
  BY OperationsAre
<1>2. base \in V
  BY AngleCountIsNat DEF FirstChannelSlot
<1>3. \A k \in 1 .. N : \A v \in V : NextSlots(list[k], gradient, v) \in V
  <2> SUFFICES ASSUME NEW k \in 1 .. N, NEW v \in V PROVE NextSlots(list[k], gradient, v) \in V
    OBVIOUS
  <2>1. Arity[list[k].kind] \in Nat
    BY <1>1, Arities
  <2> QED
    BY <2>1 DEF NextSlots
<1>4. PICK g : IsChain(g, N, V, base, step)
  <2>1. step \in [1 .. N -> [V -> V]]
    BY <1>3
  <2> HIDE DEF N, V, base, step
  <2> QED
    BY <1>1, <1>2, <2>1, Chain
<1>5. g = Body(g)
  <2>1. g = [n \in 0 .. N |-> g[n]] /\ g[0] = base
    BY <1>4 DEF IsChain
  <2>2. ASSUME NEW n \in 0 .. N
        PROVE  g[n] = IF n = 0 THEN base ELSE NextSlots(list[n], gradient, g[n - 1])
    <3>1. CASE n = 0
      BY <2>1, <3>1
    <3>2. CASE n # 0
      <4>1. n \in 1 .. N /\ n - 1 \in 0 .. N
        BY <1>1, <3>2
      <4>2. g[n - 1] \in V /\ g[n] = step[n][g[n - 1]]
        BY <1>4, <4>1 DEF IsChain
      <4> HIDE DEF V
      <4> QED
        BY <3>2, <4>1, <4>2
    <3> QED
      BY <3>1, <3>2
  <2> QED
    BY <2>1, <2>2, Zenon
<1>6. slots = Body(slots)
  <2> HIDE DEF Body
  <2> QED
    BY <1>5
<1> HIDE DEF slots
<1>7. /\ slots[0] = base
      /\ \A n \in 1 .. N : slots[n] = NextSlots(list[n], gradient, slots[n - 1])
  <2>1. \A n \in 0 .. N : slots[n] = IF n = 0 THEN base ELSE NextSlots(list[n], gradient, slots[n - 1])
    BY <1>6, Zenon
  <2> HIDE DEF base
  <2> QED
    BY <1>1, <2>1
<1>8. \A n \in 0 .. N : slots[n] \in V
  <2> DEFINE T == {n \in 0 .. N : slots[n] \in V}
  <2> HIDE DEF V
  <2>1. 0 \in T
    BY <1>1, <1>2, <1>7
  <2>2. ASSUME NEW n \in 1 .. N, n - 1 \in T PROVE n \in T
    BY <1>1, <1>3, <1>7, <2>2
  <2> HIDE DEF T
  <2>3. \A n \in 0 .. N : n \in T
    BY <1>1, <2>1, <2>2, UpTo
  <2> QED
    BY <2>3 DEF T
<1>9. BuildTape(list, gradient) = PackedWith(slots, list, gradient)
  BY DEF BuildTape, PackedWith, slots
<1>10. Counts(slots, list, gradient)
  BY <1>7, <1>8 DEF Counts
<1> QED
  BY <1>9, <1>10

---------------------------------------------------------------------------
(* Compiled gates                                                         *)

\* The compiled gates, given the counters.
GatesWith(slots, list, gradient) ==
  [i \in 1 .. Len(list) |->
     [kind |-> list[i].kind, refs |-> Refs(list[i], gradient, slots[i - 1])]]

\* Every reference _build_tape makes can be carried.
LEMMA RefsCarried ==
  ASSUME NEW list, WellFormed(list), NEW gradient \in BOOLEAN, NEW slots, Counts(slots, list, gradient),
         NEW i \in 1 .. Len(list)
  PROVE  /\ Carried(Refs(list[i], gradient, slots[i - 1]), Arity[list[i].kind])
         /\ Arity[list[i].kind] \in Nat
         /\ DOMAIN list[i].values = 1 .. Arity[list[i].kind]
<1> DEFINE op == list[i]
           n == Arity[op.kind]
           s == slots[i - 1]
           refs == Refs(op, gradient, s)
<1>1. /\ op.kind \in Kinds /\ op.values \in Seq(Int) /\ Len(op.values) = n
      /\ op.kind \in ChannelKinds => op.values \in Seq(Nat)
      /\ Len(list) \in Nat
  BY OperationsAre
<1>2. n \in Nat /\ (op.kind = "rotation" => n = 1) /\ (n # 0 /\ op.kind # "rotation" => op.kind \in ChannelKinds)
  BY <1>1, Arities
<1>3. s.angle \in Nat /\ s.channel \in Nat
  <2>1. i - 1 \in 0 .. Len(list)
    BY <1>1
  <2>2. s \in [angle : Nat, channel : Nat]
    BY <2>1 DEF Counts
  <2> QED
    BY <2>2
<1> HIDE DEF op, n, s
<1>4. DOMAIN op.values = 1 .. n
  BY <1>1, LenProperties
<1>5. \A k \in 1 .. n : op.values[k] \in Int /\ (op.kind \in ChannelKinds => op.values[k] \in Nat)
  BY <1>1, ElementOfSeq
<1>6. ASSUME NEW k \in 1 .. n
      PROVE  /\ refs[k] \in [value : Int, slot : Int]
             /\ \/ refs[k].slot = -1 /\ (k > 1 => refs[k].value >= 0)
                \/ refs[k].value = 0 /\ refs[k].slot >= 0
  <2>1. CASE ~gradient
    <3>1. refs[k] = [value |-> op.values[k], slot |-> -1]
      BY <1>4, <2>1 DEF Refs, Static
    <3>2. k > 1 => op.values[k] >= 0
      BY <1>2, <1>5
    <3> QED
      BY <1>5, <3>1, <3>2
  <2>2. CASE gradient /\ op.kind = "rotation"
    <3>1. refs[k] = [value |-> 0, slot |-> s.angle]
      BY <1>4, <2>2 DEF Refs, Slot
    <3> QED
      BY <1>3, <3>1
  <2>3. CASE gradient /\ op.kind # "rotation"
    <3>1. refs[k] = [value |-> 0, slot |-> s.channel + k - 1]
      BY <1>4, <2>3 DEF Refs, Slot
    <3>2. s.channel + k - 1 \in Nat
      BY <1>2, <1>3
    <3> QED
      BY <3>1, <3>2
  <2> QED
    BY <2>1, <2>2, <2>3
<1>7. refs \in [1 .. n -> [value : Int, slot : Int]]
  <2>1. refs = [k \in 1 .. n |-> refs[k]]
    BY <1>4 DEF Refs
  <2> HIDE DEF refs
  <2> QED
    BY <1>6, <2>1
<1> HIDE DEF refs
<1>8. Carried(refs, n)
  BY <1>6, <1>7 DEF Carried
<1> QED
  BY <1>2, <1>4, <1>8 DEF refs, op, n, s

\* Compiling the tape gives back its kinds and references.
LEMMA Compiles ==
  ASSUME NEW list, WellFormed(list), NEW gradient \in BOOLEAN, NEW slots, Counts(slots, list, gradient)
  PROVE  CompileTape(PackedWith(slots, list, gradient)) = GatesWith(slots, list, gradient)
<1> DEFINE tape == PackedWith(slots, list, gradient)
<1>1. DOMAIN list = 1 .. Len(list)
  BY OperationsAre
<1>2. DOMAIN tape = 1 .. Len(list)
  BY <1>1 DEF PackedWith
<1>3. ASSUME NEW i \in 1 .. Len(list)
      PROVE  /\ tape[i].kind = list[i].kind
             /\ CompileOperation(tape[i]) = Refs(list[i], gradient, slots[i - 1])
  <2> DEFINE kind == list[i].kind
             n == Arity[kind]
             refs == Refs(list[i], gradient, slots[i - 1])
  <2>1. tape[i] = PackGate(kind, refs)
    BY <1>1 DEF PackedWith
  <2>2. Carried(refs, n) /\ n \in Nat
    BY RefsCarried
  <2>3. kind = "fixed" <=> n = 0
    BY OperationsAre, Arities
  <2> HIDE DEF refs, n, kind, tape
  <2>4. CompileOperation(PackGate(kind, refs)) = refs
    BY <2>2, <2>3, RoundTrip
  <2>5. PackGate(kind, refs).kind = kind
    BY DEF PackGate
  <2> QED
    BY <2>1, <2>4, <2>5 DEF refs, kind
<1> HIDE DEF tape
<1>4. CompileTape(tape) = [i \in 1 .. Len(list) |-> [kind |-> tape[i].kind, refs |-> CompileOperation(tape[i])]]
  BY <1>2 DEF CompileTape
<1> QED
  BY <1>3, <1>4 DEF GatesWith, tape

\* What LoweringResolves says of one tape of a circuit.
Resolves(list, gradient) ==
  LET gates == CompileTape(BuildTape(list, gradient))
      values == Evaluate(gates, IF gradient THEN ParameterValues(list) ELSE <<>>)
  IN  /\ SlotsCover(gates)
      /\ values # Failed("ValueError")
      /\ values.applied = list

\* What it says of from_circuit.
RebuiltFrom(list) ==
  LET tape == BuildTape(list, FALSE)
  IN  /\ \A i \in DOMAIN tape : Concrete(tape[i])
      /\ [i \in DOMAIN tape |-> OperationFromTape(tape[i])] = list

\* An evaluation that succeeds is not an error.
LEMMA SuccessIsNoError ==
  ASSUME NEW a, NEW g
  PROVE  [applied |-> a, gradient |-> g] # Failed("ValueError")
<1>1. DOMAIN [applied |-> a, gradient |-> g] = {"applied", "gradient"} /\ DOMAIN Failed("ValueError") = {"error"}
  BY DEF Failed
<1>2. "applied" \notin {"error"}
  OBVIOUS
<1> QED
  BY <1>1, <1>2

\* What a reference stands for.
Meaning(ref, parameters) == IF ref.slot = -1 THEN ref.value ELSE parameters[ref.slot + 1]

\* Every reference stands for its value.
Faithful(slots, list, gradient, parameters) ==
  \A i \in 1 .. Len(list) : \A k \in 1 .. Len(list[i].values) :
    Meaning(Refs(list[i], gradient, slots[i - 1])[k], parameters) = list[i].values[k]

\* What gates apply.
Applied(gates, parameters) == [i \in DOMAIN gates |-> ResolvedGate(gates[i], parameters)]

\* Then the gates apply the operations.
LEMMA AppliesList ==
  ASSUME NEW list, WellFormed(list), NEW gradient \in BOOLEAN, NEW slots, NEW parameters,
         Faithful(slots, list, gradient, parameters)
  PROVE  Applied(GatesWith(slots, list, gradient), parameters) = list
<1> DEFINE gates == GatesWith(slots, list, gradient)
           applied == [i \in DOMAIN gates |-> ResolvedGate(gates[i], parameters)]
<1>1. DOMAIN list = 1 .. Len(list) /\ Len(list) \in Nat /\ DOMAIN gates = 1 .. Len(list)
  BY OperationsAre DEF GatesWith
<1>2. ASSUME NEW i \in 1 .. Len(list) PROVE ResolvedGate(gates[i], parameters) = list[i]
  <2> DEFINE refs == Refs(list[i], gradient, slots[i - 1])
             values == [k \in DOMAIN refs |-> Meaning(refs[k], parameters)]
  <2>1. gates[i].kind = list[i].kind /\ gates[i].refs = refs
    BY DEF GatesWith
  <2>2. /\ list[i] = [kind |-> list[i].kind, values |-> list[i].values]
        /\ list[i].values \in Seq(Int)
    BY OperationsAre
  <2>3. DOMAIN refs = 1 .. Len(list[i].values) /\ DOMAIN list[i].values = 1 .. Len(list[i].values)
    <3>1. DOMAIN list[i].values = 1 .. Len(list[i].values)
      BY <2>2, LenProperties
    <3> QED
      BY <3>1 DEF Refs
  <2>4. values = list[i].values
    <3>1. \A k \in 1 .. Len(list[i].values) : values[k] = list[i].values[k]
      BY <2>3 DEF Faithful
    <3>2. list[i].values = [k \in 1 .. Len(list[i].values) |-> list[i].values[k]]
      BY <2>2, <2>3
    <3> QED
      BY <2>3, <3>1, <3>2
  <2>5. ResolvedGate(gates[i], parameters) = [kind |-> list[i].kind, values |-> values]
    BY <2>1 DEF ResolvedGate, Meaning
  <2> QED
    BY <2>2, <2>4, <2>5
<1>3. list = [i \in 1 .. Len(list) |-> list[i]]
  BY <1>1 DEF WellFormed
<1> HIDE DEF gates
<1>4. applied = [i \in 1 .. Len(list) |-> list[i]]
  BY <1>1, <1>2
<1> QED
  BY <1>3, <1>4 DEF gates, Applied

---------------------------------------------------------------------------
(* A tape without parameters                                              *)

\* The references of a static tape.
LEMMA StaticRefs ==
  ASSUME NEW list, WellFormed(list), NEW slots, NEW i \in 1 .. Len(list)
  PROVE  /\ DOMAIN Refs(list[i], FALSE, slots[i - 1]) = 1 .. Len(list[i].values)
         /\ \A k \in 1 .. Len(list[i].values) :
              Refs(list[i], FALSE, slots[i - 1])[k] = Static(list[i].values[k])
<1>1. DOMAIN list[i].values = 1 .. Len(list[i].values)
  BY OperationsAre, LenProperties
<1> QED
  BY <1>1 DEF Refs

\* A static reference stands for its value.
LEMMA StaticMeans == \A v, parameters : Meaning(Static(v), parameters) = v
BY DEF Meaning, Static

\* The tape of a circuit without parameters applies its operations.
LEMMA StaticResolves ==
  ASSUME NEW list, WellFormed(list)
  PROVE  Resolves(list, FALSE)
<1>1. PICK slots : Counts(slots, list, FALSE) /\ BuildTape(list, FALSE) = PackedWith(slots, list, FALSE)
  BY BuildCounts
<1> DEFINE gates == GatesWith(slots, list, FALSE)
<1>2. CompileTape(BuildTape(list, FALSE)) = gates
  BY <1>1, Compiles
<1>3. SlotsOfTape(gates) = {}
  <2>1. ASSUME NEW i \in DOMAIN gates PROVE SlotsOfGate(gates[i]) = {}
    <3>1. i \in 1 .. Len(list) /\ gates[i].refs = Refs(list[i], FALSE, slots[i - 1])
      BY DEF GatesWith
    <3> DEFINE refs == Refs(list[i], FALSE, slots[i - 1])
               m == Len(list[i].values)
    <3>3. DOMAIN refs = 1 .. m /\ \A k \in 1 .. m : refs[k] = Static(list[i].values[k])
      BY <3>1, StaticRefs
    <3>4. gates[i].refs = refs
      BY <3>1
    <3> HIDE DEF refs, m, gates
    <3>2. \A k \in DOMAIN gates[i].refs : gates[i].refs[k].slot = -1
      BY <3>3, <3>4 DEF Static
    <3> QED
      BY <3>2 DEF SlotsOfGate
  <2> QED
    BY <2>1 DEF SlotsOfTape
<1>4. TapeParameters(gates) = 0 /\ SlotsCover(gates)
  <2>1. TapeParameters(gates) = 0
    BY <1>3, FS_EmptySet DEF TapeParameters
  <2>2. 0 .. 0 - 1 = {}
    OBVIOUS
  <2> QED
    BY <1>3, <2>1, <2>2 DEF SlotsCover
<1>5. Applied(gates, <<>>) = list
  <2>1. Faithful(slots, list, FALSE, <<>>)
    <3> SUFFICES ASSUME NEW i \in 1 .. Len(list), NEW k \in 1 .. Len(list[i].values)
                 PROVE  Meaning(Refs(list[i], FALSE, slots[i - 1])[k], <<>>) = list[i].values[k]
      BY DEF Faithful
    <3>1. Refs(list[i], FALSE, slots[i - 1])[k] = Static(list[i].values[k])
      BY StaticRefs
    <3> QED
      BY <3>1, StaticMeans
  <2> DEFINE none == <<>>
  <2> HIDE DEF none
  <2>2. Faithful(slots, list, FALSE, none)
    BY <2>1 DEF none
  <2>3. Applied(gates, none) = list
    BY <2>2, AppliesList
  <2> QED
    BY <2>3 DEF none
<1> DEFINE gradient == [s \in DOMAIN <<>> |-> Contributors(gates, s - 1)]
           none == <<>>
<1> HIDE DEF gates
<1>6. Len(none) = 0
  OBVIOUS
<1>7. Evaluate(gates, none) = [applied |-> list, gradient |-> gradient]
  BY <1>4, <1>5, <1>6 DEF Evaluate, Applied
<1> HIDE DEF gradient
<1>8. Evaluate(gates, none) # Failed("ValueError") /\ Evaluate(gates, none).applied = list
  BY <1>7, SuccessIsNoError
<1> QED
  BY <1>2, <1>4, <1>8 DEF Resolves

\* from_circuit reads the operations back from a static tape.
LEMMA StaticRebuilds ==
  ASSUME NEW list, WellFormed(list)
  PROVE  RebuiltFrom(list)
<1>1. PICK slots : Counts(slots, list, FALSE) /\ BuildTape(list, FALSE) = PackedWith(slots, list, FALSE)
  BY BuildCounts
<1> DEFINE tape == BuildTape(list, FALSE)
<1>2. DOMAIN list = 1 .. Len(list) /\ Len(list) \in Nat /\ DOMAIN tape = 1 .. Len(list)
  BY <1>1, OperationsAre DEF PackedWith
<1>3. ASSUME NEW i \in 1 .. Len(list)
      PROVE  Concrete(tape[i]) /\ OperationFromTape(tape[i]) = list[i]
  <2> DEFINE kind == list[i].kind
             values == list[i].values
             n == Arity[kind]
             refs == Refs(list[i], FALSE, slots[i - 1])
             gate == tape[i]
  <2>1. /\ list[i] = [kind |-> kind, values |-> values]
        /\ kind \in Kinds /\ values \in Seq(Int) /\ Len(values) = n
        /\ kind \in ChannelKinds => values \in Seq(Nat)
    BY OperationsAre
  <2>2. n \in Nat /\ (n = 0 <=> kind = "fixed") /\ (n > 1 => kind \in ChannelKinds) /\ DOMAIN values = 1 .. n
    <3>1. kind \in ChannelKinds \/ kind = "rotation" \/ kind = "fixed"
      BY <2>1, Arities
    <3>2. n \in Nat /\ (n = 0 <=> kind = "fixed") /\ Arity["rotation"] = 1
      BY <2>1, Arities
    <3>3. DOMAIN values = 1 .. n
      BY <2>1, LenProperties
    <3> QED
      BY <3>1, <3>2, <3>3
  <2>3. /\ DOMAIN refs = 1 .. n
        /\ \A k \in 1 .. n : refs[k] = [value |-> values[k], slot |-> -1] /\ values[k] \in Int
    <3>0. DOMAIN refs = 1 .. Len(values) /\ \A k \in 1 .. Len(values) : refs[k] = Static(values[k])
      BY StaticRefs
    <3>1. DOMAIN refs = 1 .. n /\ \A k \in 1 .. n : refs[k] = Static(values[k])
      BY <2>1, <3>0
    <3>2. \A k \in 1 .. n : values[k] \in Int
      BY <2>1, ElementOfSeq
    <3> HIDE DEF refs, n, values
    <3> QED
      BY <3>1, <3>2 DEF Static
  <2>4. gate = PackGate(kind, refs)
    BY <1>1, <1>2 DEF PackedWith
  <2>5. refs \in Seq([value : Int, slot : Int]) /\ Len(refs) = n
    <3>1. refs = [k \in 1 .. n |-> refs[k]]
      BY <2>3 DEF Refs
    <3> HIDE DEF refs, n, values
    <3>2. refs \in [1 .. n -> [value : Int, slot : Int]]
      BY <2>3, <3>1
    <3>3. refs \in Seq([value : Int, slot : Int])
      BY <2>2, <3>2, SeqDef
    <3>4. DOMAIN refs = 1 .. Len(refs) /\ Len(refs) \in Nat
      BY <3>3, LenProperties
    <3> QED
      BY <2>2, <2>3, <3>3, <3>4
  <2> HIDE DEF refs, n, kind, values, gate
  <2>6. CASE n = 0
    <3>1. refs = <<>> /\ kind = "fixed" /\ values = <<>>
      BY <2>1, <2>2, <2>5, <2>6
    <3>2. /\ gate.kind = "fixed" /\ gate.parameter = -1 /\ DOMAIN gate.payload = 1 .. Len(refs) - 1
          /\ Len(refs) - 1 = -1
      BY <2>4, <2>5, <2>6, <3>1 DEF PackGate, Static
    <3>3. DOMAIN gate.payload = {}
      BY <3>2
    <3>4. Concrete(gate)
      BY <3>2, <3>3 DEF Concrete
    <3>5. OperationFromTape(gate) = [kind |-> kind, values |-> values]
      BY <3>1, <3>2 DEF OperationFromTape, Operation
    <3> QED
      BY <2>1, <3>4, <3>5 DEF gate
  <2>7. CASE n # 0
    <3>1. refs # <<>> /\ Head(refs) = refs[1] /\ 1 \in 1 .. n
      BY <2>2, <2>5, <2>7
    <3>2. /\ gate.kind = kind /\ gate.parameter = -1 /\ gate.angle = values[1]
          /\ gate.payload = [k \in 1 .. n - 1 |-> Packed(refs[k + 1])]
      BY <2>3, <2>4, <2>5, <3>1 DEF PackGate
    <3>3. ASSUME NEW k \in 1 .. n - 1 PROVE gate.payload[k] = values[k + 1] /\ values[k + 1] >= 0
      <4>1. k + 1 \in 1 .. n /\ n > 1
        BY <2>2
      <4>2. refs[k + 1] = [value |-> values[k + 1], slot |-> -1]
        BY <2>3, <4>1
      <4>3. Packed(refs[k + 1]) = values[k + 1]
        BY <4>2 DEF Packed
      <4>4. values[k + 1] \in Nat
        BY <2>1, <2>2, <4>1, ElementOfSeq
      <4>5. gate.payload[k] = Packed(refs[k + 1])
        BY <3>2
      <4> QED
        BY <4>3, <4>4, <4>5
    <3> DEFINE payload == gate.payload
               first == <<gate.angle>>
    <3>4. DOMAIN payload = 1 .. n - 1
      BY <3>2
    <3>5. Concrete(gate)
      BY <3>2, <3>3, <3>4 DEF Concrete
    <3>6. payload \in Seq(Int) /\ Len(payload) = n - 1 /\ first \in Seq(Int) /\ Len(first) = 1 /\ first[1] = values[1]
      <4>1. payload = [k \in 1 .. n - 1 |-> payload[k]] /\ \A k \in 1 .. n - 1 : payload[k] \in Int
        <5>1. \A k \in 1 .. n - 1 : payload[k] \in Int
          <6> SUFFICES ASSUME NEW k \in 1 .. n - 1 PROVE payload[k] \in Int
            OBVIOUS
          <6>1. k + 1 \in 1 .. n
            BY <2>2
          <6> QED
            BY <2>3, <3>3, <6>1
        <5> QED
          BY <3>2, <5>1
      <4>2. values[1] \in Int /\ n - 1 \in Nat
        BY <2>2, <2>3, <2>7, <3>1
      <4> HIDE DEF payload
      <4>3. payload \in [1 .. n - 1 -> Int]
        BY <4>1
      <4>4. payload \in Seq(Int)
        BY <4>2, <4>3, SeqDef
      <4>5. DOMAIN payload = 1 .. Len(payload) /\ Len(payload) \in Nat /\ DOMAIN payload = 1 .. n - 1
        BY <4>3, <4>4, LenProperties
      <4> QED
        BY <3>2, <4>2, <4>4, <4>5
    <3>7. first \o payload = values
      <4>1. \A k \in 1 .. n - 1 : payload[k] = values[k + 1]
        BY <3>3
      <4> HIDE DEF first, payload
      <4>2. Len(first) + Len(payload) = n
        BY <2>2, <3>6
      <4>3. /\ first \o payload \in Seq(Int) /\ Len(first \o payload) = n
            /\ \A j \in 1 .. n : (first \o payload)[j] = IF j <= 1 THEN first[j] ELSE payload[j - 1]
        BY <3>6, <4>2, ConcatProperties
      <4>4. ASSUME NEW j \in 1 .. n PROVE (first \o payload)[j] = values[j]
        <5>1. CASE j <= 1
          <6>1. j = 1
            BY <5>1
          <6> QED
            BY <3>6, <4>3, <5>1, <6>1
        <5>2. CASE ~(j <= 1)
          <6> DEFINE k == j - 1
          <6>1. k \in 1 .. n - 1 /\ k + 1 = j
            BY <2>2, <5>2
          <6>2. (first \o payload)[j] = payload[k]
            BY <4>3, <5>2
          <6> HIDE DEF k
          <6> QED
            BY <4>1, <6>1, <6>2
        <5> QED
          BY <5>1, <5>2
      <4> QED
        BY <2>1, <4>3, <4>4, SeqEqual
    <3>8. OperationFromTape(gate) = [kind |-> kind, values |-> values]
      BY <2>2, <2>7, <3>2, <3>7 DEF OperationFromTape, Operation
    <3> QED
      BY <2>1, <3>5, <3>8 DEF gate
  <2> QED
    BY <2>6, <2>7
<1> HIDE DEF tape
<1>4. list = [i \in 1 .. Len(list) |-> list[i]]
  BY <1>2 DEF WellFormed
<1>5. [i \in DOMAIN tape |-> OperationFromTape(tape[i])] = [i \in 1 .. Len(list) |-> list[i]]
  BY <1>2, <1>3
<1> QED
  BY <1>2, <1>3, <1>4, <1>5 DEF RebuiltFrom, tape

---------------------------------------------------------------------------
(* Where the parameters are                                               *)

\* What ValuesOf concatenates.
Parts(list, kinds) ==
  [i \in DOMAIN list |-> IF list[i].kind \in kinds THEN list[i].values ELSE <<>>]

\* They are sequences of integers, one for each operation.
LEMMA PartsAre ==
  ASSUME NEW list, WellFormed(list), NEW kinds
  PROVE  /\ Parts(list, kinds) \in Seq(Seq(Int)) /\ Len(Parts(list, kinds)) = Len(list)
         /\ \A i \in 1 .. Len(list) :
              Parts(list, kinds)[i] = IF list[i].kind \in kinds THEN list[i].values ELSE <<>>
<1> DEFINE parts == Parts(list, kinds)
           S == Seq(Int)
<1>1. Len(list) \in Nat /\ DOMAIN list = 1 .. Len(list) /\ \A i \in 1 .. Len(list) : list[i].values \in S
  BY OperationsAre
<1>2. \A i \in 1 .. Len(list) : parts[i] = IF list[i].kind \in kinds THEN list[i].values ELSE <<>>
  BY <1>1 DEF Parts
<1>3. <<>> \in S
  OBVIOUS
<1>4. parts = [i \in 1 .. Len(list) |-> parts[i]]
  BY <1>1 DEF Parts
<1> HIDE DEF parts, S
<1>5. parts \in [1 .. Len(list) -> S]
  BY <1>1, <1>2, <1>3, <1>4
<1>6. parts \in Seq(S)
  BY <1>1, <1>5, SeqDef
<1>7. DOMAIN parts = 1 .. Len(parts) /\ Len(parts) \in Nat /\ DOMAIN parts = 1 .. Len(list)
  BY <1>5, <1>6, LenProperties
<1>8. Len(parts) = Len(list)
  <2> DEFINE m == Len(parts)
             n == Len(list)
  <2>1. m \in Nat /\ n \in Nat /\ 1 .. m = 1 .. n
    BY <1>1, <1>7
  <2> HIDE DEF m, n
  <2>2. m = n
    BY <2>1
  <2> QED
    BY <2>2 DEF m, n
<1>9. Parts(list, kinds) \in Seq(Seq(Int))
  BY <1>6 DEF parts, S
<1>10. \A i \in 1 .. Len(list) :
         Parts(list, kinds)[i] = IF list[i].kind \in kinds THEN list[i].values ELSE <<>>
  BY <1>2 DEF parts
<1> QED
  BY <1>8, <1>9, <1>10 DEF parts

\* Where the values of an operation go in their part of the vector, less one.
AngleStart(slots, list) == [n \in 0 .. Len(list) |-> slots[n].angle]
ChannelStart(slots, list) == [n \in 0 .. Len(list) |-> slots[n].channel - AngleCount(list)]

\* The counters of _build_tape say where each operation begins in its part of the vector.
LEMMA Starts ==
  ASSUME NEW list, WellFormed(list), NEW slots, Counts(slots, list, TRUE)
  PROVE  /\ Begins(AngleStart(slots, list), Parts(list, {"rotation"}))
         /\ Begins(ChannelStart(slots, list), Parts(list, ChannelKinds))
<1> DEFINE N == Len(list)
           A == AngleCount(list)
           a == AngleStart(slots, list)
           c == ChannelStart(slots, list)
           angles == Parts(list, {"rotation"})
           channels == Parts(list, ChannelKinds)
<1>1. N \in Nat /\ A \in Nat /\ Len(angles) = N /\ Len(channels) = N
  BY OperationsAre, AngleCountIsNat, PartsAre
<1>2. \A n \in 0 .. N : /\ a[n] = slots[n].angle /\ c[n] = slots[n].channel - A
                        /\ slots[n].angle \in Nat /\ slots[n].channel \in Nat
  <2>1. \A s \in [angle : Nat, channel : Nat] : s.angle \in Nat /\ s.channel \in Nat
    OBVIOUS
  <2> QED
    BY <2>1 DEF Counts, AngleStart, ChannelStart
<1>3. slots[0].angle = 0 /\ slots[0].channel = A
  BY DEF Counts, FirstChannelSlot
<1>4. a[0] = 0 /\ c[0] = 0
  BY <1>1, <1>2, <1>3
<1>5. ASSUME NEW i \in 1 .. N
      PROVE  a[i] = a[i - 1] + Len(angles[i]) /\ c[i] = c[i - 1] + Len(channels[i])
  <2> DEFINE kind == list[i].kind
  <2>1. i - 1 \in 0 .. N /\ i \in 0 .. N
    BY <1>1
  <2>2. slots[i] = NextSlots(list[i], TRUE, slots[i - 1])
    BY DEF Counts
  <2>3. /\ slots[i].angle = IF kind = "rotation" THEN slots[i - 1].angle + 1 ELSE slots[i - 1].angle
        /\ slots[i].channel = IF kind \in ChannelKinds THEN slots[i - 1].channel + Arity[kind]
                              ELSE slots[i - 1].channel
    BY <2>2 DEF NextSlots
  <2>4. kind \in Kinds /\ Len(list[i].values) = Arity[kind]
    BY OperationsAre
  <2>5. Arity[kind] \in Nat /\ (kind = "rotation" => Arity[kind] = 1)
    BY <2>4, Arities
  <2>6. Len(<<>>) = 0
    OBVIOUS
  <2>7. /\ Len(angles[i]) = IF kind = "rotation" THEN 1 ELSE 0
        /\ Len(channels[i]) = IF kind \in ChannelKinds THEN Arity[kind] ELSE 0
    <3>1. /\ angles[i] = IF kind \in {"rotation"} THEN list[i].values ELSE <<>>
          /\ channels[i] = IF kind \in ChannelKinds THEN list[i].values ELSE <<>>
      BY PartsAre
    <3> HIDE DEF angles, channels, kind
    <3> QED
      BY <2>4, <2>5, <2>6, <3>1
  <2>8. /\ a[i] = slots[i].angle /\ c[i] = slots[i].channel - A
        /\ a[i - 1] = slots[i - 1].angle /\ c[i - 1] = slots[i - 1].channel - A
        /\ slots[i - 1].angle \in Nat /\ slots[i - 1].channel \in Nat
    BY <1>2, <2>1
  <2> HIDE DEF a, c, angles, channels, kind, A
  <2> QED
    BY <1>1, <2>3, <2>5, <2>7, <2>8
<1> HIDE DEF a, c, angles, channels, N
<1> QED
  BY <1>1, <1>4, <1>5 DEF Begins, a, c, angles, channels

\* The place of parameter k of operation i in the flat vector.
Place(slots, list, i, k) ==
  (IF list[i].kind = "rotation" THEN slots[i - 1].angle ELSE slots[i - 1].channel) + k

\* It holds the value of the parameter, among the angles or after them.
PlacesHold(slots, list) ==
  \A i \in 1 .. Len(list) : \A k \in 1 .. Len(list[i].values) :
    /\ Place(slots, list, i, k) \in 1 .. Len(ParameterValues(list))
    /\ ParameterValues(list)[Place(slots, list, i, k)] = list[i].values[k]
    /\ Place(slots, list, i, k) <= AngleCount(list) <=> list[i].kind = "rotation"

\* Every element of the vector is in use, by one parameter.
PlacesReach(slots, list) ==
  \A j \in 1 .. Len(ParameterValues(list)) :
    \E i \in 1 .. Len(list) : \E k \in 1 .. Len(list[i].values) : Place(slots, list, i, k) = j

PlacesApart(slots, list) ==
  \A i, n \in 1 .. Len(list) : \A k \in 1 .. Len(list[i].values) : \A l \in 1 .. Len(list[n].values) :
    Place(slots, list, i, k) = Place(slots, list, n, l) => i = n /\ k = l

\* The two parts of the vector.
LEMMA VectorParts ==
  ASSUME NEW list, WellFormed(list), NEW slots, Counts(slots, list, TRUE)
  PROVE  /\ PartsAt(AngleStart(slots, list), Parts(list, {"rotation"}), ValuesOf(list, {"rotation"}))
         /\ PartsAt(ChannelStart(slots, list), Parts(list, ChannelKinds), ValuesOf(list, ChannelKinds))
         /\ ValuesOf(list, {"rotation"}) \in Seq(Int) /\ ValuesOf(list, ChannelKinds) \in Seq(Int)
         /\ Len(ValuesOf(list, {"rotation"})) = AngleCount(list)
<1>1. \A kinds : ValuesOf(list, kinds) = FlattenSeq(Parts(list, kinds)) /\ Parts(list, kinds) \in Seq(Seq(Int))
  BY PartsAre DEF ValuesOf, Parts
<1>2. \A kinds : ValuesOf(list, kinds) \in Seq(Int)
  BY <1>1, FlattenElements
<1>3. /\ PartsAt(AngleStart(slots, list), Parts(list, {"rotation"}), ValuesOf(list, {"rotation"}))
      /\ PartsAt(ChannelStart(slots, list), Parts(list, ChannelKinds), ValuesOf(list, ChannelKinds))
  BY <1>1, Starts, FlattenParts
<1>4. Len(ValuesOf(list, {"rotation"})) = AngleCount(list)
  <2>1. Len(list) \in Nat /\ Len(Parts(list, {"rotation"})) = Len(list)
    BY OperationsAre, PartsAre
  <2>2. AngleStart(slots, list)[Len(list)] = slots[Len(list)].angle
    BY <2>1 DEF AngleStart
  <2>3. slots[Len(list)].angle = AngleCount(list)
    BY AngleCounts
  <2>4. Len(ValuesOf(list, {"rotation"})) = AngleStart(slots, list)[Len(list)]
    BY <1>3, <2>1 DEF PartsAt
  <2> QED
    BY <2>2, <2>3, <2>4
<1> QED
  BY <1>2, <1>3, <1>4

\* The places are right.
LEMMA Placed ==
  ASSUME NEW list, WellFormed(list), NEW slots, Counts(slots, list, TRUE)
  PROVE  PlacesHold(slots, list) /\ PlacesReach(slots, list) /\ PlacesApart(slots, list)
<1> DEFINE N == Len(list)
           A == AngleCount(list)
           a == AngleStart(slots, list)
           c == ChannelStart(slots, list)
           angles == Parts(list, {"rotation"})
           channels == Parts(list, ChannelKinds)
           R == ValuesOf(list, {"rotation"})
           C == ValuesOf(list, ChannelKinds)
           P == ParameterValues(list)
           size(i) == Len(list[i].values)
           place(i, k) == Place(slots, list, i, k)
<1>1. /\ N \in Nat /\ A \in Nat /\ Len(angles) = N /\ Len(channels) = N
      /\ angles \in Seq(Seq(Int)) /\ channels \in Seq(Seq(Int))
      /\ Begins(a, angles) /\ Begins(c, channels)
  BY OperationsAre, AngleCountIsNat, PartsAre, Starts
<1>2. /\ PartsAt(a, angles, R) /\ PartsAt(c, channels, C)
      /\ R \in Seq(Int) /\ C \in Seq(Int) /\ Len(R) = A /\ Len(C) \in Nat
  <2>1. /\ PartsAt(a, angles, R) /\ PartsAt(c, channels, C)
        /\ R \in Seq(Int) /\ C \in Seq(Int) /\ Len(R) = A
    BY VectorParts
  <2> HIDE DEF a, c, angles, channels, R, C, A
  <2> QED
    BY <2>1
<1>3. /\ P = R \o C /\ Len(P) = A + Len(C)
      /\ \A j \in 1 .. A + Len(C) : P[j] = IF j <= A THEN R[j] ELSE C[j - A]
  <2>1. P = R \o C
    BY DEF ParameterValues
  <2> HIDE DEF P, R, C, A
  <2> QED
    BY <1>2, <2>1, ConcatProperties
<1>4. ASSUME NEW i \in 1 .. N
      PROVE  /\ a[i - 1] = slots[i - 1].angle /\ c[i - 1] = slots[i - 1].channel - A
             /\ a[i - 1] \in Nat /\ c[i - 1] \in Nat
             /\ slots[i - 1].angle \in Nat /\ slots[i - 1].channel \in Nat
  <2>1. i - 1 \in 0 .. N
    BY <1>1
  <2>2. slots[i - 1] \in [angle : Nat, channel : Nat]
    BY <2>1 DEF Counts
  <2>3. slots[i - 1].angle \in Nat /\ slots[i - 1].channel \in Nat
    BY <2>2
  <2>4. a[i - 1] = slots[i - 1].angle /\ c[i - 1] = slots[i - 1].channel - A
    BY <2>1 DEF AngleStart, ChannelStart
  <2>5. c[i - 1] \in Nat
    <3> HIDE DEF c, channels, N
    <3> QED
      BY <1>1, <2>1, BeginsGrow
  <2> QED
    BY <2>3, <2>4, <2>5
\* The two kinds of operation that have parameters, and their parts.
<1>5. ASSUME NEW i \in 1 .. N, NEW k \in 1 .. size(i)
      PROVE  \/ /\ list[i].kind = "rotation" /\ angles[i] = list[i].values
                /\ place(i, k) = a[i - 1] + k
             \/ /\ list[i].kind # "rotation" /\ channels[i] = list[i].values
                /\ place(i, k) = A + (c[i - 1] + k)
  <2>1. list[i].kind \in Kinds /\ Len(list[i].values) = Arity[list[i].kind]
    BY OperationsAre
  <2>2. list[i].kind = "rotation" \/ list[i].kind \in ChannelKinds
    <3>1. Arity[list[i].kind] # 0
      BY <2>1, Arities
    <3> QED
      BY <2>1, <3>1, Arities
  <2>3. /\ angles[i] = IF list[i].kind \in {"rotation"} THEN list[i].values ELSE <<>>
        /\ channels[i] = IF list[i].kind \in ChannelKinds THEN list[i].values ELSE <<>>
    <3>1. angles[i] = IF list[i].kind \in {"rotation"} THEN list[i].values ELSE <<>>
      BY PartsAre
    <3>2. channels[i] = IF list[i].kind \in ChannelKinds THEN list[i].values ELSE <<>>
      BY PartsAre
    <3> QED
      BY <3>1, <3>2
  <2>4. k \in Int
    OBVIOUS
  <2>5. place(i, k) = IF list[i].kind = "rotation" THEN slots[i - 1].angle + k ELSE slots[i - 1].channel + k
    BY DEF Place
  <2> HIDE DEF angles, channels, a, c, A
  <2>6. CASE list[i].kind = "rotation"
    BY <1>4, <2>3, <2>5, <2>6
  <2>7. CASE list[i].kind # "rotation"
    <3> DEFINE u == slots[i - 1].channel
               v == c[i - 1]
    <3>2. u \in Int /\ v = u - A
      BY <1>4
    <3> HIDE DEF u, v
    <3>3. u + k = A + (v + k)
      BY <1>1, <2>4, <3>2
    <3>1. slots[i - 1].channel + k = A + (c[i - 1] + k)
      BY <3>3 DEF u, v
    <3> QED
      BY <2>2, <2>3, <2>5, <2>7, <3>1
  <2> QED
    BY <2>6, <2>7
<1>6. ASSUME NEW i \in 1 .. N, NEW k \in 1 .. Len(angles[i])
      PROVE  a[i - 1] + k \in 1 .. A /\ R[a[i - 1] + k] = angles[i][k]
  BY <1>1, <1>2 DEF PartsAt
<1>7. ASSUME NEW i \in 1 .. N, NEW k \in 1 .. Len(channels[i])
      PROVE  c[i - 1] + k \in 1 .. Len(C) /\ C[c[i - 1] + k] = channels[i][k]
  BY <1>1, <1>2 DEF PartsAt
<1> HIDE DEF a, c, angles, channels, R, C, P, A, N
<1>8. ASSUME NEW i \in 1 .. N, NEW k \in 1 .. size(i)
      PROVE  /\ place(i, k) \in 1 .. Len(P) /\ P[place(i, k)] = list[i].values[k]
             /\ place(i, k) <= A <=> list[i].kind = "rotation"
  <2>1. CASE list[i].kind = "rotation"
    <3> DEFINE j == a[i - 1] + k
    <3>1. angles[i] = list[i].values /\ place(i, k) = j
      BY <1>5, <2>1
    <3>2. j \in 1 .. A /\ R[j] = list[i].values[k]
      BY <1>6, <3>1
    <3> HIDE DEF j
    <3>3. j \in 1 .. A + Len(C) /\ j <= A
      BY <1>1, <1>2, <3>2
    <3>4. P[j] = list[i].values[k]
      BY <1>3, <3>2, <3>3
    <3> QED
      BY <1>3, <2>1, <3>1, <3>3, <3>4
  <2>2. CASE list[i].kind # "rotation"
    <3> DEFINE j == c[i - 1] + k
               q == A + j
    <3>1. channels[i] = list[i].values /\ place(i, k) = q
      BY <1>5, <2>2
    <3>2. j \in 1 .. Len(C) /\ C[j] = list[i].values[k]
      BY <1>7, <3>1
    <3> HIDE DEF j
    <3>3. q \in 1 .. A + Len(C) /\ ~(q <= A) /\ q - A = j
      BY <1>1, <1>2, <3>2
    <3> HIDE DEF q
    <3>4. P[q] = list[i].values[k]
      BY <1>3, <3>2, <3>3
    <3> QED
      BY <1>3, <2>2, <3>1, <3>3, <3>4
  <2> QED
    BY <2>1, <2>2
<1>9. ASSUME NEW j \in 1 .. Len(P)
      PROVE  \E i \in 1 .. N : \E k \in 1 .. size(i) : place(i, k) = j
  <2>0. Len(<<>>) = 0
    OBVIOUS
  <2>1. CASE j <= A
    <3>1. j \in 1 .. A
      BY <1>1, <2>1
    <3>7. PICK i \in 1 .. N : \E k \in 1 .. Len(angles[i]) : j = a[i - 1] + k
      BY <1>1, <1>2, <3>1 DEF PartsAt
    <3>2. PICK k \in 1 .. Len(angles[i]) : j = a[i - 1] + k
      BY <3>7
    <3>3. angles[i] = IF list[i].kind \in {"rotation"} THEN list[i].values ELSE <<>>
      BY PartsAre DEF angles, N
    <3>4. list[i].kind = "rotation" /\ k \in 1 .. size(i)
      BY <2>0, <3>2, <3>3
    <3>5. place(i, k) = a[i - 1] + k
      BY <1>5, <3>4
    <3> QED
      BY <3>2, <3>4, <3>5
  <2>2. CASE ~(j <= A)
    <3> DEFINE m == j - A
    <3>1. m \in 1 .. Len(C) /\ j = A + m
      BY <1>1, <1>2, <1>3, <2>2
    <3> HIDE DEF m
    <3>7. PICK i \in 1 .. N : \E k \in 1 .. Len(channels[i]) : m = c[i - 1] + k
      BY <1>1, <1>2, <3>1 DEF PartsAt
    <3>2. PICK k \in 1 .. Len(channels[i]) : m = c[i - 1] + k
      BY <3>7
    <3>3. channels[i] = IF list[i].kind \in ChannelKinds THEN list[i].values ELSE <<>>
      BY PartsAre DEF channels, N
    <3>4. list[i].kind \in ChannelKinds /\ k \in 1 .. size(i)
      BY <2>0, <3>2, <3>3
    <3>5. list[i].kind # "rotation"
      BY <3>4 DEF ChannelKinds
    <3>6. place(i, k) = A + (c[i - 1] + k)
      BY <1>5, <3>4, <3>5
    <3> QED
      BY <3>1, <3>2, <3>4, <3>6
  <2> QED
    BY <2>1, <2>2
<1>10. ASSUME NEW i \in 1 .. N, NEW n \in 1 .. N, NEW k \in 1 .. size(i), NEW l \in 1 .. size(n),
              place(i, k) = place(n, l)
       PROVE  i = n /\ k = l
  <2>1. list[i].kind = "rotation" <=> list[n].kind = "rotation"
    BY <1>8, <1>10
  <2>2. CASE list[i].kind = "rotation"
    <3>1. /\ angles[i] = list[i].values /\ place(i, k) = a[i - 1] + k
          /\ angles[n] = list[n].values /\ place(n, l) = a[n - 1] + l
      BY <1>5, <2>1, <2>2
    <3>2. k \in 1 .. Len(angles[i]) /\ l \in 1 .. Len(angles[n]) /\ a[i - 1] + k = a[n - 1] + l
      BY <1>10, <3>1
    <3>3. i \in 1 .. Len(angles) /\ n \in 1 .. Len(angles)
      BY <1>1
    <3>4. Apart(a, angles)
      BY <1>1, PartsApart
    <3> QED
      BY <3>2, <3>3, <3>4 DEF Apart
  <2>3. CASE list[i].kind # "rotation"
    <3>1. /\ channels[i] = list[i].values /\ place(i, k) = A + (c[i - 1] + k)
          /\ channels[n] = list[n].values /\ place(n, l) = A + (c[n - 1] + l)
      BY <1>5, <2>1, <2>3
    <3>2. k \in 1 .. Len(channels[i]) /\ l \in 1 .. Len(channels[n]) /\ k \in Int /\ l \in Int
      BY <3>1
    <3>3. c[i - 1] + k = c[n - 1] + l
      <4> DEFINE u == c[i - 1] + k
                 v == c[n - 1] + l
      <4>3. c[i - 1] \in Int /\ c[n - 1] \in Int
        BY <1>4
      <4>4. u \in Int /\ v \in Int
        BY <3>2, <4>3
      <4>1. u \in Int /\ v \in Int /\ A + u = A + v
        BY <1>10, <3>1, <4>4
      <4> HIDE DEF u, v
      <4>2. u = v
        BY <1>1, <4>1
      <4> QED
        BY <4>2 DEF u, v
    <3>4. i \in 1 .. Len(channels) /\ n \in 1 .. Len(channels)
      BY <1>1
    <3>5. Apart(c, channels)
      BY <1>1, PartsApart
    <3> QED
      BY <3>2, <3>3, <3>4, <3>5 DEF Apart
  <2> QED
    BY <2>2, <2>3
<1>11. PlacesHold(slots, list)
  BY <1>8 DEF PlacesHold, N, P, A
<1>12. PlacesReach(slots, list)
  BY <1>9 DEF PlacesReach, N, P
<1>13. PlacesApart(slots, list)
  BY <1>10 DEF PlacesApart, N
<1> QED
  BY <1>11, <1>12, <1>13

---------------------------------------------------------------------------
(* A tape with parameters                                                 *)

\* The references of a gradient tape.
LEMMA GradientRefs ==
  ASSUME NEW list, WellFormed(list), NEW slots, Counts(slots, list, TRUE), NEW i \in 1 .. Len(list)
  PROVE  /\ DOMAIN Refs(list[i], TRUE, slots[i - 1]) = 1 .. Len(list[i].values)
         /\ \A k \in 1 .. Len(list[i].values) :
              /\ Refs(list[i], TRUE, slots[i - 1])[k] = Slot(Place(slots, list, i, k) - 1)
              /\ Place(slots, list, i, k) \in Nat /\ Place(slots, list, i, k) >= 1
<1> DEFINE op == list[i]
           s == slots[i - 1]
           n == Len(op.values)
<1>1. DOMAIN op.values = 1 .. n /\ n \in Nat /\ op.kind \in Kinds /\ n = Arity[op.kind]
  BY OperationsAre, LenProperties
<1>2. s.angle \in Nat /\ s.channel \in Nat
  <2>1. i - 1 \in 0 .. Len(list)
    BY OperationsAre
  <2>2. s \in [angle : Nat, channel : Nat]
    BY <2>1 DEF Counts
  <2> HIDE DEF s
  <2> QED
    BY <2>2
<1>3. ASSUME NEW k \in 1 .. n
      PROVE  /\ Refs(op, TRUE, s)[k] = Slot(Place(slots, list, i, k) - 1)
             /\ Place(slots, list, i, k) \in Nat /\ Place(slots, list, i, k) >= 1
  <2>1. Place(slots, list, i, k) = (IF op.kind = "rotation" THEN s.angle ELSE s.channel) + k
    BY DEF Place
  <2>2. Refs(op, TRUE, s)[k] = IF op.kind = "rotation" THEN Slot(s.angle) ELSE Slot(s.channel + k - 1)
    BY <1>1 DEF Refs
  <2>3. op.kind = "rotation" => k = 1
    BY <1>1, Arities
  <2> HIDE DEF s, op, n
  <2>4. CASE op.kind = "rotation"
    <3>1. Place(slots, list, i, k) = s.angle + 1 /\ s.angle + 1 - 1 = s.angle
      BY <1>2, <2>1, <2>3, <2>4
    <3>2. Place(slots, list, i, k) - 1 = s.angle
      BY <1>2, <3>1
    <3>3. Place(slots, list, i, k) \in Nat /\ Place(slots, list, i, k) >= 1
      BY <1>2, <3>1
    <3> QED
      BY <2>2, <2>4, <3>2, <3>3
  <2>5. CASE op.kind # "rotation"
    <3>1. Place(slots, list, i, k) = s.channel + k /\ s.channel + k \in Nat /\ s.channel + k >= 1
      BY <1>1, <1>2, <2>1, <2>5
    <3>2. Place(slots, list, i, k) - 1 = s.channel + k - 1
      BY <1>1, <1>2, <3>1
    <3> QED
      BY <2>2, <2>5, <3>1, <3>2
  <2> QED
    BY <2>4, <2>5
<1>4. DOMAIN Refs(op, TRUE, s) = 1 .. n
  BY <1>1 DEF Refs
<1> QED
  BY <1>3, <1>4

\* The numbers of a vector's elements, from zero.
LEMMA FromZero ==
  ASSUME NEW m \in Nat
  PROVE  {j - 1 : j \in 1 .. m} = 0 .. m - 1 /\ IsFiniteSet(0 .. m - 1) /\ Cardinality(0 .. m - 1) = m
<1>1. \A x \in 0 .. m - 1 : x + 1 \in 1 .. m /\ x = (x + 1) - 1
  OBVIOUS
<1>2. \A j \in 1 .. m : j - 1 \in 0 .. m - 1
  OBVIOUS
<1>3. {j - 1 : j \in 1 .. m} = 0 .. m - 1
  BY <1>1, <1>2
<1>4. IsFiniteSet(0 .. m - 1) /\ Cardinality(0 .. m - 1) = IF 0 > m - 1 THEN 0 ELSE m - 1 - 0 + 1
  BY FS_Interval
<1>5. (IF 0 > m - 1 THEN 0 ELSE m - 1 - 0 + 1) = m
  OBVIOUS
<1> QED
  BY <1>3, <1>4, <1>5

\* The slots of a gradient tape number the elements of the vector, and each of them
\* collects what the one parameter in its place contributes.
SlotsNumber(slots, list, gates) ==
  /\ SlotsOfTape(gates) = 0 .. Len(ParameterValues(list)) - 1
  /\ TapeParameters(gates) = Len(ParameterValues(list))
  /\ \A i \in 1 .. Len(list) : \A k \in 1 .. Len(list[i].values) :
       Contributors(gates, Place(slots, list, i, k) - 1) = {[operation |-> i, parameter |-> k]}

\* So the native side finds slots without holes, and no slot is shared.
LEMMA GradientSlots ==
  ASSUME NEW list, WellFormed(list), NEW slots, Counts(slots, list, TRUE)
  PROVE  SlotsNumber(slots, list, GatesWith(slots, list, TRUE))
<1> DEFINE N == Len(list)
           gates == GatesWith(slots, list, TRUE)
           P == ParameterValues(list)
           M == Len(P)
           size(i) == Len(list[i].values)
           place(i, k) == Place(slots, list, i, k)
<1>1. PlacesHold(slots, list) /\ PlacesReach(slots, list) /\ PlacesApart(slots, list)
  BY Placed
<1>2. M \in Nat
  <2>1. ValuesOf(list, {"rotation"}) \in Seq(Int) /\ ValuesOf(list, ChannelKinds) \in Seq(Int)
    BY VectorParts
  <2>2. P \in Seq(Int)
    BY <2>1, ConcatProperties DEF ParameterValues
  <2> HIDE DEF P
  <2> QED
    BY <2>2
<1>3. DOMAIN gates = 1 .. N
  BY DEF GatesWith
<1>4. ASSUME NEW i \in 1 .. N
      PROVE  /\ DOMAIN gates[i].refs = 1 .. size(i)
             /\ \A k \in 1 .. size(i) : gates[i].refs[k].slot = place(i, k) - 1
                                        /\ place(i, k) \in 1 .. M
  <2> DEFINE refs == Refs(list[i], TRUE, slots[i - 1])
  <2>1. gates[i].refs = refs
    BY DEF GatesWith
  <2>2. /\ DOMAIN refs = 1 .. size(i)
        /\ \A k \in 1 .. size(i) : refs[k] = Slot(place(i, k) - 1)
    BY GradientRefs
  <2>3. \A k \in 1 .. size(i) : place(i, k) \in 1 .. M
    BY <1>1 DEF PlacesHold
  <2>4. \A x : Slot(x).slot = x
    BY DEF Slot
  <2> HIDE DEF refs, gates
  <2> QED
    BY <2>1, <2>2, <2>3, <2>4
<1> HIDE DEF gates
<1>5. SlotsOfTape(gates) = {j - 1 : j \in 1 .. M}
  <2>1. ASSUME NEW i \in 1 .. N PROVE SlotsOfGate(gates[i]) = {place(i, k) - 1 : k \in 1 .. size(i)}
    <3> DEFINE refs == gates[i].refs
    <3>1. DOMAIN refs = 1 .. size(i) /\ \A k \in 1 .. size(i) : refs[k].slot = place(i, k) - 1
      BY <1>4
    <3>2. \A k \in 1 .. size(i) : place(i, k) - 1 # -1
      BY <1>4, <1>2
    <3> HIDE DEF refs
    <3>3. {refs[k].slot : k \in DOMAIN refs} = {place(i, k) - 1 : k \in 1 .. size(i)}
      BY <3>1
    <3>4. -1 \notin {place(i, k) - 1 : k \in 1 .. size(i)}
      BY <3>2
    <3> QED
      BY <3>3, <3>4 DEF SlotsOfGate, refs
  <2>2. SlotsOfTape(gates) = UNION {SlotsOfGate(gates[i]) : i \in 1 .. N}
    BY <1>3 DEF SlotsOfTape
  <2>3. ASSUME NEW x \in SlotsOfTape(gates) PROVE x \in {j - 1 : j \in 1 .. M}
    <3>1. PICK i \in 1 .. N : x \in SlotsOfGate(gates[i])
      BY <2>2
    <3>2. PICK k \in 1 .. size(i) : x = place(i, k) - 1
      BY <2>1, <3>1
    <3>3. place(i, k) \in 1 .. M
      BY <1>4
    <3> QED
      BY <3>2, <3>3
  <2>4. ASSUME NEW j \in 1 .. M PROVE j - 1 \in SlotsOfTape(gates)
    <3>1. PICK i \in 1 .. N : \E k \in 1 .. size(i) : place(i, k) = j
      BY <1>1 DEF PlacesReach
    <3>2. PICK k \in 1 .. size(i) : place(i, k) = j
      BY <3>1
    <3>3. j - 1 \in SlotsOfGate(gates[i])
      BY <2>1, <3>2
    <3> QED
      BY <2>2, <3>3
  <2> QED
    BY <2>3, <2>4
<1>6. SlotsOfTape(gates) = 0 .. M - 1 /\ TapeParameters(gates) = M
  <2> HIDE DEF M
  <2>1. {j - 1 : j \in 1 .. M} = 0 .. M - 1 /\ Cardinality(0 .. M - 1) = M
    BY <1>2, FromZero
  <2> QED
    BY <1>5, <2>1 DEF TapeParameters
<1>7. ASSUME NEW i \in 1 .. N, NEW k \in 1 .. size(i)
      PROVE  Contributors(gates, place(i, k) - 1) = {[operation |-> i, parameter |-> k]}
  <2> DEFINE s == place(i, k) - 1
             Of(n) == {[operation |-> n, parameter |-> l] :
                         l \in {l \in DOMAIN gates[n].refs : gates[n].refs[l].slot = s}}
  <2>1. Contributors(gates, s) = UNION {Of(n) : n \in 1 .. N}
    BY <1>3 DEF Contributors
  <2>2. [operation |-> i, parameter |-> k] \in Of(i)
    BY <1>4
  <2>3. ASSUME NEW n \in 1 .. N, NEW x \in Of(n) PROVE x = [operation |-> i, parameter |-> k]
    <3>1. PICK l \in 1 .. size(n) : gates[n].refs[l].slot = s /\ x = [operation |-> n, parameter |-> l]
      BY <1>4
    <3>2. place(n, l) - 1 = place(i, k) - 1 /\ place(n, l) \in 1 .. M /\ place(i, k) \in 1 .. M
      BY <1>4, <3>1
    <3> DEFINE u == place(n, l)
               v == place(i, k)
    <3>3. u \in Int /\ v \in Int /\ u - 1 = v - 1
      BY <3>2, <1>2
    <3> HIDE DEF u, v
    <3>4. u = v
      BY <3>3
    <3>5. n = i /\ l = k
      BY <1>1, <3>4 DEF PlacesApart, u, v
    <3> QED
      BY <3>1, <3>5
  <2> HIDE DEF Of, s
  <2>4. UNION {Of(n) : n \in 1 .. N} = {[operation |-> i, parameter |-> k]}
    BY <2>2, <2>3
  <2> QED
    BY <2>1, <2>4 DEF s
<1> QED
  BY <1>6, <1>7 DEF SlotsNumber, gates

\* The tape with slots applies the operations of its circuit.
LEMMA GradientResolves ==
  ASSUME NEW list, WellFormed(list)
  PROVE  Resolves(list, TRUE)
<1>1. PICK slots : Counts(slots, list, TRUE) /\ BuildTape(list, TRUE) = PackedWith(slots, list, TRUE)
  BY BuildCounts
<1> DEFINE gates == GatesWith(slots, list, TRUE)
           P == ParameterValues(list)
<1>2. CompileTape(BuildTape(list, TRUE)) = gates
  BY <1>1, Compiles
<1>3. SlotsOfTape(gates) = 0 .. Len(P) - 1 /\ TapeParameters(gates) = Len(P)
  BY <1>1, GradientSlots DEF SlotsNumber
<1>4. Applied(gates, P) = list
  <2>1. Faithful(slots, list, TRUE, P)
    <3> SUFFICES ASSUME NEW i \in 1 .. Len(list), NEW k \in 1 .. Len(list[i].values)
                 PROVE  Meaning(Refs(list[i], TRUE, slots[i - 1])[k], P) = list[i].values[k]
      BY DEF Faithful
    <3> DEFINE place == Place(slots, list, i, k)
               ref == Refs(list[i], TRUE, slots[i - 1])[k]
    <3>1. ref = Slot(place - 1) /\ place \in Nat /\ place >= 1
      BY <1>1, GradientRefs
    <3>2. P[place] = list[i].values[k]
      <4>1. PlacesHold(slots, list)
        BY <1>1, Placed
      <4> QED
        BY <4>1 DEF PlacesHold
    <3> HIDE DEF ref, place, P
    <3>3. ref.slot = place - 1 /\ place - 1 # -1 /\ place - 1 + 1 = place
      BY <3>1 DEF Slot
    <3>4. Meaning(ref, P) = P[place]
      BY <3>3 DEF Meaning
    <3> QED
      BY <3>2, <3>4 DEF ref
  <2> HIDE DEF P
  <2> QED
    BY <2>1, AppliesList
<1> DEFINE gradient == [s \in DOMAIN P |-> Contributors(gates, s - 1)]
<1> HIDE DEF gates, P
<1>5. Evaluate(gates, P) = [applied |-> list, gradient |-> gradient]
  BY <1>3, <1>4 DEF Evaluate, Applied
<1> HIDE DEF gradient
<1>6. Evaluate(gates, P) # Failed("ValueError") /\ Evaluate(gates, P).applied = list
  BY <1>5, SuccessIsNoError
<1>7. SlotsCover(gates)
  BY <1>3 DEF SlotsCover
<1> QED
  BY <1>2, <1>6, <1>7 DEF Resolves, P

---------------------------------------------------------------------------
(* The gradient of the channels                                           *)

\* What ChannelParameterLayout concatenates.
LayoutParts(list) ==
  [i \in DOMAIN list |->
     IF list[i].kind \in ChannelKinds
     THEN [k \in DOMAIN list[i].values |-> [operation |-> i, parameter |-> k]]
     ELSE <<>>]

Parameters == [operation : Nat, parameter : Nat]

\* The layout has an entry for every element of the channels' part of the vector.
LEMMA LayoutIsPlaced ==
  ASSUME NEW list, WellFormed(list), NEW slots, Counts(slots, list, TRUE)
  PROVE  /\ PartsAt(ChannelStart(slots, list), LayoutParts(list), ChannelParameterLayout(list))
         /\ LayoutParts(list) \in Seq(Seq(Parameters)) /\ Len(LayoutParts(list)) = Len(list)
         /\ Len(ChannelParameterLayout(list)) = Len(ValuesOf(list, ChannelKinds))
         /\ ChannelParameterLayout(list) \in Seq(Parameters)
<1> DEFINE N == Len(list)
           parts == LayoutParts(list)
           channels == Parts(list, ChannelKinds)
           start == ChannelStart(slots, list)
           none == <<>>
<1>1. N \in Nat /\ DOMAIN list = 1 .. N /\ Len(channels) = N
  BY OperationsAre, PartsAre
<1>2. none \in Seq(Parameters) /\ Len(none) = 0
  OBVIOUS
<1>3. ASSUME NEW i \in 1 .. N
      PROVE  parts[i] \in Seq(Parameters) /\ Len(parts[i]) = Len(channels[i])
  <2> DEFINE entries == [k \in DOMAIN list[i].values |-> [operation |-> i, parameter |-> k]]
             m == Len(list[i].values)
  <2>1. parts[i] = IF list[i].kind \in ChannelKinds THEN entries ELSE none
    BY <1>1 DEF LayoutParts
  <2>2. channels[i] = IF list[i].kind \in ChannelKinds THEN list[i].values ELSE none
    BY PartsAre
  <2>3. m \in Nat /\ DOMAIN list[i].values = 1 .. m
    BY OperationsAre, LenProperties
  <2>4. entries \in [1 .. m -> Parameters]
    BY <1>1, <2>3 DEF Parameters
  <2> HIDE DEF entries, m
  <2>5. entries \in Seq(Parameters)
    BY <2>3, <2>4, SeqDef
  <2>6. DOMAIN entries = 1 .. Len(entries) /\ Len(entries) \in Nat /\ DOMAIN entries = 1 .. m
    BY <2>4, <2>5, LenProperties
  <2>7. Len(entries) = m
    <3> DEFINE n == Len(entries)
    <3>1. n \in Nat /\ 1 .. n = 1 .. m
      BY <2>6
    <3> HIDE DEF n
    <3>2. n = m
      BY <2>3, <3>1
    <3> QED
      BY <3>2 DEF n
  <2> HIDE DEF parts, channels, none
  <2>8. CASE list[i].kind \in ChannelKinds
    BY <2>1, <2>2, <2>5, <2>7, <2>8 DEF m
  <2>9. CASE list[i].kind \notin ChannelKinds
    BY <1>2, <2>1, <2>2, <2>9
  <2> QED
    BY <2>8, <2>9
<1>4. parts \in Seq(Seq(Parameters)) /\ Len(parts) = N
  <2>1. parts = [i \in 1 .. N |-> parts[i]]
    BY <1>1 DEF LayoutParts
  <2> DEFINE S == Seq(Parameters)
  <2> HIDE DEF parts, N, S
  <2>2. parts \in [1 .. N -> S]
    BY <1>3, <2>1 DEF S
  <2>3. parts \in Seq(S)
    BY <1>1, <2>2, SeqDef
  <2>4. DOMAIN parts = 1 .. Len(parts) /\ Len(parts) \in Nat /\ DOMAIN parts = 1 .. N
    BY <2>2, <2>3, LenProperties
  <2> DEFINE n == Len(parts)
  <2>5. n \in Nat /\ 1 .. n = 1 .. N
    BY <2>4
  <2> HIDE DEF n
  <2>6. n = N
    BY <1>1, <2>5
  <2> QED
    BY <2>3, <2>6 DEF n, S
<1>5. Begins(start, channels)
  BY Starts
<1> HIDE DEF parts, channels, start
<1>6. Begins(start, parts)
  <2>1. \A i \in 1 .. N : start[i] = start[i - 1] + Len(channels[i])
    BY <1>1, <1>5 DEF Begins
  <2>2. \A i \in 1 .. N : start[i] = start[i - 1] + Len(parts[i])
    BY <1>3, <2>1
  <2> QED
    BY <1>4, <1>5, <2>2 DEF Begins
<1>7. ChannelParameterLayout(list) = FlattenSeq(parts)
  BY DEF ChannelParameterLayout, LayoutParts, parts
<1>8. PartsAt(start, parts, ChannelParameterLayout(list)) /\ ChannelParameterLayout(list) \in Seq(Parameters)
  BY <1>4, <1>6, <1>7, FlattenParts, FlattenElements
<1>9. PartsAt(start, channels, ValuesOf(list, ChannelKinds))
  BY VectorParts DEF start, channels
<1>10. Len(ChannelParameterLayout(list)) = Len(ValuesOf(list, ChannelKinds))
  BY <1>1, <1>4, <1>8, <1>9 DEF PartsAt
<1> QED
  BY <1>4, <1>8, <1>10 DEF parts, start

\* What GradientFollowsLayout says of a circuit.
FollowsLayout(list) ==
  LET gates == CompileTape(BuildTape(list, TRUE))
      gradient == Evaluate(gates, ParameterValues(list)).gradient
      split == SplitGradient(gradient, AngleCount(list))
      layout == ChannelParameterLayout(list)
  IN  /\ split.channels = [j \in DOMAIN layout |-> {layout[j]}]
      /\ \A j \in DOMAIN split.angles : \A p \in split.angles[j] :
           list[p.operation].kind = "rotation"

\* The layout and the channel gradient list the same parameters in the same order.
LEMMA LayoutFollowed ==
  ASSUME NEW list, WellFormed(list)
  PROVE  FollowsLayout(list)
<1>1. PICK slots : Counts(slots, list, TRUE) /\ BuildTape(list, TRUE) = PackedWith(slots, list, TRUE)
  BY BuildCounts
<1> DEFINE gates == GatesWith(slots, list, TRUE)
           P == ParameterValues(list)
           R == ValuesOf(list, {"rotation"})
           C == ValuesOf(list, ChannelKinds)
           M == Len(P)
           A == AngleCount(list)
           layout == ChannelParameterLayout(list)
           start == ChannelStart(slots, list)
           parts == LayoutParts(list)
           gradient == Evaluate(gates, P).gradient
           angles == SubSeq(gradient, 1, A)
           channels == SubSeq(gradient, A + 1, M)
           E == {Contributors(gates, s - 1) : s \in 1 .. M} \cup {{x} : x \in Parameters}
           place(i, k) == Place(slots, list, i, k)
           N == Len(list)
           size(i) == Len(list[i].values)
<1>2. CompileTape(BuildTape(list, TRUE)) = gates
  BY <1>1, Compiles
<1>3. SlotsNumber(slots, list, gates)
  BY <1>1, GradientSlots
<1>4. R \in Seq(Int) /\ C \in Seq(Int) /\ Len(R) = A /\ A \in Nat
  BY <1>1, VectorParts, AngleCountIsNat
<1>5. P \in Seq(Int) /\ M = A + Len(C) /\ Len(C) \in Nat /\ DOMAIN P = 1 .. M
  <2>1. P = R \o C
    BY DEF ParameterValues
  <2> HIDE DEF R, C, P, A
  <2> QED
    BY <1>4, <2>1, ConcatProperties, LenProperties
<1>6. gradient = [s \in 1 .. M |-> Contributors(gates, s - 1)]
  <2>1. TapeParameters(gates) = M
    BY <1>3 DEF SlotsNumber
  <2> HIDE DEF gates, P
  <2> QED
    BY <1>5, <2>1 DEF Evaluate
<1>7. /\ PartsAt(start, parts, layout) /\ Len(parts) = N
      /\ Len(layout) = Len(C) /\ layout \in Seq(Parameters)
  BY <1>1, LayoutIsPlaced
<1>8. PlacesHold(slots, list) /\ PlacesReach(slots, list)
  BY <1>1, Placed
<1> HIDE DEF gradient, gates, P, R, C, A, M, layout, start, parts
<1>9. \A s \in 1 .. M : gradient[s] \in E
  BY <1>6
<1>10. gradient \in Seq(E) /\ Len(gradient) = M
  <2> HIDE DEF E
  <2>1. gradient \in [1 .. M -> E] /\ M \in Nat
    BY <1>4, <1>5, <1>6, <1>9
  <2>2. gradient \in Seq(E)
    BY <2>1, SeqDef
  <2>3. DOMAIN gradient = 1 .. Len(gradient) /\ Len(gradient) \in Nat
    BY <2>2, LenProperties
  <2> DEFINE n == Len(gradient)
  <2>4. n \in Nat /\ 1 .. n = 1 .. M
    BY <2>1, <2>3
  <2> HIDE DEF n
  <2>5. n = M
    BY <2>1, <2>4
  <2> QED
    BY <2>2, <2>5 DEF n
<1>11. /\ channels \in Seq(E) /\ Len(channels) = Len(C)
       /\ \A j \in 1 .. Len(C) : channels[j] = gradient[A + j]
  <2> DEFINE m == A + 1
  <2>1. m \in Int /\ M \in Int /\ \A i \in m .. M : gradient[i] \in E
    <3>1. m \in Int /\ M \in Int /\ \A i \in m .. M : i \in 1 .. M
      BY <1>4, <1>5
    <3> HIDE DEF m, E
    <3> QED
      BY <1>9, <3>1
  <2> HIDE DEF m, E
  <2>2. /\ SubSeq(gradient, m, M) \in Seq(E)
        /\ Len(SubSeq(gradient, m, M)) = IF m <= M THEN M - m + 1 ELSE 0
        /\ \A i \in 1 .. M - m + 1 : SubSeq(gradient, m, M)[i] = gradient[m + i - 1]
    BY <2>1, SubSeqProperties
  <2>3. M - m + 1 = Len(C) /\ (IF m <= M THEN M - m + 1 ELSE 0) = Len(C)
    BY <1>4, <1>5 DEF m
  <2>4. \A i \in 1 .. Len(C) : m + i - 1 = A + i
    BY <1>4 DEF m
  <2> QED
    BY <2>2, <2>3, <2>4 DEF m
<1>12. /\ DOMAIN angles = 1 .. A
       /\ \A j \in 1 .. A : angles[j] = gradient[j]
  <2>1. 1 \in Int /\ A \in Int /\ \A i \in 1 .. A : gradient[i] \in E
    <3>1. \A i \in 1 .. A : i \in 1 .. M
      BY <1>4, <1>5
    <3> HIDE DEF E
    <3> QED
      BY <1>4, <1>9, <3>1
  <2> HIDE DEF E
  <2>2. /\ angles \in Seq(E)
        /\ Len(angles) = IF 1 <= A THEN A - 1 + 1 ELSE 0
        /\ \A i \in 1 .. A - 1 + 1 : angles[i] = gradient[1 + i - 1]
    BY <2>1, SubSeqProperties
  <2>3. DOMAIN angles = 1 .. Len(angles)
    BY <2>2, LenProperties
  <2>4. A - 1 + 1 = A /\ (IF 1 <= A THEN A - 1 + 1 ELSE 0) = A /\ \A i \in 1 .. A : 1 + i - 1 = i
    BY <1>4
  <2> HIDE DEF angles
  <2> QED
    BY <2>2, <2>3, <2>4
<1>13. ASSUME NEW j \in 1 .. Len(C) PROVE channels[j] = {layout[j]}
  <2>0. j \in 1 .. Len(layout)
    BY <1>7
  <2>1. PICK i \in 1 .. N : \E k \in 1 .. Len(parts[i]) : j = start[i - 1] + k
    <3>1. \E i \in 1 .. Len(parts) : \E k \in 1 .. Len(parts[i]) : j = start[i - 1] + k
      BY <1>7, <2>0 DEF PartsAt
    <3> QED
      BY <1>7, <3>1
  <2>2. PICK k \in 1 .. Len(parts[i]) : j = start[i - 1] + k
    BY <2>1
  <2>3. layout[j] = parts[i][k]
    BY <1>7, <2>2 DEF PartsAt
  <2>4. N \in Nat /\ DOMAIN list = 1 .. N /\ DOMAIN list[i].values = 1 .. size(i) /\ size(i) \in Nat
    BY OperationsAre, LenProperties
  <2>5. parts[i] = IF list[i].kind \in ChannelKinds
                   THEN [l \in 1 .. size(i) |-> [operation |-> i, parameter |-> l]] ELSE <<>>
    BY <2>4 DEF parts, LayoutParts
  <2>6. list[i].kind \in ChannelKinds
    BY <2>2, <2>5
  <2>7. k \in 1 .. size(i)
    <3> DEFINE entries == [l \in 1 .. size(i) |-> [operation |-> i, parameter |-> l]]
    <3>1. Len(entries) = size(i)
      <4> DEFINE m == size(i)
                 n == Len(entries)
      <4>1. entries \in [1 .. m -> Parameters] /\ m \in Nat
        BY <2>4 DEF Parameters
      <4> HIDE DEF entries, m
      <4>2. entries \in Seq(Parameters)
        BY <4>1, SeqDef
      <4>3. n \in Nat /\ 1 .. n = 1 .. m
        BY <4>1, <4>2, LenProperties
      <4> HIDE DEF n
      <4>4. n = m
        BY <4>1, <4>3
      <4> QED
        BY <4>4 DEF n, m
    <3> QED
      BY <2>2, <2>5, <2>6, <3>1
  <2>8. layout[j] = [operation |-> i, parameter |-> k]
    BY <2>3, <2>5, <2>6, <2>7
  <2>9. place(i, k) = A + j
    <3> DEFINE u == slots[i - 1].channel
    <3>1. list[i].kind # "rotation"
      BY <2>6 DEF ChannelKinds
    <3>2. place(i, k) = u + k
      BY <3>1 DEF Place
    <3>3. i - 1 \in 0 .. N
      BY <2>4
    <3>4. start[i - 1] = u - A
      BY <3>3 DEF start, ChannelStart, A
    <3>5. slots[i - 1] \in [angle : Nat, channel : Nat]
      BY <1>1, <3>3 DEF Counts
    <3>6. u \in Nat
      BY <3>5
    <3> HIDE DEF u
    <3>7. k \in Int /\ j = u - A + k
      BY <2>2, <2>7, <3>4, <2>4
    <3>8. u + k = A + j
      BY <1>4, <3>6, <3>7
    <3> QED
      BY <3>2, <3>8
  <2>10. Contributors(gates, place(i, k) - 1) = {[operation |-> i, parameter |-> k]}
    BY <1>3, <2>7 DEF SlotsNumber
  <2>11. A + j \in 1 .. M
    BY <1>4, <1>5
  <2> DEFINE s == place(i, k)
  <2>12. s \in 1 .. M /\ channels[j] = gradient[s]
    BY <1>11, <2>9, <2>11
  <2> HIDE DEF s
  <2>13. gradient[s] = Contributors(gates, s - 1)
    BY <1>6, <2>12
  <2> QED
    BY <2>8, <2>10, <2>12, <2>13 DEF s
<1>14. channels = [j \in DOMAIN layout |-> {layout[j]}]
  <2> DEFINE singles == [j \in DOMAIN layout |-> {layout[j]}]
             L == Len(C)
  <2>1. DOMAIN layout = 1 .. L /\ L \in Nat /\ \A j \in 1 .. L : layout[j] \in Parameters
    BY <1>5, <1>7, LenProperties, ElementOfSeq
  <2>2. singles = [j \in 1 .. L |-> {layout[j]}]
    BY <2>1
  <2>3. DOMAIN channels = 1 .. L
    BY <1>11, LenProperties
  <2>4. channels = [j \in 1 .. L |-> channels[j]]
    <3> HIDE DEF channels, E, L
    <3> QED
      BY <1>11, <2>3
  <2> HIDE DEF channels
  <2> QED
    BY <1>13, <2>2, <2>4
<1>15. ASSUME NEW j \in DOMAIN angles, NEW p \in angles[j] PROVE list[p.operation].kind = "rotation"
  <2>1. j \in 1 .. A /\ j \in 1 .. M
    BY <1>4, <1>5, <1>12
  <2>2. angles[j] = Contributors(gates, j - 1)
    BY <1>6, <1>12, <2>1
  <2>3. PICK i \in 1 .. N : \E k \in 1 .. size(i) : place(i, k) = j
    BY <1>8, <2>1 DEF PlacesReach, M, P
  <2>4. PICK k \in 1 .. size(i) : place(i, k) = j
    BY <2>3
  <2>5. Contributors(gates, place(i, k) - 1) = {[operation |-> i, parameter |-> k]}
    BY <1>3, <2>4 DEF SlotsNumber
  <2>6. place(i, k) <= A
    BY <1>4, <2>1, <2>4
  <2>7. list[i].kind = "rotation"
    BY <1>8, <2>4, <2>6 DEF PlacesHold, A
  <2>8. p = [operation |-> i, parameter |-> k]
    BY <2>2, <2>4, <2>5
  <2> QED
    BY <2>7, <2>8
<1> HIDE DEF angles, channels
<1>16. SplitGradient(gradient, A) = [angles |-> angles, channels |-> channels]
  BY <1>10 DEF SplitGradient, angles, channels
<1> DEFINE split == SplitGradient(gradient, A)
<1>17. /\ split.channels = [j \in DOMAIN layout |-> {layout[j]}]
       /\ \A j \in DOMAIN split.angles : \A p \in split.angles[j] : list[p.operation].kind = "rotation"
  <2> HIDE DEF split
  <2>1. split.angles = angles /\ split.channels = channels
    BY <1>16 DEF split
  <2> QED
    BY <1>14, <1>15, <2>1
<1> HIDE DEF split
<1> QED
  BY <1>2, <1>17 DEF FollowsLayout, split, gradient, A, P, layout

---------------------------------------------------------------------------
(* Type correctness                                                        *)

\* Fresh values are natural numbers.
LEMMA FreshNumbers ==
  ASSUME NEW kind \in Kinds, WellFormed(ops)
  PROVE  FreshValues(kind) \in Seq(Nat) /\ Len(FreshValues(kind)) = Arity[kind]
<1> DEFINE n == Arity[kind]
           first == Len(ValuesOf(ops, Kinds))
           v == FreshValues(kind)
<1>1. n \in Nat
  BY Arities
<1>2. first \in Nat
  <2>1. Parts(ops, Kinds) \in Seq(Seq(Int)) /\ ValuesOf(ops, Kinds) = FlattenSeq(Parts(ops, Kinds))
    BY PartsAre DEF ValuesOf, Parts
  <2>2. ValuesOf(ops, Kinds) \in Seq(Int)
    BY <2>1, FlattenElements
  <2> QED
    BY <2>2
<1>3. v = [k \in 1 .. n |-> first + k - 1]
  BY DEF FreshValues
<1> HIDE DEF n, first, v
<1>4. v \in [1 .. n -> Nat]
  BY <1>1, <1>2, <1>3
<1>5. v \in Seq(Nat)
  BY <1>1, <1>4, SeqDef
<1>6. DOMAIN v = 1 .. Len(v) /\ Len(v) \in Nat /\ DOMAIN v = 1 .. n
  BY <1>4, <1>5, LenProperties
<1> DEFINE m == Len(v)
<1>7. m \in Nat /\ 1 .. m = 1 .. n
  BY <1>6
<1> HIDE DEF m
<1>8. m = n
  BY <1>1, <1>7
<1> QED
  BY <1>5, <1>8 DEF m, v, n

\* Appending an operation keeps the list well formed.
LEMMA AppendWellFormed ==
  ASSUME NEW kind \in Kinds, WellFormed(ops)
  PROVE  WellFormed(Append(ops, Operation(kind, FreshValues(kind))))
<1> DEFINE O == [kind : Kinds, values : Seq(Int)]
           op == Operation(kind, FreshValues(kind))
           list == Append(ops, op)
<1>1. /\ op.kind = kind /\ op.values \in Seq(Nat) /\ Len(op.values) = Arity[kind]
      /\ op \in O
  <2>1. FreshValues(kind) \in Seq(Nat) /\ Len(FreshValues(kind)) = Arity[kind]
    BY FreshNumbers
  <2>2. FreshValues(kind) \in Seq(Int)
    <3>1. \A s \in Seq(Nat) : s \in Seq(Int)
      OBVIOUS
    <3> QED
      BY <2>1, <3>1
  <2> QED
    BY <2>1, <2>2 DEF Operation
<1>2. ops \in Seq(O)
  BY DEF WellFormed
<1> HIDE DEF op, O
<1>3. /\ list \in Seq(O) /\ Len(list) = Len(ops) + 1
      /\ \A i \in 1 .. Len(ops) : list[i] = ops[i]
      /\ list[Len(ops) + 1] = op
  BY <1>1, <1>2, AppendProperties
<1>4. DOMAIN list = 1 .. Len(list) /\ DOMAIN ops = 1 .. Len(ops) /\ Len(ops) \in Nat
  BY <1>2, <1>3, LenProperties
<1> HIDE DEF list
<1>5. ASSUME NEW i \in DOMAIN list
      PROVE  /\ Len(list[i].values) = Arity[list[i].kind]
             /\ list[i].kind \in ChannelKinds => list[i].values \in Seq(Nat)
  <2>1. CASE i = Len(ops) + 1
    BY <1>1, <1>3, <2>1
  <2>2. CASE i # Len(ops) + 1
    <3>1. i \in DOMAIN ops /\ list[i] = ops[i]
      BY <1>3, <1>4, <2>2
    <3> QED
      BY <3>1 DEF WellFormed
  <2> QED
    BY <2>1, <2>2
<1>6. list \in Seq([kind : Kinds, values : Seq(Int)])
  BY <1>3 DEF O
<1>7. WellFormed(list)
  BY <1>5, <1>6 DEF WellFormed
<1> QED
  BY <1>7 DEF list, op

Positions == {"idle", "lookup", "tape", "build", "handle", "compile", "engine", "evaluate"}

\* What the types rest on beside IInv.
TypeInv ==
  /\ WellFormed(ops)
  /\ generation \in Nat
  /\ \A gradient \in BOOLEAN :
       tapeCache[gradient] # NoCache => tapeCache[gradient].generation \in Nat
  /\ heap \in [Addresses -> Inputs \cup {Free}]
  /\ pc \in [Threads -> Positions]
  /\ \A t \in Threads : pc[t] # "idle" => call[t] \in Calls
  /\ calls \in 0 .. MaxCalls

\* It holds in the beginning, and every step preserves it.
LEMMA TypesInitially == Init => TypeInv
<1> SUFFICES ASSUME Init PROVE TypeInv
  OBVIOUS
<1>1. WellFormed(ops)
  BY FacadeAssumption DEF Init
<1>2. generation \in Nat
  BY <1>1, OperationsAre DEF Init
<1>3. calls \in 0 .. MaxCalls
  BY FacadeAssumption DEF Init
<1> QED
  BY <1>1, <1>2, <1>3 DEF Init, TypeInv, Positions

LEMMA TypesPreserved == IInv /\ TypeInv /\ [Next]_vars => TypeInv'
<1> SUFFICES ASSUME IInv, TypeInv, [Next]_vars PROVE TypeInv'
  OBVIOUS
<1>1. ASSUME NEW kind \in Appended, AppendGate(kind) PROVE TypeInv'
  <2>1. WellFormed(ops')
    BY <1>1, AppendWellFormed, FacadeAssumption DEF AppendGate, TypeInv
  <2> QED
    BY <1>1, <2>1 DEF AppendGate, Invalidate, TypeInv
<1>2. ASSUME NEW a \in Addresses, Reclaim(a) PROVE TypeInv'
  BY <1>2 DEF Reclaim, TypeInv, WellFormed
<1>3. ASSUME NEW a \in Addresses, NEW input \in Inputs, Allocate(a, input) PROVE TypeInv'
  BY <1>3 DEF Allocate, TypeInv, WellFormed
<1>4. ASSUME NEW t \in Threads, NEW c \in Calls, Call(t, c) PROVE TypeInv'
  <2>1. calls + 1 \in 0 .. MaxCalls
    BY <1>4, FacadeAssumption DEF Call, TypeInv
  <2> QED
    BY <1>4, <2>1 DEF Call, TypeInv, WellFormed, Positions, IInv, Shapes
<1>5. ASSUME NEW t \in Threads, LowerCircuit(t) PROVE TypeInv'
  <2>1. NeedsGradient(call[t]) \in BOOLEAN
    BY GradientIsBoolean
  <2>2. \A g \in BOOLEAN : tapeCache'[g] # NoCache => tapeCache'[g].generation \in Nat
    BY <1>5, <2>1 DEF LowerCircuit, TypeInv, IInv, Shapes
  <2> QED
    BY <1>5, <2>2 DEF LowerCircuit, TypeInv, WellFormed, Positions
<1>6. ASSUME NEW t \in Threads, Step(t), ~LowerCircuit(t) PROVE TypeInv'
  <2>1. UNCHANGED <<ops, generation, tapeCache, heap, calls>>
    BY <1>6 DEF Step, Lookup, FindTape, FindHandle, CompileHandle, BuildObjective,
       EvaluateObjective
  <2>2. \E p \in Positions : pc' = [pc EXCEPT ![t] = p]
    BY <1>6 DEF Step, Lookup, FindTape, FindHandle, CompileHandle, BuildObjective,
       EvaluateObjective, Return, Positions
  <2>3. pc[t] # "idle" /\ (call' = call \/ (call' = [call EXCEPT ![t] = NoCache]
                                            /\ pc' = [pc EXCEPT ![t] = "idle"]))
    BY <1>6 DEF Step, Lookup, FindTape, FindHandle, CompileHandle, BuildObjective,
       EvaluateObjective, Return
  <2>4. \A u \in Threads : pc'[u] # "idle" => call'[u] \in Calls
    BY <2>2, <2>3 DEF TypeInv, IInv, Shapes
  <2> QED
    BY <2>1, <2>2, <2>4 DEF TypeInv, WellFormed
<1>7. ASSUME Rest \/ UNCHANGED vars PROVE TypeInv'
  BY <1>7 DEF Rest, vars, TypeInv, WellFormed
<1> QED
  BY <1>1, <1>2, <1>3, <1>4, <1>5, <1>6, <1>7 DEF Next

\* So it always holds.
LEMMA WellFormedAlways == Spec => []TypeInv
<1>1. Init => TypeInv
  BY TypesInitially
<1>2. IInv /\ TypeInv /\ [Next]_vars => TypeInv'
  BY TypesPreserved
<1> QED
  BY <1>1, <1>2, Invariant, PTL DEF Spec

\* Every cache entry names a tape that exists, every running terminal has arguments
\* whose objects are alive, and operations have the parameters of their kind.
THEOREM TypeCorrect == Spec => []TypeOK
<1>1. IInv /\ TypeInv => TypeOK
  BY DEF IInv, TapesInv, LocalsInv, TypeInv, TypeOK, Positions
<1> QED
  BY <1>1, WellFormedAlways, Invariant, PTL

\* Whatever operations a circuit is converted from and grows by, every gate of either
\* tape is applied with the values of its own occurrence, and from_circuit reads the
\* operations back.
THEOREM Lowering == Spec => []LoweringResolves
<1>1. TypeInv => LoweringResolves
  <2> SUFFICES ASSUME TypeInv PROVE LoweringResolves
    OBVIOUS
  <2>1. WellFormed(ops)
    BY DEF TypeInv
  <2>2. Resolves(ops, TRUE) /\ Resolves(ops, FALSE) /\ RebuiltFrom(ops)
    BY <2>1, GradientResolves, StaticResolves, StaticRebuilds
  <2> QED
    BY <2>2 DEF LoweringResolves, Resolves, RebuiltFrom
<1> QED
  BY <1>1, WellFormedAlways, PTL

\* The channel gradient of any circuit follows the layout it publishes.
THEOREM Layout == Spec => []GradientFollowsLayout
<1>1. TypeInv => GradientFollowsLayout
  <2> SUFFICES ASSUME TypeInv PROVE GradientFollowsLayout
    OBVIOUS
  <2>1. FollowsLayout(ops)
    BY LayoutFollowed DEF TypeInv
  <2> QED
    BY <2>1 DEF GradientFollowsLayout, FollowsLayout
<1> QED
  BY <1>1, WellFormedAlways, PTL
=============================================================================
