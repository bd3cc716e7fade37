------------------------- MODULE ChargeRestriction -------------------------
(***************************************************************************)
(* The ChargeRestrictedOperator facade (python/tencirpauli/charge.py): one *)
(* Python object, shared by threads, that owns a compact lazy plan and a   *)
(* transition-graph ("eager") cache built on demand under a lock with a    *)
(* double check.  A thread can be preempted between any two bytecodes and  *)
(* every native call runs with the GIL released, so each read or write of  *)
(* a facade attribute is a step of its own.                                *)
(*                                                                         *)
(* Plans are immutable; only their identity matters.  They are numbered in *)
(* the order in which they are built.                                      *)
(***************************************************************************)
EXTENDS Integers, FiniteSets

CONSTANTS
  Threads,          \* the Python threads sharing the facade
  NoLimit,          \* max_bytes=None
  Budgets,          \* the max_bytes values callers pass
  MinEnforced,      \* MIN_ENFORCED_MAX_BYTES, the advisory floor
  SectorBytes,      \* ChargeSector.estimated_bytes
  LayoutBytes,      \* sector, terms and schedule layout: what both plans start from
  LazyBytes,        \* ChargeLazyMvpPlan.estimated_bytes
  EagerBytes,       \* ChargeMvpPlan.estimated_bytes
  EagerPeak,        \* estimated construction peak of the transition graph
  Dimension,        \* sector dimension
  TransitionCount,  \* entries of the transition graph
  MaxCalls          \* bound: calls each thread makes

ASSUME BytesAssumption ==
  /\ {MinEnforced, SectorBytes, LayoutBytes, LazyBytes, EagerBytes, EagerPeak,
      Dimension, TransitionCount, MaxCalls} \subseteq Nat
  /\ NoLimit \notin Int
  /\ Budgets \subseteq Nat \cup {NoLimit}
  /\ EagerBytes <= EagerPeak

VARIABLES
  storage,    \* the storage the facade was constructed with, or "absent"
  lazyPlan,   \* the _lazy_plan attribute: a plan number, 0 for None
  eagerPlan,  \* the _eager_plan attribute, likewise
  lock,       \* the holders of _lock
  built,      \* how many plan objects exist
  pc,         \* where each thread is
  call,       \* the call each thread is making
  seen,       \* the thread's local plan variable
  result,     \* how the thread's last call ended
  calls       \* how many calls each thread has made

vars == <<storage, lazyPlan, eagerPlan, lock, built, pc, call, seen, result, calls>>

---------------------------------------------------------------------------
(* Budgets: _native_mvp.py.  None is 0 for plans, NoLimit for byte limits. *)

None == 0

Ops == {"apply", "lazy", "eager", "dense", "coo", "csr"}
Targets == {"dense", "coo", "csr"}

EnforcedMaxBytes(limit) ==
  IF limit = NoLimit THEN NoLimit
  ELSE IF limit < MinEnforced THEN NoLimit ELSE limit

Exceeds(requested, limit) ==
  /\ EnforcedMaxBytes(limit) # NoLimit
  /\ requested > EnforcedMaxBytes(limit)

Invalid(limit) == limit # NoLimit /\ limit < 0

MaterializationBytes(dimension, transitions, op) ==
  CASE op = "dense" -> dimension * dimension * 16
    [] op = "coo"   -> transitions * 32
    [] op = "csr"   -> (dimension + 1) * 8 + transitions * 24
    [] OTHER        -> 0

TargetBytes(op) == MaterializationBytes(Dimension, TransitionCount, op)
TargetFloor(op) == MaterializationBytes(Dimension, 0, op)

\* Faulty: the retained lazy plan is not charged to the budget.
RemainingUncharged(limit) == EnforcedMaxBytes(limit)

\* What is left of the budget beside the lazy plan.
Remaining(limit) ==
  IF EnforcedMaxBytes(limit) = NoLimit THEN NoLimit
  ELSE EnforcedMaxBytes(limit) - LazyBytes

ConstructionBudget(limit, op) ==
  IF Remaining(limit) = NoLimit THEN NoLimit
  ELSE Remaining(limit) - TargetFloor(op)

\* The check made when a call finds the eager cache already filled.
CachedExceeds(limit, op) ==
  Exceeds(IF op = "eager" THEN EagerBytes ELSE TargetBytes(op), limit)

---------------------------------------------------------------------------
NoCall   == [op |-> "none", budget |-> NoLimit]
NoResult == [op |-> "none", budget |-> NoLimit, outcome |-> "none",
             plan |-> None, via |-> "none"]

\* The call of thread t ends: its outcome, the plan it used and where from.
Return(t, outcome, plan, via) ==
  /\ pc' = [pc EXCEPT ![t] = "idle"]
  /\ result' = [result EXCEPT ![t] =
       [op |-> call[t].op, budget |-> call[t].budget, outcome |-> outcome,
        plan |-> IF outcome = "ok" THEN plan ELSE None, via |-> via]]
  /\ call' = [call EXCEPT ![t] = NoCall]
  /\ seen' = [seen EXCEPT ![t] = None]

Goto(t, label) ==
  /\ pc' = [pc EXCEPT ![t] = label]
  /\ UNCHANGED <<call, result>>

\* An eager plan is in hand: mvp_plan returns it, a target goes on to read it.
Deliver(t, plan, via) ==
  IF call[t].op = "eager"
  THEN Return(t, "ok", plan, via)
  ELSE Goto(t, "materialize") /\ seen' = [seen EXCEPT ![t] = plan]

---------------------------------------------------------------------------
Init ==
  /\ storage = "absent"
  /\ lazyPlan = None /\ eagerPlan = None
  /\ lock = {}
  /\ built = 0
  /\ pc = [t \in Threads |-> "idle"]
  /\ call = [t \in Threads |-> NoCall]
  /\ seen = [t \in Threads |-> None]
  /\ result = [t \in Threads |-> NoResult]
  /\ calls = [t \in Threads |-> 0]

\* The constructor runs before the object is shared; when it raises, there is
\* no object.  The operator conserves every constraint of the sector.
ConstructLazy(budget) ==
  /\ storage = "absent"
  /\ ~Exceeds(SectorBytes, budget) /\ ~Exceeds(LazyBytes, budget)
  /\ storage' = "lazy"
  /\ built' = built + 1
  /\ lazyPlan' = built + 1
  /\ UNCHANGED <<eagerPlan, lock, pc, call, seen, result, calls>>

ConstructEager(budget) ==
  /\ storage = "absent"
  /\ ~Exceeds(LayoutBytes + EagerPeak, budget)
  /\ storage' = "eager"
  /\ built' = built + 1
  /\ eagerPlan' = built + 1
  /\ UNCHANGED <<lazyPlan, lock, pc, call, seen, result, calls>>

Call(t, op, budget) ==
  /\ storage # "absent"
  /\ pc[t] = "idle" /\ calls[t] < MaxCalls
  /\ calls' = [calls EXCEPT ![t] = @ + 1]
  /\ call' = [call EXCEPT ![t] = [op |-> op, budget |-> budget]]
  /\ pc' = [pc EXCEPT ![t] = CASE op = "apply" -> "applyEager"
                               [] op = "lazy"  -> "lazyRead"
                               [] OTHER        -> "fastRead"]
  /\ result' = [result EXCEPT ![t] = NoResult]
  /\ UNCHANGED <<storage, lazyPlan, eagerPlan, lock, built, seen>>

---------------------------------------------------------------------------
(* apply, apply_into: plan = self._eager_plan or self._lazy_plan           *)

ApplyReadEager(t) ==
  /\ pc[t] = "applyEager"
  /\ IF eagerPlan # None
     THEN Return(t, IF Exceeds(Dimension * 16, call[t].budget)
                    THEN "MemoryError" ELSE "ok", eagerPlan, "cache")
     ELSE Goto(t, "applyLazy") /\ UNCHANGED seen
  /\ UNCHANGED <<storage, lazyPlan, eagerPlan, lock, built, calls>>

ApplyReadLazy(t) ==
  /\ pc[t] = "applyLazy"
  /\ Return(t, IF lazyPlan = None THEN "RuntimeError"
               ELSE IF Exceeds(Dimension * 16, call[t].budget)
                    THEN "MemoryError" ELSE "ok", lazyPlan, "lazy")
  /\ UNCHANGED <<storage, lazyPlan, eagerPlan, lock, built, calls>>

---------------------------------------------------------------------------
(* mvp_plan(storage="lazy"): no lock is taken                              *)

LazyRead(t) ==
  /\ pc[t] = "lazyRead"
  /\ IF lazyPlan = None
     THEN Goto(t, "lazyBuild") /\ UNCHANGED seen
     ELSE Return(t, IF Exceeds(LazyBytes, call[t].budget)
                    THEN "MemoryError" ELSE "ok", lazyPlan, "lazy")
  /\ UNCHANGED <<storage, lazyPlan, eagerPlan, lock, built, calls>>

LazyBuild(t) ==
  /\ pc[t] = "lazyBuild"
  /\ IF Exceeds(LazyBytes, call[t].budget)
     THEN Return(t, "MemoryError", None, "lazy") /\ UNCHANGED built
     ELSE /\ built' = built + 1
          /\ seen' = [seen EXCEPT ![t] = built + 1]
          /\ Goto(t, "lazyInstall")
  /\ UNCHANGED <<storage, lazyPlan, eagerPlan, lock, calls>>

LazyInstall(t) ==
  /\ pc[t] = "lazyInstall"
  /\ lazyPlan' = seen[t]
  /\ Return(t, "ok", seen[t], "lazy")
  /\ UNCHANGED <<storage, eagerPlan, lock, built, calls>>

---------------------------------------------------------------------------
(* _ensure_eager_for_target: fast path, lock, second look, build, install  *)

FastRead(t) ==
  /\ pc[t] = "fastRead"
  /\ IF eagerPlan = None
     THEN Goto(t, "acquire") /\ UNCHANGED seen
     ELSE IF CachedExceeds(call[t].budget, call[t].op)
          THEN Return(t, "MemoryError", None, "cache")
          ELSE Deliver(t, eagerPlan, "cache")
  /\ UNCHANGED <<storage, lazyPlan, eagerPlan, lock, built, calls>>

Acquire(t) ==
  /\ pc[t] = "acquire" /\ lock = {}
  /\ lock' = lock \cup {t}
  /\ Goto(t, "lockedRead")
  /\ UNCHANGED <<storage, lazyPlan, eagerPlan, built, seen, calls>>

\* Faulty: leaving the block does not release the lock.
ReleaseForgotten(t) == UNCHANGED lock

Release(t) == lock' = lock \ {t}

\* Faulty: no second look at the cache under the lock.
LockedReadOnce(t) ==
  /\ pc[t] = "lockedRead"
  /\ Goto(t, "preflight")
  /\ UNCHANGED <<storage, lazyPlan, eagerPlan, lock, built, seen, calls>>

LockedRead(t) ==
  /\ pc[t] = "lockedRead"
  /\ IF eagerPlan = None
     THEN Goto(t, "preflight") /\ UNCHANGED <<seen, lock>>
     ELSE /\ Release(t)
          /\ IF CachedExceeds(call[t].budget, call[t].op)
             THEN Return(t, "MemoryError", None, "cache")
             ELSE Deliver(t, eagerPlan, "cache")
  /\ UNCHANGED <<storage, lazyPlan, eagerPlan, built, calls>>

\* A residual budget that fell below the floor is no longer enforced; a
\* negative one is rejected by _validate_max_bytes.
Preflight(t) ==
  /\ pc[t] = "preflight"
  /\ LET limit == call[t].budget
         op    == call[t].op
         error == CASE Exceeds(LazyBytes, limit) -> "MemoryError"
                    [] Exceeds(TargetFloor(op), Remaining(limit)) -> "MemoryError"
                    [] Invalid(ConstructionBudget(limit, op)) -> "ValueError"
                    [] OTHER -> "none"
     IN /\ IF error = "none"
           THEN Goto(t, "compile") /\ UNCHANGED <<seen, lock>>
           ELSE Return(t, error, None, "build") /\ Release(t)
        /\ IF lazyPlan = None /\ ~Exceeds(LazyBytes, limit)
           THEN built' = built + 1 /\ lazyPlan' = built + 1
           ELSE UNCHANGED <<built, lazyPlan>>
  /\ UNCHANGED <<storage, eagerPlan, calls>>

\* The native call lazy._native_execution.compile_eager, with the GIL released.
CompileEager(t) ==
  /\ pc[t] = "compile"
  /\ IF Exceeds(EagerPeak, ConstructionBudget(call[t].budget, call[t].op))
     THEN /\ Return(t, "MemoryError", None, "build")
          /\ Release(t)
          /\ UNCHANGED built
     ELSE /\ built' = built + 1
          /\ seen' = [seen EXCEPT ![t] = built + 1]
          /\ Goto(t, "install")
          /\ UNCHANGED lock
  /\ UNCHANGED <<storage, lazyPlan, eagerPlan, calls>>

\* Faulty: the lazy plan is dropped once the graph is cached.
InstallEagerAlone(t) ==
  /\ pc[t] = "install"
  /\ Release(t)
  /\ IF Exceeds(EagerBytes + TargetBytes(call[t].op), Remaining(call[t].budget))
     THEN Return(t, "MemoryError", None, "build") /\ UNCHANGED <<eagerPlan, lazyPlan>>
     ELSE Deliver(t, seen[t], "build") /\ eagerPlan' = seen[t] /\ lazyPlan' = None
  /\ UNCHANGED <<storage, built, calls>>

\* Faulty: the graph is kept before its size is checked.
InstallEagerFirst(t) ==
  /\ pc[t] = "install"
  /\ Release(t)
  /\ eagerPlan' = seen[t]
  /\ IF Exceeds(EagerBytes + TargetBytes(call[t].op), Remaining(call[t].budget))
     THEN Return(t, "MemoryError", None, "build")
     ELSE Deliver(t, seen[t], "build")
  /\ UNCHANGED <<storage, lazyPlan, built, calls>>

InstallEager(t) ==
  /\ pc[t] = "install"
  /\ Release(t)
  /\ IF Exceeds(EagerBytes + TargetBytes(call[t].op), Remaining(call[t].budget))
     THEN Return(t, "MemoryError", None, "build") /\ UNCHANGED eagerPlan
     ELSE Deliver(t, seen[t], "build") /\ eagerPlan' = seen[t]
  /\ UNCHANGED <<storage, lazyPlan, built, calls>>

\* dense, coo, csr: the native plan writes the target's arrays.
Materialize(t) ==
  /\ pc[t] = "materialize"
  /\ Return(t, IF Exceeds(TargetBytes(call[t].op), call[t].budget)
               THEN "MemoryError" ELSE "ok", seen[t], "target")
  /\ UNCHANGED <<storage, lazyPlan, eagerPlan, lock, built, calls>>

---------------------------------------------------------------------------
Step(t) ==
  \/ ApplyReadEager(t) \/ ApplyReadLazy(t)
  \/ LazyRead(t) \/ LazyBuild(t) \/ LazyInstall(t)
  \/ FastRead(t) \/ Acquire(t) \/ LockedRead(t) \/ Preflight(t)
  \/ CompileEager(t) \/ InstallEager(t) \/ Materialize(t)

\* Every caller is done.
Finished ==
  /\ \A t \in Threads : pc[t] = "idle" /\ calls[t] = MaxCalls
  /\ UNCHANGED vars

Next ==
  \/ \E budget \in Budgets : ConstructLazy(budget) \/ ConstructEager(budget)
  \/ \E t \in Threads, op \in Ops, budget \in Budgets : Call(t, op, budget)
  \/ \E t \in Threads : Step(t)
  \/ Finished

Spec == Init /\ [][Next]_vars

\* Every started call keeps being scheduled; nobody has to make a call.
FairSpec == Spec /\ \A t \in Threads : WF_vars(Step(t))

---------------------------------------------------------------------------
Labels == {"idle", "applyEager", "applyLazy", "lazyRead", "lazyBuild", "lazyInstall",
           "fastRead", "acquire", "lockedRead", "preflight", "compile", "install",
           "materialize"}
Locked == {"lockedRead", "preflight", "compile", "install"}
Outcomes == {"none", "ok", "MemoryError", "ValueError", "RuntimeError"}
Vias == {"none", "cache", "lazy", "build", "target"}
Calls == [op : Ops \cup {"none"}, budget : Budgets \cup {NoLimit}]
Results == [op : Ops \cup {"none"}, budget : Budgets \cup {NoLimit},
            outcome : Outcomes, plan : Nat, via : Vias]

\* The values of the facade's attributes and of each thread's locals.
TypeOK ==
  /\ storage \in {"absent", "lazy", "eager"}
  /\ lazyPlan \in Nat /\ eagerPlan \in Nat /\ built \in Nat
  /\ lock \in SUBSET Threads
  /\ pc \in [Threads -> Labels]
  /\ call \in [Threads -> Calls]
  /\ seen \in [Threads -> Nat]
  /\ result \in [Threads -> Results]
  /\ calls \in [Threads -> Nat]

\* The lock belongs to the thread inside the `with self._lock` block, so two
\* threads are never inside it and every way out of it releases the lock.
LockDiscipline ==
  /\ \A t \in Threads : t \in lock <=> pc[t] \in Locked
  /\ \A s, t \in lock : s = t

\* Double-checked locking: whoever is past the second look at _eager_plan
\* works on an empty cache, so no transition graph is built once one is kept.
NoBuildBesideCache ==
  \A t \in Threads : pc[t] \in {"preflight", "compile", "install"} => eagerPlan = None

\* Every caller that got an eager plan got the one the facade retains.
EagerAgreement ==
  \A t \in Threads :
    /\ result[t].outcome = "ok" /\ result[t].via \in {"cache", "build", "target"}
         => result[t].plan = eagerPlan /\ eagerPlan # None
    /\ pc[t] = "materialize" => seen[t] = eagerPlan /\ eagerPlan # None

\* apply always finds a plan: `_eager_plan or _lazy_plan` is never None for an
\* object that exists, although the two attributes are read at different times.
ApplyFindsPlan ==
  /\ storage # "absent" => lazyPlan # None \/ eagerPlan # None
  /\ \A t \in Threads : result[t].outcome # "RuntimeError"

\* The branch of _ensure_eager_for_target that rebuilds a lazy plan under the
\* lock is dead: only an eager facade lacks one, and it never takes the lock.
LazyKeptUnderLock == \A t \in Threads : pc[t] \in Locked => lazyPlan # None

\* A retained transition graph is never replaced or dropped; the lazy plan is
\* never dropped, and on a lazy facade never replaced.  A call that is refused, after
\* its graph was built or before, leaves no graph behind for the others.
PlansAreKept ==
  [][ /\ eagerPlan # None => eagerPlan' = eagerPlan
      /\ lazyPlan # None => lazyPlan' # None
      /\ storage = "lazy" => lazyPlan' = lazyPlan
      /\ \A t \in Threads :
           pc[t] # "idle" /\ pc'[t] = "idle" /\ result'[t].outcome # "ok"
             => eagerPlan' = eagerPlan ]_vars

\* What a successful eager call may occupy: with a residual budget still above
\* the floor, a plan it built fits the limit together with the lazy plan.
BuiltWithinBudget ==
  \A t \in Threads :
    LET r == result[t] IN
      (/\ r.outcome = "ok" /\ r.op = "eager" /\ r.via = "build"
       /\ EnforcedMaxBytes(r.budget) # NoLimit
       /\ Remaining(r.budget) >= MinEnforced)
      => LazyBytes + EagerBytes <= r.budget

\* mvp_plan's docstring: the storage estimate of the returned plan is checked
\* against max_bytes before returning.
ReturnedPlanWithinBudget ==
  \A t \in Threads :
    LET r == result[t] IN
      (/\ r.outcome = "ok" /\ r.op \in {"eager", "lazy"}
       /\ EnforcedMaxBytes(r.budget) # NoLimit)
      => (IF r.op = "eager" THEN EagerBytes ELSE LazyBytes) <= r.budget

\* Every call returns, whatever the others do: no exit leaves the lock held.
CallsReturn == \A t \in Threads : pc[t] # "idle" ~> pc[t] = "idle"
=============================================================================
