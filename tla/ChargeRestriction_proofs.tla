---------------------- MODULE ChargeRestriction_proofs ----------------------
(***************************************************************************)
(* The facade's invariants for any set of threads, any byte sizes and any  *)
(* number of calls.                                                        *)
(*                                                                         *)
(* The safety properties are not inductive alone: that a cached graph is   *)
(* never replaced needs the lock's owner to be the only builder and to     *)
(* have seen an empty cache; that apply finds a plan needs to know that    *)
(* only an eager facade ever lacks its lazy plan.  PlanInv says the rest.  *)
(***************************************************************************)
EXTENDS ChargeRestriction, TLAPS

PlanInv ==
  /\ storage = "absent" => /\ lazyPlan = None /\ eagerPlan = None
                           /\ \A t \in Threads : pc[t] = "idle"
  /\ storage = "lazy" => lazyPlan # None
  /\ storage = "eager" => eagerPlan # None
  /\ \A t \in Threads : pc[t] \in {"applyLazy", "acquire"} \cup Locked => lazyPlan # None
  /\ \A t \in Threads : pc[t] \in {"lazyBuild", "lazyInstall"} => storage = "eager"
  /\ \A t \in Threads : pc[t] \in {"lazyInstall", "install"} => seen[t] # None

\* An error is never a RuntimeError, and a plan in hand is the cached one.
ResultInv ==
  /\ EagerAgreement
  /\ \A t \in Threads : result[t].outcome # "RuntimeError"

IInv == TypeOK /\ LockDiscipline /\ NoBuildBesideCache /\ PlanInv /\ ResultInv

USE DEF None

---------------------------------------------------------------------------
(* How a call ends or goes on, as far as the types are concerned.          *)

LEMMA ReturnTypes ==
  ASSUME TypeOK, NEW t \in Threads, NEW outcome \in Outcomes, NEW plan \in Nat,
         NEW via \in Vias, Return(t, outcome, plan, via)
  PROVE  /\ pc' \in [Threads -> Labels] /\ call' \in [Threads -> Calls]
         /\ seen' \in [Threads -> Nat] /\ result' \in [Threads -> Results]
<1> USE DEF TypeOK, Return
<1>1. pc' \in [Threads -> Labels] /\ seen' \in [Threads -> Nat]
  BY DEF Labels
<1>2. call' \in [Threads -> Calls]
  BY DEF Calls, NoCall
<1>3. [op |-> call[t].op, budget |-> call[t].budget, outcome |-> outcome,
       plan |-> IF outcome = "ok" THEN plan ELSE None, via |-> via] \in Results
  BY DEF Calls, Results
<1>4. result' \in [Threads -> Results]
  BY <1>3
<1> QED
  BY <1>1, <1>2, <1>4

LEMMA GotoTypes ==
  ASSUME TypeOK, NEW t \in Threads, NEW label \in Labels, Goto(t, label)
  PROVE  /\ pc' \in [Threads -> Labels] /\ call' \in [Threads -> Calls]
         /\ result' \in [Threads -> Results]
  BY DEF TypeOK, Goto

LEMMA DeliverTypes ==
  ASSUME TypeOK, NEW t \in Threads, NEW plan \in Nat, NEW via \in Vias,
         Deliver(t, plan, via)
  PROVE  /\ pc' \in [Threads -> Labels] /\ call' \in [Threads -> Calls]
         /\ seen' \in [Threads -> Nat] /\ result' \in [Threads -> Results]
<1>1. CASE call[t].op = "eager"
  BY <1>1, ReturnTypes DEF Deliver, Outcomes
<1>2. CASE call[t].op # "eager"
  BY <1>2, GotoTypes DEF Deliver, Labels, TypeOK
<1> QED
  BY <1>1, <1>2

\* The facade's attributes and locals keep their types in every step.
LEMMA TypeStep == TypeOK /\ [Next]_vars => TypeOK'
<1> SUFFICES ASSUME TypeOK, [Next]_vars PROVE TypeOK'
  OBVIOUS
<1>1. ASSUME NEW budget \in Budgets, ConstructLazy(budget) PROVE TypeOK'
  BY <1>1 DEF ConstructLazy, TypeOK
<1>2. ASSUME NEW budget \in Budgets, ConstructEager(budget) PROVE TypeOK'
  BY <1>2 DEF ConstructEager, TypeOK
<1>3. ASSUME NEW t \in Threads, NEW op \in Ops, NEW budget \in Budgets, Call(t, op, budget)
      PROVE TypeOK'
  <2>1. pc' \in [Threads -> Labels]
    BY <1>3 DEF Call, TypeOK, Labels
  <2>2. call' \in [Threads -> Calls]
    BY <1>3 DEF Call, TypeOK, Calls
  <2>3. result' \in [Threads -> Results]
    BY <1>3 DEF Call, TypeOK, Results, NoResult, Outcomes, Vias
  <2> QED
    BY <1>3, <2>1, <2>2, <2>3 DEF Call, TypeOK
<1>4. ASSUME NEW t \in Threads, ApplyReadEager(t) PROVE TypeOK'
  BY <1>4, ReturnTypes, GotoTypes DEF ApplyReadEager, TypeOK, Outcomes, Vias, Labels
<1>5. ASSUME NEW t \in Threads, ApplyReadLazy(t) PROVE TypeOK'
  BY <1>5, ReturnTypes DEF ApplyReadLazy, TypeOK, Outcomes, Vias, Labels
<1>6. ASSUME NEW t \in Threads, LazyRead(t) PROVE TypeOK'
  BY <1>6, ReturnTypes, GotoTypes DEF LazyRead, TypeOK, Outcomes, Vias, Labels
<1>7. ASSUME NEW t \in Threads, LazyBuild(t) PROVE TypeOK'
  BY <1>7, ReturnTypes, GotoTypes DEF LazyBuild, TypeOK, Outcomes, Vias, Labels
<1>8. ASSUME NEW t \in Threads, LazyInstall(t) PROVE TypeOK'
  BY <1>8, ReturnTypes DEF LazyInstall, TypeOK, Outcomes, Vias, Labels
<1>9. ASSUME NEW t \in Threads, FastRead(t) PROVE TypeOK'
  BY <1>9, ReturnTypes, GotoTypes, DeliverTypes DEF FastRead, TypeOK, Outcomes, Vias, Labels
<1>10. ASSUME NEW t \in Threads, Acquire(t) PROVE TypeOK'
  BY <1>10, GotoTypes DEF Acquire, TypeOK, Outcomes, Vias, Labels
<1>11. ASSUME NEW t \in Threads, LockedRead(t) PROVE TypeOK'
  BY <1>11, ReturnTypes, GotoTypes, DeliverTypes DEF LockedRead, Release, TypeOK, Outcomes, Vias, Labels
<1>12. ASSUME NEW t \in Threads, Preflight(t) PROVE TypeOK'
  BY <1>12, ReturnTypes, GotoTypes DEF Preflight, Release, TypeOK, Outcomes, Vias, Labels
<1>13. ASSUME NEW t \in Threads, CompileEager(t) PROVE TypeOK'
  BY <1>13, ReturnTypes, GotoTypes DEF CompileEager, Release, TypeOK, Outcomes, Vias, Labels
<1>14. ASSUME NEW t \in Threads, InstallEager(t) PROVE TypeOK'
  BY <1>14, ReturnTypes, DeliverTypes DEF InstallEager, Release, TypeOK, Outcomes, Vias, Labels
<1>15. ASSUME NEW t \in Threads, Materialize(t) PROVE TypeOK'
  BY <1>15, ReturnTypes DEF Materialize, TypeOK, Outcomes, Vias, Labels
<1>16. CASE UNCHANGED vars
  BY <1>16 DEF vars, TypeOK
<1> QED
  BY <1>1, <1>2, <1>3, <1>4, <1>5, <1>6, <1>7, <1>8, <1>9, <1>10, <1>11, <1>12, <1>13,
     <1>14, <1>15, <1>16 DEF Next, Step, Finished

\* The lock's holder is the thread inside the block, after every step.
LEMMA LockStep == TypeOK /\ LockDiscipline /\ [Next]_vars => LockDiscipline'
<1> SUFFICES ASSUME TypeOK, LockDiscipline, [Next]_vars PROVE LockDiscipline'
  OBVIOUS
<1> USE DEF TypeOK, LockDiscipline, Locked, Labels
<1>1. ASSUME NEW budget \in Budgets, ConstructLazy(budget) PROVE LockDiscipline'
  BY <1>1 DEF ConstructLazy
<1>2. ASSUME NEW budget \in Budgets, ConstructEager(budget) PROVE LockDiscipline'
  BY <1>2 DEF ConstructEager
<1>3. ASSUME NEW t \in Threads, NEW op \in Ops, NEW budget \in Budgets, Call(t, op, budget)
      PROVE LockDiscipline'
  BY <1>3 DEF Call
<1>4. ASSUME NEW t \in Threads, ApplyReadEager(t) PROVE LockDiscipline'
  BY <1>4 DEF ApplyReadEager, Return, Goto
<1>5. ASSUME NEW t \in Threads, ApplyReadLazy(t) PROVE LockDiscipline'
  BY <1>5 DEF ApplyReadLazy, Return
<1>6. ASSUME NEW t \in Threads, LazyRead(t) PROVE LockDiscipline'
  BY <1>6 DEF LazyRead, Return, Goto
<1>7. ASSUME NEW t \in Threads, LazyBuild(t) PROVE LockDiscipline'
  BY <1>7 DEF LazyBuild, Return, Goto
<1>8. ASSUME NEW t \in Threads, LazyInstall(t) PROVE LockDiscipline'
  BY <1>8 DEF LazyInstall, Return
<1>9. ASSUME NEW t \in Threads, FastRead(t) PROVE LockDiscipline'
  BY <1>9 DEF FastRead, Deliver, Return, Goto
<1>10. ASSUME NEW t \in Threads, Acquire(t) PROVE LockDiscipline'
  BY <1>10 DEF Acquire, Goto
<1>11. ASSUME NEW t \in Threads, LockedRead(t) PROVE LockDiscipline'
  BY <1>11 DEF LockedRead, Release, Deliver, Return, Goto
<1>12. ASSUME NEW t \in Threads, Preflight(t) PROVE LockDiscipline'
  BY <1>12 DEF Preflight, Release, Return, Goto
<1>13. ASSUME NEW t \in Threads, CompileEager(t) PROVE LockDiscipline'
  BY <1>13 DEF CompileEager, Release, Return, Goto
<1>14. ASSUME NEW t \in Threads, InstallEager(t) PROVE LockDiscipline'
  BY <1>14 DEF InstallEager, Release, Deliver, Return, Goto
<1>15. ASSUME NEW t \in Threads, Materialize(t) PROVE LockDiscipline'
  BY <1>15 DEF Materialize, Return
<1>16. CASE UNCHANGED vars
  BY <1>16 DEF vars
<1> QED
  BY <1>1, <1>2, <1>3, <1>4, <1>5, <1>6, <1>7, <1>8, <1>9, <1>10, <1>11, <1>12, <1>13,
     <1>14, <1>15, <1>16 DEF Next, Step, Finished

\* Whoever is past the second look works on an empty cache: only the holder of
\* the lock fills it.
LEMMA CacheStep ==
  TypeOK /\ LockDiscipline /\ NoBuildBesideCache /\ PlanInv /\ [Next]_vars
  => NoBuildBesideCache'
<1> SUFFICES ASSUME TypeOK, LockDiscipline, NoBuildBesideCache, PlanInv, [Next]_vars
             PROVE  NoBuildBesideCache'
  OBVIOUS
<1> USE DEF TypeOK, LockDiscipline, NoBuildBesideCache, Locked, PlanInv
<1>1. ASSUME NEW budget \in Budgets, ConstructLazy(budget) PROVE NoBuildBesideCache'
  BY <1>1 DEF ConstructLazy
<1>2. ASSUME NEW budget \in Budgets, ConstructEager(budget) PROVE NoBuildBesideCache'
  BY <1>2 DEF ConstructEager
<1>3. ASSUME NEW t \in Threads, NEW op \in Ops, NEW budget \in Budgets, Call(t, op, budget)
      PROVE NoBuildBesideCache'
  BY <1>3 DEF Call
<1>4. ASSUME NEW t \in Threads, ApplyReadEager(t) PROVE NoBuildBesideCache'
  BY <1>4 DEF ApplyReadEager, Return, Goto
<1>5. ASSUME NEW t \in Threads, ApplyReadLazy(t) PROVE NoBuildBesideCache'
  BY <1>5 DEF ApplyReadLazy, Return
<1>6. ASSUME NEW t \in Threads, LazyRead(t) PROVE NoBuildBesideCache'
  BY <1>6 DEF LazyRead, Return, Goto
<1>7. ASSUME NEW t \in Threads, LazyBuild(t) PROVE NoBuildBesideCache'
  BY <1>7 DEF LazyBuild, Return, Goto
<1>8. ASSUME NEW t \in Threads, LazyInstall(t) PROVE NoBuildBesideCache'
  BY <1>8 DEF LazyInstall, Return
<1>9. ASSUME NEW t \in Threads, FastRead(t) PROVE NoBuildBesideCache'
  BY <1>9 DEF FastRead, Deliver, Return, Goto
<1>10. ASSUME NEW t \in Threads, Acquire(t) PROVE NoBuildBesideCache'
  BY <1>10 DEF Acquire, Goto
<1>11. ASSUME NEW t \in Threads, LockedRead(t) PROVE NoBuildBesideCache'
  BY <1>11 DEF LockedRead, Release, Deliver, Return, Goto
<1>12. ASSUME NEW t \in Threads, Preflight(t) PROVE NoBuildBesideCache'
  BY <1>12 DEF Preflight, Release, Return, Goto
<1>13. ASSUME NEW t \in Threads, CompileEager(t) PROVE NoBuildBesideCache'
  BY <1>13 DEF CompileEager, Release, Return, Goto
<1>14. ASSUME NEW t \in Threads, InstallEager(t) PROVE NoBuildBesideCache'
  BY <1>14 DEF InstallEager, Release, Deliver, Return, Goto
<1>15. ASSUME NEW t \in Threads, Materialize(t) PROVE NoBuildBesideCache'
  BY <1>15 DEF Materialize, Return
<1>16. CASE UNCHANGED vars
  BY <1>16 DEF vars
<1> QED
  BY <1>1, <1>2, <1>3, <1>4, <1>5, <1>6, <1>7, <1>8, <1>9, <1>10, <1>11, <1>12, <1>13,
     <1>14, <1>15, <1>16 DEF Next, Step, Finished

\* Which plans exist where, after every step.
LEMMA PlanStep == TypeOK /\ PlanInv /\ [Next]_vars => PlanInv'
<1> SUFFICES ASSUME TypeOK, PlanInv, [Next]_vars PROVE PlanInv'
  OBVIOUS
<1> USE DEF TypeOK, PlanInv, Locked, NoCall
<1>1. ASSUME NEW budget \in Budgets, ConstructLazy(budget) PROVE PlanInv'
  BY <1>1 DEF ConstructLazy
<1>2. ASSUME NEW budget \in Budgets, ConstructEager(budget) PROVE PlanInv'
  BY <1>2 DEF ConstructEager
<1>3. ASSUME NEW t \in Threads, NEW op \in Ops, NEW budget \in Budgets, Call(t, op, budget)
      PROVE PlanInv'
  BY <1>3 DEF Call
<1>4. ASSUME NEW t \in Threads, ApplyReadEager(t) PROVE PlanInv'
  BY <1>4 DEF ApplyReadEager, Return, Goto
<1>5. ASSUME NEW t \in Threads, ApplyReadLazy(t) PROVE PlanInv'
  BY <1>5 DEF ApplyReadLazy, Return
<1>6. ASSUME NEW t \in Threads, LazyRead(t) PROVE PlanInv'
  BY <1>6 DEF LazyRead, Return, Goto
<1>7. ASSUME NEW t \in Threads, LazyBuild(t) PROVE PlanInv'
  BY <1>7 DEF LazyBuild, Return, Goto
<1>8. ASSUME NEW t \in Threads, LazyInstall(t) PROVE PlanInv'
  BY <1>8 DEF LazyInstall, Return
<1>9. ASSUME NEW t \in Threads, FastRead(t) PROVE PlanInv'
  BY <1>9 DEF FastRead, Deliver, Return, Goto
<1>10. ASSUME NEW t \in Threads, Acquire(t) PROVE PlanInv'
  BY <1>10 DEF Acquire, Goto
<1>11. ASSUME NEW t \in Threads, LockedRead(t) PROVE PlanInv'
  BY <1>11 DEF LockedRead, Release, Deliver, Return, Goto
<1>12. ASSUME NEW t \in Threads, Preflight(t) PROVE PlanInv'
  BY <1>12 DEF Preflight, Release, Return, Goto
<1>13. ASSUME NEW t \in Threads, CompileEager(t) PROVE PlanInv'
  BY <1>13 DEF CompileEager, Release, Return, Goto
<1>14. ASSUME NEW t \in Threads, InstallEager(t) PROVE PlanInv'
  BY <1>14 DEF InstallEager, Release, Deliver, Return, Goto
<1>15. ASSUME NEW t \in Threads, Materialize(t) PROVE PlanInv'
  BY <1>15 DEF Materialize, Return
<1>16. CASE UNCHANGED vars
  BY <1>16 DEF vars
<1> QED
  BY <1>1, <1>2, <1>3, <1>4, <1>5, <1>6, <1>7, <1>8, <1>9, <1>10, <1>11, <1>12, <1>13,
     <1>14, <1>15, <1>16 DEF Next, Step, Finished

\* A returned graph is the cached one, after every step.
LEMMA ResultStep == IInv /\ [Next]_vars => ResultInv'
<1> SUFFICES ASSUME IInv, [Next]_vars PROVE ResultInv'
  OBVIOUS
<1> USE DEF IInv, TypeOK, LockDiscipline, NoBuildBesideCache, PlanInv, ResultInv,
           EagerAgreement, Locked, NoResult
<1>1. ASSUME NEW budget \in Budgets, ConstructLazy(budget) PROVE ResultInv'
  BY <1>1 DEF ConstructLazy
<1>2. ASSUME NEW budget \in Budgets, ConstructEager(budget) PROVE ResultInv'
  BY <1>2 DEF ConstructEager
<1>3. ASSUME NEW t \in Threads, NEW op \in Ops, NEW budget \in Budgets, Call(t, op, budget)
      PROVE ResultInv'
  BY <1>3 DEF Call
<1>4. ASSUME NEW t \in Threads, ApplyReadEager(t) PROVE ResultInv'
  BY <1>4 DEF ApplyReadEager, Return, Goto
<1>5. ASSUME NEW t \in Threads, ApplyReadLazy(t) PROVE ResultInv'
  BY <1>5 DEF ApplyReadLazy, Return
<1>6. ASSUME NEW t \in Threads, LazyRead(t) PROVE ResultInv'
  BY <1>6 DEF LazyRead, Return, Goto
<1>7. ASSUME NEW t \in Threads, LazyBuild(t) PROVE ResultInv'
  BY <1>7 DEF LazyBuild, Return, Goto
<1>8. ASSUME NEW t \in Threads, LazyInstall(t) PROVE ResultInv'
  BY <1>8 DEF LazyInstall, Return
<1>9. ASSUME NEW t \in Threads, FastRead(t) PROVE ResultInv'
  BY <1>9 DEF FastRead, Deliver, Return, Goto
<1>10. ASSUME NEW t \in Threads, Acquire(t) PROVE ResultInv'
  BY <1>10 DEF Acquire, Goto
<1>11. ASSUME NEW t \in Threads, LockedRead(t) PROVE ResultInv'
  BY <1>11 DEF LockedRead, Release, Deliver, Return, Goto
<1>12. ASSUME NEW t \in Threads, Preflight(t) PROVE ResultInv'
  BY <1>12 DEF Preflight, Release, Return, Goto
<1>13. ASSUME NEW t \in Threads, CompileEager(t) PROVE ResultInv'
  BY <1>13 DEF CompileEager, Release, Return, Goto
<1>14. ASSUME NEW t \in Threads, InstallEager(t) PROVE ResultInv'
  BY <1>14 DEF InstallEager, Release, Deliver, Return, Goto
<1>15. ASSUME NEW t \in Threads, Materialize(t) PROVE ResultInv'
  BY <1>15 DEF Materialize, Return
<1>16. CASE UNCHANGED vars
  BY <1>16 DEF vars
<1> QED
  BY <1>1, <1>2, <1>3, <1>4, <1>5, <1>6, <1>7, <1>8, <1>9, <1>10, <1>11, <1>12, <1>13,
     <1>14, <1>15, <1>16 DEF Next, Step, Finished

---------------------------------------------------------------------------
\* A graph built within an enforced residual budget fits the limit beside the
\* lazy plan, after every step.
LEMMA BudgetStep == TypeOK /\ BuiltWithinBudget /\ [Next]_vars => BuiltWithinBudget'
<1> SUFFICES ASSUME TypeOK, BuiltWithinBudget, [Next]_vars PROVE BuiltWithinBudget'
  OBVIOUS
<1> USE DEF TypeOK, BuiltWithinBudget, NoResult
<1>1. ASSUME NEW budget \in Budgets, ConstructLazy(budget) PROVE BuiltWithinBudget'
  BY <1>1 DEF ConstructLazy
<1>2. ASSUME NEW budget \in Budgets, ConstructEager(budget) PROVE BuiltWithinBudget'
  BY <1>2 DEF ConstructEager
<1>3. ASSUME NEW t \in Threads, NEW op \in Ops, NEW budget \in Budgets, Call(t, op, budget)
      PROVE BuiltWithinBudget'
  BY <1>3 DEF Call
<1>4. ASSUME NEW t \in Threads, ApplyReadEager(t) PROVE BuiltWithinBudget'
  BY <1>4 DEF ApplyReadEager, Return, Goto
<1>5. ASSUME NEW t \in Threads, ApplyReadLazy(t) PROVE BuiltWithinBudget'
  BY <1>5 DEF ApplyReadLazy, Return
<1>6. ASSUME NEW t \in Threads, LazyRead(t) PROVE BuiltWithinBudget'
  BY <1>6 DEF LazyRead, Return, Goto
<1>7. ASSUME NEW t \in Threads, LazyBuild(t) PROVE BuiltWithinBudget'
  BY <1>7 DEF LazyBuild, Return, Goto
<1>8. ASSUME NEW t \in Threads, LazyInstall(t) PROVE BuiltWithinBudget'
  BY <1>8 DEF LazyInstall, Return
<1>9. ASSUME NEW t \in Threads, FastRead(t) PROVE BuiltWithinBudget'
  BY <1>9 DEF FastRead, Deliver, Return, Goto
<1>10. ASSUME NEW t \in Threads, Acquire(t) PROVE BuiltWithinBudget'
  BY <1>10 DEF Acquire, Goto
<1>11. ASSUME NEW t \in Threads, LockedRead(t) PROVE BuiltWithinBudget'
  BY <1>11 DEF LockedRead, Release, Deliver, Return, Goto
<1>12. ASSUME NEW t \in Threads, Preflight(t) PROVE BuiltWithinBudget'
  BY <1>12 DEF Preflight, Release, Return, Goto
<1>13. ASSUME NEW t \in Threads, CompileEager(t) PROVE BuiltWithinBudget'
  BY <1>13 DEF CompileEager, Release, Return, Goto
<1>14. ASSUME NEW t \in Threads, InstallEager(t) PROVE BuiltWithinBudget'
  <2> DEFINE limit == call[t].budget
  <2>1. CASE call[t].op # "eager"
    BY <1>14, <2>1 DEF InstallEager, Deliver, Return, Goto
  <2>2. CASE Exceeds(EagerBytes + TargetBytes(call[t].op), Remaining(limit))
    BY <1>14, <2>2 DEF InstallEager, Return
  <2>3. ASSUME call[t].op = "eager", ~Exceeds(EagerBytes + TargetBytes("eager"), Remaining(limit)),
               EnforcedMaxBytes(limit) # NoLimit, Remaining(limit) >= MinEnforced
        PROVE  LazyBytes + EagerBytes <= limit
    <3>1. limit \in Nat /\ EnforcedMaxBytes(limit) = limit
      BY <2>3, BytesAssumption DEF Calls, EnforcedMaxBytes
    <3>2. Remaining(limit) = limit - LazyBytes /\ Remaining(limit) \in Int
      BY <3>1, <2>3, BytesAssumption DEF Remaining
    <3>3. EnforcedMaxBytes(Remaining(limit)) = Remaining(limit)
      BY <3>2, <2>3, BytesAssumption DEF EnforcedMaxBytes
    <3>4. TargetBytes("eager") = 0
      BY DEF TargetBytes, MaterializationBytes
    <3> HIDE DEF limit
    <3> QED
      BY <3>1, <3>2, <3>3, <3>4, <2>3, BytesAssumption DEF Exceeds
  <2>4. CASE call[t].op = "eager" /\ ~Exceeds(EagerBytes + TargetBytes("eager"), Remaining(limit))
    BY <1>14, <2>3, <2>4 DEF InstallEager, Deliver, Return
  <2> QED
    BY <2>1, <2>2, <2>4
<1>15. ASSUME NEW t \in Threads, Materialize(t) PROVE BuiltWithinBudget'
  BY <1>15 DEF Materialize, Return
<1>16. CASE UNCHANGED vars
  BY <1>16 DEF vars
<1> QED
  BY <1>1, <1>2, <1>3, <1>4, <1>5, <1>6, <1>7, <1>8, <1>9, <1>10, <1>11, <1>12, <1>13,
     <1>14, <1>15, <1>16 DEF Next, Step, Finished

LEMMA InitInv == Init => IInv
  BY DEF Init, IInv, TypeOK, LockDiscipline, NoBuildBesideCache, PlanInv, ResultInv,
     EagerAgreement, Labels, Locked, Outcomes, Vias, Calls, Results, NoCall, NoResult

LEMMA NextInv == IInv /\ [Next]_vars => IInv'
  BY TypeStep, LockStep, CacheStep, PlanStep, ResultStep DEF IInv

LEMMA Invariance == Spec => []IInv
  BY InitInv, NextInv, PTL DEF Spec

\* The facade's attributes and every thread's locals have their types.
THEOREM TypeCorrect == Spec => []TypeOK
<1>1. IInv => TypeOK
  BY DEF IInv
<1> QED
  BY Invariance, <1>1, PTL

\* Two threads are never inside the lock's block, and the lock is held exactly
\* while one is: no return or exception leaves it held.
THEOREM Exclusion == Spec => []LockDiscipline
<1>1. IInv => LockDiscipline
  BY DEF IInv
<1> QED
  BY Invariance, <1>1, PTL

\* No thread builds a transition graph while the facade retains one.
THEOREM BuiltOnce == Spec => []NoBuildBesideCache
<1>1. IInv => NoBuildBesideCache
  BY DEF IInv
<1> QED
  BY Invariance, <1>1, PTL

\* All threads that got an eager plan got the same one, the one retained.
THEOREM Agreement == Spec => []EagerAgreement
<1>1. IInv => EagerAgreement
  BY DEF IInv, ResultInv
<1> QED
  BY Invariance, <1>1, PTL

\* apply never meets a facade without a plan, however its two reads interleave
\* with the installation of the eager one.
THEOREM AlwaysExecutable == Spec => []ApplyFindsPlan
<1>1. IInv => ApplyFindsPlan
  BY DEF IInv, TypeOK, PlanInv, ResultInv, ApplyFindsPlan
<1> QED
  BY Invariance, <1>1, PTL

\* The lazy plan is there whenever the lock is held: the rebuild is dead code.
THEOREM NoRebuild == Spec => []LazyKeptUnderLock
<1>1. IInv => LazyKeptUnderLock
  BY DEF IInv, PlanInv, LazyKeptUnderLock
<1> QED
  BY Invariance, <1>1, PTL

\* A retained graph is never replaced, a lazy plan never lost, and a refused call
\* installs no graph.
THEOREM Retention == Spec => PlansAreKept
<1>1. IInv /\ [Next]_vars =>
        [ /\ eagerPlan # None => eagerPlan' = eagerPlan
          /\ lazyPlan # None => lazyPlan' # None
          /\ storage = "lazy" => lazyPlan' = lazyPlan
          /\ \A t \in Threads :
               pc[t] # "idle" /\ pc'[t] = "idle" /\ result'[t].outcome # "ok"
                 => eagerPlan' = eagerPlan ]_vars
  <2> SUFFICES ASSUME IInv, Next
               PROVE  /\ eagerPlan # None => eagerPlan' = eagerPlan
                      /\ lazyPlan # None => lazyPlan' # None
                      /\ storage = "lazy" => lazyPlan' = lazyPlan
                      /\ \A t \in Threads :
                           pc[t] # "idle" /\ pc'[t] = "idle" /\ result'[t].outcome # "ok"
                             => eagerPlan' = eagerPlan
    OBVIOUS
  <2> USE DEF IInv, TypeOK, LockDiscipline, NoBuildBesideCache, PlanInv, Locked
  <2>1. ASSUME NEW budget \in Budgets, ConstructLazy(budget) \/ ConstructEager(budget)
        PROVE  eagerPlan = None /\ lazyPlan = None /\ storage = "absent" /\ pc' = pc
    BY <2>1 DEF ConstructLazy, ConstructEager
  <2>2. ASSUME NEW t \in Threads, InstallEager(t)
        PROVE  /\ eagerPlan = None /\ lazyPlan' = lazyPlan
               /\ \A s \in Threads :
                    pc[s] # "idle" /\ pc'[s] = "idle" /\ result'[s].outcome # "ok"
                      => eagerPlan' = eagerPlan
    <3>1. eagerPlan = None /\ lazyPlan' = lazyPlan
      BY <2>2 DEF InstallEager
    <3>2. ASSUME NEW s \in Threads, pc[s] # "idle", pc'[s] = "idle", result'[s].outcome # "ok"
          PROVE  eagerPlan' = eagerPlan
      <4>1. s = t
        BY <2>2, <3>2 DEF InstallEager, Deliver, Return, Goto
      <4> QED
        BY <2>2, <3>2, <4>1 DEF InstallEager, Deliver, Return, Goto
    <3> QED
      BY <3>1, <3>2
  <2>3. ASSUME NEW t \in Threads, LazyInstall(t)
        PROVE  eagerPlan' = eagerPlan /\ lazyPlan' # None /\ storage # "lazy"
    BY <2>3 DEF LazyInstall
  <2>4. ASSUME NEW t \in Threads, Preflight(t)
        PROVE  eagerPlan' = eagerPlan /\ lazyPlan' = lazyPlan
    BY <2>4 DEF Preflight
  <2>5. ASSUME NEW t \in Threads, Step(t), ~InstallEager(t), ~LazyInstall(t), ~Preflight(t)
        PROVE  eagerPlan' = eagerPlan /\ lazyPlan' = lazyPlan
    BY <2>5 DEF Step, ApplyReadEager, ApplyReadLazy, LazyRead, LazyBuild, FastRead, Acquire,
       LockedRead, CompileEager, Materialize
  <2>6. ASSUME NEW t \in Threads, NEW op \in Ops, NEW budget \in Budgets,
               Call(t, op, budget)
        PROVE  eagerPlan' = eagerPlan /\ lazyPlan' = lazyPlan
    BY <2>6 DEF Call
  <2> QED
    BY <2>1, <2>2, <2>3, <2>4, <2>5, <2>6 DEF Next, Finished, vars
<1> QED
  BY Invariance, <1>1, PTL DEF Spec, PlansAreKept

\* What a successful eager request may occupy, for all sizes and limits.
THEOREM BudgetKept == Spec => []BuiltWithinBudget
<1>1. Init => BuiltWithinBudget
  BY DEF Init, BuiltWithinBudget, NoResult
<1>2. IInv => TypeOK
  BY DEF IInv
<1> QED
  BY Invariance, <1>1, <1>2, BudgetStep, PTL DEF Spec
=============================================================================
