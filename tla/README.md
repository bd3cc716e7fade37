# TenCirPauli: models, checks and proofs

TLA+ models of the parts of TenCirPauli that a unit test hardly reaches: caches filled by
racing threads, chunked work on parallel workers that promises to replay, passes that recompute
what another pass threw away, several executors that must all mean the same operator, and
estimators whose correctness is an average over everything that can be drawn. TLC checks them
on small instances; TLAPS proves the properties that matter most for every instance.
`PROJECT.json` lists runs, mutants, the source lines behind each definition, the hazards the
properties are for, and the theorems.

To check everything by hand, in this directory:

    tlc -config MCChargeRestriction.cfg MCChargeRestriction    # one line per run, see section 3
    tlapm ChargeRestriction_proofs.tla                          # one line per proof module

## 1. The system

A Rust core (`crates/tencir-pauli-core`), a PyO3 crate that exposes it
(`crates/tencirpauli-native`), and Python facades (`python/tencirpauli`). The native
crate releases the GIL around every long call, so Python threads really run
concurrently in the core, and the core itself uses rayon.

| Component | State it keeps | Operations | What makes it hard | What makes it correct |
|---|---|---|---|---|
| Charge restriction facade (`charge.py`) | a lazy plan, an eager plan, a lock, on an otherwise frozen object | construct, `apply`, `mvp_plan` lazy/eager, `dense`/`coo`/`csr` | threads between any two bytecodes; exceptions inside the lock; a floor under which limits are advisory | one eager plan, never replaced; every exit releases the lock; enforced limits hold |
| Logical-witness search (`logical_search.rs`, caches in `stabilizer_code.rs`) | four `OnceLock`s on a code; per call an incumbent and a trial count | `search_logical_witness` | concurrent first uses; workers in any order; last chunk, X/Z batches; early stop | the best of exactly the trials counted; same seed, same answer whatever the memory limit |
| Propagation engine (`propagation.rs`, `gate.rs`) | none between calls; per call a sparse state, checkpoints, adjoints | `expectation`, `profile`, `value_and_grad` | checkpoints, replay, weight projection, fast paths that skip aggregation | state = projected Heisenberg image; gradient = derivative of the executed trace |
| Gate tape (`propagation.py`) and circuit facades (`propagation_circuit.py`, `spps_circuit.py`) | an operation list, its generation, two tapes with native handles, one objective | append, terminals, conversion | stale caches; objectives found by `id()`; one entry shared by threads; slots sent as negative numbers | a terminal answers as if there were no caches; slots, gradient and layout use one order |
| Batch scheduler (`propagation.rs`) | none | `expectations`, `values_and_gradients` | worker count from memory and work; chunked rows | rows in order; workers fit the limit |
| U(1) circuits (`u1_circuit.rs`, `u1_circuit.py`) | a compiled plan; the final state of the last run | compile, run, probability, expectation, `value_and_grad` | diagonal tables folded, gates merged into blocks, pairs updated in parallel through raw pointers, gradients by undoing blocks | amplitudes are those of the full circuit; no index in two pairs; gradient = derivative of the expectation |
| U(1) restriction, Z2 tapering (`sector.rs`, `symmetry.rs`, `symmetry.py`) | two plan caches and a lock; tapering is pure | `apply`, `mvp_plan`, `dense`/`coo`/`csr`; `taper` | two passes over the sources size and fill a graph; budgets bounded before anything is counted; threads | every answer is the block of the operator in the sector; a build allocates no more than was checked |
| Pauli words and operators (`word.rs`, `operator.rs`) | none | product, adjoint, action, canonicalise | phases; exact cancellation | a group up to phase; sorted, no zeros |
| GF(2), stabilizer codes, tableaus (`gf2.rs`, `stabilizer_code.rs`) | immutable code | validate, syndrome, logical basis, CSS split | rank, sign tracking | rows commute; logicals pair up |
| Classical shadows (`shadows.rs`, `random.rs`, `shadows.py`) | a tableau, workers with scratch, flat arrays of rows and outcomes | source from a tape, tableau or vector; sample, import, estimate, RDM, Renyi, variance, fidelity | collapse of shared generators; chunks on workers; counter streams with rejection; U-statistics by blocks | chunking changes nothing; outcomes are those of projections; estimates are unbiased |
| SPPS (`spps.rs`) | running term statistics | fixed and adaptive estimates | reallocation from running variances | samples add up to the budget |
| CSR and Hamiltonians (`csr.rs`, `hamiltonian.rs`) | none | count, fill, merge runs, multiply | the two passes must agree; a cell can lie in several runs | rows sorted, sizes exact |
| Charge sectors and plans (`charge_sector.rs`, `charge/*`) | immutable plans | plan, rank, unrank, walk; schedules, eager graph, lazy apply | layouts inferred by integer elimination; four executors with their own conditions and leak checks | rank, unrank and cursor agree; every route is the plain operator, or refuses a leaking one |
| Grouping (`grouping.rs`) | none | greedy qubit-wise-commuting groups | order dependence | each term in one compatible group |
| Mappings (`mapping.rs`, `majorana.rs`, `fermion_mask.rs`) | none | Jordan-Wigner, parity, Bravyi-Kitaev | signs | anticommutation relations |
| Structured operators (`structured/*`, `_structured/*`) | interned spaces | normal ordering, compile | signs, bosonic contractions | normal ordering preserves the operator |
| Integrations, JAX, PySCF, `circuit_ir.rs`, PyO3 conversion | none | conversion | third-party objects | not modelled |

Interactions: the Python facades call the core through native handles and share nothing
with each other but immutable plans; a `StabilizerCode` is shared by every search of it;
`GateTape` handles are shared by the propagation and SPPS engines; circuits own tapes.

## 2. Modules

| Module | Code | Role |
|---|---|---|
| `ChargeRestriction` | `charge.py`, budget rules of `_native_mvp.py`, errors of `charge_sector.rs` | threads on one facade |
| `LogicalWitness` | candidate order, scan and trial streams of `logical_search.rs` | pure definitions shared by the next two |
| `AnytimeSearch` | what `logical_search.rs` promises | abstract specification |
| `LogicalSearch` | `logical_search.rs` from cache lookup to result | detailed specification, refines `AnytimeSearch` |
| `Accumulate` | sums and selections over sequences, as the iterators of the code compute them | pure definitions |
| `PauliKernels` | `gate.rs`, the kernels and reverse edges of `propagation.rs` | pure definitions |
| `PauliRecurrence` | what `propagation.rs` promises | abstract specification |
| `Propagation` | one call of `propagation.rs`, forward and reverse | detailed specification, refines `PauliRecurrence` |
| `TapeLowering` | tape building of `propagation_circuit.py`, packing of `propagation.py`, unpacking of the native `propagation.rs` | pure definitions |
| `CircuitFacade` | `PropagationCircuit` and the handle cache of `GateTape` | threads on one circuit |
| `Gaussian` | complex numbers as pairs of integers | pure definitions |
| `PauliWords`, `PauliOperators` | `word.rs`, `operator.rs` | pure definitions the modules below are built from |
| `U1Sector` | the fixed-particle basis of `sector.rs` | pure definitions |
| `PairUpdate` | `apply_pair_matrix` of `u1_circuit.rs` | workers on one slice, one read or write at a time |
| `U1Circuit` | `u1_circuit.rs`: compile, run, answer, differentiate | composes `U1Sector` and `PairUpdate` |
| `TwoPassFill` | the count, size and fill passes of `sector.rs` | one build of a row-compressed graph |
| `Csr` | graphs and the run-merging sink of `csr.rs` | pure definitions |
| `U1Restriction` | the restriction of `sector.rs` and its facade in `symmetry.py` | threads on one facade; composes `U1Sector`, `Csr`, `TwoPassFill` |
| `ChargeSector` | `charge_sector.rs`: plans, rank, unrank, cursor | pure definitions |
| `ChargeSchedule` | term grouping and schedules of `charge/*` | pure definitions |
| `ChargeRoutes` | the conditions and executors of `charge/generic.rs` and its siblings | pure definitions |
| `ChargeExecution` | one operator restricted to one sector, eagerly and lazily | composes the three above with `Csr` |
| `Stabilizer` | tableaus, collapse and dense states of `shadows.rs` | pure definitions |
| `ShadowFrames` | `random.rs`, bases and symplectic frames of `shadows.rs` | pure definitions |
| `ShadowEstimates` | every estimator of `shadows.rs` | pure definitions |
| `ShadowSampling` | a shadow call from its source to an answer | workers; composes the three above and the gate maps of `PauliKernels` |
| `MC*` | | constants for TLC |
| `FoldLemmas` | | lemmas about sums, selections and recursive functions, used by the proofs |
| `*_proofs` | | theorems and proofs |

A definition whose comment starts with `Faulty:` is never part of a specification. It is a
plausible bug in the definition that follows it; `PROJECT.json` names, for each property, the
one that breaks it.

### ChargeRestriction

Every attribute the facade reads or writes outside the lock is a step of its own, because
a thread can lose the GIL between any two bytecodes: `apply` reads `_eager_plan` and
`_lazy_plan` in two steps, `mvp_plan("lazy")` reads, builds and installs in three, the
eager path reads unlocked, acquires, reads again, checks, compiles and installs. `storage`,
`lazyPlan`, `eagerPlan` and `lock` are the object; `pc`, `call` and `seen` a thread's
locals; `result` what its last call returned. Plans are numbered in the order they are
built, since only identity matters. The native compilation is an atomic success or a
`MemoryError`, decided by the sizes in the constants. `MaxCalls` bounds the calls of a thread.

### LogicalWitness, AnytimeSearch, LogicalSearch

A search walks through the `OnceLock`s it needs (`cache[n]` is empty, owned by the search
that fills it, or settled; `StartBuild`/`FinishBuild`/`UsePrepared`), sizes its workers
(`EnforceBudget`), runs the deterministic scan, and then chunk after chunk: the X batch and
the Z batch, each cut into ranges that workers claim in any order, run trial by trial and
that are merged in index order. What one trial finds is the constant `Trial`, because
each trial draws from its own counter stream and reads only the prepared basis.
`AnytimeSearch` knows only: a goal, an incumbent that is the best of the scan and of the
first `examined` trials, and when it may stop.

### PauliKernels, PauliRecurrence, Propagation

A state is a sequence of terms in the order the code keeps them, because one kernel depends on
that order. Coefficients are integers: every angle is a Pythagorean pair, every rate a
fraction, and each kernel is scaled by its common denominator, so equality is exact, like
the exact-zero tests in the code, and derivatives are integers too. `Next` has one action per
phase of a call: `Compile`, `Begin`, one gate of each forward pass, the answer, opening a
block, replaying one gate, one reverse frame. Two history variables record what the code
throws away: `trace`, every forward state, and `tangents`, the derivative of each of them.
No action reads either. Loops over terms are recursive functions and sums (`Accumulate`), because the
provers can reason about those.
Floating-point rounding is left out: it is outside what the properties distinguish.

### TapeLowering, CircuitFacade

`ops` and `generation` are the list and its counter; `tapes` numbers the `GateTape` objects, so
that two threads that build one each have different ones; `tapeCache` and `objectiveCache` are the
three cache attributes; `heap` says what lives at each address. A terminal is a thread going
through `Lookup`, `FindTape`, `LowerCircuit`, `FindHandle`, `CompileHandle`,
`BuildObjective` and `EvaluateObjective`, each ending where the code makes a call, because there
the GIL can change hands; `requires-python` admits no interpreter that switches threads in the
middle of a statement without calls, and the stable-ABI extension does not run without the GIL.
`Reclaim` and `Allocate` let objects die and addresses be reused whenever neither a running
call nor the cache entry holds them. An input is the pair of observable and initial state: the
code keys, keeps and copies both in the same way. Appends happen only between terminals: the
builder promises concurrent reads only. `TapeRoom` and `EngineRoom` say which tapes and inputs fit a limit,
all the model needs of the memory estimates. `returned` holds what the last step returned.

In `TapeLowering` a parameter is an integer that says where it came from, so that a gate applied with
a wrong value is visible; wires and matrices play no part in the numbering and are left out.

### Words, operators, bases

From here on amplitudes and coefficients are Gaussian integers, so that cancellation and equality
are exact, and a basis state is the set of its occupied qubits. A word is its X mask and Z mask
(sets of qubits) with the phase rules of `word.rs`; an operator is a sorted sequence of
terms without zeros, as `operator.rs` leaves it. `U1Sector` has the code's basis order, its rank
by binomials, and the choice between enumerating particles or holes.

### PairUpdate, U1Circuit

`CompilePlan` validates the program, folds and merges diagonal gates into tables, composes
exchange gates into two by two blocks over one pair map, decides between the sparse and the
dense path, and adds up bytes. `DiagonalStep` and `PairStep` run one block in one thread;
when a block is large enough, `LendPairs`, `WorkPairs` and `JoinPairs` hand it to workers:
`PairUpdate` lets each take a pair, read its two amplitudes, and write them, in
any interleaving. `KeepFinal`, `ValueAndGrad` and `DeriveStep` keep the last state, answer an observable,
and undo block after block on the state and its adjoint (`phase`, `at`, `state`, `lambda`,
`adjoint`). Angles are quarter turns, so that every amplitude stays Gaussian; a table may hold
any power of i.

### TwoPassFill, Csr, U1Restriction

`TwoPassFill` has the arrays of one build (`counts`, `indptr`, `next`, `cells`) and its passes:
one source counted at a time, pointers row by row, one source filled at a time. `U1Restriction`
gives each source its entries by aggregating the compiled terms anew in both passes, as
the code does. Its facade follows `symmetry.py` step by step, as `ChargeRestriction` follows
`charge.py`; the build under the lock is taken column by column, so other threads come and go
in the middle of it. `request` is the operator, sector and the calls a thread may make; `answer`
what each thread was handed. In `Csr` a sink holds runs of a bounded number of entries, each sorted when
full, and merges them into a graph.

### ChargeSector, ChargeSchedule, ChargeRoutes, ChargeExecution

`ChargeSector` builds the plan of a sector: tables of reachable charges from the last axis,
the layouts the analysis can prove (one fixed population, a product, independent components
in contiguous or interleaved places), and the compact form chosen by size. `Rank`, `Unrank` and `Advance` exist
once per layout, as in the code. `ChargeSchedule` splits terms into fermion, boson,
qubit and qudit parts and groups them; the square root of a level is a symbol `Root(k)` with a value of
its own, so that two routes agree only if they multiply and add the same symbols. `ChargeRoutes` has the four executors of the lazy product and the checks
that choose one. `ChargeExecution` takes one instance through
`PlanSector`, `PrepareOperator`, `BeginEager`, `EagerColumn`, `FinishEager`, `CompileLazy`
and exactly one of `ApplyLocally`, `ApplyGathered`, `ApplyFactored`, `ApplyInGeneral`.
A refusal (`Failed(error)`) may come at any stage and ends the route.

### Stabilizer, ShadowFrames, ShadowEstimates, ShadowSampling

`call` is the source and the plan handed in; `phase` where the call stands; `state` the tableau
or vector; `plan` the workers and the chunk length; `open` the chunks nobody has taken;
`worker[w]` the chunk, setting and repeat of a worker; `snapshots` the two flat arrays; `answer`
how the call ended. `BeginTape` and `ApplyGate` send the generators of |0> through the gate maps of
`PauliKernels`; `ReadTableau` and `ReadVector` validate the other sources and `ImportMeasurements`
measured data; `StartSampling` sizes workers; `TakeChunk`, `DrawRows` and
`MeasureRepeat` are a worker's steps, in any interleaving with the others';
`FinishSampling` publishes the arrays and `Ask` makes one request of them. Streams are
named by seed, domain, setting and repeat; the 64-bit mixer is the constant
`Counter`, with draws of `Width` bits. An estimate is kept as an integer over a
common denominator, and a median as twice the median.

## 3. Runs

| Run | Configuration | What it shows |
|---|---|---|
| `charge_restriction` | 2 threads, 2 calls each, 4 limits around the floor | one build and never beside a cache, plans kept, `apply` always finds one, budgets, every call returns |
| `charge_documented_budget` (violation) | same, limits 1050 and 1750 | `mvp_plan` returns a plan larger than `max_bytes` when the residue after the lazy plan falls under the floor |
| `logical_search` | 2 searches, 6 trials, chunks of 3, 2 threads, 9 requests, CSS and not | incumbent, replay, monotonicity, caches, memory, refinement, termination |
| `propagation` | 2 wires, 12 tapes by hand and all pairs of a plain and a parametric gate, 4 observables, both cutoffs, intervals none/0/1/2/3, two limits | the forward pass refines the recurrence, the reverse pass gives the derivative, blocks replay, budgets |
| `propagation_documented_damping` (violation) | same | amplitude damping leaves a word twice when the state is not in key order |
| `circuit_caches` | 2 threads, 2 addresses, 2 inputs, 2 limits, a circuit of 4 operations that grows to 5 and one of 26, 3 terminals | tapes and handles are current, keys pin their inputs, every answer is the uncached one, slots survive packing, the gradient follows the layout |
| `u1_circuit` | 27 programs, sectors and limits of 4 or 5 qubits, 2 workers, blocks of 2 pairs or more shared | amplitudes and expectations are the full circuit's, gradients its derivative, workers share no amplitude, a compiled plan can run |
| `charge_routes` | 48 sectors and operators of up to 6 axes of all four kinds, run capacities 0 to 16384, 15 limits | ranks, cursor, eager graph and every lazy executor against the plain operator |
| `charge_two_level` (violation) | a two-level boson behind two fermion modes | a fast path reads modes from the wrong bits: lazy and eager differ |
| `u1_restriction` | 2 threads, 14 operators and sectors of 2 to 5 qubits, limits 300 to 900 around a floor of 400 | every answer is the restricted block, one build at a time, sizes within what was checked, both passes agree |
| `shadow_sampling` | all Clifford tapes of up to 2 gates on 2 qubits; 4 sources sampled in both protocols with 4 limits and 2 seeds on 2 workers; 8 imports; 45 requests | tableau, outcomes by projection whatever the chunking, scratch within the limit, unbiased shots, every estimator by its definition |
| `shadow_phase_gates` (violation) | same | the tableau of a tape with a phase gate is not that of the state the tape prepares |

**Why the bounds are enough.** Charge: a third thread adds no new pair of racing steps,
since every race is between one reader and one holder, and the limits are one per outcome of each
comparison. Search: six trials are two full chunks and five a short last one; each chunk has
X and Z batches, each batch up to two ranges, so empty, short and uneven ranges all occur,
and the tables make scan, X and Z trials each supply the winner and tie. Propagation: two
wires are enough for every gate; five gates with interval 2 and 3 give full, short and
one-gate blocks; the observables make words meet, cancel and pass the cutoff. Circuit caches: two
terminals can race and a third finds what they left; with two addresses one object dies while another
is cached; a small limit makes a long tape and the second input
too large, so both errors occur; in the circuit of 26 operations each kind follows each, with many slots,
and its terminals end with the error, so that it adds few states.
Threads and addresses are interchangeable and the run has only safety properties, so it uses
their symmetry. U(1) circuits: the programs contain every kind of gate beside every other,
tables that fold and that may not, pair maps reused the other way round, sectors from empty to full taken by
particles and by holes, and limits one byte to each side of what each part needs. Charge routes: one
instance at least for every layout, executor and refusal, with operators that conserve
termwise, only together, or not at all, runs of every length down to one entry, and limits in steps across the
whole range of estimates. U(1) restriction: operators that conserve the number everywhere, only inside the
sector, or not at all; threads and their symmetry as for the charge facade. Shadows: two qubits are
enough for every gate and for commuting, anticommuting and dependent rows; limits that leave room for no
worker, one, or both; five imported settings give blocks of unequal length; `ShadowsAreUnbiased`
enumerates all accepted flips, hence every symplectic frame of two qubits, instead of sampling them.

**Fairness.** Weak fairness of each thread's step in the two runs that have liveness properties
(`charge_restriction`, `logical_search`): a thread that can run is scheduled by the operating system, and
a rayon worker with a claimed range runs it. Nobody is obliged to call. The other runs state safety only: their
calls are straight-line or a finite number of chunks, so that termination would repeat the shape of the model.

**Deadlock** is checked where a system goes on: a finished one takes an explicit idle step or accepts the next
call. `charge_routes`, `charge_two_level`, `u1_restriction`, `shadow_sampling` and `shadow_phase_gates` follow
one call, or one per thread, to its end and stop there, so their configurations say `CHECK_DEADLOCK FALSE`; that
nothing waits on a lock for ever is shown for the charge facade, whose locking the U(1) facade repeats.

## 4. What is proved

All proofs are for arbitrary constants satisfying the named assumptions. These say what the constructors in
the code validate, and of numbers what the models make of them: scalars, rates and amplitudes are integers over a common
scale, and `PauliKernels.IsScalar` admits for a rate or the root of one only the three values that the fixed-point
arithmetic of that module has.

* **ChargeRestriction_proofs**: type correctness, mutual exclusion of the lock, `NoBuildBesideCache`,
  agreement of what threads have seen, `ApplyFindsPlan`, `BuiltWithinBudget`, and the action
  property `PlansAreKept` (no plan is replaced or lost, and a refused call installs no graph), for any set of threads, any limits and sizes. The invariant `IInv`
  joins the lock discipline, that nobody past the second check sees a cache (which is
  what double-checked locking rests on), and which plans exist for which storage.
* **LogicalSearch_proofs**: the candidate order is total and strict, merging gives the best of a
  union, and the set of examined candidates grows with the trials. From this: type correctness, that a cache is built once, `CachesAreKept`,
  `IncumbentIsBest`, `PrefixMonotone`, `ReplayAgrees`, `WorkersWithinBudget`, and that the search
  implements `AnytimeSearch`. That
  the incumbent is the best of a prefix is not inductive: inside a chunk its trials are spread over
  claimed ranges, local bests and the pending candidate. `BatchInv` says where each trial of the chunk
  is; the batches partition the chunk, so merging the last range completes the prefix.
  `ReplayAgrees` needs more than that: while a search goes on it has counted whole chunks only, and nothing was below
  its threshold when the last one began. So two searches of one goal stop at the same trial, and the best of a set is unique.
  `WorkersWithinBudget` rests on ranges running only inside a batch of no more than the workers the limit paid for;
  on the shared pool only a claim adds a range, and it looks at the pool first.
* **CircuitFacade_proofs**: type correctness, `CachedTapesAreCurrent`, `KeyNamesItsInput` and the action
  property `CachesAreTransparent`, for any threads, addresses, limits and circuits. `IInv` adds what
  each thread knows of its call: the tape it holds is the lowering of the operations, the handle
  was compiled from it under a limit it meets, the objective is the one its own arguments describe. All of it
  survives other threads because nothing is appended while a call runs, and the object
  a key names stays alive.
  `LoweringResolves` and `GradientFollowsLayout` hold for any operations at all. Three facts carry them: a slot survives being
  packed as a negative number and unpacked (`RoundTrip`); the slot counters say where the values of each operation begin, in
  either tape and in the layout alike; and the stretches that begin there do not overlap and together are the whole
  parameter vector (`PartsApart`, `FlattenParts`). The last two are inductions over the operation list.
* **Propagation_proofs**, first part: what one kernel returns (`Kernel`), for every operation the constructors let through, any
  number of qubits, any terms and cutoff: terms on the tape's wires and within the cutoff; for every word the coefficient that
  the operation's transfer matrix gives it, summed over the input; at most branch-factor many terms per input term; and distinct
  words when the input's words are in key order. Each fast path has its own argument: a Clifford map is injective on
  words, depolarizing and phase damping only scale, rotations and transfer matrices collect equal words, and amplitude
  damping splits and merges two sequences in key order.
* **Propagation_proofs**, second part: type correctness, `FramesReplay`, `GradientIsTangent`, `BudgetHeld`, the action property
  `OrderedStaysDistinct`, and that the engine implements `PauliRecurrence`. Nothing but `Kernel` and its
  lemmas is used of the kernels. None of these is inductive alone; the invariant is the conjunction of six parts:
  - `IInv`: `trace` is the recurrence; checkpoints are its states, in strictly increasing order, the last at the
    end of the tape; the open block agrees with `trace` from its checkpoint on. So the replay reproduces what
    was thrown away, which is `FramesReplay`.
  - `CallInv` and `TypesInv`: the call passed validation, so every angle and rate has a slot, and `lambda` has an adjoint for
    each term of the state the reverse pass has come back to.
  - `BudgetInv`: a state fits the limit when it was checked going forward, when it is a checkpoint, or when it was replayed;
    it also says which states the reverse pass still has to come back to, because those have not been checked yet.
  - `TangentInv`: `tangents` follows the derivative of the recurrence and vanishes outside the words kept.
  - `AdjointInv`: in every state of the reverse pass, the derivative of the value is what the gradient already has plus
    the pairing of the adjoints with the tangent of the state they belong to. A frame moves one gate's share from the second
    to the first, because its edges are the transpose of the gate's linear map. When nothing is left, the gradient is the
    derivative; that is `GradientIsTangent`.

  The refinement maps the state to the coefficient of each word, so that it needs only that equal words add up: orders
  and words left twice do not show.
* **FoldLemmas**: the provers cannot instantiate a theorem with an operator for its hypothesis, so induction is stated
  with a set: a set of naturals that has 0 and is closed under successor is everything (`NatInd`, `UpTo`, `SubsetInd`), and
  a function defined by recursion over finite sets exists and is unique (`SetRecursion`). Sums do not depend on
  the order, add, exchange, and move through injections and selections; they are what the engine, the lowering and the
  sectors compute with. Counting subsets of a given size by splitting off one element is here as well.
* **U1Circuit_proofs**: first the fixed-particle basis, for any number of qubits and particles. The table holds the numbers of
  subsets (`TableIs`), which is also what the checked product computes (`ChooseIs`). Rank is the number of words before
  a word in public order, and the iterator walks the words in that order, whether particles or holes are stored (`SectorNumbered`,
  `SectorComplete`, `IteratorSteps`): two algorithms of the code that must agree without ever calling each other.
  A column as the builder aggregates it holds exactly the matrix elements that are not zero, one to a row
  (`ColumnIs`, `EntriesAre`), because compiled groups differ in their X masks, and a move that changes the number
  of particles refuses the column unless the terms that make it cancel. Then a parallel section of `apply_pair_matrix`, for any workers, slice, matrix and
  list of disjoint pairs inside the slice:
  `NoSharedAmplitude` (the raw pointers never alias), and when the pool has joined, the slice is what one thread would
  have computed. The invariant says of every pair that it is untaken, held by exactly one worker that has read the lent
  amplitudes, or written.

  Then the circuit itself. The constants are assumed to be what the Rust types and the validated arguments make them
  (`InstancesAssumption`, `ParametersAssumption`, `ObservablesAssumption`: indices are naturals, an operator's terms are on its qubits, the given
  initial state has one amplitude for each word of the sector; `NumbersAssumption` for the threshold of the pool and
  the positive integer that stands for pi in derivatives). What validation rejects is not assumed: a program without `ProgramError` is legal, and that is a lemma. Two invariants:
  - `PlanInv`: a plan that exists is the one compiled from its program (`PlanOf`), for the sector asked for, within its limit. From it
    `CompiledPlansRun`, because the bytes compared at compile time contain those of the state; and `BlocksNeverAlias`,
    because the pair map of two wires is a list of index pairs inside the sector, no index twice: the lists the compiler makes
    are such lists as the section above needs.
  - `RunInv`: the state is the initial one sent through the first blocks, forward and on the way back; inside a section it
    is the section's slice. `StatesFollow` says by induction over the blocks that embedding that state gives the full
    vector after as many operations as those blocks consumed, and that undoing a block gives back the state before it.
    For that, one block has to be what its operations are on all 2^n amplitudes (`BlockBetween`): blocks are a
    cut of the program (`BlockRuns`), a folded table has the product of the phases of the operations it
    swallowed, its index reads the wires in the table's order, the dense and the sparse path scale alike, composing
    two by two matrices is applying them in turn, and the sector is closed under all of it. Last, an observable applied by X groups
    over the sector is the projection of the plain operator, so that expectations agree. Together:
    `RunsSimulateFullSpace`.
* **U1Restriction_proofs**: the facade of a restricted operator, for any threads, requests and limits. It assumes of a
  request (`RequestsAssumption`) what `QubitOperator`, `U1Sector::new` and the length check
  of `apply` validate: terms on the operator's qubits, no more
  particles than qubits, and one amplitude of the state for each word of the sector. There are four arguments:
  - Lock discipline (`LockInv`): `NoBuildBesideCache`, and that a cached graph is never replaced. It says who owns the lock,
    that a graph is built while none is cached, and that nobody uses the object until the thread constructing
    it is done, which needs no lock because it is alone.
  - The two passes for any rows and entries, at most one of a source to a row (`FillInv`): `FilledAsCounted`, and the finished
    arrays hold every entry and nothing else. The invariant says how far each cursor is: as many cells past
    its row's pointer as earlier sources reach the row. These two (`FilledCellByCell`, `ArraysHoldTheMatrix`) are about the
    passes alone.
  - The builder of the facade (`MatrixInv`): at every step of a build it is in such a pass, over the columns of the
    compiled operator, and both passes see the same columns although the words are enumerated anew. So `FilledAsCounted` holds in the
    facade too, and `BuildWithinEstimate`: the cells are no more than `transition_upper_bound`, which the
    memory check used, counts. That is a counting argument: the words of a sector that a mask moves inside it are those with half of
    the mask occupied (`PairsCounted`).
  - The answers (`AnswerInv`): caches hold the compiled groups or a graph of the restricted matrix, no column already passed
    leaves the sector (`Legal`), and every thread finds the cache it was sent to. So `AnswersAreTheRestriction`: dense, COO, CSR, product
    with a state by graph or lazily, all are the block of the operator's own matrix in public order. A refusal
    that is not about memory means that the operator leaves the sector.
* **ShadowSampling_proofs**: for any calls, pool and thresholds, `ScratchWithinLimit`, and `SettingsAreTheirOwn`: every setting has
  the rows of its own stream and every repeat the measurement in those rows with its own stream, in the place where
  an import reads them. So neither the number of workers, nor the chunks, nor the order in which chunks are taken shows in what is
  recorded, which is what makes a seed reproducible on another machine. The invariant says of every setting and repeat that
  it is in an open chunk, ahead of one worker, or recorded (`RecordInv`), and of chunks that they begin within
  the settings and are nobody else's (`ChunkInv`). A step then has to show that its place in the
  flat arrays is no other's: stretches at different multiples of one length do not meet (`Stretch`). The scratch bound is a
  fact about `bounded_shadow_worker_count`: a second worker is only there when the limit pays for all (`Paid`). How rows
  are drawn and measured stays opaque; that measuring projects the state is `SettingsAreMeasured`, which is model-checked.
  A measurement that fails ends the call, so that nothing recorded comes from one.

**Only model-checked**: `CallsReturn` and `SearchesEnd`, because liveness is beyond the prover;
`GradientMatchesTangent` of `u1_circuit`; all
of `charge_routes`; of `shadow_sampling` all but `ScratchWithinLimit` and the half of `SettingsAreMeasured` that is about
places and streams. These compare a computation over data with a definition over
the same data, built from library folds over sequences and sets. A fold takes an operator, and no installed
prover can instantiate the induction theorems with one. For propagation, lowering and everything else about U(1) sectors the way round was to
write the loop as a recursive function and to do the induction over a set; the others would need the same for each of their
loops: sectors of mixed axes, the collapse of a tableau. `GradientMatchesTangent` has the states it needs proved in
`RunsSimulateFullSpace`; missing is that the adjoint's pairing with a tangent is kept while blocks are undone, as
`Propagation_proofs` shows it for the Pauli engine.

## 5. Disagreements between code and documentation

1. `mvp_plan`'s docstring (`charge.py:1228`) says the returned plan's storage estimate is checked
   against `max_bytes`. `_ensure_eager_for_target` subtracts the lazy plan from the limit and
   passes the rest on as a limit; a rest under the advisory floor is not enforced by anybody. `BuiltWithinBudget`
   is the part that does hold.
2. The channel specification (`docs/vibe/specs/phase-12-...:224`) says specialised kernels produce
   the same canonical words as the transfer matrix. `merge_amplitude_split` assumes its input
   is in key order. Observables come in code order and Clifford gates do not sort, so a word can be
   left twice. Expectations agree all the same (`ImplementsRecurrence`): images are sums over equal
   words. What differs are term counts, profile peaks, memory checks, and gradients where two halves of a
   word should have cancelled and been dropped: the gradient is that of the trace that was executed
   (`GradientIsTangent`), in which both halves still carry a derivative.
   `OrderedStaysDistinct` says when words are distinct.
3. `charge/generic.rs:806` calls the lazy product the counterpart of the native CSR compiler.
   `try_apply_contiguous_fixed_population_into` (`:661`) checks that the sector is one fixed
   population but not that its sites are the fermion modes. With two modes, one two-level boson and the
   charge n0 + n1 + b = 1 the modes are looked for in the bits of their neighbours, and the lazy product
   is not the eager one. With no such instance (`charge_routes`) all executors agree.
4. The shadow specification (`docs/vibe/specs/phase-13-...:240`) and the facade's docstring
   (`shadows.py:777`) say that a tape is executed on |0> in append order.
   `from_tape` (`shadows.rs:315`) sends the generators through the Heisenberg maps of the observables,
   in append order: for S and Sdg that is the inverse gate. The tape H, S prepares +Y and its tableau says -Y.
   `TableauIsTheState` states what does hold: the tableau is that of the inverse gates.

## 6. Plan and limits

Done: `ChargeRestriction`; `LogicalWitness`, `AnytimeSearch`, `LogicalSearch`; `Accumulate`, `PauliKernels`,
`PauliRecurrence`, `Propagation`; `TapeLowering`, `CircuitFacade`; `PairUpdate`, `U1Circuit`;
`ChargeSector`, `ChargeSchedule`, `Csr`, `ChargeRoutes`, `ChargeExecution`; `TwoPassFill`, `U1Restriction`;
`Stabilizer`, `ShadowFrames`, `ShadowEstimates`, `ShadowSampling`.

Worth doing next, in this order: what one trial of the logical search computes (information sets and sketches), against
stabilizer codes and GF(2) elimination; normal ordering of structured operators against the same plain matrix
elements that `ChargeExecution` uses; one abstract write-once cache that both restriction facades refine. To be proved
next: `GradientMatchesTangent`, on the states of `RunInv`; then the lemmas about words and ranks for the mixed
axes of `ChargeSector`, then that measuring rows projects the state in `Stabilizer`.

**Not modelled**, with the reason:

* Batch scheduler: rows are independent calls of the engine, collected in order; the workers of the shadow sampler, which
  do share arrays and a limit, are the same question with state.
* SPPS: what is drawn and how samples are reallocated follow floating-point weights and running variances; no integer model
  of them says what the code would do.
* Grouping, mappings, GF(2), code validation, Z2 tapering, structured normal ordering, lattice Hamiltonians: pure passes
  over one input, with nothing shared, kept or interleaved.
* `SPPSCircuit` and public `GateTape`s that are appended to between engines: the builder is the one that is modelled.
* Integrations, JAX, PySCF, `circuit_ir.rs` parsing, PyO3 conversion: conversion of third-party objects.
* Everywhere: floating-point rounding, finiteness checks, overflow checks of sizes, formatting and logging.
