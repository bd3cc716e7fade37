------------------------ MODULE ShadowSampling_proofs ------------------------
(***************************************************************************)
(* A shadow sampling call, for any source, number of settings, repeats,    *)
(* limit and pool: how much scratch its workers hold, and that the place   *)
(* of a setting, its streams and its outcomes do not depend on the worker  *)
(* or the chunk that measured it.                                          *)
(***************************************************************************)
EXTENDS ShadowSampling, FiniteSetTheorems, TLAPS

LOCAL INSTANCE FiniteSetsExt

-----------------------------------------------------------------------------
(* Arithmetic                                                              *)

Greater(x, a, b) == x \in {a, b} /\ x >= a /\ x >= b
Lesser(x, a, b) == x \in {a, b} /\ x <= a /\ x <= b
LeastOf(x, a, b, c) == x \in {a, b, c} /\ x <= a /\ x <= b /\ x <= c

\* The least and the greatest of a few numbers.
LEMMA Extremes ==
  ASSUME NEW a \in Int, NEW b \in Int
  PROVE  Lesser(Min({a, b}), a, b) /\ Greater(Max({a, b}), a, b)
<1>1. \E x \in {a, b} : \A y \in {a, b} : x <= y
  OBVIOUS
<1>2. \E x \in {a, b} : \A y \in {a, b} : x >= y
  OBVIOUS
<1> QED
  BY <1>1, <1>2 DEF Min, Max, Lesser, Greater

\* The least of three.
LEMMA LeastOfThree ==
  ASSUME NEW a \in Int, NEW b \in Int, NEW c \in Int
  PROVE  LeastOf(Min({a, b, c}), a, b, c)
<1>1. \E x \in {a, b, c} : \A y \in {a, b, c} : x <= y
  OBVIOUS
<1> QED
  BY <1>1 DEF Min, LeastOf

\* Stretches of n numbers that begin at different multiples of n do not meet.
LEMMA Multiples ==
  ASSUME NEW a \in Int, NEW b \in Int, NEW n \in Nat, a < b
  PROVE  a * n + n <= b * n
<1>1. (b - a - 1) * n >= 0
  OBVIOUS
<1> QED
  BY <1>1

\* A number within one of two such stretches is not within the other.
LEMMA Places ==
  ASSUME NEW a \in Int, NEW b \in Int, NEW n \in Nat,
         NEW i \in 0 .. n - 1, NEW j \in 0 .. n - 1, a * n + i = b * n + j
  PROVE  a = b /\ i = j
<1>1. a * n \in Int /\ b * n \in Int
  OBVIOUS
<1>2. ~ (a < b)
  BY <1>1, Multiples
<1>3. ~ (b < a)
  BY <1>1, Multiples
<1> QED
  BY <1>1, <1>2, <1>3

IsPlace(i, size) == i \in 0 .. size - 1

\* And it is within as many stretches as there are.
LEMMA PlaceWithin ==
  ASSUME NEW a \in Int, NEW m \in Int, NEW n \in Nat, NEW i \in 0 .. n - 1, 0 <= a, a < m
  PROVE  IsPlace(a * n + i, m * n)
<1>1. a * n + n <= m * n /\ a * n \in Int /\ m * n \in Int
  BY Multiples
<1>2. a * n >= 0
  OBVIOUS
<1> QED
  BY <1>1, <1>2 DEF IsPlace

\* Powers of two count subsets.
LEMMA PowerNat ==
  ASSUME NEW n \in Nat
  PROVE  2 ^ n \in Nat
<1>1. IsFiniteSet(1 .. n) /\ Cardinality(1 .. n) = n
  BY FS_Interval
<1>2. IsFiniteSet(SUBSET (1 .. n)) /\ Cardinality(SUBSET (1 .. n)) = 2 ^ n
  BY <1>1, FS_SUBSET
<1> QED
  BY <1>2, FS_CardinalityType

-----------------------------------------------------------------------------
(* Sizes of a call                                                         *)

\* What is kept and what a worker needs are numbers of bytes.
LEMMA Sizes ==
  ASSUME call \in Calls, NEW n \in Nat
  PROVE  /\ RetainedBytes(n) \in Nat /\ WorkerBytes(n) \in Nat
         /\ Sampling.nsettings \in Nat /\ Sampling.repeats \in Nat /\ Sampling.limit \in Nat
         /\ Sampling.protocol \in {"pauli", "clifford"}
<1>1. /\ Sampling.nsettings \in Nat /\ Sampling.repeats \in Nat /\ Sampling.limit \in Nat
      /\ Sampling.protocol \in {"pauli", "clifford"}
  BY ShadowAssumption DEF Sampling
<1>2. PackedWordCount(n) \in Nat
  BY DEF PackedWordCount
<1>3. Sampling.nsettings * n \in Nat /\ Sampling.nsettings * Sampling.repeats * n \in Nat
  <2>1. Sampling.nsettings * Sampling.repeats \in Nat
    BY <1>1
  <2> QED
    BY <1>1, <2>1
<1>4. 2 * 8 * Sampling.nsettings * n * PackedWordCount(n) \in Nat
  <2>1. 2 * 8 * Sampling.nsettings \in Nat
    BY <1>1
  <2>2. 2 * 8 * Sampling.nsettings * n \in Nat
    BY <2>1
  <2> QED
    BY <1>2, <2>2
<1>5. 16 * n * PackedWordCount(n) \in Nat
  BY <1>2
<1>6. 2 ^ n * 32 \in Nat /\ 2 ^ n * (16 + 8) \in Nat
  BY PowerNat
<1>7. RetainedBytes(n) \in Nat
  BY <1>3, <1>4 DEF RetainedBytes, Outcomes
<1>8. WorkerBytes(n) \in Nat
  BY <1>5, <1>6 DEF WorkerBytes
<1> QED
  BY <1>1, <1>7, <1>8

\* As many workers as a limit pays for, fit it.
LEMMA Paid ==
  ASSUME NEW retained \in Nat, NEW bytes \in Nat, NEW limit \in Nat,
         NEW left, left = Max({0, limit - retained}),
         NEW count \in Nat, count > 1, count <= Max({1, left \div Max({1, bytes})})
  PROVE  retained + bytes * count <= limit
<1> DEFINE m == Max({1, bytes})
           d == left \div m
<1>1. m \in Nat \ {0} /\ bytes <= m
  <2>1. Greater(m, 1, bytes)
    BY Extremes
  <2> HIDE DEF m
  <2> QED
    BY <2>1 DEF Greater
<1>2. left \in Nat /\ left \in {0, limit - retained}
  <2> DEFINE x == limit - retained
  <2>1. x \in Int /\ left = Max({0, x})
    OBVIOUS
  <2> HIDE DEF x
  <2>2. Greater(left, 0, x)
    BY <2>1, Extremes
  <2> QED
    BY <2>1, <2>2 DEF x, Greater
<1>3. d \in Nat /\ d * m <= left
  <2> HIDE DEF m
  <2> QED
    BY <1>1, <1>2
<1>4. Max({1, d}) \in {1, d}
  <2> HIDE DEF d
  <2>1. Greater(Max({1, d}), 1, d)
    BY <1>3, Extremes
  <2> QED
    BY <2>1 DEF Greater
<1>5. count <= d
  <2> HIDE DEF d
  <2>1. count <= Max({1, d})
    BY DEF d
  <2> QED
    BY <1>4, <2>1
<1> HIDE DEF d, m
<1>6. bytes * count <= m * count /\ m * count <= d * m
  <2>1. (m - bytes) * count >= 0 /\ (d - count) * m >= 0
    BY <1>1, <1>3, <1>5
  <2> QED
    BY <1>1, <1>3, <2>1
<1>7. bytes * count \in Nat /\ d * m \in Nat /\ m * count \in Nat /\ d * m >= d
  <2>1. d * (m - 1) >= 0
    BY <1>1, <1>3
  <2> QED
    BY <1>1, <1>3, <2>1
<1>8. left > 0
  BY <1>2, <1>3, <1>5, <1>7
<1> QED
  BY <1>2, <1>3, <1>6, <1>7, <1>8

\* How many workers sample, and that more than one are paid for.
LEMMA Workers ==
  ASSUME call \in Calls, NEW n \in Nat, Sampling.nsettings >= 1
  PROVE  /\ WorkerCount(n) \in Nat /\ WorkerCount(n) >= 1
         /\ WorkerCount(n) <= Threads /\ WorkerCount(n) <= Sampling.nsettings
         /\ WorkerCount(n) > 1 =>
              RetainedBytes(n) + WorkerBytes(n) * WorkerCount(n) <= Sampling.limit
<1> DEFINE left == Max({0, Sampling.limit - RetainedBytes(n)})
           m == Max({1, WorkerBytes(n)})
           most == Max({1, left \div m})
           count == Min({Threads, Sampling.nsettings, most})
<1>1. /\ RetainedBytes(n) \in Nat /\ WorkerBytes(n) \in Nat
      /\ Sampling.nsettings \in Nat /\ Sampling.limit \in Nat /\ Threads \in Nat \ {0}
  BY Sizes, ShadowAssumption
<1>2. left \in Nat /\ m \in Nat \ {0}
  <2> DEFINE x == Sampling.limit - RetainedBytes(n)
             bytes == WorkerBytes(n)
  <2>1. x \in Int /\ bytes \in Nat /\ left = Max({0, x}) /\ m = Max({1, bytes})
    BY <1>1
  <2> HIDE DEF x, bytes, left, m
  <2>2. Greater(left, 0, x) /\ Greater(m, 1, bytes)
    BY <2>1, Extremes
  <2> QED
    BY <2>1, <2>2 DEF Greater
<1>3. most \in Nat /\ most >= 1
  <2> DEFINE d == left \div m
  <2>1. d \in Nat
    <3> HIDE DEF left, m
    <3> QED
      BY <1>2
  <2> HIDE DEF d
  <2>2. Greater(Max({1, d}), 1, d)
    BY <2>1, Extremes
  <2> QED
    BY <2>1, <2>2 DEF Greater, d
<1>4. /\ count \in Nat /\ count >= 1
      /\ count <= Threads /\ count <= Sampling.nsettings /\ count <= most
  <2> DEFINE settings == Sampling.nsettings
  <2> HIDE DEF most, settings
  <2>1. settings \in Nat /\ settings >= 1
    BY <1>1 DEF settings
  <2>2. LeastOf(Min({Threads, settings, most}), Threads, settings, most)
    BY <1>1, <1>3, <2>1, LeastOfThree
  <2>3. count = Min({Threads, settings, most})
    BY DEF settings
  <2> HIDE DEF count
  <2> QED
    BY <1>1, <1>3, <2>1, <2>2, <2>3 DEF LeastOf, settings
<1>5. count > 1 => RetainedBytes(n) + WorkerBytes(n) * count <= Sampling.limit
  <2> HIDE DEF count
  <2>1. count <= Max({1, left \div Max({1, WorkerBytes(n)})})
    BY <1>4
  <2> HIDE DEF left
  <2>2. left = Max({0, Sampling.limit - RetainedBytes(n)})
    BY DEF left
  <2> QED
    BY <1>1, <1>4, <2>1, <2>2, Paid
<1>6. WorkerCount(n) \in {1, count}
  BY DEF WorkerCount, BoundedWorkers
<1> HIDE DEF count
<1> QED
  BY <1>1, <1>4, <1>5, <1>6

\* A chunk has at least one setting.
LEMMA ChunkSize ==
  ASSUME call \in Calls, NEW n \in Nat, Sampling.nsettings >= 1
  PROVE  ChunkSettings(n) \in Nat \ {0}
<1> DEFINE a == Sampling.nsettings
           b == WorkerCount(n)
<1>1. a \in Nat /\ b \in Nat /\ b >= 1 /\ a >= 1
  BY Sizes, Workers
<1> HIDE DEF a, b
<1>2. (a + b - 1) \div b \in Nat
  BY <1>1
<1>3. (a + b - 1) \div b >= 1
  <2> DEFINE q == (a + b - 1) \div b
  <2>1. q \in Nat /\ a + b - 1 < q * b + b
    BY <1>1
  <2> HIDE DEF q
  <2>2. q # 0
    BY <1>1, <2>1
  <2> QED
    BY <2>1, <2>2 DEF q
<1> QED
  BY <1>2, <1>3 DEF ChunkSettings, a, b

-----------------------------------------------------------------------------
(* The inductive invariant                                                 *)

HasState == phase \in {"build", "ready", "sampling"}
WorkerStates == [chunk : Int, local : Int, repeat : Int]

CallInv ==
  /\ call \in Calls
  /\ worker \in [1 .. Threads -> WorkerStates]
  /\ HasState => state # <<>> /\ "n" \in DOMAIN state /\ state.n \in Nat
  /\ phase = "new" => state = <<>>
  /\ phase # "sampling" => \A w \in 1 .. Threads : worker[w] = Idle

\* What was checked and decided when the sampling began.
Planned(n) ==
  /\ Sampling.nsettings >= 1 /\ Sampling.repeats >= 1
  /\ Requested(n) <= Sampling.limit
  /\ plan.workers = WorkerCount(n) /\ plan.per = ChunkSettings(n)
  /\ snapshots = Recorded(n, snapshots.rows, snapshots.outcomes)
  /\ \A w \in 1 .. Threads : worker[w] # Idle => w <= plan.workers
PlanInv == phase = "sampling" => Planned(state.n)

Refused ==
  (phase = "failed" /\ state # <<>> /\ answer.error = "MemoryLimit") =>
    RetainedBytes(state.n) + (IF IsDense THEN WorkerBytes(state.n) ELSE 0) > Sampling.limit

\* A setting is at its place in its chunk.
Within(s, c) == plan.per * c <= s /\ s < plan.per * c + plan.per

\* The repeats of a setting that are still to be measured; repeat -1 are its rows.
Ahead(w, s, r) ==
  /\ worker[w] # Idle /\ Within(s, worker[w].chunk)
  /\ \/ worker[w].local < s - plan.per * worker[w].chunk
     \/ worker[w].local = s - plan.per * worker[w].chunk /\ worker[w].repeat <= r
Pending(s, r) ==
  \/ \E c \in open : Within(s, c)
  \/ \E w \in 1 .. Threads : Ahead(w, s, r)

RowAt(s, k) == snapshots.rows[s * state.n + k - 1]
OutcomeAt(s, r, k) == snapshots.outcomes[(s * Sampling.repeats + r) * state.n + k - 1]
OwnRows(s) == [k \in 1 .. state.n |-> DrawnRows(state.n, s)[k]]
Own(s, r) == Measurement(state.n, s, r, OwnRows(s))

Settings == 0 .. Sampling.nsettings - 1
Repeats == 0 .. Sampling.repeats - 1

\* A worker's place is in its chunk, which nobody else can take.
Sound(place, free) ==
  /\ place.chunk \in Nat /\ place.local \in Nat
  /\ place.local < plan.per
  /\ plan.per * place.chunk + place.local < Sampling.nsettings
  /\ place.repeat \in -1 .. Sampling.repeats - 1
  /\ place.chunk \notin free

\* Every chunk begins with a setting, and is open or with one worker.
ChunkInv ==
  /\ \A c \in open : c \in Nat /\ plan.per * c < Sampling.nsettings
  /\ \A w \in 1 .. Threads : worker[w] # Idle => Sound(worker[w], open)
  /\ \A v, w \in 1 .. Threads :
       v # w /\ worker[v] # Idle /\ worker[w] # Idle => worker[v].chunk # worker[w].chunk

\* What is no longer ahead of any worker is recorded, each at its own place.
RecordInv ==
  /\ DOMAIN snapshots.rows = 0 .. Sampling.nsettings * state.n - 1
  /\ DOMAIN snapshots.outcomes = 0 .. Outcomes(state.n) - 1
  /\ \A s \in Settings, k \in 1 .. state.n :
       ~ Pending(s, -1) => RowAt(s, k) = DrawnRows(state.n, s)[k]
  /\ \A s \in Settings, r \in Repeats, k \in 1 .. state.n :
       ~ Pending(s, r) => ~ IsFailed(Own(s, r)) /\ OutcomeAt(s, r, k) = Own(s, r).bits[k]

MeasureInv == phase = "sampling" => ChunkInv /\ RecordInv

\* Whatever the workers, the chunks and their order: every setting has the rows of its
\* own stream, and every repeat what measuring the source in those rows gives with the
\* repeat's own stream, at the place an import reads them from.
SettingsAreTheirOwn ==
  phase \in {"sampled", "answered"} /\ Source.kind # "measured" =>
    \A s \in Settings, k \in 1 .. state.n :
      /\ RowsAt(snapshots, s)[k] = DrawnRows(state.n, s)[k]
      /\ \A r \in Repeats :
           LET own == Measurement(state.n, s, r, RowsAt(snapshots, s)) IN
           ~ IsFailed(own) /\ BitsAt(snapshots, s, r)[k] = own.bits[k]

PublishedInv ==
  /\ phase \in {"sampled", "answered"} /\ Source.kind # "measured" =>
       /\ state.n \in Nat
       /\ snapshots = Recorded(state.n, snapshots.rows, snapshots.outcomes)
       /\ \A s \in Settings, k \in 1 .. state.n :
            /\ RowAt(s, k) = DrawnRows(state.n, s)[k]
            /\ \A r \in Repeats : ~ IsFailed(Own(s, r)) /\ OutcomeAt(s, r, k) = Own(s, r).bits[k]

IInv == CallInv /\ PlanInv /\ Refused /\ MeasureInv /\ PublishedInv

-----------------------------------------------------------------------------
(* What a step leaves alone                                                *)

SizesKept ==
  /\ Sampling' = Sampling /\ Source' = Source /\ IsDense' = IsDense
  /\ RetainedBytes(state.n)' = RetainedBytes(state.n)
  /\ WorkerBytes(state.n)' = WorkerBytes(state.n)
  /\ WorkerCount(state.n)' = WorkerCount(state.n)
  /\ Requested(state.n)' = Requested(state.n)
  /\ ChunkSettings(state.n)' = ChunkSettings(state.n)
  /\ Outcomes(state.n)' = Outcomes(state.n)

\* Sizes depend on the call and the state only.
LEMMA Fixed ==
  ASSUME call' = call, state' = state
  PROVE  SizesKept
<1>1. Sampling' = Sampling /\ Source' = Source
  BY DEF Sampling, Source
<1>2. IsDense' = IsDense
  BY <1>1 DEF IsDense
<1>3. Outcomes(state.n)' = Outcomes(state.n)
  BY <1>1 DEF Outcomes
<1>4. RetainedBytes(state.n)' = RetainedBytes(state.n)
  BY <1>1, <1>3 DEF RetainedBytes
<1>5. WorkerBytes(state.n)' = WorkerBytes(state.n)
  BY <1>1, <1>2 DEF WorkerBytes
<1>6. BoundedWorkers(state.n)' = BoundedWorkers(state.n)
  BY <1>1, <1>4, <1>5 DEF BoundedWorkers
<1>7. MayShare(state.n)' = MayShare(state.n)
  BY <1>1, <1>2, <1>3 DEF MayShare
<1>8. WorkerCount(state.n)' = WorkerCount(state.n)
  BY <1>6, <1>7 DEF WorkerCount
<1>9. Requested(state.n)' = Requested(state.n)
  BY <1>2, <1>4, <1>5, <1>8 DEF Requested
<1>10. ChunkSettings(state.n)' = ChunkSettings(state.n)
  BY <1>1, <1>2, <1>8 DEF ChunkSettings
<1> QED
  BY <1>1, <1>2, <1>3, <1>4, <1>5, <1>8, <1>9, <1>10 DEF SizesKept

\* So do the rows and outcomes that belong to a setting.
LEMMA OwnFixed ==
  ASSUME call' = call, state' = state
  PROVE  /\ \A s : DrawnRows(state.n, s)' = DrawnRows(state.n, s)
         /\ \A s : OwnRows(s)' = OwnRows(s)
         /\ \A s, r : Own(s, r)' = Own(s, r)
         /\ Settings' = Settings /\ Repeats' = Repeats
<1>1. Sampling' = Sampling /\ IsDense' = IsDense
  BY Fixed DEF SizesKept
<1>2. ASSUME NEW s PROVE DrawnRows(state.n, s)' = DrawnRows(state.n, s)
  BY <1>1 DEF DrawnRows
<1>3. ASSUME NEW s PROVE OwnRows(s)' = OwnRows(s)
  BY <1>2 DEF OwnRows
<1>4. ASSUME NEW s, NEW r PROVE Own(s, r)' = Own(s, r)
  <2> DEFINE rows == OwnRows(s)
  <2>1. rows' = rows
    BY <1>3
  <2>2. Observables(state.n, rows)' = Observables(state.n, rows)
    BY <1>1, <2>1 DEF Observables
  <2>3. Measurement(state.n, s, r, rows)' = Measurement(state.n, s, r, rows)
    BY <1>1, <2>1, <2>2 DEF Measurement
  <2> QED
    BY <2>3 DEF Own
<1>5. Settings' = Settings /\ Repeats' = Repeats
  BY <1>1 DEF Settings, Repeats
<1> QED
  BY <1>2, <1>3, <1>4, <1>5

-----------------------------------------------------------------------------
(* The initial state, and steps that do not sample                         *)

\* Before a source is made there is nothing to say of the sampling.
LEMMA Initially == Init => IInv
<1> SUFFICES ASSUME Init PROVE IInv
  OBVIOUS
<1>1. phase = "new" /\ call \in Calls /\ state = <<>>
  BY DEF Init
<1>2. worker = [w \in 1 .. Threads |-> Idle] /\ Idle \in WorkerStates
  BY DEF Init, Idle, WorkerStates
<1>3. CallInv
  BY <1>1, <1>2 DEF CallInv, HasState
<1> QED
  BY <1>1, <1>3 DEF IInv, PlanInv, Refused, MeasureInv, PublishedInv

\* A step that only makes or refuses a source.
Sourcing == BeginTape \/ ApplyGate \/ ReadTableau \/ ReadVector \/ ImportMeasurements

\* A source ends with a state of some width, an import or a refusal not for the limit.
LEMMA SourcingStep == IInv /\ Sourcing => IInv'
<1> SUFFICES ASSUME IInv, Sourcing PROVE IInv'
  OBVIOUS
<1>1. CallInv /\ phase \in {"new", "build"}
  BY DEF IInv, Sourcing, BeginTape, ApplyGate, ReadTableau, ReadVector, ImportMeasurements
<1>2. UNCHANGED <<call, worker>>
  BY DEF Sourcing, BeginTape, ApplyGate, ReadTableau, ReadVector, ImportMeasurements
<1>3. Source' = Source /\ Sampling' = Sampling /\ IsDense' = IsDense
  BY <1>2 DEF Source, Sampling, IsDense
<1>4. Source.kind \in {"tableau", "vector"} => Source.n \in Nat
  BY <1>1, ShadowAssumption DEF CallInv, Source
<1>5. phase' \in {"build", "ready"} =>
        state' # <<>> /\ "n" \in DOMAIN state' /\ state'.n \in Nat
  <2>1. CASE BeginTape
    <3>1. phase' \in {"build", "ready"} =>
            state' = [n |-> NQubits, tableau |-> ZeroState(NQubits)]
      BY <2>1 DEF BeginTape, Fail
    <3> QED
      BY <3>1, ShadowAssumption
  <2>2. CASE ApplyGate
    <3>1. state # <<>> /\ "n" \in DOMAIN state /\ state.n \in Nat
      BY <1>1, <2>2 DEF ApplyGate, CallInv, HasState
    <3>2. phase' \in {"build", "ready"} =>
            \E t : state' = [state EXCEPT !.tableau = t]
      BY <2>2 DEF ApplyGate, Fail
    <3> QED
      BY <3>1, <3>2
  <2>3. CASE ReadTableau
    <3>1. Source.kind = "tableau" /\ (phase' \in {"build", "ready"} =>
            state' = [n |-> Source.n, tableau |-> FromTableau(Source.n, Source.generators).generators])
      BY <2>3 DEF ReadTableau, Fail
    <3> QED
      BY <1>4, <3>1
  <2>4. CASE ReadVector
    <3>1. Source.kind = "vector" /\ (phase' \in {"build", "ready"} =>
            state' = [n |-> Source.n, vector |-> Source.amplitudes])
      BY <2>4 DEF ReadVector, Fail
    <3> QED
      BY <1>4, <3>1
  <2>5. CASE ImportMeasurements
    BY <2>5 DEF ImportMeasurements, Fail
  <2> QED
    BY <2>1, <2>2, <2>3, <2>4, <2>5 DEF Sourcing
<1>6. phase' \in {"build", "ready", "failed", "sampled"}
  BY DEF Sourcing, BeginTape, ApplyGate, ReadTableau, ReadVector, ImportMeasurements, Fail
<1>7. phase' = "sampled" => Source.kind = "measured"
  BY DEF Sourcing, BeginTape, ApplyGate, ReadTableau, ReadVector, ImportMeasurements, Fail
<1>8. phase' = "failed" => state' = <<>> \/ answer'.error # "MemoryLimit"
  <2>1. CASE ApplyGate
    BY <2>1 DEF ApplyGate, Fail, Failed
  <2>2. CASE ~ ApplyGate
    <3>1. phase = "new" /\ (phase' = "failed" => state' = state)
      BY <2>2 DEF Sourcing, BeginTape, ReadTableau, ReadVector, ImportMeasurements, Fail
    <3> QED
      BY <1>1, <3>1 DEF CallInv
  <2> QED
    BY <2>1, <2>2
<1>9. CallInv'
  BY <1>1, <1>2, <1>5, <1>6 DEF CallInv, HasState
<1> QED
  BY <1>3, <1>6, <1>7, <1>8, <1>9 DEF IInv, PlanInv, Refused, MeasureInv, PublishedInv

-----------------------------------------------------------------------------
(* The sampling begins                                                     *)

\* A call is refused only when one worker is already too much.
LEMMA RefusedAlone ==
  ASSUME call \in Calls, NEW n \in Nat, Sampling.nsettings >= 1,
         Requested(n) > Sampling.limit
  PROVE  RetainedBytes(n) + (IF IsDense THEN WorkerBytes(n) ELSE 0) > Sampling.limit
<1> DEFINE retained == RetainedBytes(n)
           bytes == WorkerBytes(n)
           count == WorkerCount(n)
           limit == Sampling.limit
<1>1. retained \in Nat /\ bytes \in Nat /\ limit \in Nat
  BY Sizes
<1>2. count \in Nat /\ count >= 1 /\ (count > 1 => retained + bytes * count <= limit)
  BY Workers
<1>3. retained + (IF IsDense THEN bytes * count ELSE 0) > limit
  BY DEF Requested
<1> HIDE DEF retained, bytes, count, limit
<1>4. retained + (IF IsDense THEN bytes ELSE 0) > limit
  <2>1. CASE count = 1
    BY <1>1, <1>3, <2>1
  <2>2. CASE count > 1
    <3>1. bytes * count \in Nat
      BY <1>1, <1>2
    <3> QED
      BY <1>1, <1>2, <1>3, <2>2, <3>1
  <2> QED
    BY <1>2, <2>1, <2>2
<1> QED
  BY <1>4 DEF retained, bytes, limit

\* Every setting is in a chunk that begins within the settings.
LEMMA ChunksCover ==
  ASSUME NEW settings \in Nat, NEW per \in Nat \ {0}
  PROVE  /\ \A c \in 0 .. (settings + per - 1) \div per - 1 : c \in Nat /\ per * c < settings
         /\ \A s \in 0 .. settings - 1 :
              \E c \in 0 .. (settings + per - 1) \div per - 1 :
                per * c <= s /\ s < per * c + per
<1> DEFINE q == (settings + per - 1) \div per
<1>1. q \in Nat /\ q * per <= settings + per - 1 /\ settings + per - 1 < q * per + per
  BY DEF q
<1> HIDE DEF q
<1>2. ASSUME NEW c \in 0 .. q - 1 PROVE c \in Nat /\ per * c < settings
  <2>1. c * per + per <= q * per
    BY <1>1, Multiples
  <2>2. c * per = per * c /\ per * c \in Nat /\ q * per \in Nat
    BY <1>1
  <2> QED
    BY <1>1, <2>1, <2>2
<1>3. ASSUME NEW s \in 0 .. settings - 1
      PROVE  \E c \in 0 .. q - 1 : per * c <= s /\ s < per * c + per
  <2> DEFINE c == s \div per
  <2>1. c \in Nat /\ c * per <= s /\ s < c * per + per
    BY DEF c
  <2> HIDE DEF c
  <2>2. c * per = per * c /\ per * c \in Nat /\ q * per \in Nat
    BY <1>1, <2>1
  <2>3. c < q
    <3>1. SUFFICES ASSUME q <= c PROVE FALSE
      BY <1>1, <2>1
    <3>2. (c - q) * per >= 0
      BY <1>1, <2>1, <3>1
    <3>3. q * per <= c * per
      BY <1>1, <2>1, <3>2
    <3> QED
      BY <1>1, <2>1, <2>2, <3>3
  <2>4. c \in 0 .. q - 1 /\ per * c <= s /\ s < per * c + per
    BY <1>1, <2>1, <2>2, <2>3
  <2> QED
    BY <2>4, Zenon
<1> QED
  BY <1>2, <1>3 DEF q

\* The sampling begins with every setting in an open chunk, hence nothing recorded yet.
LEMMA StartStep == IInv /\ StartSampling => IInv'
<1> SUFFICES ASSUME IInv, StartSampling PROVE IInv'
  OBVIOUS
<1> DEFINE n == state.n
           N == Sampling.nsettings
           R == Sampling.repeats
<1>1. CallInv /\ phase = "ready" /\ UNCHANGED <<call, state, worker>>
  BY DEF IInv, StartSampling
<1>2. SizesKept
  BY <1>1, Fixed
<1>3. n \in Nat /\ call \in Calls /\ N \in Nat /\ R \in Nat
  BY <1>1, Sizes DEF CallInv, HasState
<1>4. \A w \in 1 .. Threads : worker[w] = Idle
  BY <1>1 DEF CallInv
<1>5. phase' \in {"failed", "sampling"}
  BY DEF StartSampling, Fail
<1>6. CallInv'
  BY <1>1, <1>4, <1>5 DEF CallInv, HasState
<1>7. Refused'
  <2>1. phase' = "failed" /\ answer'.error = "MemoryLimit" => N >= 1 /\ Requested(n) > Sampling.limit
    BY <1>3 DEF StartSampling, Fail, Failed
  <2>2. phase' = "failed" /\ answer'.error = "MemoryLimit" =>
          RetainedBytes(n) + (IF IsDense THEN WorkerBytes(n) ELSE 0) > Sampling.limit
    BY <1>3, <2>1, RefusedAlone
  <2> QED
    BY <1>2, <2>2 DEF Refused, SizesKept
<1>8. CASE phase' = "failed"
  BY <1>6, <1>7, <1>8 DEF IInv, PlanInv, MeasureInv, PublishedInv
<1>9. CASE phase' = "sampling"
  <2> DEFINE per == ChunkSettings(n)
  <2>1. /\ N # 0 /\ R # 0 /\ ~ (Requested(n) > Sampling.limit)
        /\ plan' = [workers |-> WorkerCount(n), per |-> per]
        /\ open' = IF n = 0 THEN {} ELSE 0 .. (N + per - 1) \div per - 1
        /\ snapshots' = Recorded(n, [k \in 0 .. N * n - 1 |-> BlankRow],
                                    [k \in 0 .. Outcomes(n) - 1 |-> 0])
    BY <1>9 DEF StartSampling, Fail
  <2>2. N >= 1 /\ R >= 1
    BY <1>3, <2>1
  <2>3. Requested(n) <= Sampling.limit
    <3>1. Requested(n) \in Int /\ Sampling.limit \in Nat
      <4>1. /\ RetainedBytes(n) \in Nat /\ WorkerBytes(n) \in Nat /\ WorkerCount(n) \in Nat
            /\ Sampling.limit \in Nat
        BY <1>3, <2>2, Sizes, Workers
      <4>2. WorkerBytes(n) * WorkerCount(n) \in Nat
        BY <4>1
      <4> QED
        BY <4>1, <4>2 DEF Requested
    <3> QED
      BY <2>1, <3>1
  <2>4. snapshots'.rows = [k \in 0 .. N * n - 1 |-> BlankRow]
        /\ snapshots'.outcomes = [k \in 0 .. Outcomes(n) - 1 |-> 0]
    BY <2>1 DEF Recorded
  <2>5. Planned(state.n)'
    <3>1. snapshots' = Recorded(n, snapshots'.rows, snapshots'.outcomes)
      BY <2>1, <2>4 DEF Recorded
    <3>2. Recorded(n, snapshots.rows, snapshots.outcomes)'
            = Recorded(n, snapshots'.rows, snapshots'.outcomes)
      BY <1>1, <1>2 DEF Recorded, SizesKept
    <3> QED
      BY <1>1, <1>2, <1>4, <2>1, <2>2, <2>3, <3>1, <3>2 DEF Planned, SizesKept
  <2>6. per \in Nat \ {0}
    BY <1>3, <2>2, ChunkSize
  <2>7. ChunkInv'
    <3>1. \A c \in open' : c \in Nat /\ per * c < N
      <4> HIDE DEF per, N
      <4> QED
        BY <1>3, <2>1, <2>6, ChunksCover
    <3> QED
      BY <1>1, <1>2, <1>4, <2>1, <3>1 DEF ChunkInv, SizesKept
  <2>8. ASSUME NEW s \in Settings, NEW r, n # 0 PROVE Pending(s, r)'
    <3>1. s \in 0 .. N - 1
      BY DEF Settings
    <3>2. \E c \in open' : per * c <= s /\ s < per * c + per
      <4> HIDE DEF per, N
      <4> QED
        BY <1>3, <2>1, <2>6, <2>8, <3>1, ChunksCover
    <3>3. plan'.per = per
      BY <2>1
    <3> HIDE DEF per
    <3> QED
      BY <3>2, <3>3 DEF Pending, Within
  <2>9. RecordInv'
    <3>1. Settings' = Settings /\ Repeats' = Repeats
      BY <1>1, OwnFixed
    <3>2. DOMAIN snapshots'.rows = 0 .. N * n - 1 /\ DOMAIN snapshots'.outcomes = 0 .. Outcomes(n) - 1
      BY <2>4
    <3>3. state' = state /\ Sampling' = Sampling /\ Outcomes(state.n)' = Outcomes(state.n)
      BY <1>1, <1>2 DEF SizesKept
    <3>4. \A s \in Settings' : \A r : \A k \in 1 .. state'.n : Pending(s, r)'
      <4>1. ASSUME NEW s \in Settings', NEW r, NEW k \in 1 .. state'.n PROVE Pending(s, r)'
        <5>1. s \in Settings /\ n # 0
          BY <1>3, <3>1, <3>3
        <5> QED
          BY <2>8, <5>1
      <4> QED
        BY <4>1
    <3> QED
      BY <3>2, <3>3, <3>4 DEF RecordInv
  <2> QED
    BY <1>6, <1>7, <1>9, <2>5, <2>7, <2>9 DEF IInv, PlanInv, MeasureInv, PublishedInv
<1> QED
  BY <1>5, <1>8, <1>9

-----------------------------------------------------------------------------
(* The steps of a worker                                                   *)

\* A setting is in one chunk.
LEMMA OneChunk ==
  ASSUME plan.per \in Nat, NEW s \in Int, NEW c \in Nat, NEW d \in Nat,
         Within(s, c), Within(s, d)
  PROVE  c = d
<1> DEFINE per == plan.per
<1>1. /\ c * per <= s /\ s < c * per + per /\ d * per <= s /\ s < d * per + per
      /\ c * per \in Nat /\ d * per \in Nat
  <2>1. c * per = per * c /\ d * per = per * d
    OBVIOUS
  <2> QED
    BY <2>1 DEF Within
<1> HIDE DEF per
<1>2. per \in Nat
  BY DEF per
<1>3. ~ (c < d)
  BY <1>1, <1>2, Multiples
<1>4. ~ (d < c)
  BY <1>1, <1>2, Multiples
<1> QED
  BY <1>3, <1>4

Here(w) == plan.per * worker[w].chunk + worker[w].local

\* What every sampling step starts from.
Sampler ==
  /\ IInv /\ phase = "sampling" /\ phase' = "sampling"
  /\ UNCHANGED <<call, state, plan>>

\* What the invariant gives to such a step.
LEMMA SamplerFacts ==
  ASSUME Sampler
  PROVE  /\ call \in Calls /\ state.n \in Nat /\ state # <<>> /\ "n" \in DOMAIN state
         /\ Sampling.nsettings \in Nat /\ Sampling.repeats \in Nat
         /\ worker \in [1 .. Threads -> WorkerStates]
         /\ plan.per \in Nat \ {0}
         /\ Planned(state.n) /\ ChunkInv /\ RecordInv /\ SizesKept
<1>1. call \in Calls /\ state.n \in Nat /\ worker \in [1 .. Threads -> WorkerStates]
      /\ state # <<>> /\ "n" \in DOMAIN state
  BY DEF Sampler, IInv, CallInv, HasState
<1>2. Planned(state.n) /\ ChunkInv /\ RecordInv
  BY DEF Sampler, IInv, PlanInv, MeasureInv
<1>3. plan.per \in Nat \ {0}
  BY <1>1, <1>2, ChunkSize DEF Planned
<1>4. SizesKept
  BY Fixed DEF Sampler
<1> QED
  BY <1>1, <1>2, <1>3, <1>4, Sizes

\* A sampling step keeps what it does not say.
LEMMA SamplerKeeps ==
  ASSUME Sampler, worker' \in [1 .. Threads -> WorkerStates],
         \A w \in 1 .. Threads : worker'[w] # Idle => w <= plan.workers,
         snapshots' = Recorded(state.n, snapshots'.rows, snapshots'.outcomes),
         ChunkInv', RecordInv'
  PROVE  IInv'
<1>1. SizesKept /\ Planned(state.n)
  BY SamplerFacts
<1>2. state' = state /\ plan' = plan /\ call' = call /\ phase' = "sampling"
  BY DEF Sampler
<1>3. Recorded(state.n, snapshots.rows, snapshots.outcomes)'
        = Recorded(state.n, snapshots'.rows, snapshots'.outcomes)
  BY <1>1, <1>2 DEF Recorded, SizesKept
<1>4. Planned(state.n)'
  BY <1>1, <1>2, <1>3 DEF Planned, SizesKept
<1>5. CallInv'
  BY <1>2, SamplerFacts DEF CallInv, HasState
<1> QED
  BY <1>2, <1>4, <1>5 DEF IInv, PlanInv, Refused, MeasureInv, PublishedInv

\* A worker starts a chunk: the settings pending in the open chunk are ahead of it.
LEMMA TakeStep ==
  ASSUME IInv, NEW w \in 1 .. Threads, TakeChunk(w)
  PROVE  IInv'
<1>1. Sampler
  BY DEF TakeChunk, Sampler
<1>2. SizesKept /\ ChunkInv /\ RecordInv /\ Planned(state.n)
      /\ worker \in [1 .. Threads -> WorkerStates] /\ plan.per \in Nat \ {0}
      /\ Sampling.repeats \in Nat
  BY <1>1, SamplerFacts
<1>3. PICK c \in open :
        /\ open' = open \ {c}
        /\ worker' = [worker EXCEPT ![w] = [Idle EXCEPT !.chunk = c]]
  BY DEF TakeChunk
<1>4. worker[w] = Idle /\ w <= plan.workers /\ snapshots' = snapshots
      /\ plan' = plan /\ state' = state /\ call' = call
  BY DEF TakeChunk
<1> DEFINE new == [chunk |-> c, local |-> 0, repeat |-> -1]
<1>5. c \in Nat /\ plan.per * c < Sampling.nsettings
  BY <1>2 DEF ChunkInv
<1>6. new \in WorkerStates /\ new # Idle
  <2>1. new.chunk # Idle.chunk
    BY <1>5 DEF Idle
  <2> QED
    BY <1>5, <2>1 DEF WorkerStates
<1>7. worker' = [worker EXCEPT ![w] = new]
  <2>1. [Idle EXCEPT !.chunk = c] = new
    BY DEF Idle
  <2> QED
    BY <1>3, <2>1
<1>8. new.chunk = c /\ new.local = 0 /\ new.repeat = -1
  OBVIOUS
<1> HIDE DEF new
<1>9. /\ worker' \in [1 .. Threads -> WorkerStates] /\ worker'[w] = new
      /\ \A v \in 1 .. Threads : v # w => worker'[v] = worker[v]
  BY <1>2, <1>6, <1>7
<1>10. ChunkInv'
  <2>1. \A d \in open' : d \in Nat /\ plan'.per * d < Sampling'.nsettings
    BY <1>2, <1>3, <1>4 DEF ChunkInv, SizesKept
  <2>2. ASSUME NEW v \in 1 .. Threads, worker'[v] # Idle
        PROVE  Sound(worker'[v], open')
    <3>1. CASE v = w
      <4>1. plan.per * c \in Nat /\ plan.per * c + 0 = plan.per * c
        BY <1>2, <1>5
      <4>2. -1 \in -1 .. Sampling.repeats - 1
        BY <1>2
      <4>3. Sound(new, open')
        BY <1>2, <1>3, <1>5, <1>8, <4>1, <4>2 DEF Sound
      <4> QED
        BY <1>9, <3>1, <4>3
    <3>2. CASE v # w
      <4>1. worker'[v] = worker[v] /\ worker[v] # Idle
        BY <1>9, <2>2, <3>2
      <4>2. Sound(worker[v], open)
        BY <1>2, <4>1 DEF ChunkInv
      <4>3. open' \subseteq open
        BY <1>3
      <4>4. Sound(worker[v], open')
        BY <4>2, <4>3, Zenon DEF Sound
      <4> QED
        BY <4>1, <4>4
    <3> QED
      BY <3>1, <3>2
  <2>3. ASSUME NEW u \in 1 .. Threads, NEW v \in 1 .. Threads, u # v,
               worker'[u] # Idle, worker'[v] # Idle
        PROVE  worker'[u].chunk # worker'[v].chunk
    BY <1>2, <1>3, <1>8, <1>9, <2>3 DEF ChunkInv, Sound
  <2>4. \A a, o : Sound(a, o)' = Sound(a, o)
    BY <1>2, <1>4 DEF Sound, SizesKept
  <2> QED
    BY <2>1, <2>2, <2>3, <2>4 DEF ChunkInv
<1>11. ASSUME NEW s \in Int, NEW r \in Int, r >= -1, Pending(s, r) PROVE Pending(s, r)'
  <2>1. CASE \E d \in open : Within(s, d)
    <3>1. PICK d \in open : Within(s, d)
      BY <2>1
    <3>2. Within(s, d)'
      BY <1>4, <3>1 DEF Within
    <3>3. CASE d # c
      BY <1>3, <3>2, <3>3 DEF Pending
    <3>4. CASE d = c
      <4>1. plan.per * c \in Nat
        BY <1>2, <1>5
      <4>2. plan.per * c <= s
        BY <3>1, <3>4 DEF Within
      <4>3. Ahead(w, s, r)'
        BY <1>4, <1>5, <1>6, <1>8, <1>9, <1>11, <3>2, <3>4, <4>1, <4>2 DEF Ahead
      <4> QED
        BY <4>3 DEF Pending
    <3> QED
      BY <3>3, <3>4
  <2>2. CASE \E v \in 1 .. Threads : Ahead(v, s, r)
    <3>1. PICK v \in 1 .. Threads : Ahead(v, s, r)
      BY <2>2
    <3>2. v # w
      BY <1>4, <3>1 DEF Ahead
    <3>3. Ahead(v, s, r)'
      BY <1>4, <1>9, <3>1, <3>2 DEF Ahead, Within
    <3> QED
      BY <3>3 DEF Pending
  <2> QED
    BY <1>11, <2>1, <2>2 DEF Pending
<1>12. RecordInv'
  <2>1. /\ Settings' = Settings /\ Repeats' = Repeats
        /\ \A s : DrawnRows(state.n, s)' = DrawnRows(state.n, s)
        /\ \A s, r : Own(s, r)' = Own(s, r)
    BY <1>4, OwnFixed
  <2>2. \A s, k : RowAt(s, k)' = RowAt(s, k)
    BY <1>4 DEF RowAt
  <2>3. \A s, r, k : OutcomeAt(s, r, k)' = OutcomeAt(s, r, k)
    BY <1>2, <1>4 DEF OutcomeAt, SizesKept
  <2>4. /\ \A s \in Settings : s \in Int
        /\ \A r \in Repeats : r \in Int /\ r >= -1
    BY DEF Settings, Repeats
  <2>5. /\ DOMAIN snapshots'.rows = 0 .. Sampling'.nsettings * state'.n - 1
        /\ DOMAIN snapshots'.outcomes = 0 .. Outcomes(state.n)' - 1
    BY <1>2, <1>4 DEF RecordInv, SizesKept
  <2>6. ASSUME NEW s \in Settings', NEW k \in 1 .. state'.n, ~ Pending(s, -1)'
        PROVE  RowAt(s, k)' = DrawnRows(state.n, s)'[k]
    <3>1. s \in Settings /\ k \in 1 .. state.n /\ ~ Pending(s, -1)
      BY <1>4, <1>11, <2>1, <2>4, <2>6
    <3> QED
      BY <1>2, <2>1, <2>2, <3>1 DEF RecordInv
  <2>7. ASSUME NEW s \in Settings', NEW r \in Repeats', NEW k \in 1 .. state'.n, ~ Pending(s, r)'
        PROVE  ~ IsFailed(Own(s, r)') /\ OutcomeAt(s, r, k)' = Own(s, r)'.bits[k]
    <3>1. s \in Settings /\ r \in Repeats /\ k \in 1 .. state.n /\ ~ Pending(s, r)
      BY <1>4, <1>11, <2>1, <2>4, <2>7
    <3> QED
      BY <1>2, <2>1, <2>3, <3>1 DEF RecordInv
  <2> QED
    BY <2>5, <2>6, <2>7 DEF RecordInv
<1>13. snapshots' = Recorded(state.n, snapshots'.rows, snapshots'.outcomes)
  BY <1>2, <1>4 DEF Planned
<1>14. \A v \in 1 .. Threads : worker'[v] # Idle => v <= plan.workers
  BY <1>2, <1>4, <1>9 DEF Planned
<1> QED
  BY <1>1, <1>9, <1>10, <1>12, <1>13, <1>14, SamplerKeeps

\* A worker that goes on in its chunk, or is done with it, takes nobody's place.
LEMMA StaysSound ==
  ASSUME Sampler, NEW w \in 1 .. Threads, NEW new \in WorkerStates,
         worker' = [worker EXCEPT ![w] = new], open' = open, worker[w] # Idle,
         new = Idle \/ (new.chunk = worker[w].chunk /\ Sound(new, open))
  PROVE  /\ ChunkInv'
         /\ worker' \in [1 .. Threads -> WorkerStates]
         /\ \A v \in 1 .. Threads : worker'[v] # Idle => v <= plan.workers
<1>1. SizesKept /\ ChunkInv /\ Planned(state.n) /\ worker \in [1 .. Threads -> WorkerStates]
  BY SamplerFacts
<1>2. plan' = plan
  BY DEF Sampler
<1>3. /\ worker' \in [1 .. Threads -> WorkerStates] /\ worker'[w] = new
      /\ \A v \in 1 .. Threads : v # w => worker'[v] = worker[v]
  BY <1>1
<1>4. \A d \in open' : d \in Nat /\ plan'.per * d < Sampling'.nsettings
  BY <1>1, <1>2 DEF ChunkInv, SizesKept
<1>5. \A a, o : Sound(a, o)' = Sound(a, o)
  BY <1>1, <1>2 DEF Sound, SizesKept
<1>6. ASSUME NEW v \in 1 .. Threads, worker'[v] # Idle
      PROVE  Sound(worker'[v], open')
  BY <1>1, <1>3, <1>6 DEF ChunkInv
<1>7. ASSUME NEW u \in 1 .. Threads, NEW v \in 1 .. Threads, u # v,
             worker'[u] # Idle, worker'[v] # Idle
      PROVE  worker'[u].chunk # worker'[v].chunk
  <2>1. CASE u # w /\ v # w
    BY <1>1, <1>3, <1>7, <2>1 DEF ChunkInv
  <2>2. CASE u = w \/ v = w
    <3>1. new # Idle /\ new.chunk = worker[w].chunk
      BY <1>3, <1>7, <2>2
    <3> QED
      BY <1>1, <1>3, <1>7, <2>2, <3>1 DEF ChunkInv
  <2> QED
    BY <2>1, <2>2
<1>8. \A v \in 1 .. Threads : worker'[v] # Idle => v <= plan.workers
  BY <1>1, <1>3 DEF Planned
<1>9. ChunkInv'
  BY <1>4, <1>5, <1>6, <1>7 DEF ChunkInv
<1> QED
  BY <1>3, <1>8, <1>9

\* What is ahead of the other workers or in an open chunk stays so.
LEMMA OthersPending ==
  ASSUME Sampler, NEW w \in 1 .. Threads, NEW new,
         worker' = [worker EXCEPT ![w] = new], open' = open,
         NEW s, NEW r, Pending(s, r), Ahead(w, s, r) => Ahead(w, s, r)'
  PROVE  Pending(s, r)'
<1>1. plan' = plan /\ worker \in [1 .. Threads -> WorkerStates]
  BY SamplerFacts DEF Sampler
<1>2. CASE \E c \in open : Within(s, c)
  BY <1>1, <1>2 DEF Pending, Within
<1>3. CASE \E v \in 1 .. Threads : Ahead(v, s, r)
  <2>1. PICK v \in 1 .. Threads : Ahead(v, s, r)
    BY <1>3
  <2>2. CASE v = w
    BY <2>1, <2>2 DEF Pending
  <2>3. CASE v # w
    <3>1. worker'[v] = worker[v]
      BY <1>1, <2>3
    <3>2. Ahead(v, s, r)'
      BY <1>1, <2>1, <3>1 DEF Ahead, Within
    <3> QED
      BY <3>2 DEF Pending
  <2> QED
    BY <2>2, <2>3
<1> QED
  BY <1>2, <1>3 DEF Pending

\* Whose turn it is: the setting and repeat a worker is at are ahead of nobody else.
LEMMA OnlyHere ==
  ASSUME Sampler, NEW w \in 1 .. Threads, worker[w] # Idle
  PROVE  /\ Here(w) \in Settings /\ Within(Here(w), worker[w].chunk)
         /\ Here(w) - plan.per * worker[w].chunk = worker[w].local
         /\ worker[w].chunk * plan.per + worker[w].local = Here(w)
         /\ worker[w].repeat \in -1 .. Sampling.repeats - 1
         /\ \A r : Pending(Here(w), r) => Ahead(w, Here(w), r)
<1> DEFINE c == worker[w].chunk
           l == worker[w].local
           p == plan.per * c
<1>1. ChunkInv /\ plan.per \in Nat \ {0} /\ worker \in [1 .. Threads -> WorkerStates]
      /\ Sampling.nsettings \in Nat
  BY SamplerFacts
<1>2. /\ c \in Nat /\ l \in Nat /\ l < plan.per /\ c \notin open
      /\ p + l < Sampling.nsettings
      /\ worker[w].repeat \in -1 .. Sampling.repeats - 1
  BY <1>1 DEF ChunkInv, Sound
<1>3. p \in Nat /\ c * plan.per = p
  BY <1>1, <1>2
<1>4. Here(w) = p + l
  BY DEF Here
<1>5. Here(w) \in Settings /\ Here(w) - p = l /\ c * plan.per + l = Here(w)
  <2> HIDE DEF p, c, l
  <2> QED
    BY <1>1, <1>2, <1>3, <1>4 DEF Settings
<1>6. p <= Here(w) /\ Here(w) < p + plan.per
  <2> HIDE DEF p, c, l
  <2> QED
    BY <1>1, <1>2, <1>3, <1>4
<1>7. Within(Here(w), c)
  BY <1>6 DEF Within
<1>8. Here(w) \in Int
  BY <1>2, <1>3, <1>4
<1>9. ASSUME NEW r, Pending(Here(w), r) PROVE Ahead(w, Here(w), r)
  <2>1. CASE \E d \in open : Within(Here(w), d)
    <3>1. PICK d \in open : Within(Here(w), d)
      BY <2>1
    <3>2. d \in Nat
      BY <1>1, <3>1 DEF ChunkInv
    <3>3. d = c
      BY <1>1, <1>2, <1>7, <1>8, <3>1, <3>2, OneChunk
    <3> QED
      BY <1>2, <3>1, <3>3
  <2>2. CASE \E v \in 1 .. Threads : Ahead(v, Here(w), r)
    <3>1. PICK v \in 1 .. Threads : Ahead(v, Here(w), r)
      BY <2>2
    <3>2. worker[v] # Idle /\ Within(Here(w), worker[v].chunk)
      BY <3>1 DEF Ahead
    <3>3. worker[v].chunk \in Nat
      BY <1>1, <3>1, <3>2 DEF ChunkInv, Sound
    <3>4. worker[v].chunk = c
      BY <1>1, <1>2, <1>7, <1>8, <3>2, <3>3, OneChunk
    <3>5. v = w
      BY <1>1, <3>1, <3>2, <3>4 DEF ChunkInv
    <3> QED
      BY <3>1, <3>5
  <2> QED
    BY <1>9, <2>1, <2>2 DEF Pending
<1> QED
  BY <1>2, <1>5, <1>7, <1>9

Stretched(i, a, b, start, n, k) ==
  /\ i \in start .. start + n - 1 <=> a = b
  /\ a = b => i - start + 1 = k

\* Which of the places of one stretch another one's are.
LEMMA Stretch ==
  ASSUME NEW a \in Int, NEW b \in Int, NEW n \in Nat, NEW k \in 1 .. n
  PROVE  Stretched(a * n + k - 1, a, b, b * n, n, k)
<1> DEFINE x == a * n
           y == b * n
<1>1. x \in Int /\ y \in Int /\ n \in Nat /\ k \in 1 .. n
  OBVIOUS
<1>2. a = b => x = y
  OBVIOUS
<1>3. a < b => x + n <= y
  BY Multiples
<1>4. b < a => y + n <= x
  BY Multiples
<1> HIDE DEF x, y
<1>5. x + k - 1 \in y .. y + n - 1 <=> a = b
  BY <1>1, <1>2, <1>3, <1>4
<1> QED
  BY <1>1, <1>2, <1>5 DEF x, y, Stretched

\* A setting's rows are drawn from its own streams into its own place.
LEMMA DrawStep ==
  ASSUME IInv, NEW w \in 1 .. Threads, DrawRows(w)
  PROVE  IInv'
<1> DEFINE n == state.n
           at == worker[w]
           new == [at EXCEPT !.repeat = 0]
           start == (at.chunk * plan.per + at.local) * n
           drawn == DrawnRows(n, Setting(w))
           rows == [k \in DOMAIN snapshots.rows |->
                      IF k \in start .. start + n - 1 THEN drawn[k - start + 1] ELSE snapshots.rows[k]]
<1>1. Sampler /\ at # Idle /\ at.repeat = -1 /\ open' = open
  BY DEF DrawRows, Sampler
<1>2. /\ SizesKept /\ ChunkInv /\ RecordInv /\ Planned(n) /\ n \in Nat
      /\ worker \in [1 .. Threads -> WorkerStates] /\ plan.per \in Nat \ {0}
      /\ Sampling.repeats \in Nat /\ Sampling.repeats >= 1 /\ Sampling.nsettings \in Nat
  BY <1>1, SamplerFacts DEF Planned
<1>3. snapshots' = [snapshots EXCEPT !.rows = rows] /\ worker' = [worker EXCEPT ![w] = new]
  BY DEF DrawRows
<1>4. snapshots = Recorded(n, snapshots.rows, snapshots.outcomes)
  BY <1>2 DEF Planned
<1>5. /\ snapshots'.rows = rows /\ snapshots'.outcomes = snapshots.outcomes
      /\ snapshots' = Recorded(n, snapshots'.rows, snapshots'.outcomes)
  <2> HIDE DEF rows
  <2>1. snapshots' = Recorded(n, rows, snapshots.outcomes)
    BY <1>3, <1>4 DEF Recorded
  <2>2. snapshots'.rows = rows /\ snapshots'.outcomes = snapshots.outcomes
    BY <2>1 DEF Recorded
  <2> QED
    BY <2>1, <2>2
<1>6. /\ Here(w) \in Settings /\ Here(w) - plan.per * at.chunk = at.local
      /\ at.chunk * plan.per + at.local = Here(w) /\ Within(Here(w), at.chunk)
  BY <1>1, OnlyHere
<1>7. Setting(w) = Here(w) /\ start = Here(w) * n
  BY <1>6 DEF Setting, Here
<1>8. Sound(at, open)
  BY <1>1, <1>2 DEF ChunkInv
<1>9. /\ new \in WorkerStates /\ new.chunk = at.chunk /\ new.local = at.local /\ new.repeat = 0
      /\ Sound(new, open)
  <2>1. at \in WorkerStates
    BY <1>2
  <2>2. new \in WorkerStates /\ new.chunk = at.chunk /\ new.local = at.local /\ new.repeat = 0
    BY <2>1 DEF WorkerStates
  <2>3. 0 \in -1 .. Sampling.repeats - 1
    BY <1>2
  <2> HIDE DEF new
  <2> QED
    BY <1>8, <2>2, <2>3 DEF Sound
<1> HIDE DEF new
<1>10. /\ ChunkInv' /\ worker' \in [1 .. Threads -> WorkerStates]
       /\ \A v \in 1 .. Threads : worker'[v] # Idle => v <= plan.workers
  BY <1>1, <1>3, <1>9, StaysSound
<1>11. state' = state /\ plan' = plan /\ call' = call
  BY <1>1 DEF Sampler
<1>12. ASSUME NEW s \in Settings, NEW r \in Int, r >= -1, Pending(s, r), s # Here(w) \/ r # -1
       PROVE  Pending(s, r)'
  <2>1. s \in Int
    BY DEF Settings
  <2>2. worker'[w] = new /\ new # Idle
    <3>1. Idle.chunk = -1 /\ new.chunk \in Nat
      BY <1>9 DEF Sound, Idle
    <3>2. worker'[w] = new
      BY <1>2, <1>3
    <3> QED
      BY <3>1, <3>2
  <2>3. ASSUME Ahead(w, s, r) PROVE Ahead(w, s, r)'
    <3>1. Within(s, at.chunk) /\ plan.per * at.chunk \in Int
      BY <1>2, <1>8, <2>3 DEF Ahead, Sound
    <3>2. at.local = s - plan.per * at.chunk => s = Here(w)
      BY <1>6, <2>1, <3>1 DEF Here
    <3>3. at.local < s - plan.per * at.chunk \/ (at.local = s - plan.per * at.chunk /\ 0 <= r)
      BY <1>12, <2>3, <3>2 DEF Ahead
    <3>4. new.local < s - plan.per * new.chunk \/ (new.local = s - plan.per * new.chunk /\ new.repeat <= r)
      BY <1>9, <3>3
    <3> QED
      BY <1>9, <1>11, <2>2, <3>1, <3>4 DEF Ahead, Within
  <2> QED
    BY <1>1, <1>3, <1>12, <2>3, OthersPending
<1>13. ASSUME NEW s \in Settings, NEW k \in 1 .. n
       PROVE  RowAt(s, k)' = IF s = Here(w) THEN drawn[k] ELSE RowAt(s, k)
  <2> DEFINE i == s * n + k - 1
  <2>1. s \in Int /\ Here(w) \in Int
    BY <1>6 DEF Settings
  <2>2. /\ i \in start .. start + n - 1 <=> s = Here(w)
        /\ s = Here(w) => i - start + 1 = k
    <3>1. Stretched(s * n + k - 1, s, Here(w), Here(w) * n, n, k)
      BY <1>2, <2>1, Stretch
    <3> HIDE DEF start
    <3> QED
      BY <1>7, <3>1 DEF Stretched
  <2>3. i \in DOMAIN snapshots.rows
    <3> DEFINE j == k - 1
               N == Sampling.nsettings
    <3>1. j \in 0 .. n - 1 /\ N \in Int /\ 0 <= s /\ s < N
      BY <1>2 DEF Settings
    <3>2. i = s * n + j
      <4>1. s * n \in Int
        BY <1>2, <2>1
      <4> QED
        BY <1>2, <4>1
    <3>3. DOMAIN snapshots.rows = 0 .. N * n - 1
      BY <1>2 DEF RecordInv
    <3> HIDE DEF i, j, N
    <3>4. IsPlace(s * n + j, N * n)
      BY <1>2, <2>1, <3>1, PlaceWithin
    <3> QED
      BY <3>2, <3>3, <3>4 DEF IsPlace
  <2> HIDE DEF i, start, drawn
  <2>4. rows[i] = IF s = Here(w) THEN drawn[k] ELSE snapshots.rows[i]
    BY <2>2, <2>3
  <2>5. RowAt(s, k)' = rows[i] /\ RowAt(s, k) = snapshots.rows[i]
    BY <1>5, <1>11 DEF RowAt, i
  <2> HIDE DEF rows
  <2> QED
    BY <2>4, <2>5
<1>14. RecordInv'
  <2>1. /\ Settings' = Settings /\ Repeats' = Repeats
        /\ \A s : DrawnRows(state.n, s)' = DrawnRows(state.n, s)
        /\ \A s, r : Own(s, r)' = Own(s, r)
    BY <1>11, OwnFixed
  <2>2. \A s, r, k : OutcomeAt(s, r, k)' = OutcomeAt(s, r, k)
    BY <1>2, <1>5, <1>11 DEF OutcomeAt, SizesKept
  <2>3. \A r \in Repeats : r \in Int /\ r >= 0
    BY DEF Repeats
  <2>4. /\ DOMAIN snapshots'.rows = 0 .. Sampling'.nsettings * state'.n - 1
        /\ DOMAIN snapshots'.outcomes = 0 .. Outcomes(state.n)' - 1
    BY <1>2, <1>5, <1>11 DEF RecordInv, SizesKept
  <2>5. ASSUME NEW s \in Settings', NEW k \in 1 .. state'.n, ~ Pending(s, -1)'
        PROVE  RowAt(s, k)' = DrawnRows(state.n, s)'[k]
    <3>1. s \in Settings /\ k \in 1 .. n
      BY <1>11, <2>1
    <3>2. s = Here(w) \/ ~ Pending(s, -1)
      BY <1>12, <2>5, <3>1
    <3>3. CASE s = Here(w)
      BY <1>7, <1>13, <2>1, <3>1, <3>3
    <3>4. CASE s # Here(w)
      <4>1. RowAt(s, k) = DrawnRows(n, s)[k]
        BY <1>2, <3>1, <3>2, <3>4 DEF RecordInv
      <4> QED
        BY <1>13, <2>1, <3>1, <3>4, <4>1
    <3> QED
      BY <3>3, <3>4
  <2>6. ASSUME NEW s \in Settings', NEW r \in Repeats', NEW k \in 1 .. state'.n, ~ Pending(s, r)'
        PROVE  ~ IsFailed(Own(s, r)') /\ OutcomeAt(s, r, k)' = Own(s, r)'.bits[k]
    <3>1. s \in Settings /\ r \in Repeats /\ k \in 1 .. n
      BY <1>11, <2>1
    <3>2. ~ Pending(s, r)
      BY <1>12, <2>3, <2>6, <3>1
    <3> QED
      BY <1>2, <2>1, <2>2, <3>1, <3>2 DEF RecordInv
  <2> QED
    BY <2>4, <2>5, <2>6 DEF RecordInv
<1> QED
  BY <1>1, <1>5, <1>10, <1>14, SamplerKeeps

\* Where a worker goes on: the next repeat, the next setting of its chunk, or nowhere.
NextPlace(at) ==
  IF at.repeat + 1 < Sampling.repeats THEN [at EXCEPT !.repeat = at.repeat + 1]
  ELSE IF at.local + 1 < ChunkLength(at.chunk) THEN [at EXCEPT !.local = at.local + 1, !.repeat = -1]
  ELSE Idle

\* It skips nothing: what was ahead of it is so still, but for what it has measured.
LEMMA NextPlaceSound ==
  ASSUME Sampler, NEW w \in 1 .. Threads, worker[w] # Idle, worker[w].repeat >= 0,
         worker' = [worker EXCEPT ![w] = NextPlace(worker[w])]
  PROVE  /\ NextPlace(worker[w]) \in WorkerStates
         /\ NextPlace(worker[w]) = Idle
              \/ (NextPlace(worker[w]).chunk = worker[w].chunk /\ Sound(NextPlace(worker[w]), open))
         /\ \A s \in Settings : \A r \in -1 .. Sampling.repeats - 1 :
              Ahead(w, s, r) /\ (s # Here(w) \/ r # worker[w].repeat) => Ahead(w, s, r)'
<1> DEFINE at == worker[w]
           new == NextPlace(at)
           chunk == at.chunk
           local == at.local
           repeat == at.repeat
           R == Sampling.repeats
           N == Sampling.nsettings
           per == plan.per
           p == per * chunk
           length == ChunkLength(chunk)
<1>1. /\ ChunkInv /\ worker \in [1 .. Threads -> WorkerStates] /\ per \in Nat \ {0}
      /\ R \in Nat /\ N \in Nat
  BY SamplerFacts
<1>2. Sound(at, open) /\ at \in WorkerStates
  BY <1>1 DEF ChunkInv
<1>3. /\ chunk \in Nat /\ local \in Nat /\ local < per /\ repeat \in 0 .. R - 1
      /\ p + local < N /\ chunk \notin open
  BY <1>2 DEF Sound
<1>4. p \in Nat /\ chunk * per = p
  BY <1>1, <1>3
<1>5. plan' = plan /\ worker'[w] = new
  BY <1>1 DEF Sampler
<1>6. Lesser(length, per, N - p)
  <2> DEFINE x == N - p
  <2>1. x \in Int /\ x = N - chunk * per
    BY <1>1, <1>4
  <2>2. length = Min({per, x})
    BY <2>1 DEF ChunkLength
  <2> HIDE DEF x, per, length
  <2>3. Lesser(Min({per, x}), per, x)
    BY <1>1, <2>1, Extremes
  <2> QED
    BY <2>2, <2>3 DEF x
<1>7. ASSUME NEW s \in Settings, NEW r \in -1 .. R - 1, Ahead(w, s, r)
      PROVE  /\ s \in 0 .. N - 1 /\ p <= s /\ s < p + per
             /\ local < s - p \/ (local = s - p /\ repeat <= r)
             /\ Within(s, chunk) /\ (local = s - p => s = Here(w))
  BY <1>1, <1>3, <1>4, <1>7 DEF Ahead, Within, Here, Settings
<1>8. worker[w] = at /\ at.chunk = chunk /\ at.local = local /\ at.repeat = repeat
  OBVIOUS
<1> HIDE DEF p, length, N, R
<1>9. CASE repeat + 1 < R
  <2>1. new = [at EXCEPT !.repeat = repeat + 1]
    BY <1>9 DEF NextPlace, R
  <2>2. /\ new \in WorkerStates /\ new.chunk = chunk /\ new.local = local
        /\ new.repeat = repeat + 1
    BY <1>2, <1>3, <2>1 DEF WorkerStates
  <2> HIDE DEF new, at, chunk, local, repeat, per
  <2>3. new # Idle
    BY <1>3, <2>2 DEF Idle
  <2>4. repeat + 1 \in -1 .. R - 1
    BY <1>1, <1>3, <1>9
  <2>5. Sound(new, open)
    BY <1>3, <2>2, <2>4 DEF Sound, p, per, N, R
  <2>6. ASSUME NEW s \in Settings, NEW r \in -1 .. R - 1, Ahead(w, s, r),
               s # Here(w) \/ r # repeat
        PROVE  Ahead(w, s, r)'
    <3>1. local < s - p \/ (local = s - p /\ repeat + 1 <= r)
      BY <1>1, <1>3, <1>4, <1>7, <2>6
    <3>2. new.local < s - per * new.chunk
          \/ (new.local = s - per * new.chunk /\ new.repeat <= r)
      BY <2>2, <3>1 DEF p
    <3>3. Within(s, new.chunk)
      BY <1>7, <2>2, <2>6
    <3> QED
      BY <1>5, <2>3, <3>2, <3>3 DEF Ahead, Within, per
  <2> QED
    BY <1>8, <2>2, <2>5, <2>6 DEF new, at, R
<1>10. CASE ~ (repeat + 1 < R) /\ local + 1 < length
  <2>1. new = [at EXCEPT !.local = local + 1, !.repeat = -1]
    BY <1>10 DEF NextPlace, R, length
  <2>2. /\ new \in WorkerStates /\ new.chunk = chunk /\ new.local = local + 1
        /\ new.repeat = -1
    <3>1. chunk \in Int /\ local + 1 \in Int
      BY <1>3
    <3>2. at = [chunk |-> chunk, local |-> local, repeat |-> repeat]
      BY <1>2 DEF WorkerStates
    <3> HIDE DEF at, chunk, local, repeat, new
    <3>3. new = [chunk |-> chunk, local |-> local + 1, repeat |-> -1]
      BY <2>1, <3>2
    <3> QED
      BY <3>1, <3>3 DEF WorkerStates
  <2> HIDE DEF new, at, chunk, local, repeat, per
  <2>3. new # Idle
    BY <1>3, <2>2 DEF Idle
  <2>4. local + 1 < per /\ p + (local + 1) < N /\ -1 \in -1 .. R - 1 /\ local + 1 \in Nat
    BY <1>1, <1>3, <1>4, <1>6, <1>10 DEF Lesser
  <2>5. Sound(new, open)
    BY <1>3, <2>2, <2>4 DEF Sound, p, per, N, R
  <2>6. ASSUME NEW s \in Settings, NEW r \in -1 .. R - 1, Ahead(w, s, r),
               s # Here(w) \/ r # repeat
        PROVE  Ahead(w, s, r)'
    <3>1. local + 1 < s - p \/ (local + 1 = s - p /\ -1 <= r)
      BY <1>1, <1>3, <1>4, <1>7, <1>10, <2>6
    <3>2. new.local < s - per * new.chunk
          \/ (new.local = s - per * new.chunk /\ new.repeat <= r)
      BY <2>2, <3>1 DEF p
    <3>3. Within(s, new.chunk)
      BY <1>7, <2>2, <2>6
    <3> QED
      BY <1>5, <2>3, <3>2, <3>3 DEF Ahead, Within, per
  <2> QED
    BY <1>8, <2>2, <2>5, <2>6 DEF new, at, R
<1>11. CASE ~ (repeat + 1 < R) /\ ~ (local + 1 < length)
  <2>1. new = Idle
    BY <1>11 DEF NextPlace, R, length
  <2>2. Idle \in WorkerStates
    BY DEF Idle, WorkerStates
  <2>3. ASSUME NEW s \in Settings, NEW r \in -1 .. R - 1, Ahead(w, s, r),
               s # Here(w) \/ r # repeat
        PROVE  FALSE
    <3> HIDE DEF new, at, chunk, local, repeat, per
    <3>1. local + 1 >= per \/ local + 1 >= N - p
      BY <1>1, <1>3, <1>4, <1>6, <1>11 DEF Lesser
    <3>2. /\ s \in 0 .. N - 1 /\ p <= s /\ s < p + per
          /\ local < s - p \/ (local = s - p /\ repeat <= r)
          /\ local = s - p => s = Here(w)
      BY <1>7, <2>3
    <3>3. ~ (local < s - p)
      BY <1>1, <1>3, <1>4, <3>1, <3>2
    <3> QED
      BY <1>1, <1>3, <1>11, <2>3, <3>2, <3>3
  <2> QED
    BY <1>8, <2>1, <2>2, <2>3 DEF R
<1> QED
  BY <1>9, <1>10, <1>11

\* What a worker measures, from the rows recorded for its setting.
RowsHere(w) ==
  [k \in 1 .. state.n |->
     snapshots.rows[(worker[w].chunk * plan.per + worker[w].local) * state.n + k - 1]]
MeasurementHere(w) == Measurement(state.n, Setting(w), worker[w].repeat, RowsHere(w))

\* A measurement that fails ends the call, with nothing recorded that is read again.
LEMMA MeasureFails ==
  ASSUME IInv, NEW w \in 1 .. Threads, MeasureRepeat(w), IsFailed(MeasurementHere(w))
  PROVE  IInv'
<1>1. /\ phase' = "failed" /\ answer'.error = "InvalidClifford"
      /\ worker' = [v \in DOMAIN worker |-> Idle]
      /\ UNCHANGED <<call, state>>
  BY DEF MeasureRepeat, MeasurementHere, RowsHere, Fail, Failed
<1>2. CallInv /\ Idle \in WorkerStates
  BY DEF IInv, Idle, WorkerStates
<1>3. worker' = [v \in 1 .. Threads |-> Idle]
  BY <1>1, <1>2 DEF CallInv
<1>4. CallInv'
  BY <1>1, <1>2, <1>3 DEF CallInv, HasState
<1> QED
  BY <1>1, <1>4 DEF IInv, PlanInv, Refused, MeasureInv, PublishedInv

\* A repeat's outcomes are measured in the setting's own rows into their own place.
LEMMA MeasureStep ==
  ASSUME IInv, NEW w \in 1 .. Threads, MeasureRepeat(w), ~ IsFailed(MeasurementHere(w))
  PROVE  IInv'
<1> DEFINE n == state.n
           R == Sampling.repeats
           at == worker[w]
           repeat == at.repeat
           new == NextPlace(at)
           base == at.chunk * plan.per + at.local
           start == (base * R + repeat) * n
           rows == [k \in 1 .. n |-> snapshots.rows[base * n + k - 1]]
           own == Measurement(n, Setting(w), repeat, rows)
           bits == own.bits
           outcomes == [k \in DOMAIN snapshots.outcomes |->
                          IF k \in start .. start + n - 1 THEN bits[k - start + 1]
                          ELSE snapshots.outcomes[k]]
<1>0. ~ IsFailed(own)
  BY DEF MeasurementHere, RowsHere
<1>1. Sampler /\ at # Idle /\ repeat >= 0 /\ open' = open
  BY <1>0 DEF MeasureRepeat, Sampler, Idle
<1>2. /\ SizesKept /\ ChunkInv /\ RecordInv /\ Planned(n) /\ n \in Nat
      /\ worker \in [1 .. Threads -> WorkerStates] /\ plan.per \in Nat \ {0}
      /\ R \in Nat /\ R >= 1 /\ Sampling.nsettings \in Nat
  BY <1>1, SamplerFacts DEF Planned
<1>3. snapshots' = [snapshots EXCEPT !.outcomes = outcomes] /\ worker' = [worker EXCEPT ![w] = new]
  BY <1>0 DEF MeasureRepeat, NextPlace
<1>4. snapshots = Recorded(n, snapshots.rows, snapshots.outcomes)
  BY <1>2 DEF Planned
<1>5. /\ snapshots'.outcomes = outcomes /\ snapshots'.rows = snapshots.rows
      /\ snapshots' = Recorded(n, snapshots'.rows, snapshots'.outcomes)
  <2> HIDE DEF outcomes
  <2>1. snapshots' = Recorded(n, snapshots.rows, outcomes)
    BY <1>3, <1>4 DEF Recorded
  <2>2. snapshots'.outcomes = outcomes /\ snapshots'.rows = snapshots.rows
    BY <2>1 DEF Recorded
  <2> QED
    BY <2>1, <2>2
<1>6. /\ Here(w) \in Settings /\ Here(w) - plan.per * at.chunk = at.local
      /\ base = Here(w) /\ repeat \in -1 .. R - 1
      /\ \A r : Pending(Here(w), r) => Ahead(w, Here(w), r)
  BY <1>1, OnlyHere
<1>7. Setting(w) = Here(w) /\ start = (Here(w) * R + repeat) * n
  BY <1>6 DEF Setting, Here
<1>8. repeat \in Repeats /\ repeat \in 0 .. R - 1
  <2> HIDE DEF repeat
  <2> QED
    BY <1>1, <1>2, <1>6 DEF Repeats
<1>9. ~ Pending(Here(w), -1)
  <2>1. SUFFICES ASSUME Ahead(w, Here(w), -1) PROVE FALSE
    BY <1>6
  <2>2. at.local \in Nat
    BY <1>1, <1>2 DEF ChunkInv, Sound
  <2>3. at.local < at.local \/ repeat <= -1
    BY <1>6, <2>1 DEF Ahead
  <2> HIDE DEF repeat
  <2> QED
    BY <1>8, <2>2, <2>3
<1>10. rows = OwnRows(Here(w))
  <2>1. ASSUME NEW k \in 1 .. n PROVE snapshots.rows[base * n + k - 1] = DrawnRows(n, Here(w))[k]
    <3>1. RowAt(Here(w), k) = DrawnRows(n, Here(w))[k]
      BY <1>2, <1>6, <1>9 DEF RecordInv
    <3> QED
      BY <1>6, <3>1 DEF RowAt
  <2> QED
    BY <2>1 DEF OwnRows
<1>11. ~ IsFailed(Own(Here(w), repeat)) /\ bits = Own(Here(w), repeat).bits
  <2>1. own = Own(Here(w), repeat)
    BY <1>7, <1>10 DEF Own
  <2> QED
    BY <1>0, <2>1
<1>12. /\ new \in WorkerStates
       /\ new = Idle \/ (new.chunk = at.chunk /\ Sound(new, open))
       /\ \A s \in Settings : \A r \in -1 .. R - 1 :
            Ahead(w, s, r) /\ (s # Here(w) \/ r # repeat) => Ahead(w, s, r)'
  BY <1>1, <1>3, NextPlaceSound
<1> HIDE DEF new
<1>13. /\ ChunkInv' /\ worker' \in [1 .. Threads -> WorkerStates]
       /\ \A v \in 1 .. Threads : worker'[v] # Idle => v <= plan.workers
  BY <1>1, <1>3, <1>12, StaysSound
<1>14. state' = state /\ plan' = plan /\ call' = call
  BY <1>1 DEF Sampler
<1>15. ASSUME NEW s \in Settings, NEW r \in -1 .. R - 1, Pending(s, r), s # Here(w) \/ r # repeat
       PROVE  Pending(s, r)'
  <2>1. Ahead(w, s, r) => Ahead(w, s, r)'
    BY <1>12, <1>15
  <2> QED
    BY <1>1, <1>3, <1>15, <2>1, OthersPending
<1>16. ASSUME NEW s \in Settings, NEW r \in Repeats, NEW k \in 1 .. n
       PROVE  OutcomeAt(s, r, k)'
                = IF s = Here(w) /\ r = repeat THEN bits[k] ELSE OutcomeAt(s, r, k)
  <2> DEFINE a == s * R + r
             b == Here(w) * R + repeat
             i == a * n + k - 1
  <2>1. /\ s \in Int /\ Here(w) \in Int /\ 0 <= s /\ s < Sampling.nsettings
        /\ r \in 0 .. R - 1
    <3> DEFINE h == Here(w)
    <3>1. h \in 0 .. Sampling.nsettings - 1 /\ s \in 0 .. Sampling.nsettings - 1
      BY <1>6 DEF Settings
    <3> HIDE DEF h
    <3>2. h \in Int /\ s \in Int /\ 0 <= s /\ s < Sampling.nsettings
      BY <1>2, <3>1
    <3> QED
      BY <3>2 DEF Repeats, h
  <2>2. a \in Int /\ b \in Int
    <3>1. s * R \in Int /\ Here(w) * R \in Int
      BY <1>2, <2>1
    <3> QED
      BY <1>8, <2>1, <3>1
  <2>3. a = b <=> s = Here(w) /\ r = repeat
    <3>1. a = b => s = Here(w) /\ r = repeat
      <4> DEFINE h == Here(w)
      <4>1. s \in Int /\ h \in Int /\ R \in Nat /\ r \in 0 .. R - 1 /\ repeat \in 0 .. R - 1
        BY <1>2, <1>8, <2>1
      <4> HIDE DEF h, R, repeat
      <4>2. s * R + r = h * R + repeat => s = h /\ r = repeat
        BY <4>1, Places
      <4> QED
        BY <4>2 DEF h
    <3> QED
      BY <3>1
  <2>4. /\ i \in start .. start + n - 1 <=> a = b
        /\ a = b => i - start + 1 = k
    <3>1. start = b * n
      BY <1>7
    <3> HIDE DEF a, b, start
    <3>2. Stretched(a * n + k - 1, a, b, b * n, n, k)
      BY <1>2, <2>2, Stretch
    <3> QED
      BY <3>1, <3>2 DEF Stretched
  <2>5. i \in DOMAIN snapshots.outcomes
    <3> DEFINE j == k - 1
               N == Sampling.nsettings
               M == N * R
    <3>1. j \in 0 .. n - 1 /\ N \in Int
      BY <1>2
    <3>2. DOMAIN snapshots.outcomes = 0 .. M * n - 1
      BY <1>2 DEF RecordInv, Outcomes
    <3>3. N \in Int /\ 0 <= s /\ s < N
      BY <2>1, <3>1
    <3>4. IsPlace(s * R + r, N * R)
      <4> HIDE DEF N
      <4> QED
        BY <1>2, <2>1, <3>3, PlaceWithin
    <3>5. M \in Int
      <4> HIDE DEF N
      <4> QED
        BY <1>2, <3>1
    <3>6. 0 <= a /\ a < M
      <4>1. IsPlace(a, M)
        BY <3>4
      <4> HIDE DEF a, M
      <4> QED
        BY <2>2, <3>5, <4>1 DEF IsPlace
    <3>7. i = a * n + j
      <4> HIDE DEF a
      <4>1. a * n \in Int
        BY <1>2, <2>2
      <4> QED
        BY <1>2, <4>1
    <3> HIDE DEF a, j, M, i
    <3>8. IsPlace(a * n + j, M * n)
      BY <1>2, <2>2, <3>1, <3>5, <3>6, PlaceWithin
    <3> QED
      BY <3>2, <3>7, <3>8 DEF IsPlace
  <2>6. OutcomeAt(s, r, k)' = outcomes[i] /\ OutcomeAt(s, r, k) = snapshots.outcomes[i]
    <3>1. Sampling'.repeats = R
      BY <1>2 DEF SizesKept
    <3> HIDE DEF outcomes
    <3> QED
      BY <1>5, <1>14, <3>1 DEF OutcomeAt
  <2> HIDE DEF i, start, bits, a, b
  <2>7. outcomes[i] = IF s = Here(w) /\ r = repeat THEN bits[k] ELSE snapshots.outcomes[i]
    BY <2>3, <2>4, <2>5
  <2> HIDE DEF outcomes
  <2> QED
    BY <2>6, <2>7
<1>17. RecordInv'
  <2>1. /\ Settings' = Settings /\ Repeats' = Repeats
        /\ \A s : DrawnRows(state.n, s)' = DrawnRows(state.n, s)
        /\ \A s, r : Own(s, r)' = Own(s, r)
    BY <1>14, OwnFixed
  <2>2. \A s, k : RowAt(s, k)' = RowAt(s, k)
    BY <1>5, <1>14 DEF RowAt
  <2>3. -1 \in -1 .. R - 1 /\ -1 # repeat /\ \A r \in Repeats : r \in -1 .. R - 1
    <3> HIDE DEF repeat
    <3> QED
      BY <1>2, <1>8 DEF Repeats
  <2>4. /\ DOMAIN snapshots'.rows = 0 .. Sampling'.nsettings * state'.n - 1
        /\ DOMAIN snapshots'.outcomes = 0 .. Outcomes(state.n)' - 1
    BY <1>2, <1>5, <1>14 DEF RecordInv, SizesKept
  <2> HIDE DEF outcomes, rows, start, base, bits, repeat
  <2>5. ASSUME NEW s \in Settings', NEW k \in 1 .. state'.n, ~ Pending(s, -1)'
        PROVE  RowAt(s, k)' = DrawnRows(state.n, s)'[k]
    <3>1. s \in Settings /\ k \in 1 .. n
      BY <1>14, <2>1
    <3>2. ~ Pending(s, -1)
      BY <1>15, <2>3, <2>5, <3>1
    <3> QED
      BY <1>2, <2>1, <2>2, <3>1, <3>2 DEF RecordInv
  <2>6. ASSUME NEW s \in Settings', NEW r \in Repeats', NEW k \in 1 .. state'.n, ~ Pending(s, r)'
        PROVE  ~ IsFailed(Own(s, r)') /\ OutcomeAt(s, r, k)' = Own(s, r)'.bits[k]
    <3>1. s \in Settings /\ r \in Repeats /\ k \in 1 .. n
      BY <1>14, <2>1
    <3>2. (s = Here(w) /\ r = repeat) \/ ~ Pending(s, r)
      BY <1>15, <2>3, <2>6, <3>1
    <3>3. CASE s = Here(w) /\ r = repeat
      BY <1>11, <1>16, <2>1, <3>1, <3>3
    <3>4. CASE ~ (s = Here(w) /\ r = repeat)
      <4>1. ~ IsFailed(Own(s, r)) /\ OutcomeAt(s, r, k) = Own(s, r).bits[k]
        BY <1>2, <3>1, <3>2, <3>4 DEF RecordInv
      <4> QED
        BY <1>16, <2>1, <3>1, <3>4, <4>1
    <3> QED
      BY <3>3, <3>4
  <2> QED
    BY <2>4, <2>5, <2>6 DEF RecordInv
<1> QED
  BY <1>1, <1>5, <1>13, <1>17, SamplerKeeps

-----------------------------------------------------------------------------
(* The sampling ends, and the answer                                       *)

\* What an import counts of a recorded sampling is what was checked before it.
LEMMA BytesAgree ==
  ASSUME call \in Calls, NEW n \in Nat,
         NEW rows, NEW outcomes, NEW S, S = Recorded(n, rows, outcomes)
  PROVE  SnapshotBytes(S) = RetainedBytes(n)
<1> DEFINE N == Sampling.nsettings
           R == Sampling.repeats
           words == PackedWordCount(n)
<1>1. N \in Nat /\ R \in Nat /\ Sampling.protocol \in {"pauli", "clifford"}
  BY Sizes
<1>2. S.nsettings = N /\ S.nqubits = n /\ S.repeats = R /\ S.protocol = Sampling.protocol
  BY DEF Recorded
<1>3. N * n * (1 + R) = N * n + N * R * n
  <2> HIDE DEF N, R
  <2> QED
    BY <1>1
<1>4. PackedBytes(S) = 2 * 8 * N * n * words
  BY <1>2 DEF PackedBytes
<1>5. SnapshotBytes(S) = N * n * (1 + R) + IF Sampling.protocol = "clifford" THEN 2 * 8 * N * n * words ELSE 0
  BY <1>2, <1>4 DEF SnapshotBytes
<1>6. RetainedBytes(n) = N * n + N * R * n + IF Sampling.protocol = "pauli" THEN 0 ELSE 2 * 8 * N * n * words
  BY DEF RetainedBytes, Outcomes
<1>7. CASE Sampling.protocol = "pauli"
  BY <1>3, <1>5, <1>6, <1>7
<1>8. CASE Sampling.protocol = "clifford"
  BY <1>3, <1>5, <1>6, <1>8
<1> QED
  BY <1>1, <1>7, <1>8

\* An import that fails for the limit counts more than it, and one that does not fail
\* gives what was recorded.
LEMMA ImportChecks ==
  ASSUME NEW S, NEW limit, IsFailed(Imported(S, limit)), ~ IsFailed(S),
         Imported(S, limit).error = "MemoryLimit"
  PROVE  SnapshotBytes(S) > limit
BY DEF Imported, IsFailed, Failed

\* Nobody is ahead of anything when no chunk is open and no worker busy: everything is
\* recorded.
LEMMA FinishStep == IInv /\ FinishSampling => IInv'
<1> SUFFICES ASSUME IInv, FinishSampling PROVE IInv'
  OBVIOUS
<1> DEFINE n == state.n
<1>1. CallInv /\ phase = "sampling" /\ UNCHANGED <<call, state, plan, open, worker, snapshots>>
  BY DEF IInv, FinishSampling
<1>2. SizesKept
  BY <1>1, Fixed
<1>3. call \in Calls /\ n \in Nat /\ worker \in [1 .. Threads -> WorkerStates]
  BY <1>1 DEF CallInv, HasState
<1>4. Planned(n) /\ RecordInv
  BY <1>1 DEF IInv, PlanInv, MeasureInv
<1>5. open = {} /\ \A w \in 1 .. Threads : worker[w] = Idle
  BY <1>3 DEF FinishSampling
<1>6. \A s, r : ~ Pending(s, r)
  BY <1>5 DEF Pending, Ahead
<1>7. snapshots = Recorded(n, snapshots.rows, snapshots.outcomes)
  BY <1>4 DEF Planned
<1>8. SnapshotBytes(snapshots) = RetainedBytes(n) /\ ~ IsFailed(snapshots)
  <2>1. SnapshotBytes(snapshots) = RetainedBytes(n)
    BY <1>3, <1>7, BytesAgree
  <2>2. DOMAIN snapshots = {"protocol", "nqubits", "nsettings", "repeats", "rows", "outcomes"}
    BY <1>7 DEF Recorded
  <2> QED
    BY <2>1, <2>2 DEF IsFailed
<1>9. phase' \in {"failed", "sampled"}
  BY DEF FinishSampling, Fail
<1>10. CallInv'
  BY <1>1, <1>5, <1>9 DEF CallInv, HasState
<1>11. Refused'
  <2>1. SUFFICES ASSUME phase' = "failed", answer'.error = "MemoryLimit"
                 PROVE  RetainedBytes(n) + (IF IsDense THEN WorkerBytes(n) ELSE 0) > Sampling.limit
    BY <1>2 DEF Refused, SizesKept
  <2> DEFINE read == Imported(snapshots, Sampling.limit)
  <2>2. IsFailed(read) /\ read.error = "MemoryLimit"
    BY <2>1 DEF FinishSampling, Fail, Failed
  <2>3. RetainedBytes(n) > Sampling.limit
    BY <1>8, <2>2, ImportChecks
  <2>4. RetainedBytes(n) \in Nat /\ WorkerBytes(n) \in Nat /\ Sampling.limit \in Nat
    BY <1>3, Sizes
  <2> QED
    BY <2>3, <2>4
<1>12. PublishedInv'
  <2>1. /\ Settings' = Settings /\ Repeats' = Repeats
        /\ \A s : DrawnRows(state.n, s)' = DrawnRows(state.n, s)
        /\ \A s, r : Own(s, r)' = Own(s, r)
    BY <1>1, OwnFixed
  <2>2. \A s, k : RowAt(s, k)' = RowAt(s, k)
    BY <1>1 DEF RowAt
  <2>3. \A s, r, k : OutcomeAt(s, r, k)' = OutcomeAt(s, r, k)
    BY <1>1, <1>2 DEF OutcomeAt, SizesKept
  <2>4. ASSUME NEW s \in Settings, NEW k \in 1 .. n
        PROVE  /\ RowAt(s, k) = DrawnRows(n, s)[k]
               /\ \A r \in Repeats : ~ IsFailed(Own(s, r)) /\ OutcomeAt(s, r, k) = Own(s, r).bits[k]
    BY <1>4, <1>6 DEF RecordInv
  <2>5. Recorded(state.n, snapshots.rows, snapshots.outcomes)' = Recorded(n, snapshots.rows, snapshots.outcomes)
    BY <1>1, <1>2 DEF Recorded, SizesKept
  <2>6. state' = state /\ snapshots' = snapshots
    BY <1>1
  <2>7. ASSUME NEW s \in Settings', NEW k \in 1 .. state'.n
        PROVE  /\ RowAt(s, k)' = DrawnRows(state.n, s)'[k]
               /\ \A r \in Repeats' : ~ IsFailed(Own(s, r)') /\ OutcomeAt(s, r, k)' = Own(s, r)'.bits[k]
    BY <2>1, <2>2, <2>3, <2>4, <2>6
  <2> QED
    BY <1>3, <1>7, <2>5, <2>6, <2>7 DEF PublishedInv
<1> QED
  BY <1>9, <1>10, <1>11, <1>12 DEF IInv, PlanInv, MeasureInv

\* An answer changes nothing of what is asked about.
LEMMA QuietStep ==
  ASSUME IInv, UNCHANGED <<call, state, plan, open, worker, snapshots>>,
         \/ phase = "sampled" /\ phase' = "answered"
         \/ phase' = phase /\ answer' = answer
  PROVE  IInv'
<1>1. SizesKept
  BY Fixed
<1>2. /\ Settings' = Settings /\ Repeats' = Repeats
      /\ \A s : DrawnRows(state.n, s)' = DrawnRows(state.n, s)
      /\ \A s, r : Own(s, r)' = Own(s, r)
  BY OwnFixed
<1>3. \A s, k : RowAt(s, k)' = RowAt(s, k)
  BY DEF RowAt
<1>4. \A s, r, k : OutcomeAt(s, r, k)' = OutcomeAt(s, r, k)
  BY <1>1 DEF OutcomeAt, SizesKept
<1>5. Recorded(state.n, snapshots.rows, snapshots.outcomes)' = Recorded(state.n, snapshots.rows, snapshots.outcomes)
  BY <1>1 DEF Recorded, SizesKept
<1>6. CallInv'
  BY DEF IInv, CallInv, HasState
<1>7. PlanInv'
  BY <1>1, <1>5 DEF IInv, PlanInv, Planned, SizesKept
<1>8. Refused'
  BY <1>1 DEF IInv, Refused, SizesKept
<1>9. MeasureInv'
  <2>1. SUFFICES ASSUME phase' = "sampling" PROVE ChunkInv' /\ RecordInv'
    BY DEF MeasureInv
  <2>2. ChunkInv /\ RecordInv
    BY <2>1 DEF IInv, MeasureInv
  <2>3. \A a, o : Sound(a, o)' = Sound(a, o)
    BY <1>1 DEF Sound, SizesKept
  <2>4. ChunkInv'
    BY <1>1, <2>2, <2>3 DEF ChunkInv, SizesKept
  <2>5. \A s, r : Pending(s, r)' = Pending(s, r)
    BY DEF Pending, Ahead, Within
  <2>6. RecordInv'
    <3>1. /\ DOMAIN snapshots'.rows = 0 .. Sampling'.nsettings * state'.n - 1
          /\ DOMAIN snapshots'.outcomes = 0 .. Outcomes(state.n)' - 1
      BY <1>1, <2>2 DEF RecordInv, SizesKept
    <3>2. ASSUME NEW s \in Settings', NEW k \in 1 .. state'.n, ~ Pending(s, -1)'
          PROVE  RowAt(s, k)' = DrawnRows(state.n, s)'[k]
      BY <1>2, <1>3, <2>2, <2>5, <3>2 DEF RecordInv
    <3>3. ASSUME NEW s \in Settings', NEW r \in Repeats', NEW k \in 1 .. state'.n, ~ Pending(s, r)'
          PROVE  ~ IsFailed(Own(s, r)') /\ OutcomeAt(s, r, k)' = Own(s, r)'.bits[k]
      BY <1>2, <1>4, <2>2, <2>5, <3>3 DEF RecordInv
    <3> QED
      BY <3>1, <3>2, <3>3 DEF RecordInv
  <2> QED
    BY <2>4, <2>6
<1>10. PublishedInv'
  <2>1. SUFFICES ASSUME phase' \in {"sampled", "answered"}, Source'.kind # "measured"
                 PROVE  /\ state'.n \in Nat
                        /\ snapshots' = Recorded(state.n, snapshots.rows, snapshots.outcomes)'
                        /\ \A s \in Settings', k \in 1 .. state'.n :
                             /\ RowAt(s, k)' = DrawnRows(state.n, s)'[k]
                             /\ \A r \in Repeats' : ~ IsFailed(Own(s, r)') /\ OutcomeAt(s, r, k)' = Own(s, r)'.bits[k]
    BY DEF PublishedInv
  <2>2. phase \in {"sampled", "answered"} /\ Source.kind # "measured"
    BY <1>1, <2>1 DEF SizesKept
  <2>3. /\ state.n \in Nat
        /\ snapshots = Recorded(state.n, snapshots.rows, snapshots.outcomes)
        /\ \A s \in Settings, k \in 1 .. state.n :
             /\ RowAt(s, k) = DrawnRows(state.n, s)[k]
             /\ \A r \in Repeats : ~ IsFailed(Own(s, r)) /\ OutcomeAt(s, r, k) = Own(s, r).bits[k]
    BY <2>2 DEF IInv, PublishedInv
  <2>4. ASSUME NEW s \in Settings', NEW k \in 1 .. state'.n
        PROVE  /\ RowAt(s, k)' = DrawnRows(state.n, s)'[k]
               /\ \A r \in Repeats' : ~ IsFailed(Own(s, r)') /\ OutcomeAt(s, r, k)' = Own(s, r)'.bits[k]
    BY <1>2, <1>3, <1>4, <2>3
  <2> QED
    BY <1>5, <2>3, <2>4
<1> QED
  BY <1>6, <1>7, <1>8, <1>9, <1>10 DEF IInv

\* The invariant is inductive.
THEOREM Invariant == Spec => []IInv
<1>1. Init => IInv
  BY Initially
<1>2. IInv /\ [Next]_vars => IInv'
  <2> SUFFICES ASSUME IInv, [Next]_vars PROVE IInv'
    OBVIOUS
  <2>1. CASE Sourcing
    BY <2>1, SourcingStep
  <2>2. CASE StartSampling
    BY <2>2, StartStep
  <2>3. CASE FinishSampling
    BY <2>3, FinishStep
  <2>4. CASE Ask
    <3>1. /\ UNCHANGED <<call, state, plan, open, worker, snapshots>>
          /\ phase = "sampled" /\ phase' = "answered"
      BY <2>4 DEF Ask
    <3> QED
      BY <3>1, QuietStep
  <2>5. ASSUME NEW w \in 1 .. Threads, TakeChunk(w) PROVE IInv'
    BY <2>5, TakeStep
  <2>6. ASSUME NEW w \in 1 .. Threads, DrawRows(w) PROVE IInv'
    BY <2>6, DrawStep
  <2>7. ASSUME NEW w \in 1 .. Threads, MeasureRepeat(w) PROVE IInv'
    BY <2>7, MeasureStep, MeasureFails
  <2>8. CASE UNCHANGED vars
    <3>1. /\ UNCHANGED <<call, state, plan, open, worker, snapshots>>
          /\ phase' = phase /\ answer' = answer
      BY <2>8 DEF vars
    <3> QED
      BY <3>1, QuietStep
  <2> QED
    BY <2>1, <2>2, <2>3, <2>4, <2>5, <2>6, <2>7, <2>8 DEF Next, Sourcing
<1> QED
  BY <1>1, <1>2, PTL DEF Spec

-----------------------------------------------------------------------------
(* Results                                                                 *)

\* The workers' scratch fits the limit beside the arrays, and a call that is refused for
\* the limit could not have been made with one worker either
\* (bounded_shadow_worker_count).
THEOREM Scratch == Spec => []ScratchWithinLimit
<1>1. IInv => ScratchWithinLimit
  <2> SUFFICES ASSUME IInv PROVE ScratchWithinLimit
    OBVIOUS
  <2> DEFINE n == state.n
             Busy == {w \in DOMAIN worker : worker[w] # Idle}
             busy == Cardinality(Busy)
             retained == RetainedBytes(n)
             bytes == WorkerBytes(n)
             limit == Sampling.limit
  <2>1. ASSUME phase = "sampling"
        PROVE  retained + (IF IsDense \/ busy > 1 THEN busy * bytes ELSE 0) <= limit
    <3> DEFINE count == WorkerCount(n)
    <3>1. /\ call \in Calls /\ n \in Nat /\ worker \in [1 .. Threads -> WorkerStates]
          /\ Planned(n)
      BY <2>1 DEF IInv, CallInv, PlanInv, HasState
    <3>2. retained \in Nat /\ bytes \in Nat /\ limit \in Nat
      BY <3>1, Sizes
    <3>3. /\ count \in Nat /\ count >= 1
          /\ count > 1 => retained + bytes * count <= limit
      BY <3>1, Workers DEF Planned
    <3>4. retained + (IF IsDense THEN bytes * count ELSE 0) <= limit
      BY <3>1 DEF Planned, Requested
    <3>5. Busy \subseteq 1 .. count
      <4>1. ASSUME NEW w \in Busy PROVE w \in 1 .. count
        <5>1. w \in 1 .. Threads /\ w <= count
          BY <3>1 DEF Planned
        <5> HIDE DEF count
        <5> QED
          BY <3>3, <5>1, ShadowAssumption
      <4> QED
        BY <4>1
    <3>6. busy \in Nat /\ busy <= count
      <4> HIDE DEF Busy, count
      <4>1. IsFiniteSet(1 .. count) /\ Cardinality(1 .. count) = count
        BY <3>3, FS_Interval
      <4>2. IsFiniteSet(Busy) /\ Cardinality(Busy) <= Cardinality(1 .. count)
        BY <3>5, <4>1, FS_Subset
      <4> QED
        BY <4>1, <4>2, FS_CardinalityType
    <3> HIDE DEF busy, count, retained, bytes, limit
    <3>7. busy * bytes <= bytes * count /\ bytes * count \in Nat /\ busy * bytes \in Nat
      <4>1. (count - busy) * bytes >= 0
        BY <3>2, <3>3, <3>6
      <4> QED
        BY <3>2, <3>3, <3>6, <4>1
    <3>8. CASE IsDense
      BY <3>2, <3>4, <3>7, <3>8
    <3>9. CASE ~ IsDense /\ busy > 1
      BY <3>2, <3>3, <3>6, <3>7, <3>9
    <3>10. CASE ~ IsDense /\ ~ (busy > 1)
      BY <3>2, <3>4, <3>10
    <3> QED
      BY <3>8, <3>9, <3>10
  <2>2. Refused
    BY DEF IInv
  <2> QED
    BY <2>1, <2>2 DEF ScratchWithinLimit, Refused
<1> QED
  BY <1>1, Invariant, PTL

\* Neither the pool nor the chunks can be seen in what a call records.
THEOREM Chunking == Spec => []SettingsAreTheirOwn
<1>1. IInv => SettingsAreTheirOwn
  <2> SUFFICES ASSUME IInv, phase \in {"sampled", "answered"}, Source.kind # "measured",
                      NEW s \in Settings, NEW k \in 1 .. state.n
               PROVE  /\ RowsAt(snapshots, s)[k] = DrawnRows(state.n, s)[k]
                      /\ \A r \in Repeats :
                           LET own == Measurement(state.n, s, r, RowsAt(snapshots, s)) IN
                           ~ IsFailed(own) /\ BitsAt(snapshots, s, r)[k] = own.bits[k]
    BY DEF SettingsAreTheirOwn
  <2>1. /\ snapshots = Recorded(state.n, snapshots.rows, snapshots.outcomes)
        /\ \A i \in 1 .. state.n : RowAt(s, i) = DrawnRows(state.n, s)[i]
        /\ \A i \in 1 .. state.n : \A r \in Repeats : ~ IsFailed(Own(s, r)) /\ OutcomeAt(s, r, i) = Own(s, r).bits[i]
    BY DEF IInv, PublishedInv
  <2>2. snapshots.nqubits = state.n /\ snapshots.repeats = Sampling.repeats
    BY <2>1 DEF Recorded
  <2>3. RowsAt(snapshots, s) = OwnRows(s)
    <3>1. \A i \in 1 .. state.n : snapshots.rows[s * state.n + i - 1] = DrawnRows(state.n, s)[i]
      BY <2>1 DEF RowAt
    <3> QED
      BY <2>2, <3>1 DEF RowsAt, OwnRows
  <2>4. ASSUME NEW r \in Repeats
        PROVE  LET own == Measurement(state.n, s, r, RowsAt(snapshots, s)) IN
               ~ IsFailed(own) /\ BitsAt(snapshots, s, r)[k] = own.bits[k]
    <3>1. BitsAt(snapshots, s, r)[k] = OutcomeAt(s, r, k)
      BY <2>2 DEF BitsAt, OutcomeAt
    <3>2. LET own == Measurement(state.n, s, r, OwnRows(s)) IN
          ~ IsFailed(own) /\ OutcomeAt(s, r, k) = own.bits[k]
      BY <2>1 DEF Own
    <3> QED
      BY <2>3, <3>1, <3>2
  <2>5. RowsAt(snapshots, s)[k] = DrawnRows(state.n, s)[k]
    BY <2>3 DEF OwnRows
  <2> QED
    BY <2>4, <2>5
<1> QED
  BY <1>1, Invariant, PTL

=============================================================================
