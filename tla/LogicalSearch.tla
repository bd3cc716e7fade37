--------------------------- MODULE LogicalSearch ---------------------------
(***************************************************************************)
(* search_logical_witness as it runs: several searches of one code at once *)
(* (Python releases the GIL), sharing its OnceLock caches, each cutting its*)
(* trials into chunks, every chunk into batches, every batch into ranges   *)
(* that rayon workers take in any order.                                   *)
(*                                                                         *)
(* logical_search.rs of crates/tencir-pauli-core.  A trial is one step: it *)
(* reads only the prepared basis and its own random stream.                *)
(***************************************************************************)
EXTENDS LogicalWitness, FiniteSets

CONSTANTS
  Searches,         \* calls of search_logical_witness on one code
  Requests,         \* the arguments they may be called with
  ThreadCount,      \* rayon::current_num_threads()
  ChunkSize,        \* TRIAL_CHUNK_SIZE
  RangesPerWorker,  \* the 4 of run_trial_batch's subchunk
  PreparedBytes,    \* per cache: estimated_bytes of what it holds
  OutputBytes,      \* the result's buffers
  WorkerBytes       \* per direction: one worker's scratch

Sectors == {"auto", "x", "z", "general"}
Caches == {"general", "analysis", "x", "z"}

ASSUME RequestsAssumption ==
  Requests \subseteq
    [sector : Sectors, trials : 0 .. MaxTrials, threshold : Nat, bytes : Nat]

ASSUME SearchesAssumption ==
  Searches \cap {"empty", "ok", "InvalidSector"} = {}

ASSUME SizesAssumption ==
  /\ {ThreadCount, ChunkSize, RangesPerWorker} \subseteq Nat \ {0}
  /\ OutputBytes \in Nat
  /\ PreparedBytes \in [Caches -> Nat]
  /\ WorkerBytes \in [Directions -> Nat \ {0}]

VARIABLES
  css,        \* whether the code's stabilizer row space is CSS
  cache,      \* per OnceLock: "empty", "ok", "InvalidSector", or the search filling it
  builds,     \* per OnceLock: how often its closure ran
  phase,      \* where each search is
  request,    \* its arguments
  problems,   \* its directions, once prepared
  best,       \* initial_best: the incumbent
  trialsRun,
  early,      \* early_stopped
  workers,    \* worker_count
  batch,      \* which of the chunk's batches is running
  work,       \* per range of that batch: its state, the trials left, its local best
  pending,    \* the chunk's candidate, as far as ranges are merged
  outcome     \* how the call ended

setup == <<css, cache, builds>>
vars == <<css, cache, builds, phase, request, problems, best, trialsRun, early, workers,
          batch, work, pending, outcome>>

---------------------------------------------------------------------------
(* Pure parts                                                              *)

\* The caches a search fills or reads, in order; Auto goes on after the analysis.
Needs(sector) ==
  CASE sector = "general" -> <<"general">>
    [] sector = "x"       -> <<"analysis", "x">>
    [] sector = "z"       -> <<"analysis", "z">>
    [] sector = "auto"    -> <<"analysis", "x", "z">>

\* What the closure of a OnceLock returns; a direction is asked for only after
\* the analysis succeeded.
Prepared(name) == IF name = "analysis" /\ ~css THEN "InvalidSector" ELSE "ok"

Settled == {"ok", "InvalidSector"}

RetainedBytes(s) ==
  (CASE problems[s] = <<"x", "z">> -> PreparedBytes["x"] + PreparedBytes["z"]
     [] OTHER -> PreparedBytes[problems[s][1]])
  + (IF problems[s] = <<"general">> THEN 0 ELSE PreparedBytes["analysis"])

BaseBytes(s) == RetainedBytes(s) + OutputBytes

Smaller(a, b) == IF a <= b THEN a ELSE b
Larger(a, b) == IF a >= b THEN a ELSE b
CeilDiv(a, b) == (a + b - 1) \div b

\* A worker serves the X and the Z problem in turn.
WorkerBytesOf(s) ==
  IF problems[s] = <<"x", "z">> THEN Larger(WorkerBytes["x"], WorkerBytes["z"])
  ELSE WorkerBytes[problems[s][1]]

\* Faulty: as many workers as there are threads.
WorkerCountUnbounded(s) == Smaller(ThreadCount, request[s].trials)

WorkerCount(s) ==
  Smaller(Smaller(ThreadCount, request[s].trials),
          Larger(1, (request[s].bytes - BaseBytes(s)) \div WorkerBytesOf(s)))

ChunkEnd(s) == trialsRun[s] + Smaller(ChunkSize, request[s].trials - trialsRun[s])

\* The indices of a chunk that batch k of the problems p runs.
Batch(p, first, end, k) == {i \in first .. end - 1 : DirectionOf(p, i) = p[k]}

Indices(s, k) == Batch(problems[s], trialsRun[s], ChunkEnd(s), k)

\* Which range of a batch an index falls in: the batch is cut in index order.
RangeOf(indices, count, i) ==
  LET size == IF count <= 1 THEN Larger(1, Cardinality(indices))
              ELSE Larger(1, CeilDiv(Cardinality(indices), RangesPerWorker * count))
  IN Cardinality({j \in indices : j < i}) \div size

Ranges(indices, count) == {RangeOf(indices, count, i) : i \in indices}
Members(indices, count, r) == {i \in indices : RangeOf(indices, count, i) = r}

\* Faulty: a last range shorter than the others is dropped.
NewWorkExact(indices, count) ==
  LET full == {r \in Ranges(indices, count) :
                 Cardinality(Members(indices, count, r))
                   = Cardinality(Members(indices, count, 0))}
  IN [r \in full |-> [state |-> "waiting", best |-> NoCandidate,
                      todo |-> Members(indices, count, r)]]

\* The ranges of a fresh batch, none of them taken.
NewWork(indices, count) ==
  [r \in Ranges(indices, count) |->
     [state |-> "waiting", best |-> NoCandidate, todo |-> Members(indices, count, r)]]

NoWork == [r \in {} |-> [state |-> "done", best |-> NoCandidate, todo |-> {}]]

Running(s) == {r \in DOMAIN work[s] : work[s][r].state = "running"}

\* Ranges of a search with fewer workers than threads run in a pool of its own.
OnGlobalPool(s) == workers[s] = ThreadCount /\ workers[s] > 1

BatchDone(s) == \A r \in DOMAIN work[s] : work[s][r].state \in {"done", "merged"}
BatchMerged(s) == \A r \in DOMAIN work[s] : work[s][r].state = "merged"

---------------------------------------------------------------------------
NoRequest == [sector |-> "auto", trials |-> 0, threshold |-> 0, bytes |-> 0]

Init ==
  /\ css \in BOOLEAN
  /\ cache = [n \in Caches |-> "empty"]
  /\ builds = [n \in Caches |-> 0]
  /\ phase = [s \in Searches |-> "idle"]
  /\ request = [s \in Searches |-> NoRequest]
  /\ problems = [s \in Searches |-> <<>>]
  /\ best = [s \in Searches |-> NoCandidate]
  /\ trialsRun = [s \in Searches |-> 0]
  /\ early = [s \in Searches |-> FALSE]
  /\ workers = [s \in Searches |-> 0]
  /\ batch = [s \in Searches |-> 0]
  /\ work = [s \in Searches |-> NoWork]
  /\ pending = [s \in Searches |-> NoCandidate]
  /\ outcome = [s \in Searches |-> "none"]

\* The call starts; invalid arguments never get here.
Call(s, r) ==
  /\ phase[s] = "idle"
  /\ r.trials > 0
  /\ request' = [request EXCEPT ![s] = r]
  /\ phase' = [phase EXCEPT ![s] = Head(Needs(r.sector))]
  /\ UNCHANGED <<setup, problems, best, trialsRun, early, workers, batch, work, pending,
                 outcome>>

\* get_or_init of the lock the search has come to: the first to arrive runs the
\* closure, and the others wait.
StartBuild(s) ==
  /\ phase[s] \in Caches /\ cache[phase[s]] = "empty"
  /\ cache' = [cache EXCEPT ![phase[s]] = s]
  /\ builds' = [builds EXCEPT ![phase[s]] = @ + 1]
  /\ UNCHANGED <<css, phase, request, problems, best, trialsRun, early, workers, batch,
                 work, pending, outcome>>

\* Faulty: an error leaves the lock to the search that failed to fill it.
FinishBuildIfOk(s) ==
  /\ phase[s] \in Caches /\ cache[phase[s]] = s
  /\ Prepared(phase[s]) = "ok"
  /\ cache' = [cache EXCEPT ![phase[s]] = "ok"]
  /\ UNCHANGED <<css, builds, phase, request, problems, best, trialsRun, early, workers,
                 batch, work, pending, outcome>>

\* Faulty: an error is returned to the caller and not retained.
FinishBuildForgetsError(s) ==
  /\ phase[s] \in Caches /\ cache[phase[s]] \in {s, "InvalidSector"}
  /\ cache' = [cache EXCEPT ![phase[s]] =
       IF cache[phase[s]] = s THEN Prepared(phase[s]) ELSE "empty"]
  /\ UNCHANGED <<css, builds, phase, request, problems, best, trialsRun, early, workers,
                 batch, work, pending, outcome>>

FinishBuild(s) ==
  /\ phase[s] \in Caches /\ cache[phase[s]] = s
  /\ cache' = [cache EXCEPT ![phase[s]] = Prepared(phase[s])]
  /\ UNCHANGED <<css, builds, phase, request, problems, best, trialsRun, early, workers,
                 batch, work, pending, outcome>>

\* The next lock after this one, or "budget" after the last.
NextPhase(s) ==
  IF phase[s] = "analysis" THEN (IF request[s].sector = "z" THEN "z" ELSE "x")
  ELSE IF phase[s] = "x" /\ request[s].sector = "auto" THEN "z" ELSE "budget"

\* A settled lock is read.  Auto falls back to the general problem on a code that
\* is not CSS; the other sectors report the retained error.
UsePrepared(s) ==
  /\ phase[s] \in Caches /\ cache[phase[s]] \in Settled
  /\ IF cache[phase[s]] = "ok"
     THEN /\ phase' = [phase EXCEPT ![s] = NextPhase(s)]
          /\ problems' = [problems EXCEPT ![s] =
               IF phase[s] = "analysis" THEN @ ELSE Append(@, phase[s])]
          /\ UNCHANGED outcome
     ELSE IF request[s].sector = "auto"
     THEN phase' = [phase EXCEPT ![s] = "general"] /\ UNCHANGED <<problems, outcome>>
     ELSE /\ phase' = [phase EXCEPT ![s] = "failed"]
          /\ outcome' = [outcome EXCEPT ![s] = "InvalidSector"]
          /\ UNCHANGED problems
  /\ UNCHANGED <<setup, request, best, trialsRun, early, workers, batch, work, pending>>

\* enforce_search_budget
EnforceBudget(s) ==
  /\ phase[s] = "budget"
  /\ IF BaseBytes(s) + WorkerBytesOf(s) > request[s].bytes
     THEN /\ phase' = [phase EXCEPT ![s] = "failed"]
          /\ outcome' = [outcome EXCEPT ![s] = "MemoryLimit"]
          /\ UNCHANGED workers
     ELSE /\ phase' = [phase EXCEPT ![s] = "scan"]
          /\ workers' = [workers EXCEPT ![s] = WorkerCount(s)]
          /\ UNCHANGED outcome
  /\ UNCHANGED <<setup, request, problems, best, trialsRun, early, batch, work, pending>>

\* deterministic_initialization of every problem, and the first threshold check.
Scan(s) ==
  /\ phase[s] = "scan"
  /\ \E c \in Candidates :
       /\ IsBest(c, Initial(problems[s], request[s].threshold))
       /\ best' = [best EXCEPT ![s] = c]
       /\ early' = [early EXCEPT ![s] = Below(c, request[s].threshold)]
  /\ phase' = [phase EXCEPT ![s] = "chunk"]
  /\ UNCHANGED <<setup, request, problems, trialsRun, workers, batch, work, pending, outcome>>

---------------------------------------------------------------------------
(* The trial loop                                                          *)

BeginBatch(s, k) ==
  /\ batch' = [batch EXCEPT ![s] = k]
  /\ work' = [work EXCEPT ![s] = NewWork(Indices(s, k), workers[s])]

\* Faulty: the threshold does not end the loop.
StartChunkRegardless(s) ==
  /\ phase[s] = "chunk" /\ trialsRun[s] < request[s].trials
  /\ BeginBatch(s, 1)
  /\ phase' = [phase EXCEPT ![s] = "trials"]
  /\ UNCHANGED <<setup, request, problems, best, trialsRun, early, workers, pending, outcome>>

StartChunk(s) ==
  /\ phase[s] = "chunk" /\ ~early[s] /\ trialsRun[s] < request[s].trials
  /\ BeginBatch(s, 1)
  /\ phase' = [phase EXCEPT ![s] = "trials"]
  /\ UNCHANGED <<setup, request, problems, best, trialsRun, early, workers, pending, outcome>>

\* A worker takes a range that nobody took; the inline loop is a single range.
Claim(s, r) ==
  /\ phase[s] = "trials" /\ r \in DOMAIN work[s] /\ work[s][r].state = "waiting"
  /\ Cardinality(Running(s)) < workers[s]
  /\ OnGlobalPool(s) =>
       ThreadCount > Cardinality(UNION {{t} \X Running(t) :
                                          t \in {t \in Searches : OnGlobalPool(t)}})
  /\ work' = [work EXCEPT ![s][r].state = "running"]
  /\ UNCHANGED <<setup, phase, request, problems, best, trialsRun, early, workers, batch,
                 pending, outcome>>

\* run_indices: the next trial of a range, folded into the worker's local best.
RunTrial(s, r) ==
  /\ phase[s] = "trials" /\ r \in Running(s)
  /\ \E i \in work[s][r].todo :
       /\ \A j \in work[s][r].todo : i <= j
       /\ work' = [work EXCEPT ![s][r] =
            [state |-> IF work[s][r].todo = {i} THEN "done" ELSE "running",
             best  |-> Merge(@.best, Trial[problems[s][batch[s]]][i]),
             todo  |-> @.todo \ {i}]]
  /\ UNCHANGED <<setup, phase, request, problems, best, trialsRun, early, workers, batch,
                 pending, outcome>>

\* Once the last range is in, the local bests are merged in index order.
MergeRange(s, r) ==
  /\ phase[s] = "trials" /\ BatchDone(s)
  /\ r \in DOMAIN work[s] /\ work[s][r].state = "done"
  /\ \A q \in DOMAIN work[s] : q < r => work[s][q].state = "merged"
  /\ pending' = [pending EXCEPT ![s] = Merge(@, work[s][r].best)]
  /\ work' = [work EXCEPT ![s][r].state = "merged"]
  /\ UNCHANGED <<setup, phase, request, problems, best, trialsRun, early, workers, batch,
                 outcome>>

\* Faulty: the Z batch starts from nothing.
NextBatchForgets(s) ==
  /\ phase[s] = "trials" /\ BatchMerged(s) /\ batch[s] < Len(problems[s])
  /\ BeginBatch(s, batch[s] + 1)
  /\ pending' = [pending EXCEPT ![s] = NoCandidate]
  /\ UNCHANGED <<setup, phase, request, problems, best, trialsRun, early, workers, outcome>>

\* The X batch of a two-problem chunk is merged; the Z batch follows.
NextBatch(s) ==
  /\ phase[s] = "trials" /\ BatchMerged(s) /\ batch[s] < Len(problems[s])
  /\ BeginBatch(s, batch[s] + 1)
  /\ UNCHANGED <<setup, phase, request, problems, best, trialsRun, early, workers, pending,
                 outcome>>

\* Faulty: a chunk's candidate replaces the incumbent.
EndChunkReplaces(s) ==
  /\ phase[s] = "trials" /\ BatchMerged(s) /\ batch[s] = Len(problems[s])
  /\ best' = [best EXCEPT ![s] = IF pending[s] = NoCandidate THEN @ ELSE pending[s]]
  /\ early' = [early EXCEPT ![s] = Below(pending[s], request[s].threshold)]
  /\ trialsRun' = [trialsRun EXCEPT ![s] = ChunkEnd(s)]
  /\ phase' = [phase EXCEPT ![s] = "chunk"]
  /\ batch' = [batch EXCEPT ![s] = 0]
  /\ work' = [work EXCEPT ![s] = NoWork]
  /\ pending' = [pending EXCEPT ![s] = NoCandidate]
  /\ UNCHANGED <<setup, request, problems, workers, outcome>>

\* The chunk is in: update_best, and the threshold check between chunks.
EndChunk(s) ==
  /\ phase[s] = "trials" /\ BatchMerged(s) /\ batch[s] = Len(problems[s])
  /\ best' = [best EXCEPT ![s] = Merge(@, pending[s])]
  /\ early' = [early EXCEPT ![s] = Below(Merge(best[s], pending[s]), request[s].threshold)]
  /\ trialsRun' = [trialsRun EXCEPT ![s] = ChunkEnd(s)]
  /\ phase' = [phase EXCEPT ![s] = "chunk"]
  /\ batch' = [batch EXCEPT ![s] = 0]
  /\ work' = [work EXCEPT ![s] = NoWork]
  /\ pending' = [pending EXCEPT ![s] = NoCandidate]
  /\ UNCHANGED <<setup, request, problems, workers, outcome>>

Deliver(s) ==
  /\ phase[s] = "chunk" /\ (early[s] \/ trialsRun[s] >= request[s].trials)
  /\ phase' = [phase EXCEPT ![s] = "done"]
  /\ outcome' = [outcome EXCEPT ![s] = "ok"]
  /\ UNCHANGED <<setup, request, problems, best, trialsRun, early, workers, batch, work,
                 pending>>

---------------------------------------------------------------------------
Step(s) ==
  \/ StartBuild(s) \/ FinishBuild(s) \/ UsePrepared(s) \/ EnforceBudget(s) \/ Scan(s)
  \/ StartChunk(s) \/ NextBatch(s) \/ EndChunk(s) \/ Deliver(s)
  \/ \E r \in DOMAIN work[s] : Claim(s, r) \/ RunTrial(s, r) \/ MergeRange(s, r)

Ended == {"failed", "done"}

Finished == (\A s \in Searches : phase[s] \in Ended) /\ UNCHANGED vars

Next ==
  \/ \E s \in Searches : Step(s) \/ \E r \in Requests : Call(s, r)
  \/ Finished

Spec == Init /\ [][Next]_vars

\* Every search's own thread and the pool's workers keep being scheduled.
FairSpec == Spec /\ \A s \in Searches : WF_vars(Step(s))

---------------------------------------------------------------------------
(* Properties                                                              *)

Phases == Caches \cup Ended \cup {"idle", "budget", "scan", "chunk", "trials"}
Problems == {<<>>, <<"general">>, <<"x">>, <<"z">>, <<"x", "z">>}
RangeRecord == [state : {"waiting", "running", "done", "merged"},
                best : Candidates \cup {NoCandidate}, todo : SUBSET Nat]

\* The caches' and the searches' variables have their types; a search never
\* counts more trials than it was asked for.
TypeOK ==
  /\ css \in BOOLEAN
  /\ cache \in [Caches -> Settled \cup {"empty"} \cup Searches]
  /\ builds \in [Caches -> Nat]
  /\ phase \in [Searches -> Phases]
  /\ request \in [Searches -> Requests \cup {NoRequest}]
  /\ problems \in [Searches -> Problems]
  /\ best \in [Searches -> Candidates \cup {NoCandidate}]
  /\ pending \in [Searches -> Candidates \cup {NoCandidate}]
  /\ trialsRun \in [Searches -> Nat] /\ workers \in [Searches -> Nat]
  /\ \A s \in Searches : trialsRun[s] <= request[s].trials
  /\ early \in [Searches -> BOOLEAN]
  /\ batch \in [Searches -> 0 .. 2]
  /\ work = [s \in Searches |-> work[s]]
  /\ \A s \in Searches : work[s] \in [DOMAIN work[s] -> RangeRecord]
  /\ outcome \in [Searches -> {"none", "ok", "InvalidSector", "MemoryLimit"}]

\* Each closure runs at most once however many searches ask at the same time.
BuiltOnce == \A n \in Caches : builds[n] <= 1

\* What a OnceLock holds, an error included, is what every later search reads.
CachesAreKept == [][\A n \in Caches : cache[n] \in Settled => cache'[n] = cache[n]]_vars

\* Between chunks the incumbent is the best of the scan and of exactly the
\* trials counted, in whatever order and by however many workers they ran.
IncumbentIsBest ==
  \A s \in Searches : phase[s] \in {"chunk", "trials", "done"} =>
    IsBest(best[s], Examined(problems[s], request[s].threshold, trialsRun[s]))

SameGoal(s, t) ==
  /\ problems[s] = problems[t]
  /\ request[s].threshold = request[t].threshold

\* A seeded search replays: two finished searches of the same goal agree although
\* their memory limits gave them different numbers of workers.
ReplayAgrees ==
  \A s, t \in Searches :
    (/\ phase[s] = "done" /\ phase[t] = "done" /\ SameGoal(s, t)
     /\ request[s].trials = request[t].trials)
    => <<best[s], trialsRun[s], early[s]>> = <<best[t], trialsRun[t], early[t]>>

\* Extending a seeded search never worsens its witness.
PrefixMonotone ==
  \A s, t \in Searches :
    (/\ phase[s] = "done" /\ phase[t] = "done" /\ SameGoal(s, t)
     /\ trialsRun[s] <= trialsRun[t])
    => ~Better(best[s], best[t])

\* A search stops for its threshold exactly when the incumbent is strictly below
\* it, at the first chunk boundary where it is, and otherwise runs every trial.
StopsAtFirstBoundary ==
  \A s \in Searches : phase[s] = "done" =>
    LET threshold == request[s].threshold IN
    /\ early[s] <=> Below(best[s], threshold)
    /\ ~early[s] => trialsRun[s] = request[s].trials
    /\ trialsRun[s] > 0 =>
         LET last == ((trialsRun[s] - 1) \div ChunkSize) * ChunkSize IN
         \A c \in Examined(problems[s], threshold, last) : ~Below(c, threshold)

\* Workers alive at the same time fit the caller's max_bytes together with what
\* the search retains, and the shared pool is never oversubscribed.
WorkersWithinBudget ==
  /\ \A s \in Searches : phase[s] \in {"chunk", "trials"} =>
       BaseBytes(s) + Cardinality(Running(s)) * WorkerBytesOf(s) <= request[s].bytes
  /\ Cardinality(UNION {{s} \X Running(s) : s \in {s \in Searches : OnGlobalPool(s)}})
       <= ThreadCount

\* Every call returns or fails, whoever fills the caches it waits for.
SearchesEnd == \A s \in Searches : phase[s] # "idle" ~> phase[s] \in Ended

---------------------------------------------------------------------------
Status(s) ==
  CASE phase[s] \in {"idle", "failed", "done"} -> phase[s]
    [] phase[s] \in {"chunk", "trials"}        -> "searching"
    [] OTHER                                   -> "preparing"

Goal(s) ==
  IF Status(s) \in {"searching", "done"}
  THEN [problems |-> problems[s], trials |-> request[s].trials,
        threshold |-> request[s].threshold]
  ELSE [problems |-> <<>>, trials |-> 0, threshold |-> 0]

Anytime == INSTANCE AnytimeSearch WITH
  status    <- [s \in Searches |-> Status(s)],
  goal      <- [s \in Searches |-> Goal(s)],
  incumbent <- best,
  examined  <- trialsRun

\* The parallel, chunked search implements the anytime search it promises.
ImplementsAnytime == Anytime!ASpec
=============================================================================
