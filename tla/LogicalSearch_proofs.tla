------------------------ MODULE LogicalSearch_proofs ------------------------
(***************************************************************************)
(* The search's promises for any number of searches, workers, trials and   *)
(* any outcome of every trial.                                             *)
(*                                                                         *)
(* That the incumbent is the best of a prefix is not inductive: between    *)
(* two chunk boundaries the prefix's next part is spread over the ranges'  *)
(* local bests and the chunk's candidate.  BatchInv says where every trial *)
(* of the chunk is: each local best is the best of the indices its range   *)
(* has done, and pending is the best of the earlier batches and the merged *)
(* ranges.                                                                 *)
(***************************************************************************)
EXTENDS LogicalSearch, SequenceTheorems, FiniteSetTheorems, TLAPS

---------------------------------------------------------------------------
(* The candidate order and the merge that picks the best of two parts: the *)
(* facts that make a search's result independent of how its trials are cut *)
(* into ranges and of the order in which the ranges end.                   *)

AllProblems == {<<"general">>, <<"x">>, <<"z">>, <<"x", "z">>}
TrialIndices == 0 .. MaxTrials - 1

LEMMA CandidateFields ==
  ASSUME NEW c \in Candidates
  PROVE  c.weight \in Nat /\ c.code \in Nat /\ c # NoCandidate
  BY CandidatesAssumption

\* compare_pauli_words with the weight in front is a strict total order.
LEMMA BetterIsTotal ==
  ASSUME NEW a \in Candidates, NEW b \in Candidates
  PROVE  Better(a, b) \/ Better(b, a) \/ a = b
<1>1. /\ a \in [weight : Nat, code : Nat]
      /\ b \in [weight : Nat, code : Nat]
  BY CandidatesAssumption
<1>2. a.weight = b.weight /\ a.code = b.code => a = b
  BY <1>1
<1> QED
  BY <1>1, <1>2 DEF Better

LEMMA BetterIsStrict ==
  ASSUME NEW a \in Candidates, NEW b \in Candidates, NEW c \in Candidates
  PROVE  /\ ~(Better(a, b) /\ Better(b, a))
         /\ Better(a, b) /\ ~Better(c, b) => Better(a, c)
         /\ ~Better(a, b) /\ ~Better(b, c) => ~Better(a, c)
<1>1. /\ a.weight \in Nat /\ a.code \in Nat /\ b.weight \in Nat /\ b.code \in Nat
      /\ c.weight \in Nat /\ c.code \in Nat
  BY CandidateFields
<1> QED
  BY <1>1 DEF Better

LEMMA BestType ==
  ASSUME NEW S \in SUBSET Candidates, NEW a, IsBest(a, S)
  PROVE  a \in Candidates \cup {NoCandidate} /\ (a = NoCandidate <=> S = {})
  BY CandidatesAssumption DEF IsBest

\* At most one candidate is the best of a set: ties of weight are broken by the
\* Pauli string.
LEMMA BestIsUnique ==
  ASSUME NEW S \in SUBSET Candidates, NEW a, NEW b, IsBest(a, S), IsBest(b, S)
  PROVE  a = b
<1>1. CASE S = {}
  BY <1>1 DEF IsBest
<1>2. CASE S # {}
  <2>1. a \in S /\ b \in S /\ ~Better(b, a) /\ ~Better(a, b)
    BY <1>2 DEF IsBest
  <2> QED
    BY <2>1, BetterIsTotal
<1> QED
  BY <1>1, <1>2

\* merge_candidates of the bests of two parts is the best of the whole.
LEMMA MergeIsBest ==
  ASSUME NEW S \in SUBSET Candidates, NEW T \in SUBSET Candidates, NEW a, NEW b,
         IsBest(a, S), IsBest(b, T)
  PROVE  IsBest(Merge(a, b), S \cup T)
<1>1. CASE S = {} \/ T = {}
  <2>1. CASE T = {}
    BY <2>1 DEF IsBest, Merge
  <2>2. CASE S = {} /\ T # {}
    <3>1. a = NoCandidate /\ b \in Candidates /\ b # NoCandidate
      BY <2>2, CandidateFields DEF IsBest
    <3> QED
      BY <2>2, <3>1 DEF IsBest, Merge
  <2> QED
    BY <1>1, <2>1, <2>2
<1>2. CASE S # {} /\ T # {}
  <2>1. /\ a \in S /\ \A c \in S : ~Better(c, a)
        /\ b \in T /\ \A c \in T : ~Better(c, b)
    BY <1>2 DEF IsBest
  <2>2. a # NoCandidate /\ b # NoCandidate
    BY <2>1, CandidateFields
  <2>3. Merge(a, b) \in S \cup T
    BY <2>1, <2>2 DEF Merge
  <2>4. ASSUME NEW c \in S \cup T PROVE ~Better(c, Merge(a, b))
    <3>1. CASE Better(b, a)
      <4>1. Merge(a, b) = b
        BY <3>1, <2>2 DEF Merge
      <4>2. c \in S => ~Better(c, b)
        BY <2>1, <3>1, BetterIsStrict
      <4> QED
        BY <4>1, <4>2, <2>1
    <3>2. CASE ~Better(b, a)
      <4>1. Merge(a, b) = a
        BY <3>2, <2>2 DEF Merge
      <4>2. c \in T => ~Better(c, a)
        BY <2>1, <3>2, BetterIsStrict
      <4> QED
        BY <4>1, <4>2, <2>1
    <3> QED
      BY <3>1, <3>2
  <2> QED
    BY <1>2, <2>3, <2>4 DEF IsBest
<1> QED
  BY <1>1, <1>2

\* The best of more candidates is no worse.
LEMMA BestOfMore ==
  ASSUME NEW S \in SUBSET Candidates, NEW T \in SUBSET Candidates, S \subseteq T,
         NEW a \in S, NEW b, IsBest(b, T)
  PROVE  ~Better(a, b)
  BY DEF IsBest

LEMMA ScannedIsLogical ==
  ASSUME NEW p \in AllProblems, NEW threshold
  PROVE  Initial(p, threshold) \subseteq Candidates
<1>1. \A k \in DOMAIN p : p[k] \in Directions
  BY DEF AllProblems, Directions
<1>2. ASSUME NEW d \in Directions PROVE Scanned(d, threshold) \subseteq Candidates
  BY TrialAssumption DEF Scanned, Considered
<1> QED
  BY <1>1, <1>2 DEF Initial

\* The scan always considers the first row of the first problem.
LEMMA ScanFindsOne ==
  ASSUME NEW p \in AllProblems, NEW threshold
  PROVE  Initial(p, threshold) # {}
<1>1. 1 \in DOMAIN p /\ p[1] \in Directions
  BY DEF AllProblems, Directions
<1>2. Rows[p[1]] \in Seq(Candidates) /\ Rows[p[1]] # <<>>
  BY <1>1, TrialAssumption
<1>3. 1 \in Considered(p[1], threshold)
  BY <1>2 DEF Considered
<1>4. Rows[p[1]][1] \in Scanned(p[1], threshold)
  BY <1>3 DEF Scanned
<1>5. 1 \in {m \in DOMAIN p : \A j \in 1 .. m - 1 : ~StopsEarly(p[j], threshold)}
  BY <1>1
<1> QED
  BY <1>4, <1>5 DEF Initial

LEMMA DirectionType ==
  ASSUME NEW p \in AllProblems, NEW i \in Nat
  PROVE  /\ DirectionOf(p, i) \in Directions
         /\ \E k \in DOMAIN p : DirectionOf(p, i) = p[k]
<1>1. i % 2 = 0 \/ i % 2 = 1
  OBVIOUS
<1>2. CASE p = <<"x", "z">>
  <2>1. Len(p) = 2 /\ p[1] = "x" /\ p[2] = "z" /\ DOMAIN p = 1 .. 2
    BY <1>2
  <2>2. DirectionOf(p, i) = p[(i % 2) + 1] /\ (i % 2) + 1 \in 1 .. 2
    BY <2>1, <1>1 DEF DirectionOf
  <2> QED
    BY <2>1, <2>2, <1>1 DEF Directions
<1>3. CASE p # <<"x", "z">>
  <2>1. Len(p) = 1 /\ DOMAIN p = {1} /\ p[1] \in Directions
    BY <1>3 DEF AllProblems, Directions
  <2> QED
    BY <2>1 DEF DirectionOf
<1> QED
  BY <1>2, <1>3

LEMMA FoundIsLogical ==
  ASSUME NEW p \in AllProblems, NEW I \in SUBSET TrialIndices
  PROVE  Found(p, I) \subseteq Candidates
<1>1. ASSUME NEW i \in I PROVE Trial[DirectionOf(p, i)][i] \in Candidates \cup {NoCandidate}
  BY DirectionType, TrialAssumption DEF TrialIndices
<1> QED
  BY <1>1 DEF Found

LEMMA FoundOfUnion ==
  ASSUME NEW p, NEW I, NEW J
  PROVE  Found(p, I \cup J) = Found(p, I) \cup Found(p, J)
  BY DEF Found

\* One trial is the best of what it found, also when it found nothing.
LEMMA FoundByOne ==
  ASSUME NEW p \in AllProblems, NEW i \in TrialIndices
  PROVE  IsBest(Trial[DirectionOf(p, i)][i], Found(p, {i}))
<1> DEFINE c == Trial[DirectionOf(p, i)][i]
<1>1. c \in Candidates \cup {NoCandidate}
  BY DirectionType, TrialAssumption DEF TrialIndices
<1>2. Found(p, {i}) = {c} \ {NoCandidate}
  BY DEF Found
<1>3. c \in Candidates => c # NoCandidate /\ ~Better(c, c)
  BY CandidateFields DEF Better
<1> HIDE DEF c
<1>4. IsBest(c, Found(p, {i}))
  BY <1>1, <1>2, <1>3 DEF IsBest
<1> QED
  BY <1>4 DEF c

\* What the scan and n trials saw, as one set of candidates.
LEMMA ExaminedIsLogical ==
  ASSUME NEW p \in AllProblems, NEW threshold, NEW n \in 0 .. MaxTrials
  PROVE  Examined(p, threshold, n) \subseteq Candidates
<1>1. 0 .. n - 1 \subseteq TrialIndices
  BY TrialAssumption DEF TrialIndices
<1> QED
  BY <1>1, FoundIsLogical, ScannedIsLogical DEF Examined

\* More trials only add candidates.
LEMMA ExaminedGrows ==
  ASSUME NEW p, NEW threshold, NEW m \in Nat, NEW n \in Nat, m <= n
  PROVE  Examined(p, threshold, n)
           = Examined(p, threshold, m) \cup Found(p, m .. n - 1)
<1>1. 0 .. n - 1 = (0 .. m - 1) \cup (m .. n - 1)
  OBVIOUS
<1> QED
  BY <1>1, FoundOfUnion DEF Examined

---------------------------------------------------------------------------
(* The search                                                              *)

\* The indices of the chunk's batches before batch k.
Before(p, first, end, k) ==
  {i \in first .. end - 1 : \E j \in 1 .. k - 1 : DirectionOf(p, i) = p[j]}

Merged(w) == {r \in DOMAIN w : w[r].state = "merged"}

\* Where the trials of a running chunk are; w are batch k's ranges.
BatchInv(p, first, end, k, count, w, pend) ==
  LET indices == Batch(p, first, end, k) IN
  /\ k \in DOMAIN p
  /\ DOMAIN w = Ranges(indices, count)
  /\ \A r \in DOMAIN w :
       /\ w[r].todo \subseteq Members(indices, count, r)
       /\ w[r].state \in {"done", "merged"} => w[r].todo = {}
       /\ IsBest(w[r].best, Found(p, Members(indices, count, r) \ w[r].todo))
  /\ IsBest(pend, Found(p, Before(p, first, end, k)
                             \cup UNION {Members(indices, count, r) : r \in Merged(w)}))

Searching == {"chunk", "trials", "done"}

LoopInv(s) ==
  /\ phase[s] \in Searching =>
       /\ IsBest(best[s], Examined(problems[s], request[s].threshold, trialsRun[s]))
       /\ early[s] <=> Below(best[s], request[s].threshold)
  /\ phase[s] = "trials" =>
       /\ ~early[s] /\ trialsRun[s] < request[s].trials
       /\ BatchInv(problems[s], trialsRun[s], ChunkEnd(s), batch[s], workers[s], work[s],
                   pending[s])
  /\ phase[s] # "trials" => pending[s] = NoCandidate

\* What the phase says about the problems, the request and the trials.
PrepInv(s) ==
  /\ phase[s] \in {"idle", "analysis", "general", "x"} => problems[s] = <<>>
  /\ phase[s] = "analysis" => request[s].sector # "general"
  /\ phase[s] = "x" => request[s].sector \in {"x", "auto"}
  /\ phase[s] = "z" => \/ request[s].sector = "z" /\ problems[s] = <<>>
                       \/ request[s].sector = "auto" /\ problems[s] = <<"x">>
  /\ phase[s] \in {"budget", "scan"} \cup Searching => problems[s] \in AllProblems
  /\ phase[s] # "idle" => request[s] \in Requests /\ request[s].trials > 0
  /\ phase[s] \notin Searching => trialsRun[s] = 0

\* Only the analysis can fail, and a lock is filled by the one closure it ran.
CacheInv ==
  \A n \in Caches :
    /\ cache[n] = "InvalidSector" => n = "analysis"
    /\ builds[n] <= 1
    /\ cache[n] = "empty" => builds[n] = 0

IInv == /\ TypeOK /\ CacheInv
        /\ \A s \in Searches : PrepInv(s) /\ LoopInv(s)

---------------------------------------------------------------------------
(* Ranges and batches                                                      *)

LEMMA BatchIndices ==
  ASSUME NEW p, NEW k, NEW first \in Nat, NEW end \in Nat, end <= MaxTrials
  PROVE  Batch(p, first, end, k) \subseteq TrialIndices
  BY TrialAssumption DEF Batch, TrialIndices

LEMMA MembersCover ==
  ASSUME NEW indices, NEW count
  PROVE  UNION {Members(indices, count, r) : r \in Ranges(indices, count)} = indices
  BY DEF Members, Ranges

LEMMA NewWorkType ==
  ASSUME NEW indices \in SUBSET Nat, NEW count
  PROVE  NewWork(indices, count) \in [DOMAIN NewWork(indices, count) -> RangeRecord]
<1>1. \A r \in Ranges(indices, count) :
        [state |-> "waiting", best |-> NoCandidate, todo |-> Members(indices, count, r)]
          \in RangeRecord
  BY DEF RangeRecord, Members
<1> QED
  BY <1>1 DEF NewWork

\* A batch that begins has done nothing; the earlier batches are in pend.
LEMMA FreshBatch ==
  ASSUME NEW p, NEW first, NEW end, NEW k \in DOMAIN p, NEW count, NEW pend,
         IsBest(pend, Found(p, Before(p, first, end, k)))
  PROVE  BatchInv(p, first, end, k, count, NewWork(Batch(p, first, end, k), count), pend)
<1> DEFINE indices == Batch(p, first, end, k)
           w == NewWork(indices, count)
<1>1. DOMAIN w = Ranges(indices, count)
  BY DEF NewWork
<1>2. ASSUME NEW r \in DOMAIN w
      PROVE  /\ w[r].state = "waiting" /\ w[r].best = NoCandidate
             /\ w[r].todo = Members(indices, count, r)
  BY <1>2 DEF NewWork
<1>3. Merged(w) = {}
  BY <1>2 DEF Merged
<1>4. \A r \in DOMAIN w :
        IsBest(w[r].best, Found(p, Members(indices, count, r) \ w[r].todo))
  BY <1>2 DEF IsBest, Found
<1>5. Found(p, Before(p, first, end, k)
               \cup UNION {Members(indices, count, r) : r \in Merged(w)})
        = Found(p, Before(p, first, end, k))
  BY <1>3
<1> HIDE DEF w, indices
<1>6. /\ DOMAIN w = Ranges(indices, count)
      /\ \A r \in DOMAIN w :
           /\ w[r].todo \subseteq Members(indices, count, r)
           /\ w[r].state \in {"done", "merged"} => w[r].todo = {}
  BY <1>1, <1>2
<1>7. IsBest(pend, Found(p, Before(p, first, end, k)
               \cup UNION {Members(indices, count, r) : r \in Merged(w)}))
  BY <1>5
<1> QED
  BY <1>4, <1>6, <1>7 DEF BatchInv, w, indices

\* A worker that takes a range changes no best.
LEMMA ClaimKeepsBatch ==
  ASSUME NEW p, NEW first, NEW end, NEW k, NEW count, NEW pend, NEW w, NEW r \in DOMAIN w,
         w \in [DOMAIN w -> RangeRecord], w[r].state = "waiting",
         BatchInv(p, first, end, k, count, w, pend)
  PROVE  BatchInv(p, first, end, k, count, [w EXCEPT ![r].state = "running"], pend)
<1> DEFINE v == [w EXCEPT ![r].state = "running"]
<1>1. w[r] \in RangeRecord
  OBVIOUS
<1>2. /\ DOMAIN v = DOMAIN w
      /\ \A q \in DOMAIN w : v[q].todo = w[q].todo /\ v[q].best = w[q].best
      /\ \A q \in DOMAIN w \ {r} : v[q] = w[q]
      /\ v[r].state = "running"
  BY <1>1 DEF RangeRecord
<1> HIDE DEF v
<1>3. Merged(v) = Merged(w)
  BY <1>2 DEF Merged
<1>4. BatchInv(p, first, end, k, count, v, pend)
  BY <1>2, <1>3 DEF BatchInv
<1> QED
  BY <1>4 DEF v

\* A trial moves from a range's todo into its local best.
LEMMA TrialKeepsBatch ==
  ASSUME NEW p \in AllProblems, NEW first \in Nat, NEW end \in Nat, end <= MaxTrials,
         NEW k, NEW count, NEW pend, NEW w, NEW r \in DOMAIN w,
         w \in [DOMAIN w -> RangeRecord], w[r].state = "running",
         BatchInv(p, first, end, k, count, w, pend),
         NEW i \in w[r].todo
  PROVE  BatchInv(p, first, end, k, count,
           [w EXCEPT ![r] = [state |-> IF w[r].todo = {i} THEN "done" ELSE "running",
                             best  |-> Merge(w[r].best, Trial[p[k]][i]),
                             todo  |-> w[r].todo \ {i}]], pend)
<1> DEFINE indices == Batch(p, first, end, k)
           mine == Members(indices, count, r)
           rec == [state |-> IF w[r].todo = {i} THEN "done" ELSE "running",
                   best  |-> Merge(w[r].best, Trial[p[k]][i]),
                   todo  |-> w[r].todo \ {i}]
           v == [w EXCEPT ![r] = rec]
<1>1. /\ DOMAIN v = DOMAIN w /\ v[r] = rec
      /\ \A q \in DOMAIN w \ {r} : v[q] = w[q]
  OBVIOUS
<1>2. /\ DOMAIN w = Ranges(indices, count) /\ w[r].todo \subseteq mine
      /\ IsBest(w[r].best, Found(p, mine \ w[r].todo))
  BY DEF BatchInv
<1>3. mine \subseteq TrialIndices /\ i \in TrialIndices /\ DirectionOf(p, i) = p[k]
  BY <1>2, BatchIndices DEF Members, Batch
<1>4. IsBest(Trial[p[k]][i], Found(p, {i}))
  BY <1>3, FoundByOne
<1>5. Found(p, mine \ w[r].todo) \in SUBSET Candidates /\ Found(p, {i}) \in SUBSET Candidates
  BY <1>3, FoundIsLogical
<1>6. Found(p, mine \ (w[r].todo \ {i})) = Found(p, mine \ w[r].todo) \cup Found(p, {i})
  <2>1. mine \ (w[r].todo \ {i}) = (mine \ w[r].todo) \cup {i}
    BY <1>2
  <2> QED
    BY <2>1, FoundOfUnion
<1>7. IsBest(rec.best, Found(p, mine \ rec.todo))
  <2>1. IsBest(Merge(w[r].best, Trial[p[k]][i]),
               Found(p, mine \ w[r].todo) \cup Found(p, {i}))
    BY <1>2, <1>4, <1>5, MergeIsBest
  <2> QED
    BY <2>1, <1>6
<1>8. /\ rec.todo \subseteq mine
      /\ rec.state \in {"done", "merged"} => rec.todo = {}
      /\ rec.state # "merged"
  BY <1>2
<1> HIDE DEF v, rec, indices
<1>9. Merged(v) = Merged(w)
  BY <1>1, <1>8 DEF Merged
<1>10. \A q \in DOMAIN v :
         /\ v[q].todo \subseteq Members(indices, count, q)
         /\ v[q].state \in {"done", "merged"} => v[q].todo = {}
         /\ IsBest(v[q].best, Found(p, Members(indices, count, q) \ v[q].todo))
  <2>1. CASE DOMAIN w = {r}
    BY <2>1, <1>1, <1>7, <1>8
  <2>2. \A q \in DOMAIN w \ {r} :
         /\ w[q].todo \subseteq Members(indices, count, q)
         /\ w[q].state \in {"done", "merged"} => w[q].todo = {}
         /\ IsBest(w[q].best, Found(p, Members(indices, count, q) \ w[q].todo))
    BY DEF BatchInv, indices
  <2> QED
    BY <2>2, <1>1, <1>7, <1>8
<1>11. BatchInv(p, first, end, k, count, v, pend)
  BY <1>1, <1>2, <1>9, <1>10 DEF BatchInv, indices
<1> QED
  BY <1>11 DEF v, rec

\* A finished range's local best goes into the chunk's candidate.
LEMMA MergeKeepsBatch ==
  ASSUME NEW p \in AllProblems, NEW first \in Nat, NEW end \in Nat, end <= MaxTrials,
         NEW k, NEW count, NEW pend, NEW w, NEW r \in DOMAIN w,
         w \in [DOMAIN w -> RangeRecord], w[r].state = "done",
         BatchInv(p, first, end, k, count, w, pend)
  PROVE  BatchInv(p, first, end, k, count, [w EXCEPT ![r].state = "merged"],
                  Merge(pend, w[r].best))
<1> DEFINE indices == Batch(p, first, end, k)
           part(q) == Members(indices, count, q)
           v == [w EXCEPT ![r].state = "merged"]
           seen == Before(p, first, end, k) \cup UNION {part(q) : q \in Merged(w)}
<1>1. w[r] \in RangeRecord
  OBVIOUS
<1>2. /\ DOMAIN v = DOMAIN w
      /\ \A q \in DOMAIN w : v[q].todo = w[q].todo /\ v[q].best = w[q].best
      /\ \A q \in DOMAIN w \ {r} : v[q] = w[q]
      /\ v[r].state = "merged"
  BY <1>1 DEF RangeRecord
<1> HIDE DEF v
<1>3. Merged(v) = Merged(w) \cup {r}
  BY <1>2 DEF Merged
<1>4. IsBest(pend, Found(p, seen))
  BY DEF BatchInv
<1>5. w[r].todo = {} /\ IsBest(w[r].best, Found(p, part(r) \ w[r].todo))
  BY DEF BatchInv
<1>6. IsBest(w[r].best, Found(p, part(r)))
  <2>1. part(r) \ {} = part(r)
    OBVIOUS
  <2> HIDE DEF part
  <2> QED
    BY <1>5, <2>1
<1>7. seen \subseteq TrialIndices /\ part(r) \subseteq TrialIndices
  <2>1. Before(p, first, end, k) \subseteq TrialIndices
    BY TrialAssumption DEF Before, TrialIndices
  <2>2. indices \subseteq TrialIndices
    BY BatchIndices
  <2> QED
    BY <2>1, <2>2 DEF Members
<1>8. IsBest(Merge(pend, w[r].best), Found(p, seen) \cup Found(p, part(r)))
  BY <1>4, <1>6, <1>7, FoundIsLogical, MergeIsBest
<1>9. Found(p, seen) \cup Found(p, part(r))
        = Found(p, Before(p, first, end, k) \cup UNION {part(q) : q \in Merged(v)})
  <2>1. seen \cup part(r) = Before(p, first, end, k) \cup UNION {part(q) : q \in Merged(v)}
    BY <1>3
  <2> QED
    BY <2>1, FoundOfUnion
<1>10. \A q \in DOMAIN v :
         /\ v[q].todo \subseteq Members(indices, count, q)
         /\ v[q].state \in {"done", "merged"} => v[q].todo = {}
         /\ IsBest(v[q].best, Found(p, Members(indices, count, q) \ v[q].todo))
  BY <1>2, <1>5 DEF BatchInv
<1>11. BatchInv(p, first, end, k, count, v, Merge(pend, w[r].best))
  <2>1. IsBest(Merge(pend, w[r].best),
           Found(p, Before(p, first, end, k) \cup UNION {part(q) : q \in Merged(v)}))
    BY <1>8, <1>9
  <2> QED
    BY <1>2, <1>10, <2>1 DEF BatchInv
<1> QED
  BY <1>11 DEF v

\* A batch whose ranges are all merged is in pending completely.
LEMMA BatchComplete ==
  ASSUME NEW p \in AllProblems, NEW first, NEW end, NEW k \in Nat, NEW count, NEW pend,
         NEW w, BatchInv(p, first, end, k, count, w, pend),
         \A r \in DOMAIN w : w[r].state = "merged"
  PROVE  IsBest(pend, Found(p, Before(p, first, end, k + 1)))
<1> DEFINE indices == Batch(p, first, end, k)
<1>1. Merged(w) = Ranges(indices, count)
  BY DEF Merged, BatchInv
<1>2. IsBest(pend, Found(p, Before(p, first, end, k)
                            \cup UNION {Members(indices, count, r) : r \in Merged(w)}))
  BY DEF BatchInv
<1>3. UNION {Members(indices, count, r) : r \in Merged(w)} = indices
  BY <1>1, MembersCover
<1>4. k \in DOMAIN p
  BY DEF BatchInv
<1>5. Before(p, first, end, k) \cup indices = Before(p, first, end, k + 1)
  <2>1. k >= 1
    BY <1>4 DEF AllProblems
  <2>2. 1 .. (k + 1) - 1 = (1 .. k - 1) \cup {k}
    BY <2>1
  <2> QED
    BY <2>2 DEF Before, Batch
<1> HIDE DEF indices
<1> QED
  BY <1>2, <1>3, <1>5

\* Every index of the chunk is in one of the batches.
LEMMA BatchesCover ==
  ASSUME NEW p \in AllProblems, NEW first \in Nat, NEW end \in Nat
  PROVE  Before(p, first, end, Len(p) + 1) = first .. end - 1
<1>1. DOMAIN p = 1 .. Len(p) /\ Len(p) \in Nat
  BY DEF AllProblems
<1>2. (Len(p) + 1) - 1 = Len(p)
  BY <1>1
<1>3. \A i \in first .. end - 1 : i \in Nat
  OBVIOUS
<1> QED
  BY <1>1, <1>2, <1>3, DirectionType DEF Before

---------------------------------------------------------------------------
(* Sizes and types                                                         *)

LEMMA RequestFields ==
  ASSUME TypeOK, NEW s \in Searches
  PROVE  /\ request[s].trials \in Nat /\ request[s].trials <= MaxTrials
         /\ request[s].threshold \in Nat /\ request[s].bytes \in Nat
         /\ request[s].sector \in Sectors
<1>1. request[s] \in Requests \cup {NoRequest}
  BY DEF TypeOK
<1>2. CASE request[s] \in Requests
  BY <1>2, RequestsAssumption, TrialAssumption
<1>3. CASE request[s] = NoRequest
  BY <1>3, TrialAssumption DEF NoRequest, Sectors
<1> QED
  BY <1>1, <1>2, <1>3

\* The last chunk is cut at the requested number of trials.
LEMMA ChunkEndBounds ==
  ASSUME TypeOK, NEW s \in Searches
  PROVE  /\ ChunkEnd(s) \in Nat /\ ChunkEnd(s) <= request[s].trials
         /\ trialsRun[s] \in Nat /\ trialsRun[s] <= ChunkEnd(s)
         /\ trialsRun[s] < request[s].trials => trialsRun[s] < ChunkEnd(s)
<1>1. /\ trialsRun[s] \in Nat /\ trialsRun[s] <= request[s].trials
      /\ request[s].trials \in Nat /\ ChunkSize \in Nat \ {0}
  BY RequestFields, SizesAssumption DEF TypeOK
<1> QED
  BY <1>1 DEF ChunkEnd, Smaller

\* What a search retains and what a worker needs are sizes.
LEMMA BytesType ==
  ASSUME TypeOK, NEW s \in Searches, problems[s] \in AllProblems
  PROVE  BaseBytes(s) \in Nat /\ WorkerBytesOf(s) \in Nat \ {0}
<1>1. /\ PreparedBytes["general"] \in Nat /\ PreparedBytes["analysis"] \in Nat
      /\ PreparedBytes["x"] \in Nat /\ PreparedBytes["z"] \in Nat
  BY SizesAssumption DEF Caches
<1>2. BaseBytes(s) \in Nat
  <2>1. RetainedBytes(s) \in Nat
    <3>1. CASE problems[s] = <<"x", "z">>
      BY <3>1, <1>1 DEF RetainedBytes
    <3>2. CASE problems[s] \in {<<"general">>, <<"x">>, <<"z">>}
      <4>1. /\ problems[s] # <<"x", "z">>
            /\ problems[s][1] \in {"general", "x", "z"}
        BY <3>2
      <4>2. PreparedBytes[problems[s][1]] \in Nat
        BY <4>1, <1>1
      <4> QED
        BY <4>1, <4>2, <1>1 DEF RetainedBytes
    <3> QED
      BY <3>1, <3>2 DEF AllProblems
  <2> QED
    BY <2>1, SizesAssumption DEF BaseBytes
<1>3. WorkerBytesOf(s) \in Nat \ {0}
  <2>1. /\ WorkerBytes["general"] \in Nat \ {0} /\ WorkerBytes["x"] \in Nat \ {0}
        /\ WorkerBytes["z"] \in Nat \ {0}
    BY SizesAssumption DEF Directions
  <2>2. CASE problems[s] = <<"x", "z">>
    BY <2>1, <2>2 DEF WorkerBytesOf, Larger
  <2>3. CASE problems[s] \in {<<"general">>, <<"x">>, <<"z">>}
    <3>1. problems[s] # <<"x", "z">> /\ problems[s][1] \in {"general", "x", "z"}
      BY <2>3
    <3> QED
      BY <3>1, <2>1 DEF WorkerBytesOf
  <2> QED
    BY <2>2, <2>3 DEF AllProblems
<1> QED
  BY <1>2, <1>3

\* The workers a budget pays for are a natural number.
LEMMA WorkerCountType ==
  ASSUME TypeOK, NEW s \in Searches, problems[s] \in AllProblems
  PROVE  WorkerCount(s) \in Nat
<1>1. (request[s].bytes - BaseBytes(s)) \div WorkerBytesOf(s) \in Int
  <2>1. BaseBytes(s) \in Nat /\ WorkerBytesOf(s) \in Nat \ {0} /\ request[s].bytes \in Nat
    BY BytesType, RequestFields
  <2> HIDE DEF BaseBytes, WorkerBytesOf
  <2> QED
    BY <2>1
<1>2. ThreadCount \in Nat /\ request[s].trials \in Nat
  BY RequestFields, SizesAssumption
<1> QED
  BY <1>1, <1>2 DEF WorkerCount, Smaller, Larger

LEMMA MergeType ==
  ASSUME NEW a \in Candidates \cup {NoCandidate}, NEW b \in Candidates \cup {NoCandidate}
  PROVE  Merge(a, b) \in Candidates \cup {NoCandidate}
  BY DEF Merge

LEMMA TrialType ==
  ASSUME NEW p \in AllProblems, NEW k \in DOMAIN p, NEW i \in TrialIndices
  PROVE  Trial[p[k]][i] \in Candidates \cup {NoCandidate}
<1>1. p[k] \in Directions
  BY DEF AllProblems, Directions
<1> QED
  BY <1>1, TrialAssumption DEF TrialIndices

LEMMA ProblemsLength ==
  ASSUME NEW p \in Problems
  PROVE  Len(p) \in Nat /\ Len(p) <= 2
<1>1. CASE p = <<>>
  BY <1>1
<1>2. CASE p = <<"general">>
  BY <1>2
<1>3. CASE p = <<"x">>
  BY <1>3
<1>4. CASE p = <<"z">>
  BY <1>4
<1>5. CASE p = <<"x", "z">>
  BY <1>5
<1> QED
  BY <1>1, <1>2, <1>3, <1>4, <1>5 DEF Problems

LEMMA AppendToOne ==
  ASSUME NEW S, NEW a \in S, NEW b \in S
  PROVE  Append(<<a>>, b) = <<a, b>>
<1> DEFINE u == Append(<<a>>, b)
           v == <<a, b>>
<1>1. <<a>> \in Seq(S) /\ Len(<<a>>) = 1 /\ <<a>>[1] = a
  OBVIOUS
<1>2. u \in Seq(S) /\ Len(u) = 2 /\ u[1] = a /\ u[2] = b
  BY <1>1
<1>3. v \in Seq(S) /\ Len(v) = 2 /\ v[1] = a /\ v[2] = b
  OBVIOUS
<1> HIDE DEF u, v
<1>4. u = v
  <2>1. \A i \in 1 .. Len(u) : u[i] = v[i]
    BY <1>2, <1>3
  <2> QED
    BY <1>2, <1>3, <2>1, SeqEqual
<1> QED
  BY <1>4 DEF u, v

\* A search's problems after it read a prepared direction.
LEMMA AppendedProblems ==
  ASSUME NEW s \in Searches, PrepInv(s), phase[s] \in Caches \ {"analysis"}
  PROVE  /\ Append(problems[s], phase[s]) \in AllProblems
         /\ phase[s] = "general" => Append(problems[s], phase[s]) = <<"general">>
         /\ phase[s] = "x" => Append(problems[s], phase[s]) = <<"x">>
<1>1. /\ Append(<<>>, "general") = <<"general">> /\ Append(<<>>, "x") = <<"x">>
      /\ Append(<<>>, "z") = <<"z">> /\ Append(<<"x">>, "z") = <<"x", "z">>
  <2>1. Append(<<>>, "general") = <<"general">> /\ Append(<<>>, "x") = <<"x">>
    OBVIOUS
  <2>2. Append(<<>>, "z") = <<"z">>
    OBVIOUS
  <2>3. "x" \in Directions /\ "z" \in Directions
    BY DEF Directions
  <2> QED
    BY <2>1, <2>2, <2>3, AppendToOne
<1>2. CASE phase[s] = "general"
  BY <1>1, <1>2 DEF PrepInv, AllProblems
<1>3. CASE phase[s] = "x"
  BY <1>1, <1>3 DEF PrepInv, AllProblems
<1>4. CASE phase[s] = "z"
  BY <1>1, <1>4 DEF PrepInv, AllProblems
<1> QED
  BY <1>2, <1>3, <1>4 DEF Caches

---------------------------------------------------------------------------
(* One step of one search keeps every variable's type.                     *)

\* The ranges of a batch that begins.
LEMMA BeginBatchType ==
  ASSUME TypeOK, NEW s \in Searches, NEW k \in 0 .. 2, BeginBatch(s, k)
  PROVE  /\ batch' \in [Searches -> 0 .. 2]
         /\ work' = [t \in Searches |-> work'[t]]
         /\ \A t \in Searches : work'[t] \in [DOMAIN work'[t] -> RangeRecord]
         /\ work'[s] = NewWork(Indices(s, k), workers[s])
<1>1. Indices(s, k) \subseteq Nat
  BY ChunkEndBounds DEF Indices, Batch
<1>2. work' = [work EXCEPT ![s] = NewWork(Indices(s, k), workers[s])]
  BY DEF BeginBatch
<1>3. /\ work' = [t \in Searches |-> work'[t]]
      /\ work'[s] = NewWork(Indices(s, k), workers[s])
      /\ \A t \in Searches \ {s} : work'[t] = work[t]
  BY <1>2 DEF TypeOK
<1>4. ASSUME NEW t \in Searches PROVE work'[t] \in [DOMAIN work'[t] -> RangeRecord]
  <2>1. CASE t = s
    BY <2>1, <1>1, <1>3, NewWorkType
  <2>2. CASE t # s
    BY <2>2, <1>3 DEF TypeOK
  <2> QED
    BY <2>1, <2>2
<1> QED
  BY <1>3, <1>4 DEF BeginBatch, TypeOK

\* A range of one search that changes to another range record.
LEMMA RangeType ==
  ASSUME TypeOK, NEW s \in Searches, NEW r \in DOMAIN work[s], NEW new \in RangeRecord,
         work' = [work EXCEPT ![s][r] = new]
  PROVE  /\ work' = [t \in Searches |-> work'[t]]
         /\ \A t \in Searches : work'[t] \in [DOMAIN work'[t] -> RangeRecord]
         /\ work'[s] = [work[s] EXCEPT ![r] = new]
         /\ \A t \in Searches \ {s} : work'[t] = work[t]
  BY DEF TypeOK

LEMMA StateType ==
  ASSUME TypeOK, NEW s \in Searches, NEW r \in DOMAIN work[s],
         NEW new \in {"waiting", "running", "done", "merged"},
         work' = [work EXCEPT ![s][r].state = new]
  PROVE  /\ work' = [t \in Searches |-> work'[t]]
         /\ \A t \in Searches : work'[t] \in [DOMAIN work'[t] -> RangeRecord]
         /\ work'[s] = [work[s] EXCEPT ![r].state = new]
         /\ \A t \in Searches \ {s} : work'[t] = work[t]
<1>1. work[s] \in [DOMAIN work[s] -> RangeRecord]
  BY DEF TypeOK
<1>2. [work[s] EXCEPT ![r].state = new] \in [DOMAIN work[s] -> RangeRecord]
  BY <1>1 DEF RangeRecord
<1>3. /\ work' = [t \in Searches |-> work'[t]]
      /\ work'[s] = [work[s] EXCEPT ![r].state = new]
      /\ \A t \in Searches \ {s} : work'[t] = work[t]
  BY DEF TypeOK
<1> QED
  BY <1>2, <1>3 DEF TypeOK

\* Every step keeps the types; what a search holds when it takes the step comes
\* from PrepInv and CacheInv.
LEMMA TypeStep ==
  ASSUME TypeOK, CacheInv, \A s \in Searches : PrepInv(s) /\ LoopInv(s), [Next]_vars
  PROVE  TypeOK'
<1>1. ASSUME NEW s \in Searches, NEW r \in Requests, Call(s, r) PROVE TypeOK'
  <2>1. phase[s] = "idle" /\ trialsRun[s] = 0
    BY <1>1 DEF Call, PrepInv, Searching
  <2>2. r.trials \in Nat /\ r.sector \in Sectors
    BY RequestsAssumption
  <2>3. Head(Needs(r.sector)) \in Caches
    BY <2>2 DEF Needs, Sectors, Caches
  <2>4. phase' \in [Searches -> Phases]
    BY <1>1, <2>3 DEF Call, TypeOK, Phases
  <2>5. request' \in [Searches -> Requests \cup {NoRequest}]
    BY <1>1 DEF Call, TypeOK
  <2>6. \A t \in Searches : trialsRun'[t] <= request'[t].trials
    BY <1>1, <2>1, <2>2 DEF Call, TypeOK
  <2> QED
    BY <1>1, <2>4, <2>5, <2>6 DEF Call, setup, TypeOK
<1>2. ASSUME NEW s \in Searches, StartBuild(s) PROVE TypeOK'
  BY <1>2 DEF StartBuild, TypeOK
<1>3. ASSUME NEW s \in Searches, FinishBuild(s) PROVE TypeOK'
  <2>1. Prepared(phase[s]) \in Settled
    BY DEF Prepared, Settled
  <2> QED
    BY <1>3, <2>1 DEF FinishBuild, TypeOK
<1>4. ASSUME NEW s \in Searches, UsePrepared(s) PROVE TypeOK'
  <2>1. /\ PrepInv(s) /\ phase[s] \in Caches
        /\ problems[s] \in Problems /\ request[s].sector \in Sectors
    BY <1>4, RequestFields DEF UsePrepared, TypeOK
  <2>2. NextPhase(s) \in Phases
    BY DEF NextPhase, Phases, Caches
  <2>3. phase[s] # "analysis" => Append(problems[s], phase[s]) \in Problems
    BY <2>1, AppendedProblems DEF Problems, AllProblems
  <2>a. ASSUME cache[phase[s]] = "ok"
        PROVE  phase' \in [Searches -> Phases] /\ problems' \in [Searches -> Problems]
    <3>1. /\ phase' = [phase EXCEPT ![s] = NextPhase(s)]
          /\ problems' = [problems EXCEPT ![s] =
               IF phase[s] = "analysis" THEN @ ELSE Append(@, phase[s])]
      BY <1>4, <2>a DEF UsePrepared
    <3> QED
      BY <3>1, <2>1, <2>2, <2>3 DEF TypeOK
  <2>b. ASSUME cache[phase[s]] # "ok"
        PROVE  phase' \in [Searches -> Phases] /\ problems' \in [Searches -> Problems]
    <3>1. /\ problems' = problems
          /\ \/ phase' = [phase EXCEPT ![s] = "general"]
             \/ phase' = [phase EXCEPT ![s] = "failed"]
      BY <1>4, <2>b DEF UsePrepared
    <3> QED
      BY <3>1 DEF TypeOK, Phases, Caches, Ended
  <2>4. phase' \in [Searches -> Phases] /\ problems' \in [Searches -> Problems]
    BY <2>a, <2>b DEF TypeOK
  <2>6. outcome' \in [Searches -> {"none", "ok", "InvalidSector", "MemoryLimit"}]
    BY <1>4 DEF UsePrepared, TypeOK
  <2> QED
    BY <1>4, <2>4, <2>6 DEF UsePrepared, setup, TypeOK
<1>5. ASSUME NEW s \in Searches, EnforceBudget(s) PROVE TypeOK'
  <2>1. problems[s] \in AllProblems
    BY <1>5 DEF EnforceBudget, PrepInv
  <2>2. WorkerCount(s) \in Nat
    BY <2>1, WorkerCountType
  <2> HIDE DEF WorkerCount
  <2>3. workers' \in [Searches -> Nat]
    BY <1>5, <2>2 DEF EnforceBudget, TypeOK
  <2>4. phase' \in [Searches -> Phases]
    BY <1>5 DEF EnforceBudget, TypeOK, Phases, Ended
  <2>5. outcome' \in [Searches -> {"none", "ok", "InvalidSector", "MemoryLimit"}]
    BY <1>5 DEF EnforceBudget, TypeOK
  <2> QED
    BY <1>5, <2>3, <2>4, <2>5 DEF EnforceBudget, setup, TypeOK
<1>6. ASSUME NEW s \in Searches, Scan(s) PROVE TypeOK'
  <2>1. best' \in [Searches -> Candidates \cup {NoCandidate}]
    BY <1>6 DEF Scan, TypeOK
  <2>2. early' \in [Searches -> BOOLEAN]
    BY <1>6 DEF Scan, TypeOK, Below
  <2>3. phase' \in [Searches -> Phases]
    BY <1>6 DEF Scan, TypeOK, Phases
  <2> QED
    BY <1>6, <2>1, <2>2, <2>3 DEF Scan, setup, TypeOK
<1>7. ASSUME NEW s \in Searches, StartChunk(s) PROVE TypeOK'
  <2>1. BeginBatch(s, 1) /\ 1 \in 0 .. 2
    BY <1>7 DEF StartChunk
  <2>2. phase' \in [Searches -> Phases]
    BY <1>7 DEF StartChunk, TypeOK, Phases
  <2> QED
    BY <1>7, <2>1, <2>2, BeginBatchType DEF StartChunk, setup, TypeOK
<1>8. ASSUME NEW s \in Searches, NextBatch(s) PROVE TypeOK'
  <2>1. Len(problems[s]) <= 2 /\ Len(problems[s]) \in Nat /\ batch[s] \in 0 .. 2
    <3>1. problems[s] \in Problems /\ batch[s] \in 0 .. 2
      BY DEF TypeOK
    <3> QED
      BY <3>1, ProblemsLength
  <2>2. BeginBatch(s, batch[s] + 1) /\ batch[s] + 1 \in 0 .. 2
    BY <1>8, <2>1 DEF NextBatch
  <2> QED
    BY <1>8, <2>2, BeginBatchType DEF NextBatch, setup, TypeOK
<1>9. ASSUME NEW s \in Searches, EndChunk(s) PROVE TypeOK'
  <2>1. best' \in [Searches -> Candidates \cup {NoCandidate}]
    BY <1>9, MergeType DEF EndChunk, TypeOK
  <2>2. early' \in [Searches -> BOOLEAN]
    BY <1>9 DEF EndChunk, TypeOK, Below
  <2>3. phase' \in [Searches -> Phases]
    BY <1>9 DEF EndChunk, TypeOK, Phases
  <2>4. /\ trialsRun' \in [Searches -> Nat]
        /\ \A t \in Searches : trialsRun'[t] <= request'[t].trials
    <3>1. trialsRun' = [trialsRun EXCEPT ![s] = ChunkEnd(s)] /\ request' = request
      BY <1>9 DEF EndChunk
    <3>2. ChunkEnd(s) \in Nat /\ ChunkEnd(s) <= request[s].trials
      BY ChunkEndBounds
    <3> QED
      BY <3>1, <3>2 DEF TypeOK
  <2>5. /\ work' = [t \in Searches |-> work'[t]]
        /\ \A t \in Searches : work'[t] \in [DOMAIN work'[t] -> RangeRecord]
    BY <1>9 DEF EndChunk, TypeOK, NoWork
  <2>6. /\ batch' \in [Searches -> 0 .. 2]
        /\ pending' \in [Searches -> Candidates \cup {NoCandidate}]
    BY <1>9 DEF EndChunk, TypeOK
  <2> QED
    BY <1>9, <2>1, <2>2, <2>3, <2>4, <2>5, <2>6 DEF EndChunk, setup, TypeOK
<1>10. ASSUME NEW s \in Searches, Deliver(s) PROVE TypeOK'
  BY <1>10 DEF Deliver, setup, TypeOK, Phases, Ended
<1>11. ASSUME NEW s \in Searches, NEW r \in DOMAIN work[s], Claim(s, r) PROVE TypeOK'
  <2>1. work' = [work EXCEPT ![s][r].state = "running"]
    BY <1>11 DEF Claim
  <2> QED
    BY <1>11, <2>1, StateType DEF Claim, setup, TypeOK
<1>12. ASSUME NEW s \in Searches, NEW r \in DOMAIN work[s], RunTrial(s, r) PROVE TypeOK'
  <2>1. PICK i \in work[s][r].todo : work' = [work EXCEPT ![s][r] =
            [state |-> IF work[s][r].todo = {i} THEN "done" ELSE "running",
             best  |-> Merge(work[s][r].best, Trial[problems[s][batch[s]]][i]),
             todo  |-> work[s][r].todo \ {i}]]
    BY <1>12 DEF RunTrial
  <2>2. /\ work[s][r] \in RangeRecord /\ phase[s] = "trials"
        /\ problems[s] \in AllProblems
    BY <1>12 DEF TypeOK, RunTrial, PrepInv, Searching
  <2>3. Trial[problems[s][batch[s]]][i] \in Candidates \cup {NoCandidate}
    <3>1. /\ batch[s] \in DOMAIN problems[s]
          /\ work[s][r].todo \subseteq Batch(problems[s], trialsRun[s], ChunkEnd(s), batch[s])
      BY <2>2 DEF LoopInv, BatchInv, Members
    <3>2. i \in TrialIndices
      BY <3>1, ChunkEndBounds, RequestFields, BatchIndices, TrialAssumption
    <3> QED
      BY <3>1, <3>2, <2>2, TrialType
  <2>4. [state |-> IF work[s][r].todo = {i} THEN "done" ELSE "running",
         best  |-> Merge(work[s][r].best, Trial[problems[s][batch[s]]][i]),
         todo  |-> work[s][r].todo \ {i}] \in RangeRecord
    BY <2>2, <2>3, MergeType DEF RangeRecord
  <2> QED
    BY <1>12, <2>1, <2>4, RangeType DEF RunTrial, setup, TypeOK
<1>13. ASSUME NEW s \in Searches, NEW r \in DOMAIN work[s], MergeRange(s, r) PROVE TypeOK'
  <2>1. work' = [work EXCEPT ![s][r].state = "merged"]
    BY <1>13 DEF MergeRange
  <2>2. work[s][r] \in RangeRecord
    BY DEF TypeOK
  <2>3. Merge(pending[s], work[s][r].best) \in Candidates \cup {NoCandidate}
    BY <2>2, MergeType DEF TypeOK, RangeRecord
  <2>4. pending' \in [Searches -> Candidates \cup {NoCandidate}]
    BY <1>13, <2>3 DEF MergeRange, TypeOK
  <2> QED
    BY <1>13, <2>1, <2>4, StateType DEF MergeRange, setup, TypeOK
<1>14. CASE UNCHANGED vars
  BY <1>14 DEF vars, setup, TypeOK
<1> QED
  BY <1>1, <1>2, <1>3, <1>4, <1>5, <1>6, <1>7, <1>8, <1>9, <1>10, <1>11, <1>12, <1>13,
     <1>14 DEF Next, Step, Finished

---------------------------------------------------------------------------
(* The caches                                                              *)

LEMMA CacheStep ==
  ASSUME TypeOK, CacheInv, [Next]_vars
  PROVE  /\ CacheInv'
         /\ \A n \in Caches : cache[n] \in Settled => cache'[n] = cache[n]
<1>1. ASSUME NEW s \in Searches, StartBuild(s)
      PROVE  CacheInv' /\ \A n \in Caches : cache[n] \in Settled => cache'[n] = cache[n]
  <2>1. s # "empty" /\ s # "InvalidSector"
    BY SearchesAssumption
  <2> QED
    BY <1>1, <2>1 DEF StartBuild, CacheInv, TypeOK, Settled
<1>2. ASSUME NEW s \in Searches, FinishBuild(s)
      PROVE  CacheInv' /\ \A n \in Caches : cache[n] \in Settled => cache'[n] = cache[n]
  <2>1. s \notin Settled
    BY SearchesAssumption DEF Settled
  <2>2. Prepared(phase[s]) # "empty"
        /\ (Prepared(phase[s]) = "InvalidSector" => phase[s] = "analysis")
    BY DEF Prepared
  <2> QED
    BY <1>2, <2>1, <2>2 DEF FinishBuild, CacheInv, TypeOK
<1>3. CASE UNCHANGED <<cache, builds>>
  BY <1>3 DEF CacheInv
<1>4. ASSUME NEW s \in Searches,
             Step(s) \/ \E r \in Requests : Call(s, r)
      PROVE  StartBuild(s) \/ FinishBuild(s) \/ UNCHANGED <<cache, builds>>
  <2> USE DEF setup
  <2>1. UsePrepared(s) \/ EnforceBudget(s) \/ Scan(s) \/ Deliver(s)
          => UNCHANGED <<cache, builds>>
    BY DEF UsePrepared, EnforceBudget, Scan, Deliver
  <2>2. StartChunk(s) \/ NextBatch(s) \/ EndChunk(s) => UNCHANGED <<cache, builds>>
    BY DEF StartChunk, NextBatch, EndChunk
  <2>3. ASSUME NEW r \in DOMAIN work[s], Claim(s, r) PROVE UNCHANGED <<cache, builds>>
    BY <2>3 DEF Claim
  <2>4. ASSUME NEW r \in DOMAIN work[s], RunTrial(s, r) PROVE UNCHANGED <<cache, builds>>
    BY <2>4 DEF RunTrial
  <2>5. ASSUME NEW r \in DOMAIN work[s], MergeRange(s, r) PROVE UNCHANGED <<cache, builds>>
    BY <2>5 DEF MergeRange
  <2>6. ASSUME NEW r \in Requests, Call(s, r) PROVE UNCHANGED <<cache, builds>>
    BY <2>6 DEF Call
  <2> QED
    BY <1>4, <2>1, <2>2, <2>3, <2>4, <2>5, <2>6 DEF Step
<1> QED
  BY <1>1, <1>2, <1>3, <1>4 DEF Next, Finished, vars

---------------------------------------------------------------------------
(* A step of one search leaves the others' locals alone.                   *)

View(t) == <<phase[t], request[t], problems[t], best[t], trialsRun[t], early[t],
             workers[t], batch[t], work[t], pending[t]>>

LEMMA OthersKept ==
  ASSUME TypeOK, NEW s \in Searches, NEW t \in Searches \ {s},
         Step(s) \/ \E r \in Requests : Call(s, r)
  PROVE  View(t)' = View(t)
<1> USE DEF TypeOK, View, setup
<1>1. CASE StartBuild(s) \/ FinishBuild(s)
  BY <1>1 DEF StartBuild, FinishBuild
<1>2. CASE UsePrepared(s)
  BY <1>2 DEF UsePrepared
<1>3. CASE EnforceBudget(s)
  BY <1>3 DEF EnforceBudget
<1>4. CASE Scan(s)
  BY <1>4 DEF Scan
<1>5. CASE StartChunk(s)
  BY <1>5 DEF StartChunk, BeginBatch
<1>6. CASE NextBatch(s)
  BY <1>6 DEF NextBatch, BeginBatch
<1>7. CASE EndChunk(s)
  BY <1>7 DEF EndChunk
<1>8. CASE Deliver(s)
  BY <1>8 DEF Deliver
<1>9. ASSUME NEW r \in DOMAIN work[s], Claim(s, r) PROVE View(t)' = View(t)
  BY <1>9 DEF Claim
<1>10. ASSUME NEW r \in DOMAIN work[s], RunTrial(s, r) PROVE View(t)' = View(t)
  BY <1>10 DEF RunTrial
<1>11. ASSUME NEW r \in DOMAIN work[s], MergeRange(s, r) PROVE View(t)' = View(t)
  BY <1>11 DEF MergeRange
<1>12. ASSUME NEW r \in Requests, Call(s, r) PROVE View(t)' = View(t)
  BY <1>12 DEF Call
<1> QED
  BY <1>1, <1>2, <1>3, <1>4, <1>5, <1>6, <1>7, <1>8, <1>9, <1>10, <1>11, <1>12 DEF Step

LEMMA LocalInvariantsKept ==
  ASSUME NEW t \in Searches, PrepInv(t), LoopInv(t), View(t)' = View(t)
  PROVE  PrepInv(t)' /\ LoopInv(t)'
<1> USE DEF View
<1>1. PrepInv(t)'
  BY DEF PrepInv
<1>2. ChunkEnd(t)' = ChunkEnd(t)
  BY DEF ChunkEnd
<1>3. LoopInv(t)'
  BY <1>2 DEF LoopInv
<1> QED
  BY <1>1, <1>3

---------------------------------------------------------------------------
(* What a search's own step does to it.                                    *)

\* Preparation ends with one of the four lists of problems.
LEMMA PrepStep ==
  ASSUME TypeOK, CacheInv, NEW s \in Searches, PrepInv(s),
         Step(s) \/ \E r \in Requests : Call(s, r)
  PROVE  PrepInv(s)'
<1> USE DEF TypeOK, PrepInv, setup, Searching, Caches, Ended
<1>1. CASE StartBuild(s) \/ FinishBuild(s)
  BY <1>1 DEF StartBuild, FinishBuild
<1>2. CASE UsePrepared(s)
  <2>1. phase[s] \in Caches /\ request[s].sector \in Sectors
    BY <1>2, RequestFields DEF UsePrepared
  <2>2. /\ request' = request /\ trialsRun' = trialsRun
        /\ request[s] \in Requests /\ request[s].trials > 0
    BY <1>2 DEF UsePrepared
  <2>3. CASE cache[phase[s]] = "ok"
    <3>1. /\ phase'[s] = NextPhase(s)
          /\ problems'[s] = IF phase[s] = "analysis" THEN problems[s]
                            ELSE Append(problems[s], phase[s])
      BY <1>2, <2>3 DEF UsePrepared
    <3>2. CASE phase[s] = "analysis"
      BY <2>1, <2>2, <3>1, <3>2 DEF NextPhase, Sectors
    <3>3. CASE phase[s] # "analysis"
      <4>1. /\ problems'[s] \in AllProblems
            /\ phase[s] = "x" => problems'[s] = <<"x">>
        BY <2>1, <3>1, <3>3, AppendedProblems
      <4> QED
        BY <2>1, <2>2, <3>1, <3>3, <4>1 DEF NextPhase
    <3> QED
      BY <3>2, <3>3
  <2>4. CASE cache[phase[s]] # "ok"
    <3>1. phase[s] = "analysis"
      BY <1>2, <2>1, <2>4 DEF UsePrepared, Settled, CacheInv
    <3>2. /\ problems'[s] = problems[s]
          /\ phase'[s] \in {"general", "failed"}
      BY <1>2, <2>4 DEF UsePrepared
    <3> QED
      BY <2>2, <3>1, <3>2
  <2> QED
    BY <2>3, <2>4
<1>3. CASE EnforceBudget(s)
  BY <1>3 DEF EnforceBudget
<1>4. CASE Scan(s)
  BY <1>4 DEF Scan
<1>5. CASE StartChunk(s)
  BY <1>5 DEF StartChunk, BeginBatch
<1>6. CASE NextBatch(s)
  BY <1>6 DEF NextBatch, BeginBatch
<1>7. CASE EndChunk(s)
  BY <1>7 DEF EndChunk
<1>8. CASE Deliver(s)
  BY <1>8 DEF Deliver
<1>9. ASSUME NEW r \in DOMAIN work[s], Claim(s, r) PROVE PrepInv(s)'
  BY <1>9 DEF Claim
<1>10. ASSUME NEW r \in DOMAIN work[s], RunTrial(s, r) PROVE PrepInv(s)'
  BY <1>10 DEF RunTrial
<1>11. ASSUME NEW r \in DOMAIN work[s], MergeRange(s, r) PROVE PrepInv(s)'
  BY <1>11 DEF MergeRange
<1>12. ASSUME NEW r \in Requests, Call(s, r) PROVE PrepInv(s)'
  <2>1. /\ phase'[s] = Head(Needs(r.sector)) /\ request'[s] = r /\ r.trials > 0
        /\ problems'[s] = <<>> /\ trialsRun'[s] = 0
    BY <1>12 DEF Call
  <2>2. r.sector \in Sectors
    BY RequestsAssumption
  <2>3. /\ r.sector = "general" => Head(Needs(r.sector)) = "general"
        /\ r.sector # "general" => Head(Needs(r.sector)) = "analysis"
    BY <2>2 DEF Needs, Sectors
  <2> QED
    BY <2>1, <2>3
<1> QED
  BY <1>1, <1>2, <1>3, <1>4, <1>5, <1>6, <1>7, <1>8, <1>9, <1>10, <1>11, <1>12 DEF Step

\* Every step of a search leaves its candidate, its incumbent and its ranges
\* accounting for exactly the trials they should.
LEMMA LoopStep ==
  ASSUME TypeOK, NEW s \in Searches, PrepInv(s), LoopInv(s),
         Step(s) \/ \E r \in Requests : Call(s, r)
  PROVE  LoopInv(s)'
<1> DEFINE p == problems[s]
           first == trialsRun[s]
           end == ChunkEnd(s)
           threshold == request[s].threshold
<1>a. /\ first \in Nat /\ end \in Nat /\ first <= end /\ end <= MaxTrials
      /\ first <= MaxTrials
  BY ChunkEndBounds, RequestFields, TrialAssumption
<1>b. phase[s] \in {"budget", "scan"} \cup Searching => p \in AllProblems
  BY DEF PrepInv
<1>c. work[s] \in [DOMAIN work[s] -> RangeRecord]
  BY DEF TypeOK
<1>d. ASSUME request'[s] = request[s], trialsRun'[s] = trialsRun[s]
      PROVE  ChunkEnd(s)' = end
  BY <1>d DEF ChunkEnd
<1>1. CASE StartBuild(s) \/ FinishBuild(s)
  BY <1>1 DEF StartBuild, FinishBuild, LoopInv, Searching, Caches, TypeOK
<1>2. CASE UsePrepared(s)
  <2>1. phase'[s] \notin Searching /\ phase[s] # "trials" /\ pending' = pending
    BY <1>2 DEF UsePrepared, NextPhase, Searching, Caches, TypeOK
  <2> QED
    BY <2>1 DEF LoopInv, Searching
<1>3. CASE EnforceBudget(s)
  BY <1>3 DEF EnforceBudget, LoopInv, Searching, TypeOK
<1>4. CASE Scan(s)
  <2>1. PICK c \in Candidates :
          /\ IsBest(c, Initial(p, threshold))
          /\ best' = [best EXCEPT ![s] = c]
          /\ early' = [early EXCEPT ![s] = Below(c, threshold)]
    BY <1>4 DEF Scan
  <2>2. /\ phase'[s] = "chunk" /\ phase[s] # "trials" /\ pending' = pending
        /\ trialsRun' = trialsRun /\ request' = request /\ problems' = problems
        /\ trialsRun[s] = 0
    BY <1>4 DEF Scan, TypeOK, PrepInv, Searching
  <2>3. Examined(p, threshold, 0) = Initial(p, threshold)
    <3>1. 0 .. 0 - 1 = {}
      OBVIOUS
    <3> QED
      BY <3>1 DEF Examined, Found
  <2>4. best'[s] = c /\ early'[s] = Below(c, threshold)
    BY <2>1 DEF TypeOK
  <2> HIDE DEF p, threshold
  <2> QED
    BY <2>1, <2>2, <2>3, <2>4 DEF LoopInv, Searching, p, threshold
<1>5. CASE StartChunk(s)
  <2>1. /\ phase[s] = "chunk" /\ phase'[s] = "trials" /\ ~early[s] /\ first < request[s].trials
        /\ UNCHANGED <<best, early, problems, request, trialsRun, workers, pending>>
        /\ BeginBatch(s, 1)
    BY <1>5 DEF StartChunk, TypeOK
  <2>2. batch'[s] = 1 /\ work'[s] = NewWork(Batch(p, first, end, 1), workers[s])
    BY <2>1, BeginBatchType DEF BeginBatch, TypeOK, Indices
  <2>3. p \in AllProblems
    BY <2>1, <1>b DEF Searching
  <2>4. 1 \in DOMAIN p
    BY <2>3 DEF AllProblems
  <2>5. pending[s] = NoCandidate
    BY <2>1 DEF LoopInv
  <2>6. Before(p, first, end, 1) = {}
    BY DEF Before
  <2>7. IsBest(pending[s], Found(p, Before(p, first, end, 1)))
    BY <2>5, <2>6 DEF IsBest, Found
  <2>8. BatchInv(p, first, end, 1, workers[s], work'[s], pending[s])
    BY <2>2, <2>4, <2>7, FreshBatch
  <2> QED
    BY <2>1, <2>2, <2>8, <1>d DEF LoopInv, Searching
<1>6. CASE NextBatch(s)
  <2>1. /\ phase[s] = "trials" /\ phase' = phase /\ BatchMerged(s) /\ batch[s] < Len(p)
        /\ UNCHANGED <<best, early, problems, request, trialsRun, workers, pending>>
        /\ BeginBatch(s, batch[s] + 1) /\ batch[s] + 1 \in 0 .. 2
    <3>1. problems[s] \in Problems /\ batch[s] \in 0 .. 2
      BY DEF TypeOK
    <3> QED
      BY <1>6, <3>1, ProblemsLength DEF NextBatch
  <2>2. /\ batch'[s] = batch[s] + 1
        /\ work'[s] = NewWork(Batch(p, first, end, batch[s] + 1), workers[s])
    BY <2>1, BeginBatchType DEF BeginBatch, TypeOK, Indices
  <2>3. p \in AllProblems /\ batch[s] \in Nat
    <3>1. batch[s] \in 0 .. 2
      BY DEF TypeOK
    <3> QED
      BY <3>1, <2>1, <1>b DEF Searching
  <2>4. batch[s] + 1 \in DOMAIN p
    BY <2>1, <2>3 DEF AllProblems
  <2>5. BatchInv(p, first, end, batch[s], workers[s], work[s], pending[s])
    BY <2>1 DEF LoopInv
  <2>6. IsBest(pending[s], Found(p, Before(p, first, end, batch[s] + 1)))
    BY <2>1, <2>3, <2>5, BatchComplete DEF BatchMerged
  <2>7. BatchInv(p, first, end, batch[s] + 1, workers[s], work'[s], pending[s])
    BY <2>2, <2>4, <2>6, FreshBatch
  <2> QED
    BY <2>1, <2>2, <2>7, <1>d DEF LoopInv, Searching
<1>7. CASE EndChunk(s)
  <2>1. /\ phase[s] = "trials" /\ BatchMerged(s) /\ batch[s] = Len(p)
        /\ phase'[s] = "chunk" /\ UNCHANGED <<problems, request>>
        /\ trialsRun'[s] = end /\ pending'[s] = NoCandidate
        /\ best'[s] = Merge(best[s], pending[s])
        /\ early'[s] = Below(Merge(best[s], pending[s]), threshold)
    BY <1>7 DEF EndChunk, TypeOK
  <2>2. p \in AllProblems /\ Len(p) \in Nat
    BY <2>1, <1>b DEF Searching, TypeOK
  <2>3. BatchInv(p, first, end, batch[s], workers[s], work[s], pending[s])
    BY <2>1 DEF LoopInv
  <2>4. IsBest(pending[s], Found(p, first .. end - 1))
    <3>1. IsBest(pending[s], Found(p, Before(p, first, end, Len(p) + 1)))
      BY <2>1, <2>2, <2>3, BatchComplete DEF BatchMerged
    <3> QED
      BY <3>1, <2>2, <1>a, BatchesCover
  <2>5. IsBest(best[s], Examined(p, threshold, first))
    BY <2>1 DEF LoopInv, Searching
  <2>6. /\ Examined(p, threshold, first) \in SUBSET Candidates
        /\ Found(p, first .. end - 1) \in SUBSET Candidates
    <3>1. first \in 0 .. MaxTrials /\ first .. end - 1 \subseteq TrialIndices
      BY <1>a, TrialAssumption DEF TrialIndices
    <3> QED
      BY <3>1, <2>2, ExaminedIsLogical, FoundIsLogical
  <2>7. IsBest(best'[s], Examined(p, threshold, end))
    <3>1. IsBest(Merge(best[s], pending[s]),
                 Examined(p, threshold, first) \cup Found(p, first .. end - 1))
      BY <2>4, <2>5, <2>6, MergeIsBest
    <3>2. best'[s] = Merge(best[s], pending[s])
      BY <2>1
    <3>3. Examined(p, threshold, end)
            = Examined(p, threshold, first) \cup Found(p, first .. end - 1)
      <4> HIDE DEF p, threshold, end, first
      <4> QED
        BY <1>a, ExaminedGrows
    <3> HIDE DEF p, threshold, end, first
    <3> QED
      BY <3>1, <3>2, <3>3
  <2> HIDE DEF p, threshold, end
  <2> QED
    BY <2>1, <2>7 DEF LoopInv, Searching, p, threshold
<1>8. CASE Deliver(s)
  BY <1>8 DEF Deliver, LoopInv, Searching, TypeOK
<1>9. ASSUME NEW r \in DOMAIN work[s], Claim(s, r) PROVE LoopInv(s)'
  <2>1. /\ phase[s] = "trials" /\ work[s][r].state = "waiting"
        /\ UNCHANGED <<phase, best, early, problems, request, trialsRun, workers, batch,
                       pending>>
        /\ work' = [work EXCEPT ![s][r].state = "running"]
    BY <1>9 DEF Claim
  <2>2. work'[s] = [work[s] EXCEPT ![r].state = "running"]
    BY <2>1, StateType
  <2>3. BatchInv(p, first, end, batch[s], workers[s], work[s], pending[s])
    BY <2>1 DEF LoopInv
  <2>4. BatchInv(p, first, end, batch[s], workers[s],
                 [work[s] EXCEPT ![r].state = "running"], pending[s])
    BY <2>1, <2>3, <1>c, ClaimKeepsBatch
  <2>5. BatchInv(p, first, end, batch[s], workers[s], work'[s], pending[s])
    BY <2>2, <2>4, Zenon
  <2>6. UNCHANGED <<phase, best, early, problems, request, trialsRun, workers, batch,
                    pending>> /\ phase[s] = "trials"
    BY <2>1
  <2> QED
    BY <2>5, <2>6, <1>d DEF LoopInv
<1>10. ASSUME NEW r \in DOMAIN work[s], RunTrial(s, r) PROVE LoopInv(s)'
  <2>1. PICK i \in work[s][r].todo : work' = [work EXCEPT ![s][r] =
            [state |-> IF work[s][r].todo = {i} THEN "done" ELSE "running",
             best  |-> Merge(work[s][r].best, Trial[problems[s][batch[s]]][i]),
             todo  |-> work[s][r].todo \ {i}]]
    BY <1>10 DEF RunTrial
  <2>2. /\ phase[s] = "trials" /\ work[s][r].state = "running"
        /\ UNCHANGED <<phase, best, early, problems, request, trialsRun, workers, batch,
                       pending>>
    BY <1>10 DEF RunTrial, Running
  <2>3. p \in AllProblems
    BY <2>2, <1>b DEF Searching
  <2>4. BatchInv(p, first, end, batch[s], workers[s], work[s], pending[s])
    BY <2>2 DEF LoopInv
  <2>5. work'[s] = [work[s] EXCEPT ![r] =
            [state |-> IF work[s][r].todo = {i} THEN "done" ELSE "running",
             best  |-> Merge(work[s][r].best, Trial[p[batch[s]]][i]),
             todo  |-> work[s][r].todo \ {i}]]
    BY <2>1 DEF TypeOK
  <2>6. BatchInv(p, first, end, batch[s], workers[s],
          [work[s] EXCEPT ![r] =
            [state |-> IF work[s][r].todo = {i} THEN "done" ELSE "running",
             best  |-> Merge(work[s][r].best, Trial[p[batch[s]]][i]),
             todo  |-> work[s][r].todo \ {i}]], pending[s])
    BY <2>2, <2>3, <2>4, <1>a, <1>c, TrialKeepsBatch
  <2>7. BatchInv(p, first, end, batch[s], workers[s], work'[s], pending[s])
    BY <2>5, <2>6, Zenon
  <2> QED
    BY <2>2, <2>7, <1>d DEF LoopInv
<1>11. ASSUME NEW r \in DOMAIN work[s], MergeRange(s, r) PROVE LoopInv(s)'
  <2>1. /\ phase[s] = "trials" /\ work[s][r].state = "done"
        /\ UNCHANGED <<phase, best, early, problems, request, trialsRun, workers, batch>>
        /\ work' = [work EXCEPT ![s][r].state = "merged"]
        /\ pending' = [pending EXCEPT ![s] = Merge(pending[s], work[s][r].best)]
    BY <1>11 DEF MergeRange
  <2>2. work'[s] = [work[s] EXCEPT ![r].state = "merged"]
    BY <2>1, StateType
  <2>3. pending'[s] = Merge(pending[s], work[s][r].best)
    BY <2>1 DEF TypeOK
  <2>4. BatchInv(p, first, end, batch[s], workers[s], work[s], pending[s])
    BY <2>1 DEF LoopInv
  <2>5. p \in AllProblems
    BY <2>1, <1>b DEF Searching
  <2>6. BatchInv(p, first, end, batch[s], workers[s],
                 [work[s] EXCEPT ![r].state = "merged"], Merge(pending[s], work[s][r].best))
    BY <2>1, <2>4, <2>5, <1>a, <1>c, MergeKeepsBatch
  <2>7. BatchInv(p, first, end, batch[s], workers[s], work'[s], pending'[s])
    BY <2>2, <2>3, <2>6, Zenon
  <2>8. UNCHANGED <<phase, best, early, problems, request, trialsRun, workers, batch>>
        /\ phase[s] = "trials"
    BY <2>1
  <2> QED
    BY <2>7, <2>8, <1>d DEF LoopInv
<1>12. ASSUME NEW r \in Requests, Call(s, r) PROVE LoopInv(s)'
  <2>1. Head(Needs(r.sector)) \in {"general", "analysis"}
    <3>1. r.sector \in Sectors
      BY RequestsAssumption
    <3> QED
      BY <3>1 DEF Needs, Sectors
  <2>2. phase'[s] \in {"general", "analysis"} /\ pending' = pending /\ phase[s] = "idle"
    BY <1>12, <2>1 DEF Call, TypeOK
  <2> QED
    BY <2>2 DEF LoopInv, Searching
<1> QED
  BY <1>1, <1>2, <1>3, <1>4, <1>5, <1>6, <1>7, <1>8, <1>9, <1>10, <1>11, <1>12 DEF Step

---------------------------------------------------------------------------
(* The inductive invariant                                                 *)

LEMMA InitInv == Init => IInv
<1> SUFFICES ASSUME Init PROVE IInv
  OBVIOUS
<1>1. TypeOK
  <2>1. work = [s \in Searches |-> work[s]]
        /\ \A s \in Searches : work[s] \in [DOMAIN work[s] -> RangeRecord]
    BY DEF Init, NoWork
  <2>2. \A s \in Searches : trialsRun[s] <= request[s].trials
    BY DEF Init, NoRequest
  <2> QED
    BY <2>1, <2>2 DEF Init, TypeOK, Phases, Problems
<1>2. CacheInv
  BY DEF Init, CacheInv
<1>3. \A s \in Searches : PrepInv(s) /\ LoopInv(s)
  BY DEF Init, PrepInv, LoopInv, Searching
<1> QED
  BY <1>1, <1>2, <1>3 DEF IInv

LEMMA NextInv == IInv /\ [Next]_vars => IInv'
<1> SUFFICES ASSUME IInv, [Next]_vars PROVE IInv'
  OBVIOUS
<1> USE DEF IInv
<1>1. TypeOK'
  BY TypeStep
<1>2. CacheInv'
  BY CacheStep
<1>3. ASSUME NEW t \in Searches PROVE PrepInv(t)' /\ LoopInv(t)'
  <2>1. CASE UNCHANGED vars
    <3>1. View(t)' = View(t)
      BY <2>1 DEF vars, setup, View
    <3> QED
      BY <3>1, LocalInvariantsKept
  <2>2. ASSUME NEW s \in Searches, Step(s) \/ \E r \in Requests : Call(s, r)
        PROVE  PrepInv(t)' /\ LoopInv(t)'
    <3>1. CASE t = s
      BY <2>2, <3>1, PrepStep, LoopStep
    <3>2. CASE t # s
      BY <2>2, <3>2, OthersKept, LocalInvariantsKept
    <3> QED
      BY <3>1, <3>2
  <2> QED
    BY <2>1, <2>2 DEF Next, Finished
<1> QED
  BY <1>1, <1>2, <1>3

THEOREM Invariant == Spec => []IInv
<1> QED
  BY InitInv, NextInv, PTL DEF Spec

---------------------------------------------------------------------------
(* Theorems                                                                *)

\* Every variable has its type, and no search counts more trials than it was
\* asked for: search_logical_witness cuts its last chunk.
THEOREM TypeCorrect == Spec => []TypeOK
<1>1. IInv => TypeOK
  BY DEF IInv
<1> QED
  BY <1>1, Invariant, PTL

\* The closure of a OnceLock of the search caches runs at most once.
THEOREM OneBuild == Spec => []BuiltOnce
<1>1. IInv => BuiltOnce
  BY DEF IInv, CacheInv, BuiltOnce
<1> QED
  BY <1>1, Invariant, PTL

\* What a OnceLock holds, an error included, never changes.
THEOREM RetainedCaches == Spec => CachesAreKept
<1>1. IInv /\ [Next]_vars
        => [\A n \in Caches : cache[n] \in Settled => cache'[n] = cache[n]]_vars
  BY CacheStep DEF IInv
<1> QED
  BY <1>1, Invariant, PTL DEF CachesAreKept, Spec

\* The incumbent is the best of the scan and of exactly the trials counted.
THEOREM BestOfPrefix == Spec => []IncumbentIsBest
<1>1. IInv => IncumbentIsBest
  BY DEF IInv, LoopInv, IncumbentIsBest, Searching
<1> QED
  BY <1>1, Invariant, PTL

\* More trials of the same goal never give a worse witness.
THEOREM Monotone == Spec => []PrefixMonotone
<1>1. IInv => PrefixMonotone
  <2> SUFFICES ASSUME IInv, NEW s \in Searches, NEW t \in Searches,
                      phase[s] = "done", phase[t] = "done", SameGoal(s, t),
                      trialsRun[s] <= trialsRun[t]
               PROVE  ~Better(best[s], best[t])
    BY DEF PrefixMonotone
  <2> DEFINE p == problems[s]
             threshold == request[s].threshold
             m == trialsRun[s]
             n == trialsRun[t]
  <2>1. /\ IsBest(best[s], Examined(p, threshold, m))
        /\ IsBest(best[t], Examined(p, threshold, n))
        /\ p \in AllProblems
    BY DEF IInv, LoopInv, PrepInv, SameGoal, Searching
  <2>2. m \in 0 .. MaxTrials /\ n \in 0 .. MaxTrials /\ m <= n
    <3>1. /\ trialsRun[s] \in Nat /\ trialsRun[s] <= request[s].trials
          /\ trialsRun[t] \in Nat /\ trialsRun[t] <= request[t].trials
      BY DEF IInv, TypeOK
    <3>2. /\ request[s].trials \in Nat /\ request[s].trials <= MaxTrials
          /\ request[t].trials \in Nat /\ request[t].trials <= MaxTrials
      BY RequestFields DEF IInv
    <3> QED
      BY <3>1, <3>2, TrialAssumption
  <2>3. Examined(p, threshold, m) \subseteq Examined(p, threshold, n)
    BY <2>2, ExaminedGrows
  <2>4. /\ Examined(p, threshold, m) \in SUBSET Candidates
        /\ Examined(p, threshold, n) \in SUBSET Candidates
    BY <2>1, <2>2, ExaminedIsLogical
  <2>5. Examined(p, threshold, m) # {}
    <3>1. Initial(p, threshold) # {}
      BY <2>1, ScanFindsOne
    <3> QED
      BY <3>1 DEF Examined
  <2>6. best[s] \in Examined(p, threshold, m)
    BY <2>1, <2>5 DEF IsBest
  <2> HIDE DEF p, threshold, m, n
  <2> QED
    BY <2>1, <2>3, <2>4, <2>6, BestOfMore
<1> QED
  BY <1>1, Invariant, PTL

---------------------------------------------------------------------------
(* The replay.  Two searches of one goal stop at the same trial: as long as *)
(* a search goes on it has counted whole chunks, and when its last chunk    *)
(* began nothing was below the threshold.                                   *)

Stop(p, threshold, total, n) ==
  /\ n < total => \E m \in Nat : n = m * ChunkSize
  /\ n > 0 => \E m \in Nat :
       /\ n <= m * ChunkSize + ChunkSize
       /\ \A c \in Examined(p, threshold, m * ChunkSize) : ~Below(c, threshold)

StopInv(s) ==
  /\ phase[s] \in Searching =>
       Stop(problems[s], request[s].threshold, request[s].trials, trialsRun[s])
  /\ phase[s] = "done" => early[s] \/ trialsRun[s] >= request[s].trials

\* Multiples of the chunk size are a chunk apart.
LEMMA Multiples ==
  ASSUME NEW a \in Nat, NEW b \in Nat, a * ChunkSize < b * ChunkSize + ChunkSize
  PROVE  a * ChunkSize <= b * ChunkSize
<1>1. ChunkSize \in Nat
  BY SizesAssumption
<1>2. CASE a <= b
  <2>1. PICK d \in Nat : b = a + d
    BY <1>2
  <2>2. b * ChunkSize = a * ChunkSize + d * ChunkSize /\ d * ChunkSize \in Nat
    BY <1>1, <2>1
  <2> QED
    BY <1>1, <2>2
<1>3. CASE a > b
  <2>1. PICK d \in Nat : a = b + 1 + d
    <3>1. a - b - 1 \in Nat /\ a = b + 1 + (a - b - 1)
      BY <1>3
    <3> QED
      BY <3>1
  <2>2. a * ChunkSize = b * ChunkSize + ChunkSize + d * ChunkSize /\ d * ChunkSize \in Nat
    BY <1>1, <2>1
  <2> QED
    BY <1>1, <2>2
<1> QED
  BY <1>2, <1>3

\* Nothing that was examined is below the threshold when the best is not.
LEMMA NothingBelow ==
  ASSUME NEW S \in SUBSET Candidates, NEW a, IsBest(a, S), NEW threshold \in Nat,
         ~Below(a, threshold)
  PROVE  \A c \in S : ~Below(c, threshold)
<1> SUFFICES ASSUME NEW c \in S, Below(c, threshold) PROVE FALSE
  OBVIOUS
<1>1. a \in Candidates /\ c \in Candidates /\ ~Better(c, a)
  BY DEF IsBest
<1>2. a.weight \in Nat /\ c.weight \in Nat /\ a # NoCandidate
  BY <1>1, CandidateFields
<1> QED
  BY <1>1, <1>2 DEF Below, Better

\* What a search that goes on has counted tells where its next chunk ends.
LEMMA StopStep ==
  ASSUME TypeOK, NEW s \in Searches, PrepInv(s), LoopInv(s), StopInv(s),
         Step(s) \/ \E r \in Requests : Call(s, r)
  PROVE  StopInv(s)'
<1>a. ASSUME phase[s] \in Searching, phase'[s] \in {"chunk", "trials"},
             request'[s] = request[s], problems'[s] = problems[s], trialsRun'[s] = trialsRun[s]
      PROVE  StopInv(s)'
  <2>1. Stop(problems[s], request[s].threshold, request[s].trials, trialsRun[s])
    BY <1>a DEF StopInv
  <2>2. Stop(problems'[s], request'[s].threshold, request'[s].trials, trialsRun'[s])
    BY <1>a, <2>1
  <2> QED
    BY <1>a, <2>2 DEF StopInv
<1>b. ASSUME phase'[s] \notin Searching PROVE StopInv(s)'
  BY <1>b DEF StopInv, Searching
<1>1. CASE StartBuild(s) \/ FinishBuild(s)
  BY <1>1, <1>b DEF StartBuild, FinishBuild, Searching, Caches
<1>2. CASE UsePrepared(s)
  <2>1. phase'[s] \notin Searching
    BY <1>2 DEF UsePrepared, NextPhase, Searching, Caches, TypeOK
  <2> QED
    BY <2>1, <1>b
<1>3. CASE EnforceBudget(s)
  BY <1>3, <1>b DEF EnforceBudget, Searching, TypeOK
<1>4. CASE Scan(s)
  <2>1. phase'[s] = "chunk" /\ trialsRun'[s] = 0
    BY <1>4 DEF Scan, TypeOK, PrepInv, Searching
  <2>2. 0 = 0 * ChunkSize
    BY SizesAssumption
  <2> QED
    BY <2>1, <2>2 DEF StopInv, Stop
<1>5. CASE StartChunk(s)
  BY <1>5, <1>a DEF StartChunk, TypeOK, Searching
<1>6. CASE NextBatch(s)
  BY <1>6, <1>a DEF NextBatch, TypeOK, Searching
<1>7. CASE EndChunk(s)
  <2> DEFINE p == problems[s]
             threshold == request[s].threshold
             total == request[s].trials
             n == trialsRun[s]
  <2>1. /\ phase[s] = "trials" /\ phase'[s] = "chunk"
        /\ request' = request /\ problems' = problems /\ trialsRun'[s] = ChunkEnd(s)
    BY <1>7 DEF EndChunk, TypeOK
  <2>2. /\ IsBest(best[s], Examined(p, threshold, n)) /\ ~Below(best[s], threshold)
        /\ n < total
    BY <2>1 DEF LoopInv, Searching
  <2>3. n \in Nat /\ total \in Nat /\ total <= MaxTrials /\ threshold \in Nat
    BY RequestFields DEF TypeOK
  <2>4. Examined(p, threshold, n) \in SUBSET Candidates
    <3>1. p \in AllProblems
      BY <2>1 DEF PrepInv, Searching
    <3>2. n \in 0 .. MaxTrials
      BY <2>2, <2>3, TrialAssumption
    <3> QED
      BY <3>1, <3>2, ExaminedIsLogical
  <2>5. \A c \in Examined(p, threshold, n) : ~Below(c, threshold)
    BY <2>2, <2>3, <2>4, NothingBelow
  <2>6. PICK m \in Nat : n = m * ChunkSize
    BY <2>1, <2>2 DEF StopInv, Stop, Searching
  <2>7. /\ ChunkEnd(s) \in Nat /\ ChunkEnd(s) <= n + ChunkSize
        /\ ChunkEnd(s) < total => ChunkEnd(s) = n + ChunkSize
    BY <2>2, <2>3, SizesAssumption DEF ChunkEnd, Smaller
  <2>8. m + 1 \in Nat /\ n + ChunkSize = (m + 1) * ChunkSize
    BY <2>6, SizesAssumption
  <2>9. ChunkEnd(s) < total => \E k \in Nat : ChunkEnd(s) = k * ChunkSize
    BY <2>7, <2>8
  <2>10. /\ ChunkEnd(s) <= m * ChunkSize + ChunkSize
         /\ \A c \in Examined(p, threshold, m * ChunkSize) : ~Below(c, threshold)
    BY <2>5, <2>6, <2>7
  <2>11. Stop(p, threshold, total, ChunkEnd(s))
    BY <2>9, <2>10 DEF Stop
  <2>12. Stop(problems'[s], request'[s].threshold, request'[s].trials, trialsRun'[s])
    BY <2>1, <2>11
  <2> QED
    BY <2>1, <2>12 DEF StopInv
<1>8. CASE Deliver(s)
  <2>1. /\ phase[s] = "chunk" /\ phase'[s] = "done"
        /\ early[s] \/ trialsRun[s] >= request[s].trials
        /\ UNCHANGED <<request, problems, trialsRun, early>>
    BY <1>8 DEF Deliver, TypeOK
  <2>2. Stop(problems[s], request[s].threshold, request[s].trials, trialsRun[s])
    BY <2>1 DEF StopInv, Searching
  <2> QED
    BY <2>1, <2>2 DEF StopInv
<1>9. ASSUME NEW r \in DOMAIN work[s], Claim(s, r) PROVE StopInv(s)'
  BY <1>9, <1>a DEF Claim, Searching
<1>10. ASSUME NEW r \in DOMAIN work[s], RunTrial(s, r) PROVE StopInv(s)'
  BY <1>10, <1>a DEF RunTrial, Searching
<1>11. ASSUME NEW r \in DOMAIN work[s], MergeRange(s, r) PROVE StopInv(s)'
  BY <1>11, <1>a DEF MergeRange, Searching
<1>12. ASSUME NEW r \in Requests, Call(s, r) PROVE StopInv(s)'
  <2>1. r.sector \in Sectors
    BY RequestsAssumption
  <2>2. Head(Needs(r.sector)) \in {"general", "analysis"}
    BY <2>1 DEF Needs, Sectors
  <2>3. phase'[s] \notin Searching
    BY <1>12, <2>2 DEF Call, TypeOK, Searching
  <2> QED
    BY <2>3, <1>b
<1> QED
  BY <1>1, <1>2, <1>3, <1>4, <1>5, <1>6, <1>7, <1>8, <1>9, <1>10, <1>11, <1>12 DEF Step

Stops == \A s \in Searches : StopInv(s)

LEMMA StopInvariant == Spec => []Stops
<1>1. Init => Stops
  BY DEF Init, Stops, StopInv, Searching
<1>2. IInv /\ Stops /\ [Next]_vars => Stops'
  <2> SUFFICES ASSUME IInv, \A s \in Searches : StopInv(s), [Next]_vars,
                      NEW t \in Searches
               PROVE  StopInv(t)'
    BY DEF Stops
  <2>1. ASSUME View(t)' = View(t) PROVE StopInv(t)'
    BY <2>1 DEF View, StopInv
  <2>2. CASE UNCHANGED vars
    <3>1. View(t)' = View(t)
      BY <2>2 DEF vars, setup, View
    <3> QED
      BY <3>1, <2>1
  <2>3. ASSUME NEW s \in Searches, Step(s) \/ \E r \in Requests : Call(s, r)
        PROVE  StopInv(t)'
    <3>1. CASE t = s
      BY <2>3, <3>1, StopStep DEF IInv
    <3>2. CASE t # s
      BY <2>1, <2>3, <3>2, OthersKept DEF IInv
    <3> QED
      BY <3>1, <3>2
  <2> QED
    BY <2>2, <2>3 DEF Next, Finished
<1> QED
  BY <1>1, <1>2, Invariant, PTL DEF Spec

\* A search that stopped cannot have counted fewer trials than another one of
\* the same goal and budget.
LEMMA SameStop ==
  ASSUME IInv, NEW s \in Searches, NEW t \in Searches, StopInv(s), StopInv(t),
         phase[s] = "done", phase[t] = "done", SameGoal(s, t),
         request[s].trials = request[t].trials
  PROVE  trialsRun[s] >= trialsRun[t]
<1> SUFFICES ASSUME trialsRun[s] < trialsRun[t] PROVE FALSE
  BY DEF IInv, TypeOK
<1> DEFINE p == problems[s]
           threshold == request[s].threshold
           n == trialsRun[s]
<1>1. /\ n \in Nat /\ trialsRun[t] \in Nat /\ trialsRun[t] <= request[t].trials
      /\ request[s].trials \in Nat /\ request[s].trials <= MaxTrials
  BY RequestFields DEF IInv, TypeOK
<1>2. n < request[s].trials
  BY <1>1
<1>3. PICK k \in Nat : n = k * ChunkSize
  BY <1>2 DEF StopInv, Stop, Searching
<1>4. Below(best[s], threshold) /\ IsBest(best[s], Examined(p, threshold, n)) /\ p \in AllProblems
  BY <1>1, <1>2 DEF StopInv, IInv, LoopInv, PrepInv, Searching
<1>5. PICK m \in Nat :
        /\ trialsRun[t] <= m * ChunkSize + ChunkSize
        /\ \A c \in Examined(p, threshold, m * ChunkSize) : ~Below(c, threshold)
  BY <1>1 DEF StopInv, Stop, Searching, SameGoal
<1>6. m * ChunkSize \in Nat
  BY SizesAssumption
<1>7. n <= m * ChunkSize
  BY <1>1, <1>3, <1>5, <1>6, SizesAssumption, Multiples
<1>8. best[s] \in Examined(p, threshold, n)
  BY <1>4 DEF IsBest, Below
<1>9. Examined(p, threshold, n) \subseteq Examined(p, threshold, m * ChunkSize)
  BY <1>1, <1>6, <1>7, ExaminedGrows
<1> QED
  BY <1>4, <1>5, <1>8, <1>9

\* A seeded search replays: searches of one goal end with the same candidate, the
\* same count and the same reason, however many workers their limits gave them.
THEOREM Replay == Spec => []ReplayAgrees
<1>1. IInv /\ Stops => ReplayAgrees
  <2> SUFFICES ASSUME IInv, \A s \in Searches : StopInv(s), NEW s \in Searches,
                      NEW t \in Searches, phase[s] = "done", phase[t] = "done",
                      SameGoal(s, t), request[s].trials = request[t].trials
               PROVE  /\ best[s] = best[t] /\ trialsRun[s] = trialsRun[t]
                      /\ early[s] = early[t]
    BY DEF ReplayAgrees, Stops
  <2>1. SameGoal(t, s)
    BY DEF SameGoal
  <2>2. trialsRun[s] = trialsRun[t]
    <3>1. trialsRun[s] >= trialsRun[t] /\ trialsRun[t] >= trialsRun[s]
      BY <2>1, SameStop
    <3>2. trialsRun[s] \in Nat /\ trialsRun[t] \in Nat
      BY DEF IInv, TypeOK
    <3> HIDE DEF IInv
    <3> QED
      BY <3>1, <3>2
  <2> DEFINE S == Examined(problems[s], request[s].threshold, trialsRun[s])
  <2>3. /\ IsBest(best[s], S) /\ IsBest(best[t], S) /\ problems[s] \in AllProblems
        /\ early[s] <=> Below(best[s], request[s].threshold)
        /\ early[t] <=> Below(best[t], request[s].threshold)
    BY <2>2 DEF IInv, LoopInv, PrepInv, SameGoal, Searching
  <2>4. trialsRun[s] \in 0 .. MaxTrials
    BY RequestFields, TrialAssumption DEF IInv, TypeOK
  <2>5. S \in SUBSET Candidates
    BY <2>3, <2>4, ExaminedIsLogical
  <2>6. best[s] = best[t]
    BY <2>3, <2>5, BestIsUnique
  <2>7. early[s] \in BOOLEAN /\ early[t] \in BOOLEAN
    BY DEF IInv, TypeOK
  <2> QED
    BY <2>2, <2>3, <2>6, <2>7
<1> QED
  BY <1>1, Invariant, StopInvariant, PTL

---------------------------------------------------------------------------
(* The memory bound.  A search's ranges run only inside a batch, no more of *)
(* them than its workers; the pool that all searches share runs no more     *)
(* than it has threads.                                                     *)

RunInv(s) ==
  /\ IsFiniteSet(Running(s))
  /\ phase[s] # "trials" => Running(s) = {}
  /\ phase[s] = "trials" => Cardinality(Running(s)) <= workers[s]
  /\ phase[s] \in {"scan", "chunk", "trials"} =>
       /\ workers[s] = WorkerCount(s)
       /\ BaseBytes(s) + WorkerBytesOf(s) <= request[s].bytes

Shared == UNION {{s} \X Running(s) : s \in {s \in Searches : OnGlobalPool(s)}}

PoolInv ==
  /\ \A s \in Searches : RunInv(s)
  /\ IsFiniteSet(Shared) /\ Cardinality(Shared) <= ThreadCount

LEMMA SharedMember ==
  ASSUME NEW q
  PROVE  q \in Shared <=>
           \E t \in Searches : OnGlobalPool(t) /\ \E r \in Running(t) : q = <<t, r>>
  BY DEF Shared

\* A batch begins with nothing running.
LEMMA NothingRuns ==
  ASSUME NEW indices, NEW count, NEW s,
         work'[s] = NewWork(indices, count) \/ work'[s] = NoWork
  PROVE  Running(s)' = {}
<1>1. CASE work'[s] = NewWork(indices, count)
  <2>1. \A r \in DOMAIN NewWork(indices, count) :
          NewWork(indices, count)[r].state = "waiting"
    BY DEF NewWork
  <2> QED
    BY <1>1, <2>1 DEF Running
<1>2. CASE work'[s] = NoWork
  <2>1. DOMAIN NoWork = {}
    BY DEF NoWork
  <2> QED
    BY <1>2, <2>1 DEF Running
<1> QED
  BY <1>1, <1>2

LEMMA ClaimedRuns ==
  ASSUME TypeOK, NEW s \in Searches, NEW r \in DOMAIN work[s], work[s][r].state = "waiting",
         work' = [work EXCEPT ![s][r].state = "running"]
  PROVE  Running(s)' = Running(s) \cup {r} /\ r \notin Running(s)
<1>1. work[s] \in [DOMAIN work[s] -> RangeRecord]
  BY DEF TypeOK
<1>2. work'[s] = [work[s] EXCEPT ![r].state = "running"]
  BY StateType
<1>3. /\ DOMAIN work'[s] = DOMAIN work[s] /\ work'[s][r].state = "running"
      /\ \A q \in DOMAIN work[s] \ {r} : work'[s][q] = work[s][q]
  BY <1>1, <1>2 DEF RangeRecord
<1> QED
  BY <1>3 DEF Running

\* No other step of a search makes a range run.
LEMMA NoneStarts ==
  ASSUME TypeOK, NEW s \in Searches, NEW r \in DOMAIN work[s],
         RunTrial(s, r) \/ MergeRange(s, r)
  PROVE  Running(s)' \subseteq Running(s)
<1>1. work[s] \in [DOMAIN work[s] -> RangeRecord]
  BY DEF TypeOK
<1>2. CASE RunTrial(s, r)
  <2>1. r \in Running(s)
    BY <1>2 DEF RunTrial
  <2>2. /\ DOMAIN work'[s] = DOMAIN work[s]
        /\ \A q \in DOMAIN work[s] \ {r} : work'[s][q] = work[s][q]
    BY <1>2 DEF RunTrial, TypeOK
  <2> QED
    BY <2>1, <2>2 DEF Running
<1>3. CASE MergeRange(s, r)
  <2>1. work' = [work EXCEPT ![s][r].state = "merged"]
    BY <1>3 DEF MergeRange
  <2>2. work'[s] = [work[s] EXCEPT ![r].state = "merged"]
    BY <2>1, StateType
  <2>3. /\ DOMAIN work'[s] = DOMAIN work[s] /\ work'[s][r].state = "merged"
        /\ \A q \in DOMAIN work[s] \ {r} : work'[s][q] = work[s][q]
    BY <1>1, <2>2 DEF RangeRecord
  <2> QED
    BY <2>3 DEF Running
<1> QED
  BY <1>2, <1>3

LEMMA RunStep ==
  ASSUME TypeOK, NEW s \in Searches, PrepInv(s), RunInv(s),
         Step(s) \/ \E r \in Requests : Call(s, r)
  PROVE  RunInv(s)'
<1>a. ASSUME request'[s] = request[s], problems'[s] = problems[s]
      PROVE  /\ WorkerCount(s)' = WorkerCount(s) /\ BaseBytes(s)' = BaseBytes(s)
             /\ WorkerBytesOf(s)' = WorkerBytesOf(s)
  BY <1>a DEF WorkerCount, BaseBytes, RetainedBytes, WorkerBytesOf
<1>b. ASSUME phase[s] # "trials", work'[s] = work[s],
             phase'[s] \notin {"scan", "chunk", "trials"}
      PROVE  RunInv(s)'
  <2>1. Running(s)' = Running(s) /\ Running(s) = {}
    BY <1>b DEF RunInv, Running
  <2> QED
    BY <1>b, <2>1 DEF RunInv
\* The workers of a search that goes on are those its budget paid for.
<1>c. ASSUME request'[s] = request[s], problems'[s] = problems[s], workers'[s] = workers[s],
             phase[s] \in {"scan", "chunk", "trials"}, IsFiniteSet(Running(s)'),
             phase'[s] # "trials" => Running(s)' = {},
             phase'[s] = "trials" => Cardinality(Running(s)') <= workers[s]
      PROVE  RunInv(s)'
  BY <1>a, <1>c DEF RunInv
<1>d. /\ IsFiniteSet({}) /\ Cardinality({}) = 0 /\ workers[s] \in Nat
  BY FS_EmptySet DEF TypeOK
<1>1. CASE StartBuild(s) \/ FinishBuild(s)
  BY <1>1, <1>b DEF StartBuild, FinishBuild, Caches
<1>2. CASE UsePrepared(s)
  <2>1. /\ phase[s] \in Caches /\ work' = work
        /\ phase'[s] \notin {"scan", "chunk", "trials"}
    BY <1>2 DEF UsePrepared, NextPhase, Caches, TypeOK
  <2> QED
    BY <2>1, <1>b DEF Caches
<1>3. CASE EnforceBudget(s)
  <2>1. /\ phase[s] = "budget" /\ work' = work /\ request' = request /\ problems' = problems
    BY <1>3 DEF EnforceBudget
  <2>2. CASE phase'[s] = "failed"
    BY <2>1, <2>2, <1>b
  <2>3. CASE phase'[s] # "failed"
    <3>1. /\ ~(BaseBytes(s) + WorkerBytesOf(s) > request[s].bytes)
          /\ phase'[s] = "scan" /\ workers'[s] = WorkerCount(s)
      BY <1>3, <2>3 DEF EnforceBudget, TypeOK
    <3>2. BaseBytes(s) + WorkerBytesOf(s) \in Int /\ request[s].bytes \in Int
      BY <2>1, BytesType, RequestFields DEF PrepInv
    <3>3. BaseBytes(s) + WorkerBytesOf(s) <= request[s].bytes
      <4> HIDE DEF BaseBytes, WorkerBytesOf
      <4> QED
        BY <3>1, <3>2
    <3>4. Running(s)' = Running(s) /\ Running(s) = {}
      BY <2>1 DEF RunInv, Running
    <3> QED
      BY <2>1, <3>1, <3>3, <3>4, <1>a, <1>d DEF RunInv
  <2> QED
    BY <2>2, <2>3
<1>4. CASE Scan(s)
  <2>1. /\ phase[s] = "scan" /\ phase'[s] = "chunk" /\ UNCHANGED <<request, problems, workers, work>>
    BY <1>4 DEF Scan, TypeOK
  <2>2. Running(s)' = Running(s) /\ Running(s) = {}
    BY <2>1 DEF RunInv, Running
  <2> QED
    BY <2>1, <2>2, <1>c, <1>d
<1>5. CASE StartChunk(s) \/ NextBatch(s)
  <2>1. /\ phase[s] \in {"chunk", "trials"} /\ UNCHANGED <<request, problems, workers>>
        /\ \E k : work'[s] = NewWork(Indices(s, k), workers[s])
    BY <1>5 DEF StartChunk, NextBatch, BeginBatch, TypeOK
  <2>2. Running(s)' = {}
    BY <2>1, NothingRuns
  <2> QED
    BY <2>1, <2>2, <1>c, <1>d
<1>6. CASE EndChunk(s)
  <2>1. /\ phase[s] = "trials" /\ UNCHANGED <<request, problems, workers>> /\ work'[s] = NoWork
    BY <1>6 DEF EndChunk, TypeOK
  <2>2. Running(s)' = {}
    BY <2>1, NothingRuns
  <2> QED
    BY <2>1, <2>2, <1>c, <1>d
<1>7. CASE Deliver(s)
  BY <1>7, <1>b DEF Deliver, TypeOK
<1>8. ASSUME NEW r \in DOMAIN work[s], Claim(s, r) PROVE RunInv(s)'
  <2>1. /\ phase[s] = "trials" /\ UNCHANGED <<phase, request, problems, workers>>
        /\ work[s][r].state = "waiting" /\ Cardinality(Running(s)) < workers[s]
        /\ work' = [work EXCEPT ![s][r].state = "running"]
    BY <1>8 DEF Claim
  <2>2. Running(s)' = Running(s) \cup {r} /\ r \notin Running(s)
    BY <2>1, ClaimedRuns
  <2>3. IsFiniteSet(Running(s)') /\ Cardinality(Running(s)') = Cardinality(Running(s)) + 1
    BY <2>2, FS_AddElement DEF RunInv
  <2>4. Cardinality(Running(s)) \in Nat
    BY FS_CardinalityType DEF RunInv
  <2>5. Cardinality(Running(s)') <= workers[s]
    BY <2>1, <2>3, <2>4, <1>d
  <2> QED
    BY <2>1, <2>3, <2>5, <1>c
<1>9. ASSUME NEW r \in DOMAIN work[s], RunTrial(s, r) \/ MergeRange(s, r) PROVE RunInv(s)'
  <2>1. /\ phase[s] = "trials" /\ UNCHANGED <<phase, request, problems, workers>>
    BY <1>9 DEF RunTrial, MergeRange
  <2>2. Running(s)' \subseteq Running(s)
    BY <1>9, NoneStarts
  <2>3. /\ IsFiniteSet(Running(s)') /\ Cardinality(Running(s)') <= Cardinality(Running(s))
        /\ Cardinality(Running(s)') \in Nat /\ Cardinality(Running(s)) \in Nat
    BY <2>2, FS_Subset, FS_CardinalityType DEF RunInv
  <2>4. Cardinality(Running(s)') <= workers[s]
    BY <2>1, <2>3, <1>d DEF RunInv
  <2> QED
    BY <2>1, <2>3, <2>4, <1>c
<1>10. ASSUME NEW r \in Requests, Call(s, r) PROVE RunInv(s)'
  <2>1. r.sector \in Sectors
    BY RequestsAssumption
  <2>2. Head(Needs(r.sector)) \in {"general", "analysis"}
    BY <2>1 DEF Needs, Sectors
  <2> QED
    BY <1>10, <2>2, <1>b DEF Call, TypeOK
<1> QED
  BY <1>1, <1>2, <1>3, <1>4, <1>5, <1>6, <1>7, <1>8, <1>9, <1>10 DEF Step

\* Only a claim adds to what runs on the shared pool, and it looks first.
LEMMA PoolStep ==
  ASSUME TypeOK, NEW s \in Searches, RunInv(s), IsFiniteSet(Shared),
         Cardinality(Shared) <= ThreadCount,
         Step(s) \/ \E r \in Requests : Call(s, r)
  PROVE  IsFiniteSet(Shared') /\ Cardinality(Shared') <= ThreadCount
<1>a. ThreadCount \in Nat /\ Cardinality(Shared) \in Nat
  BY FS_CardinalityType, SizesAssumption
<1>b. ASSUME Shared' \subseteq Shared
      PROVE  IsFiniteSet(Shared') /\ Cardinality(Shared') <= ThreadCount
  <2>1. /\ IsFiniteSet(Shared') /\ Cardinality(Shared') <= Cardinality(Shared)
        /\ Cardinality(Shared') \in Nat
    BY <1>b, FS_Subset, FS_CardinalityType
  <2> QED
    BY <1>a, <2>1
<1>c. ASSUME NEW t \in Searches \ {s}
      PROVE  (OnGlobalPool(t)' <=> OnGlobalPool(t)) /\ Running(t)' = Running(t)
  <2>1. workers'[t] = workers[t] /\ work'[t] = work[t]
    <3>1. View(t)' = View(t)
      BY OthersKept
    <3> QED
      BY <3>1 DEF View
  <2> QED
    BY <2>1 DEF OnGlobalPool, Running
<1>d. ASSUME NEW q \in Shared'
      PROVE  \E t \in Searches : OnGlobalPool(t)' /\ \E r \in Running(t)' : q = <<t, r>>
  BY DEF Shared
\* Nothing of s that runs now ran on another pool, or not at all, before.
<1>e. ASSUME OnGlobalPool(s)' => Running(s)' \subseteq Running(s) /\ (Running(s)' = {} \/ OnGlobalPool(s))
      PROVE  Shared' \subseteq Shared
  <2> SUFFICES ASSUME NEW q \in Shared' PROVE q \in Shared
    OBVIOUS
  <2>1. PICK t \in Searches : OnGlobalPool(t)' /\ \E r \in Running(t)' : q = <<t, r>>
    BY <1>d
  <2>2. OnGlobalPool(t) /\ \E r \in Running(t) : q = <<t, r>>
    <3>1. CASE t = s
      BY <2>1, <3>1, <1>e
    <3>2. CASE t # s
      BY <2>1, <3>2, <1>c
    <3> QED
      BY <3>1, <3>2
  <2> QED
    BY <2>2, SharedMember
<1>1. CASE StartBuild(s) \/ FinishBuild(s) \/ UsePrepared(s) \/ Scan(s) \/ Deliver(s)
  <2>1. work' = work /\ workers' = workers
    BY <1>1 DEF StartBuild, FinishBuild, UsePrepared, Scan, Deliver
  <2>2. Running(s)' = Running(s) /\ (OnGlobalPool(s)' <=> OnGlobalPool(s))
    BY <2>1 DEF Running, OnGlobalPool
  <2> QED
    BY <2>2, <1>b, <1>e
<1>2. CASE EnforceBudget(s)
  <2>1. phase[s] = "budget" /\ work' = work
    BY <1>2 DEF EnforceBudget
  <2>2. Running(s)' = Running(s) /\ Running(s) = {}
    BY <2>1 DEF RunInv, Running
  <2> QED
    BY <2>2, <1>b, <1>e
<1>3. CASE StartChunk(s) \/ NextBatch(s) \/ EndChunk(s)
  <2>1. \/ \E k : work'[s] = NewWork(Indices(s, k), workers[s])
        \/ work'[s] = NoWork
    BY <1>3 DEF StartChunk, NextBatch, EndChunk, BeginBatch, TypeOK
  <2>2. Running(s)' = {}
    BY <2>1, NothingRuns
  <2> QED
    BY <2>2, <1>b, <1>e
<1>4. ASSUME NEW r \in DOMAIN work[s], Claim(s, r)
      PROVE  IsFiniteSet(Shared') /\ Cardinality(Shared') <= ThreadCount
  <2>1. /\ workers' = workers /\ work[s][r].state = "waiting"
        /\ OnGlobalPool(s) => ThreadCount > Cardinality(Shared)
        /\ work' = [work EXCEPT ![s][r].state = "running"]
    BY <1>4 DEF Claim, Shared
  <2>2. Running(s)' = Running(s) \cup {r}
    BY <2>1, ClaimedRuns
  <2>3. OnGlobalPool(s)' <=> OnGlobalPool(s)
    BY <2>1 DEF OnGlobalPool
  <2>4. CASE OnGlobalPool(s)
    <3>1. Shared' \subseteq Shared \cup {<<s, r>>}
      <4> SUFFICES ASSUME NEW q \in Shared', q # <<s, r>> PROVE q \in Shared
        OBVIOUS
      <4>1. PICK t \in Searches : OnGlobalPool(t)' /\ \E p \in Running(t)' : q = <<t, p>>
        BY <1>d
      <4>2. OnGlobalPool(t) /\ \E p \in Running(t) : q = <<t, p>>
        <5>1. CASE t = s
          BY <4>1, <5>1, <2>2, <2>3
        <5>2. CASE t # s
          BY <4>1, <5>2, <1>c
        <5> QED
          BY <5>1, <5>2
      <4> QED
        BY <4>2, SharedMember
    <3>2. /\ IsFiniteSet(Shared \cup {<<s, r>>})
          /\ Cardinality(Shared \cup {<<s, r>>}) \in Nat
          /\ Cardinality(Shared \cup {<<s, r>>}) <= Cardinality(Shared) + 1
      <4> DEFINE U == Shared
                 x == <<s, r>>
      <4>1. IsFiniteSet(U)
        OBVIOUS
      <4> HIDE DEF U, x
      <4>2. /\ IsFiniteSet(U \cup {x})
            /\ Cardinality(U \cup {x}) = IF x \in U THEN Cardinality(U) ELSE Cardinality(U) + 1
        BY <4>1, FS_AddElement
      <4>3. Cardinality(U) \in Nat
        BY <4>1, FS_CardinalityType
      <4>4. /\ IsFiniteSet(U \cup {x}) /\ Cardinality(U \cup {x}) \in Nat
            /\ Cardinality(U \cup {x}) <= Cardinality(U) + 1
        BY <4>2, <4>3
      <4> QED
        BY <4>4 DEF U, x
    <3>3. /\ IsFiniteSet(Shared') /\ Cardinality(Shared') \in Nat
          /\ Cardinality(Shared') <= Cardinality(Shared \cup {<<s, r>>})
      BY <3>1, <3>2, FS_Subset, FS_CardinalityType
    <3> QED
      BY <2>1, <2>4, <3>2, <3>3, <1>a
  <2>5. CASE ~OnGlobalPool(s)
    BY <2>3, <2>5, <1>b, <1>e
  <2> QED
    BY <2>4, <2>5
<1>5. ASSUME NEW r \in DOMAIN work[s], RunTrial(s, r) \/ MergeRange(s, r)
      PROVE  Shared' \subseteq Shared
  <2>1. workers' = workers
    BY <1>5 DEF RunTrial, MergeRange
  <2>2. Running(s)' \subseteq Running(s)
    BY <1>5, NoneStarts
  <2>3. OnGlobalPool(s)' <=> OnGlobalPool(s)
    BY <2>1 DEF OnGlobalPool
  <2> QED
    BY <2>2, <2>3, <1>e
<1>6. ASSUME NEW r \in Requests, Call(s, r) PROVE Shared' \subseteq Shared
  <2>1. work' = work /\ workers' = workers
    BY <1>6 DEF Call
  <2>2. Running(s)' = Running(s) /\ (OnGlobalPool(s)' <=> OnGlobalPool(s))
    BY <2>1 DEF Running, OnGlobalPool
  <2> QED
    BY <2>2, <1>e
<1> QED
  BY <1>1, <1>2, <1>3, <1>4, <1>5, <1>6, <1>b DEF Step

LEMMA PoolInvariant == Spec => []PoolInv
<1>1. Init => PoolInv
  <2> SUFFICES ASSUME Init PROVE PoolInv
    OBVIOUS
  <2>1. \A s \in Searches : Running(s) = {} /\ phase[s] = "idle"
    <3>1. DOMAIN NoWork = {}
      BY DEF NoWork
    <3> QED
      BY <3>1 DEF Init, Running
  <2>2. Shared = {}
    BY <2>1 DEF Shared
  <2>3. IsFiniteSet({}) /\ Cardinality({}) = 0 /\ ThreadCount \in Nat
    BY FS_EmptySet, SizesAssumption
  <2>4. \A s \in Searches : RunInv(s)
    BY <2>1, <2>3 DEF RunInv
  <2> QED
    BY <2>2, <2>3, <2>4 DEF PoolInv
<1>2. IInv /\ PoolInv /\ [Next]_vars => PoolInv'
  <2> SUFFICES ASSUME IInv, PoolInv, [Next]_vars PROVE PoolInv'
    OBVIOUS
  <2>0. TypeOK /\ \A t \in Searches : PrepInv(t) /\ LoopInv(t)
    BY DEF IInv
  <2>a. (\A t \in Searches : RunInv(t)) /\ IsFiniteSet(Shared) /\ Cardinality(Shared) <= ThreadCount
    BY DEF PoolInv
  <2>b. ASSUME NEW t \in Searches, View(t)' = View(t) PROVE RunInv(t)'
    <3>1. /\ phase'[t] = phase[t] /\ request'[t] = request[t] /\ problems'[t] = problems[t]
          /\ workers'[t] = workers[t] /\ work'[t] = work[t]
      BY <2>b DEF View
    <3>2. /\ Running(t)' = Running(t) /\ WorkerCount(t)' = WorkerCount(t)
          /\ BaseBytes(t)' = BaseBytes(t) /\ WorkerBytesOf(t)' = WorkerBytesOf(t)
      BY <3>1 DEF Running, WorkerCount, BaseBytes, RetainedBytes, WorkerBytesOf
    <3> QED
      BY <2>a, <3>1, <3>2 DEF RunInv
  <2>1. CASE UNCHANGED vars
    <3>1. \A t \in Searches : View(t)' = View(t)
      BY <2>1 DEF vars, setup, View
    <3>2. Shared' = Shared
      BY <2>1 DEF vars, setup, Shared, Running, OnGlobalPool
    <3> QED
      BY <2>a, <2>b, <3>1, <3>2 DEF PoolInv
  <2>2. ASSUME NEW s \in Searches, Step(s) \/ \E r \in Requests : Call(s, r)
        PROVE  PoolInv'
    <3>1. ASSUME NEW t \in Searches PROVE RunInv(t)'
      <4>1. CASE t = s
        BY <2>0, <2>a, <2>2, <4>1, RunStep
      <4>2. CASE t # s
        BY <2>0, <2>b, <2>2, <4>2, OthersKept
      <4> QED
        BY <4>1, <4>2
    <3>2. IsFiniteSet(Shared') /\ Cardinality(Shared') <= ThreadCount
      BY <2>0, <2>a, <2>2, PoolStep
    <3> QED
      BY <3>1, <3>2 DEF PoolInv
  <2> QED
    BY <2>1, <2>2 DEF Next, Finished
<1> QED
  BY <1>1, <1>2, Invariant, PTL DEF Spec

\* As many workers as fit: their bytes and what the search retains stay within the limit.
LEMMA WorkersFit ==
  ASSUME NEW base \in Nat, NEW each \in Nat \ {0}, NEW limit \in Nat, base + each <= limit,
         NEW k \in Nat, k <= Larger(1, (limit - base) \div each)
  PROVE  base + k * each <= limit
<1> DEFINE q == (limit - base) \div each
<1>1. limit - base \in Nat
  OBVIOUS
<1>2. q \in Nat /\ q * each <= limit - base
  BY <1>1
<1>3. k <= 1 \/ k <= q
  BY <1>2 DEF Larger
<1>4. CASE k <= 1
  <2>1. k = 0 \/ k = 1
    BY <1>4
  <2>2. k * each <= each
    BY <2>1
  <2> QED
    BY <2>2
<1>5. CASE k <= q
  <2>1. PICK d \in Nat : q = k + d
    <3>1. q - k \in Nat /\ q = k + (q - k)
      BY <1>2, <1>5
    <3> QED
      BY <3>1
  <2>2. q * each = k * each + d * each /\ d * each \in Nat /\ k * each \in Nat
    BY <2>1
  <2> HIDE DEF q
  <2> QED
    BY <1>1, <1>2, <2>2
<1> QED
  BY <1>3, <1>4, <1>5

\* Whatever searches run beside each other, a search's workers fit the limit it was
\* given beside what it retains, and the shared pool runs no more ranges than threads.
THEOREM WorkersFitBudget == Spec => []WorkersWithinBudget
<1>1. IInv /\ PoolInv => WorkersWithinBudget
  <2> SUFFICES ASSUME IInv, PoolInv PROVE WorkersWithinBudget
    OBVIOUS
  <2>1. ASSUME NEW s \in Searches, phase[s] \in {"chunk", "trials"}
        PROVE  BaseBytes(s) + Cardinality(Running(s)) * WorkerBytesOf(s) <= request[s].bytes
    <3>1. TypeOK /\ PrepInv(s) /\ RunInv(s)
      BY DEF IInv, PoolInv
    <3>2. problems[s] \in AllProblems
      BY <2>1, <3>1 DEF PrepInv, Searching
    <3>3. /\ BaseBytes(s) \in Nat /\ WorkerBytesOf(s) \in Nat \ {0}
          /\ request[s].bytes \in Nat /\ request[s].trials \in Nat /\ ThreadCount \in Nat
      BY <3>1, <3>2, BytesType, RequestFields, SizesAssumption
    <3>4. /\ workers[s] = WorkerCount(s)
          /\ BaseBytes(s) + WorkerBytesOf(s) <= request[s].bytes
      BY <2>1, <3>1 DEF RunInv
    <3>5. Cardinality(Running(s)) \in Nat /\ Cardinality(Running(s)) <= workers[s]
      <4>1. workers[s] \in Nat
        BY <3>1 DEF TypeOK
      <4> QED
        BY <2>1, <3>1, <4>1, FS_EmptySet, FS_CardinalityType DEF RunInv
    <3>6. (request[s].bytes - BaseBytes(s)) \div WorkerBytesOf(s) \in Int
      <4> HIDE DEF BaseBytes, WorkerBytesOf
      <4> QED
        BY <3>3
    <3>7. Cardinality(Running(s))
            <= Larger(1, (request[s].bytes - BaseBytes(s)) \div WorkerBytesOf(s))
      <4> DEFINE q == (request[s].bytes - BaseBytes(s)) \div WorkerBytesOf(s)
                 k == Cardinality(Running(s))
      <4>1. workers[s] = Smaller(Smaller(ThreadCount, request[s].trials), Larger(1, q))
        BY <3>4, Zenon DEF WorkerCount
      <4>2. k \in Nat /\ q \in Int /\ ThreadCount \in Nat /\ request[s].trials \in Nat
        BY <3>3, <3>5, <3>6
      <4> HIDE DEF q, k
      <4>3. k <= Larger(1, q)
        BY <3>5, <4>1, <4>2 DEF Smaller, Larger, k
      <4> QED
        BY <4>3 DEF q, k
    <3> QED
      BY <3>3, <3>4, <3>5, <3>7, WorkersFit
  <2> QED
    BY <2>1 DEF WorkersWithinBudget, PoolInv, Shared
<1> QED
  BY <1>1, Invariant, PoolInvariant, PTL

---------------------------------------------------------------------------
(* The refinement                                                          *)

\* The abstract search looks at the same candidates in the same order.
LEMMA SameCandidates ==
  /\ \A c, S : Anytime!IsBest(c, S) <=> IsBest(c, S)
  /\ \A c, threshold : Anytime!Below(c, threshold) <=> Below(c, threshold)
  /\ \A p, threshold : Anytime!Initial(p, threshold) = Initial(p, threshold)
  /\ \A p, threshold, n : Anytime!Examined(p, threshold, n) = Examined(p, threshold, n)
<1>1. \A c, S : Anytime!IsBest(c, S) <=> IsBest(c, S)
  BY DEF Anytime!IsBest, IsBest, Anytime!Better, Better
<1>2. \A c, threshold : Anytime!Below(c, threshold) <=> Below(c, threshold)
  BY DEF Anytime!Below, Below
<1>3. \A d, threshold : Anytime!Scanned(d, threshold) = Scanned(d, threshold)
  BY DEF Anytime!Scanned, Scanned, Anytime!Considered, Considered, Anytime!Below, Below
<1>4. \A p, threshold : Anytime!Initial(p, threshold) = Initial(p, threshold)
  BY DEF Anytime!Initial, Initial, Anytime!StopsEarly, StopsEarly, Anytime!Scanned, Scanned,
         Anytime!Considered, Considered, Anytime!Below, Below
<1>5. \A p, I : Anytime!Found(p, I) = Found(p, I)
  BY DEF Anytime!Found, Found, Anytime!DirectionOf, DirectionOf
<1>6. \A p, threshold, n : Anytime!Examined(p, threshold, n) = Examined(p, threshold, n)
  BY <1>4, <1>5 DEF Anytime!Examined, Examined
<1> QED
  BY <1>1, <1>2, <1>4, <1>6

MappedStatus == [s \in Searches |-> Status(s)]
MappedGoal == [s \in Searches |-> Goal(s)]

LEMMA MappedLocals ==
  ASSUME NEW t \in Searches, View(t)' = View(t)
  PROVE  Status(t)' = Status(t) /\ Goal(t)' = Goal(t)
<1>1. phase'[t] = phase[t] /\ problems'[t] = problems[t] /\ request'[t] = request[t]
  BY DEF View
<1>2. Status(t)' = Status(t)
  BY <1>1 DEF Status
<1> QED
  BY <1>1, <1>2 DEF Goal

\* A step of s changes the abstract state at s only.
LEMMA MappedStep ==
  ASSUME TypeOK, NEW s \in Searches, Step(s) \/ \E r \in Requests : Call(s, r)
  PROVE  /\ MappedStatus' = [MappedStatus EXCEPT ![s] = Status(s)']
         /\ MappedGoal' = [MappedGoal EXCEPT ![s] = Goal(s)']
<1>1. \A t \in Searches \ {s} : Status(t)' = Status(t) /\ Goal(t)' = Goal(t)
  BY OthersKept, MappedLocals
<1> HIDE DEF Status, Goal
<1>2. MappedStatus' = [MappedStatus EXCEPT ![s] = Status(s)']
  BY <1>1 DEF MappedStatus
<1>3. MappedGoal' = [MappedGoal EXCEPT ![s] = Goal(s)']
  BY <1>1 DEF MappedGoal
<1> QED
  BY <1>2, <1>3

\* A step that keeps s's abstract status and goal is a stuttering step.
LEMMA MappedStutter ==
  ASSUME TypeOK, NEW s \in Searches, Step(s) \/ \E r \in Requests : Call(s, r),
         Status(s)' = Status(s), Goal(s)' = Goal(s), best' = best, trialsRun' = trialsRun
  PROVE  UNCHANGED Anytime!avars
<1>1. MappedStatus' = [MappedStatus EXCEPT ![s] = Status(s)]
      /\ MappedGoal' = [MappedGoal EXCEPT ![s] = Goal(s)]
  BY MappedStep
<1>2. MappedStatus' = MappedStatus /\ MappedGoal' = MappedGoal
  <2>1. MappedStatus[s] = Status(s) /\ MappedGoal[s] = Goal(s)
    BY DEF MappedStatus, MappedGoal
  <2>2. /\ MappedStatus = [t \in Searches |-> MappedStatus[t]]
        /\ MappedGoal = [t \in Searches |-> MappedGoal[t]]
    BY DEF MappedStatus, MappedGoal
  <2> HIDE DEF MappedStatus, MappedGoal
  <2> QED
    BY <1>1, <2>1, <2>2
<1> QED
  BY <1>2 DEF Anytime!avars, MappedStatus, MappedGoal

\* Every step of a search is a step of the anytime search, or none.
LEMMA StepImplements ==
  ASSUME IInv, IInv', NEW s \in Searches, Step(s) \/ \E r \in Requests : Call(s, r)
  PROVE  Anytime!ANext \/ UNCHANGED Anytime!avars
<1> DEFINE p == problems[s]
           threshold == request[s].threshold
<1>a. TypeOK /\ PrepInv(s) /\ LoopInv(s) /\ LoopInv(s)' /\ PrepInv(s)' /\ CacheInv
  BY DEF IInv
<1>b. /\ MappedStatus' = [MappedStatus EXCEPT ![s] = Status(s)']
      /\ MappedGoal' = [MappedGoal EXCEPT ![s] = Goal(s)']
  BY <1>a, MappedStep
<1>c. MappedStatus[s] = Status(s) /\ MappedGoal[s] = Goal(s)
  BY DEF MappedStatus, MappedGoal
<1>1. ASSUME NEW r \in Requests, Call(s, r) PROVE Anytime!Prepare(s)
  <2>1. Head(Needs(r.sector)) \in {"general", "analysis"}
    <3>1. r.sector \in Sectors
      BY RequestsAssumption
    <3> QED
      BY <3>1 DEF Needs, Sectors
  <2>2. phase[s] = "idle" /\ phase'[s] \in {"general", "analysis"}
    BY <1>1, <1>a, <2>1 DEF Call, TypeOK
  <2>3. Status(s) = "idle" /\ Status(s)' = "preparing" /\ Goal(s)' = Goal(s)
    BY <2>2 DEF Status, Goal
  <2>4. MappedGoal' = MappedGoal
    BY <1>b, <1>c, <2>3 DEF MappedGoal
  <2>5. MappedStatus[s] = "idle" /\ MappedStatus' = [MappedStatus EXCEPT ![s] = "preparing"]
    BY <1>b, <1>c, <2>3
  <2>6. best' = best /\ trialsRun' = trialsRun
    BY <1>1 DEF Call
  <2> QED
    BY <2>4, <2>5, <2>6 DEF Anytime!Prepare, MappedStatus, MappedGoal
<1>2. CASE StartBuild(s) \/ FinishBuild(s)
  <2>1. UNCHANGED <<phase, request, problems, best, trialsRun>>
    BY <1>2 DEF StartBuild, FinishBuild
  <2>2. Status(s)' = Status(s) /\ Goal(s)' = Goal(s)
    BY <2>1 DEF Status, Goal
  <2> QED
    BY <2>1, <2>2, <1>a, MappedStutter
<1>f. ASSUME phase[s] \in Caches \cup {"budget"}, phase'[s] = "failed",
             UNCHANGED <<best, trialsRun>>
      PROVE  Anytime!Fail(s)
  <2>1. Status(s) = "preparing" /\ Status(s)' = "failed" /\ Goal(s)' = Goal(s)
    BY <1>f DEF Status, Goal, Caches
  <2>2. MappedGoal' = MappedGoal
    BY <1>b, <1>c, <2>1 DEF MappedGoal
  <2>3. MappedStatus[s] = "preparing"
        /\ MappedStatus' = [MappedStatus EXCEPT ![s] = "failed"]
    BY <1>b, <1>c, <2>1
  <2> QED
    BY <1>f, <2>2, <2>3 DEF Anytime!Fail, MappedStatus, MappedGoal
<1>g. ASSUME phase[s] \in Caches \cup {"budget"},
             phase'[s] \in Caches \cup {"budget", "scan"}, UNCHANGED <<best, trialsRun>>
      PROVE  UNCHANGED Anytime!avars
  <2>1. Status(s)' = Status(s) /\ Goal(s)' = Goal(s)
    BY <1>g DEF Status, Goal, Caches
  <2> QED
    BY <2>1, <1>a, <1>g, MappedStutter
<1>3. CASE UsePrepared(s)
  <2>1. /\ phase[s] \in Caches /\ UNCHANGED <<best, trialsRun>>
        /\ phase'[s] \in Caches \cup {"budget", "failed"}
    BY <1>3, <1>a DEF UsePrepared, NextPhase, Caches, TypeOK
  <2> QED
    BY <2>1, <1>f, <1>g DEF Anytime!ANext
<1>4. CASE EnforceBudget(s)
  <2>1. phase[s] = "budget" /\ phase'[s] \in {"failed", "scan"} /\ UNCHANGED <<best, trialsRun>>
    BY <1>4, <1>a DEF EnforceBudget, TypeOK
  <2> QED
    BY <2>1, <1>f, <1>g DEF Anytime!ANext
<1>5. CASE Scan(s)
  <2>1. PICK c \in Candidates : /\ IsBest(c, Initial(p, threshold))
                                /\ best' = [best EXCEPT ![s] = c]
    BY <1>5 DEF Scan
  <2>2. /\ phase[s] = "scan" /\ phase'[s] = "chunk"
        /\ UNCHANGED <<trialsRun, request, problems>>
    BY <1>5, <1>a DEF Scan, TypeOK
  <2>3. /\ p \in AllProblems /\ request[s].trials \in 1 .. MaxTrials /\ threshold \in Nat
    <3>1. /\ request[s].trials \in Nat /\ request[s].trials <= MaxTrials
          /\ threshold \in Nat /\ request[s].trials > 0
      BY <1>a, <2>2, RequestFields DEF PrepInv
    <3> QED
      BY <1>a, <2>2, <3>1, TrialAssumption DEF PrepInv
  <2>4. /\ Status(s) = "preparing" /\ Status(s)' = "searching"
        /\ Goal(s)' = [problems |-> p, trials |-> request[s].trials, threshold |-> threshold]
    BY <2>2 DEF Status, Goal
  <2>5. Goal(s)' \in Anytime!Goals
    BY <2>3, <2>4 DEF Anytime!Goals, AllProblems
  <2>6. /\ best'[s] = c /\ best' = [best EXCEPT ![s] = best'[s]]
    BY <2>1, <1>a DEF TypeOK
  <2>7. /\ MappedGoal'[s] = Goal(s)' /\ MappedGoal' = [MappedGoal EXCEPT ![s] = MappedGoal'[s]]
        /\ MappedStatus[s] = "preparing"
        /\ MappedStatus' = [MappedStatus EXCEPT ![s] = "searching"]
    BY <1>b, <1>c, <2>4 DEF MappedGoal
  <2>8. Anytime!IsBest(best'[s],
          Anytime!Initial(MappedGoal'[s].problems, MappedGoal'[s].threshold))
    BY <2>1, <2>4, <2>6, <2>7, SameCandidates
  <2>9. Anytime!Open(s)
    BY <2>2, <2>5, <2>6, <2>7, <2>8 DEF Anytime!Open, MappedGoal, MappedStatus
  <2> QED
    BY <2>9 DEF Anytime!ANext
<1>h. ASSUME phase[s] \in {"chunk", "trials"}, phase'[s] \in {"chunk", "trials"},
             UNCHANGED <<best, trialsRun, request, problems>>
      PROVE  UNCHANGED Anytime!avars
  <2>1. Status(s)' = Status(s) /\ Goal(s)' = Goal(s)
    BY <1>h DEF Status, Goal
  <2> QED
    BY <2>1, <1>a, <1>h, MappedStutter
<1>6. CASE StartChunk(s) \/ NextBatch(s)
  <2>1. /\ phase[s] \in {"chunk", "trials"} /\ phase'[s] \in {"chunk", "trials"}
        /\ UNCHANGED <<best, trialsRun, request, problems>>
    BY <1>6, <1>a DEF StartChunk, NextBatch, TypeOK
  <2> QED
    BY <2>1, <1>h
<1>7. CASE EndChunk(s)
  <2>1. /\ phase[s] = "trials" /\ phase'[s] = "chunk" /\ UNCHANGED <<problems, request>>
        /\ trialsRun' = [trialsRun EXCEPT ![s] = ChunkEnd(s)] /\ trialsRun'[s] = ChunkEnd(s)
        /\ best' = [best EXCEPT ![s] = best'[s]]
    BY <1>7, <1>a DEF EndChunk, TypeOK
  <2>2. ~Below(best[s], threshold) /\ trialsRun[s] < request[s].trials
    BY <1>a, <2>1 DEF LoopInv, Searching
  <2>3. IsBest(best'[s], Examined(p, threshold, ChunkEnd(s)))
    BY <1>a, <2>1 DEF LoopInv, Searching
  <2>4. ChunkEnd(s) \in trialsRun[s] + 1 .. request[s].trials
    <3>1. /\ ChunkEnd(s) \in Nat /\ ChunkEnd(s) <= request[s].trials
          /\ trialsRun[s] \in Nat /\ trialsRun[s] < ChunkEnd(s)
      BY <1>a, <2>2, ChunkEndBounds
    <3>2. request[s].trials \in Nat
      BY <1>a, RequestFields
    <3> HIDE DEF ChunkEnd
    <3> QED
      BY <3>1, <3>2
  <2>5. /\ Status(s) = "searching" /\ Status(s)' = "searching" /\ Goal(s)' = Goal(s)
        /\ Goal(s) = [problems |-> p, trials |-> request[s].trials, threshold |-> threshold]
    BY <2>1 DEF Status, Goal
  <2>6. /\ MappedStatus[s] = "searching" /\ MappedGoal[s].problems = p
        /\ MappedGoal[s].trials = request[s].trials /\ MappedGoal[s].threshold = threshold
    BY <1>c, <2>5
  <2>7. MappedStatus' = MappedStatus /\ MappedGoal' = MappedGoal
    BY <1>b, <1>c, <2>5 DEF MappedStatus, MappedGoal
  <2>8. Anytime!IsBest(best'[s], Anytime!Examined(MappedGoal[s].problems,
                                   MappedGoal[s].threshold, trialsRun'[s]))
    BY <2>1, <2>3, <2>6, SameCandidates
  <2>9. ~Anytime!Below(best[s], MappedGoal[s].threshold)
    BY <2>2, <2>6, SameCandidates
  <2>10. /\ trialsRun'[s] \in trialsRun[s] + 1 .. MappedGoal[s].trials
         /\ trialsRun' = [trialsRun EXCEPT ![s] = trialsRun'[s]]
    BY <2>1, <2>4, <2>6
  <2>11. Anytime!Extend(s)
    BY <2>1, <2>6, <2>7, <2>8, <2>9, <2>10 DEF Anytime!Extend, MappedGoal, MappedStatus
  <2> QED
    BY <2>11 DEF Anytime!ANext
<1>8. CASE Deliver(s)
  <2>1. /\ phase[s] = "chunk" /\ phase'[s] = "done"
        /\ UNCHANGED <<problems, request, best, trialsRun>>
        /\ early[s] \/ trialsRun[s] >= request[s].trials
    BY <1>8, <1>a DEF Deliver, TypeOK
  <2>2. Below(best[s], threshold) \/ trialsRun[s] = request[s].trials
    <3>1. early[s] => Below(best[s], threshold)
      BY <1>a, <2>1 DEF LoopInv, Searching
    <3>2. trialsRun[s] \in Nat /\ trialsRun[s] <= request[s].trials /\ request[s].trials \in Nat
      BY <1>a, RequestFields DEF TypeOK
    <3> QED
      BY <2>1, <3>1, <3>2
  <2>3. /\ Status(s) = "searching" /\ Status(s)' = "done" /\ Goal(s)' = Goal(s)
        /\ Goal(s) = [problems |-> p, trials |-> request[s].trials, threshold |-> threshold]
    BY <2>1 DEF Status, Goal
  <2>4. /\ MappedStatus[s] = "searching"
        /\ MappedStatus' = [MappedStatus EXCEPT ![s] = "done"]
        /\ MappedGoal[s].trials = request[s].trials /\ MappedGoal[s].threshold = threshold
    BY <1>b, <1>c, <2>3
  <2>5. MappedGoal' = MappedGoal
    BY <1>b, <1>c, <2>3 DEF MappedGoal
  <2>6. \/ Anytime!Below(best[s], MappedGoal[s].threshold)
        \/ trialsRun[s] = MappedGoal[s].trials
    BY <2>2, <2>4, SameCandidates
  <2>7. Anytime!Finish(s)
    BY <2>1, <2>4, <2>5, <2>6 DEF Anytime!Finish, MappedGoal, MappedStatus
  <2> QED
    BY <2>7 DEF Anytime!ANext
<1>9. ASSUME NEW r \in DOMAIN work[s], Claim(s, r) PROVE UNCHANGED Anytime!avars
  <2>1. phase[s] = "trials" /\ UNCHANGED <<phase, best, trialsRun, request, problems>>
    BY <1>9 DEF Claim
  <2> QED
    BY <2>1, <1>h
<1>10. ASSUME NEW r \in DOMAIN work[s], RunTrial(s, r) PROVE UNCHANGED Anytime!avars
  <2>1. phase[s] = "trials" /\ UNCHANGED <<phase, best, trialsRun, request, problems>>
    BY <1>10 DEF RunTrial
  <2> QED
    BY <2>1, <1>h
<1>11. ASSUME NEW r \in DOMAIN work[s], MergeRange(s, r) PROVE UNCHANGED Anytime!avars
  <2>1. phase[s] = "trials" /\ UNCHANGED <<phase, best, trialsRun, request, problems>>
    BY <1>11 DEF MergeRange
  <2> QED
    BY <2>1, <1>h
<1> QED
  BY <1>1, <1>2, <1>3, <1>4, <1>5, <1>6, <1>7, <1>8, <1>9, <1>10, <1>11
     DEF Step, Anytime!ANext

\* The parallel, chunked search implements the anytime search for any numbers of
\* searches, workers and trials.
THEOREM Refinement == Spec => ImplementsAnytime
<1>1. Init => Anytime!AInit
  BY DEF Init, Anytime!AInit, Anytime!NoGoal, Status, Goal
<1>2. IInv /\ IInv' /\ [Next]_vars => [Anytime!ANext]_Anytime!avars
  <2> SUFFICES ASSUME IInv, IInv', [Next]_vars
               PROVE  Anytime!ANext \/ UNCHANGED Anytime!avars
    OBVIOUS
  <2>1. CASE UNCHANGED vars
    BY <2>1 DEF vars, setup, Anytime!avars, Status, Goal
  <2>2. CASE \E s \in Searches : Step(s) \/ \E r \in Requests : Call(s, r)
    BY <2>2, StepImplements
  <2> QED
    BY <2>1, <2>2 DEF Next, Finished
<1> QED
  BY <1>1, <1>2, Invariant, PTL DEF Spec, ImplementsAnytime, Anytime!ASpec
=============================================================================
