--------------------------- MODULE LogicalWitness ---------------------------
(***************************************************************************)
(* What a logical-witness search looks at (crates/tencir-pauli-core/src/   *)
(* logical_search.rs): the candidates of a stabilizer code, the total order*)
(* that picks between them, and which of them a search has seen after a    *)
(* number of trials.                                                       *)
(*                                                                         *)
(* A candidate is a nontrivial logical Pauli.  `code` is the place of its  *)
(* Pauli string in the lexicographic order of compare_pauli_words.  A trial*)
(* draws from a random stream addressed by (seed, direction, trial index), *)
(* so with the seed fixed its outcome is a value of the table Trial.       *)
(***************************************************************************)
EXTENDS Integers, Sequences

CONSTANTS
  Candidates,  \* nontrivial logical Paulis
  MaxTrials,   \* how far the table of trials goes; a bound of the model
  Rows,        \* per direction: the candidates of the deterministic scan, in order
  Trial,       \* per direction and trial index: the trial's candidate, or NoCandidate
  NoCandidate

Directions == {"general", "x", "z"}

ASSUME CandidatesAssumption ==
  /\ Candidates \subseteq [weight : Nat, code : Nat]
  /\ NoCandidate \notin Candidates

ASSUME TrialAssumption ==
  /\ MaxTrials \in Nat
  /\ \A d \in Directions : Rows[d] \in Seq(Candidates) /\ Rows[d] # <<>>
  /\ Trial \in [Directions -> [0 .. MaxTrials - 1 -> Candidates \cup {NoCandidate}]]

---------------------------------------------------------------------------
\* candidate_is_better: smaller weight, then the smaller Pauli string.
Better(l, r) ==
  \/ l.weight < r.weight
  \/ l.weight = r.weight /\ l.code < r.code

\* c is the best candidate of S; NoCandidate when S is empty.
IsBest(c, S) ==
  IF S = {} THEN c = NoCandidate
  ELSE c \in S /\ \A other \in S : ~Better(other, c)

\* update_best and merge_candidates: the newcomer wins only if it is better.
Merge(old, new) ==
  IF new = NoCandidate THEN old
  ELSE IF old = NoCandidate THEN new
  ELSE IF Better(new, old) THEN new ELSE old

\* The strict threshold; 0 stands for stop_below_weight=None.
Below(c, threshold) == c # NoCandidate /\ c.weight < threshold

---------------------------------------------------------------------------
(* problems is the search's sequence of directions: one, or X then Z.      *)

\* The rows deterministic_initialization considers: all of them, or those up to
\* the first that is below the threshold.
Considered(d, threshold) ==
  {i \in DOMAIN Rows[d] : \A j \in 1 .. i - 1 : ~Below(Rows[d][j], threshold)}

Scanned(d, threshold) == {Rows[d][i] : i \in Considered(d, threshold)}

StopsEarly(d, threshold) == \E c \in Scanned(d, threshold) : Below(c, threshold)

\* Z is not scanned when the scan of X already stopped.
Initial(problems, threshold) ==
  UNION {Scanned(problems[k], threshold) :
           k \in {m \in DOMAIN problems :
                    \A j \in 1 .. m - 1 : ~StopsEarly(problems[j], threshold)}}

\* Trial i searches the only direction, or X for even and Z for odd indices.
DirectionOf(problems, i) ==
  IF Len(problems) = 1 THEN problems[1] ELSE problems[(i % 2) + 1]

Found(problems, indices) ==
  {Trial[DirectionOf(problems, i)][i] : i \in indices} \ {NoCandidate}

\* Everything seen once the scan and the first n trials are complete.
Examined(problems, threshold, n) ==
  Initial(problems, threshold) \cup Found(problems, 0 .. n - 1)
=============================================================================
