-------------------------- MODULE MCLogicalSearch --------------------------
(***************************************************************************)
(* LogicalSearch on tables in which the scan, the X and the Z trials all   *)
(* contribute the best witness at some point, weights tie, some trials find*)
(* nothing, and the threshold is crossed in the middle of a chunk.         *)
(***************************************************************************)
EXTENDS LogicalSearch, TLC

C(w, p) == [weight |-> w, code |-> p]

MCCandidates == [weight : 1 .. 5, code : 1 .. 3]

MCRows == [d \in Directions |->
  CASE d = "general" -> <<C(5, 2), C(4, 3)>>
    [] d = "x"       -> <<C(5, 1), C(4, 2), C(5, 3)>>
    [] d = "z"       -> <<C(4, 3)>>]

Listed(d) ==
  CASE d = "general" -> <<C(4, 2), NoCandidate, C(3, 3), C(3, 2), C(4, 1), C(2, 3)>>
    [] d = "x"       -> <<C(4, 1), C(5, 1), C(3, 2), C(5, 2), NoCandidate, C(4, 3)>>
    [] d = "z"       -> <<C(5, 3), C(4, 1), C(1, 3), C(2, 3), C(2, 2), C(2, 1)>>

MCTrial == [d \in Directions |-> [i \in 0 .. 5 |-> Listed(d)[i + 1]]]

Ask(sector, trials, threshold, bytes) ==
  [sector |-> sector, trials |-> trials, threshold |-> threshold, bytes |-> bytes]

\* 100 is too little; 140 pays for one worker of a single problem and 160 for one
\* of both, 400 for two.
MCRequests ==
  {Ask("auto", 6, 0, 400), Ask("auto", 6, 0, 160), Ask("auto", 5, 3, 400),
   Ask("auto", 6, 5, 160), Ask("general", 6, 3, 400), Ask("general", 6, 3, 140),
   Ask("x", 6, 0, 400), Ask("x", 3, 0, 140), Ask("z", 2, 0, 100)}

MCPreparedBytes == [n \in Caches |-> IF n = "general" THEN 60 ELSE 30]
MCWorkerBytes == [d \in Directions |-> 40]
=============================================================================
