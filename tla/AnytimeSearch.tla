--------------------------- MODULE AnytimeSearch ---------------------------
(***************************************************************************)
(* What a logical-witness search promises, whatever its worker threads do. *)
(* A search owns an incumbent that is the best candidate of a prefix of    *)
(* the trials; extending the prefix can only improve it; the search ends   *)
(* when the incumbent is below the threshold or the trials are used up.    *)
(***************************************************************************)
EXTENDS LogicalWitness

CONSTANT Searches

VARIABLES
  status,     \* "idle", "preparing", "searching", "failed" or "done"
  goal,       \* problems, trials and threshold, once known
  incumbent,
  examined    \* how many trials the incumbent accounts for

avars == <<status, goal, incumbent, examined>>

NoGoal == [problems |-> <<>>, trials |-> 0, threshold |-> 0]

AInit ==
  /\ status = [s \in Searches |-> "idle"]
  /\ goal = [s \in Searches |-> NoGoal]
  /\ incumbent = [s \in Searches |-> NoCandidate]
  /\ examined = [s \in Searches |-> 0]

Prepare(s) ==
  /\ status[s] = "idle"
  /\ status' = [status EXCEPT ![s] = "preparing"]
  /\ UNCHANGED <<goal, incumbent, examined>>

Fail(s) ==
  /\ status[s] = "preparing"
  /\ status' = [status EXCEPT ![s] = "failed"]
  /\ UNCHANGED <<goal, incumbent, examined>>

Goals == [problems : {<<"general">>, <<"x">>, <<"z">>, <<"x", "z">>},
          trials : 1 .. MaxTrials, threshold : Nat]

Open(s) ==
  /\ status[s] = "preparing"
  /\ status' = [status EXCEPT ![s] = "searching"]
  /\ goal'[s] \in Goals
  /\ goal' = [goal EXCEPT ![s] = goal'[s]]
  /\ IsBest(incumbent'[s], Initial(goal'[s].problems, goal'[s].threshold))
  /\ incumbent' = [incumbent EXCEPT ![s] = incumbent'[s]]
  /\ UNCHANGED examined

Extend(s) ==
  /\ status[s] = "searching"
  /\ ~Below(incumbent[s], goal[s].threshold)
  /\ examined'[s] \in examined[s] + 1 .. goal[s].trials
  /\ examined' = [examined EXCEPT ![s] = examined'[s]]
  /\ IsBest(incumbent'[s], Examined(goal[s].problems, goal[s].threshold, examined'[s]))
  /\ incumbent' = [incumbent EXCEPT ![s] = incumbent'[s]]
  /\ UNCHANGED <<status, goal>>

Finish(s) ==
  /\ status[s] = "searching"
  /\ Below(incumbent[s], goal[s].threshold) \/ examined[s] = goal[s].trials
  /\ status' = [status EXCEPT ![s] = "done"]
  /\ UNCHANGED <<goal, incumbent, examined>>

ANext == \E s \in Searches :
  Prepare(s) \/ Fail(s) \/ Open(s) \/ Extend(s) \/ Finish(s)

ASpec == AInit /\ [][ANext]_avars
=============================================================================
