-------------------------- MODULE PauliRecurrence --------------------------
(***************************************************************************)
(* What a call of a propagation engine promises, without terms, orders,    *)
(* checkpoints or memory: the observable, a function from words to         *)
(* coefficients, goes backwards through the gates, is projected after      *)
(* every gate, and its expectation is the answer; or the call fails and    *)
(* answers nothing.                                                        *)
(***************************************************************************)
EXTENDS Integers, Sequences, Functions

CONSTANTS
  Calls,
  Words,
  Weight(_),             \* of a word
  Entry(_, _, _, _),     \* an operation's matrix, for values of its slots
  WordExpectation(_, _), \* of a word in a state
  Collect(_, _)          \* the coefficient an observable gives a word

VARIABLES call, status, step, image, answer

vars == <<call, status, step, image, answer>>

Project(f, cutoff) == [w \in Words |-> IF Weight(w) <= cutoff THEN f[w] ELSE 0]

\* The gate's linear map, word by word.
Heisenberg(op, f, values) ==
  LET support == {v \in Words : f[v] # 0}
  IN  [w \in Words |-> SumFunction([v \in support |-> f[v] * Entry(op, values, v, w)])]

Init ==
  /\ call \in Calls
  /\ status = "running"
  /\ step = 0
  /\ image = Project([w \in Words |-> Collect(call.observable, w)], call.cutoff)
  /\ answer = 0

Gate ==
  /\ status = "running"
  /\ step < Len(call.ops)
  /\ step' = step + 1
  /\ image' = Project(Heisenberg(call.ops[Len(call.ops) - step], image, call.values), call.cutoff)
  /\ UNCHANGED <<call, status, answer>>

Answer ==
  /\ status = "running"
  /\ step = Len(call.ops)
  /\ status' = "done"
  /\ answer' = SumFunction([w \in Words |-> image[w] * WordExpectation(w, call.state)])
  /\ UNCHANGED <<call, step, image>>

Fail ==
  /\ status = "running"
  /\ status' = "failed"
  /\ UNCHANGED <<call, step, image, answer>>

Next == Gate \/ Answer \/ Fail
Spec == Init /\ [][Next]_vars
=============================================================================
