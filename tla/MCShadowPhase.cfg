CONSTANTS
  NQubits = 2
  Width = 4
  LowBits = 1
  MaxDraws = 40
  Counter <- MCCounter
  Threads = 2
  StabilizerQubits = 2
  StatevectorWork = 30
  StabilizerWork = 10
  Calls <- MCCalls
  Requests <- MCRequests
SPECIFICATION Spec
INVARIANT
  TableauIsTheTapesState
CHECK_DEADLOCK FALSE
