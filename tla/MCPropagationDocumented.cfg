CONSTANTS
  NQubits = 2
  TermBytes = 7
  Calls <- MCCalls
SPECIFICATION Spec
PROPERTY
  DampingMatchesMatrix
