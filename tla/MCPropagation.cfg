CONSTANTS
  NQubits = 2
  TermBytes = 7
  Calls <- MCCalls
SPECIFICATION Spec
INVARIANTS
  TypeOK
  FramesReplay
  GradientIsTangent
  BudgetHeld
PROPERTIES
  OrderedStaysDistinct
  ImplementsRecurrence
