SPECIFICATION Spec
CONSTANTS
  Threads = {t1}
  NoLimit = NoLimit
  Budgets <- DocumentedBudgets
  MinEnforced = 1000
  SectorBytes = 50
  LayoutBytes = 80
  LazyBytes = 100
  EagerBytes = 1500
  EagerPeak = 1550
  Dimension = 9
  TransitionCount = 10
  MaxCalls = 1
INVARIANT ReturnedPlanWithinBudget
