SPECIFICATION FairSpec
CONSTANTS
  Threads = {t1, t2}
  NoLimit = NoLimit
  Budgets <- AllBudgets
  MinEnforced = 1000
  SectorBytes = 50
  LayoutBytes = 80
  LazyBytes = 100
  EagerBytes = 1500
  EagerPeak = 1550
  Dimension = 9
  TransitionCount = 10
  MaxCalls = 2
INVARIANTS
  NoBuildBesideCache
  ApplyFindsPlan
  BuiltWithinBudget
PROPERTIES
  PlansAreKept
  CallsReturn
