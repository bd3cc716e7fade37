SPECIFICATION Spec
SYMMETRY Symmetry
CONSTANTS
  Threads = {t1, t2}
  Addresses = {a1, a2}
  Inputs = {"first", "second"}
  Free = Free
  NoCache = NoCache
  Weights = {0}
  Limits <- MCLimits
  TapeRoom <- MCTapeRoom
  EngineRoom <- MCEngineRoom
  Converted <- MCConverted
  Appended = {"depolarizing"}
  MaxGates = 5
  MaxCalls = 3
INVARIANTS
  CachedTapesAreCurrent
  KeyNamesItsInput
  LoweringResolves
  GradientFollowsLayout
PROPERTY
  CachesAreTransparent
