SPECIFICATION FairSpec
CONSTANTS
  Searches = {s1, s2}
  NoCandidate = NoCandidate
  Candidates <- MCCandidates
  MaxTrials = 6
  Rows <- MCRows
  Trial <- MCTrial
  Requests <- MCRequests
  ThreadCount = 2
  ChunkSize = 3
  RangesPerWorker = 1
  PreparedBytes <- MCPreparedBytes
  OutputBytes = 10
  WorkerBytes <- MCWorkerBytes
INVARIANTS
  IncumbentIsBest
  ReplayAgrees
  PrefixMonotone
  WorkersWithinBudget
PROPERTIES
  CachesAreKept
  ImplementsAnytime
  SearchesEnd
