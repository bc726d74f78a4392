SPECIFICATION Spec
CONSTANTS
  None = None
  a1 = a1
  c1 = c1
  c2 = c2
  c3 = c3
  p1 = p1
  p2 = p2
  Proc = {p1}
  Agent = {p1}
  Content = {c1, c2, c3}
  NumIndexes = 1
  MaxVersion = 1
  Start = 2
  MaxTime = 3
  SupersededGrace = 1
  ArchivedGrace = 1
  AgentOf <- OneAgentEach
  Ops = {"store", "archive"}
  Modes = {"auto"}
  CallerCid <- Derived
  Expiries <- Daily
  Near <- NoPairs
  Faults = {}
  MaxRequests = 3
  Deployed = TRUE
  DryRuns = {FALSE}
  MaxDelete = 2
  ChunkSize = 1
  WorkerFaults = {"worker"}
INVARIANT RunWithinItsBatches
PROPERTY ExpiryDeletesOnlyExpired
PROPERTY RowOutlivesItsMemory
SYMMETRY ContentSymmetry
CHECK_DEADLOCK FALSE
