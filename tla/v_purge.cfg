SPECIFICATION Spec
CONSTANTS
  None = None
  a1 = a1
  c1 = c1
  c2 = c2
  c3 = c3
  p1 = p1
  p2 = p2
  Proc = {p1}
  Agent = {p1}
  Content = {c1, c2, c3}
  NumIndexes = 1
  MaxVersion = 3
  Start = 2
  MaxTime = 2
  SupersededGrace = 1
  ArchivedGrace = 1
  AgentOf <- OneAgentEach
  Ops = {"store", "supersede", "purge"}
  Modes = {"auto"}
  CallerCid <- Derived
  Expiries <- Forever
  Near <- AllSimilar
  Faults = {}
  MaxRequests = 4
  Deployed = FALSE
  DryRuns = {FALSE}
  MaxDelete = 10
  ChunkSize = 5
  WorkerFaults = {}
PROPERTY PurgeIsComplete
CHECK_DEADLOCK FALSE
