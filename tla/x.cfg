SPECIFICATION FairSpec
CONSTANTS
  None = None
  a1 = a1
  c1 = c1
  c2 = c2
  c3 = c3
  p1 = p1
  p2 = p2
  Proc = {p1}
  Agent = {p1}
  Content = {c1, c2}
  NumIndexes = 1
  MaxVersion = 2
  Start = 2
  MaxTime = 3
  SupersededGrace = 1
  ArchivedGrace = 1
  AgentOf <- OneAgentEach
  Ops = {"store", "supersede", "restore", "archive", "purge", "use"}
  Modes = {"auto", "new"}
  CallerCid <- Derived
  Expiries <- Forever
  Near <- Similar
  Faults = {"crash", "row"}
  MaxRequests = 3
  Deployed = TRUE
  DryRuns = {FALSE}
  MaxDelete = 10
  ChunkSize = 5
  WorkerFaults = {}
PROPERTY DriftIsRepaired
CHECK_DEADLOCK FALSE
