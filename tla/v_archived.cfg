SPECIFICATION FairSpec
CONSTANTS
  None = None
  a1 = a1
  c1 = c1
  c2 = c2
  c3 = c3
  p1 = p1
  p2 = p2
  Proc = {p1}
  Agent = {p1}
  Content = {c1}
  NumIndexes = 1
  MaxVersion = 2
  Start = 2
  MaxTime = 3
  SupersededGrace = 1
  ArchivedGrace = 1
  AgentOf <- OneAgentEach
  Ops = {"store", "archive"}
  Modes = {"auto"}
  CallerCid <- Derived
  Expiries <- Forever
  Near <- NoPairs
  Faults = {}
  MaxRequests = 2
  Deployed = TRUE
  DryRuns = {FALSE}
  MaxDelete = 10
  ChunkSize = 5
  WorkerFaults = {}
PROPERTY ArchivedIsDeleted
CHECK_DEADLOCK FALSE
