SPECIFICATION Spec
CONSTANTS
  None = None
  a1 = a1
  c1 = c1
  c2 = c2
  c3 = c3
  p1 = p1
  p2 = p2
  Proc = {p1, p2}
  Agent = {a1}
  Content = {c1, c2}
  NumIndexes = 1
  MaxVersion = 3
  Start = 2
  MaxTime = 3
  SupersededGrace = 1
  ArchivedGrace = 1
  AgentOf <- SharedAgent
  Ops = {"store", "supersede", "restore"}
  Modes = {"auto"}
  CallerCid <- OneGroup
  Expiries <- Forever
  Near <- NoPairs
  Faults = {"crash", "row"}
  MaxRequests = 3
  Deployed = TRUE
  DryRuns = {TRUE, FALSE}
  MaxDelete = 10
  ChunkSize = 5
  WorkerFaults = {}
PROPERTY ReaderSeesARegister
PROPERTY DryRunTouchesNothing
SYMMETRY CallerSymmetry
CHECK_DEADLOCK FALSE
