SPECIFICATION BRSpec
CONSTANTS
  None = None
  a1 = a1
  c1 = c1
  c2 = c2
  c3 = c3
  p1 = p1
  p2 = p2
  t1 = t1
  t2 = t2
  t3 = t3
  Proc = {p1, p2}
  Agent = {a1}
  Content = {c1, c2, c3}
  NumIndexes = 1
  MaxVersion = 2
  Start = 2
  MaxTime = 3
  SupersededGrace = 1
  ArchivedGrace = 1
  AgentOf <- OneAgent
  Ops = {"store", "supersede", "archive", "purge"}
  Modes = {"new"}
  CallerCid = {}
  Expiries <- Forever
  Near <- NoPairs
  Faults = {"crash"}
  MaxRequests = 3
  External = {c1}
  Task = {t1, t2, t3}
  TaskOf <- TwoTasks
  ReadOps = {"hydrate", "fetch", "pack"}
  AskedKeys <- Lists
  AskedPacks <- Bootstrap
  Registry <- Packs
  MaxKeys = 2
  PageLimit = 1
  MaxTokens = 1
  SizeOf <- Sizes
  PreviewOf <- Previews
  MaxReads = 1
INVARIANT ContentSurvives
PROPERTY KeysAreAccountedFor
PROPERTY NothingIsLeftOutInSilence
PROPERTY ReturnedWasActive
SYMMETRY Symmetry
CHECK_DEADLOCK FALSE
