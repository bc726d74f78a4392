SPECIFICATION WSSpec
CONSTANTS
  None = None
  a1 = a1
  c1 = c1
  c2 = c2
  p1 = p1
  p2 = p2
  Proc = {p1, p2}
  Agent = {a1}
  Content = {c1, c2}
  NumIndexes = 1
  MaxVersion = 3
  Start = 2
  MaxTime = 3
  SupersededGrace = 1
  ArchivedGrace = 1
  AgentOf <- OneAgent
  Ops = {"store", "supersede", "archive"}
  Modes = {"auto", "new"}
  CallerCid = {}
  Expiries <- UntilTomorrow
  Near <- NoPairs
  Faults = {"crash"}
  MaxRequests = 4
PROPERTY WrittenPinIsCurrent
PROPERTY FetchedWasCurrent
SYMMETRY Symmetry
CHECK_DEADLOCK FALSE
