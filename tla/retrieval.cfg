SPECIFICATION Spec
CONSTANTS
  None = None
  doc = doc
  doc2 = doc2
  chunk1 = chunk1
  chunk2 = chunk2
  early = early
  late = late
  gdoc = gdoc
  gc1 = gc1
  gc2 = gc2
  gm = gm
  Key = {doc, doc2, chunk1, chunk2, early, late}
  Group = {gdoc, gc1, gc2, gm}
  Vaults <- MCVaults
  DetailLevels = {"summary", "standard", "full"}
  HydrateKeys <- MCHydrateKeys
  RetrieveTopK = 3
  TopK = 3
  MaxTokens = 6
  PreviewTokens = 2
  MaxHydrate = 2
  ContentReads = {TRUE, FALSE}
  Volatile = {doc, late}
INVARIANT BudgetHeld
INVARIANT AddsUp
INVARIANT ResultsAreCollapsed
INVARIANT UseMeansHydrated
CHECK_DEADLOCK FALSE
