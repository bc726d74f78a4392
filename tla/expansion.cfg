SPECIFICATION Spec
CONSTANTS
  None = None
  k1 = k1
  k2 = k2
  k3 = k3
  k4 = k4
  g = g
  Key = {k1, k2, k3, k4}
  Cid = {g}
  Vaults <- MCVaults
  Seeds <- MCSeeds
  Depths = {0, 1, 2, 3}
  Caps = {1, 3, 10}
  MaxTokens = 5
  RowFaults = TRUE
INVARIANT WithinBounds
INVARIANT ExpandsItsDepth
CHECK_DEADLOCK FALSE
