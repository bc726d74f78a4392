SPECIFICATION Spec
CONSTANTS
  None = None
  Thread = {t1, t2}
  Text = {x1, x2}
  Capacity = 1
  LruTTL = 2
  TableTTL = 1
  ReapDelay = 1
  MaxCall = 1
  MaxTime = 5
INVARIANT Bounded
INVARIANT AgeIsBounded
INVARIANT RaisesOnlyWhenCrossed
SYMMETRY Symmetry
CHECK_DEADLOCK FALSE
