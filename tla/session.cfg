SPECIFICATION Spec
CONSTANTS
  None = None
  t1 = t1
  t2 = t2
  Thread = {t1, t2}
  Given = {"planner", "auditor", "admin", "none"}
  MaxRetries = 1
PROPERTY EveryCallReturns
PROPERTY LoginHeals
PROPERTY OnlyPacksSurprise
PROPERTY SkipHidesNothing
PROPERTY OfferedIsGranted
