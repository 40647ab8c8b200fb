CONSTANTS
  r1 = r1  r2 = r2  l1 = l1  None = None
  Runs = {r1}
  MaxPages = 2
  Leads = {l1}
  MaxAttempts = 1
  Concurrency = 2
  CancelRuns = {}
  OwnProfile = TRUE
  RevivalBound = 1
SPECIFICATION Spec
INVARIANTS
  TypeOK
  StatusReadIsCurrent
  CountersCoverPages
  StalledRunIsExplained
CHECK_DEADLOCK FALSE
