CONSTANTS
  r1 = r1  r2 = r2  l1 = l1  None = None
  Runs = {r1}
  MaxPages = 1
  Leads = {}
  MaxAttempts = 2
  Concurrency = 2
  CancelRuns = {}
  OwnProfile = FALSE
  RevivalBound = 0
SPECIFICATION Spec
PROPERTIES
  FinalizeKeepsHalted
CHECK_DEADLOCK FALSE
