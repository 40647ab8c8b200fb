CONSTANTS
  r1 = r1  r2 = r2  l1 = l1  None = None
  Runs = {r1}
  MaxPages = 2
  Leads = {l1}
  MaxAttempts = 1
  Concurrency = 2
  CancelRuns = {r1}
  OwnProfile = FALSE
  RevivalBound = 0
SPECIFICATION Spec
PROPERTIES
  CancelStopsTheRun
CHECK_DEADLOCK FALSE
