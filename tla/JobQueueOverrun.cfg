CONSTANTS
  j1 = j1  j2 = j2  j3 = j3
  w1 = w1  w2 = w2
  s1 = s1  s2 = s2  s3 = s3
  k1 = k1  run1 = run1  acct1 = acct1  None = None
  Jobs = {j1}
  Workers = {w1, w2}
  Slots = {s1, s2}
  WorkerOf <- MCWorkerOf
  KeyOf <- MCKeyOf
  RunOf <- MCRunOf
  AccountOf <- MCAccountOf
  MaxAttempts = 2
  LeaseTicks = 2
  MaxDelay = 1
  LeaseOverrun = TRUE
SPECIFICATION FairSpec
INVARIANTS
  LockIffRunning
PROPERTIES
  RunningIsReleased
  BudgetEndsJob
  QueuedIsServed
