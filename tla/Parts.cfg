CONSTANTS
  u1 = u1  u2 = u2  q1 = q1  q2 = q2  Nobody = Nobody
  Users = {u1, u2}
  Requests = {q1, q2}
  FormRoles = {"VIEWER", "ADMIN"}
  Seeded = u1
  p1 = p1  f1 = f1  f2 = f2  loop = loop
  Renders = {p1}
  Forms = {f1, f2}
  Loop = loop
  TTL = 2
  MaxTransit = 1
  MaxSaves = 2
  MaxRestarts = 1
  Policies <- HourPolicies
  MaxLate = 1
  j1 = j1  j2 = j2  j3 = j3
  Jobs = {j1, j2, j3}
  QueueOf <- JobQueues
  QueueLists <- ClaimLists
  Concurrencies = {1, 2}
SPECIFICATION Spec
INVARIANTS
  PartsTypeOK
  DoneFormIsShown
  StaleForOneTTL
  CleanExitLeavesNoRow
  SignalReachesHandlers
PROPERTIES
  ImplementsWorker
  ChangesAreAuthorised
  LastAdminLossIsRaced
  SaveReachesWorker
  PushBackIsTight
  JobPassesGate
CHECK_DEADLOCK FALSE
