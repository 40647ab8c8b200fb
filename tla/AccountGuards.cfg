CONSTANTS
  h1 = h1  h2 = h2  h3 = h3  a1 = a1  a2 = a2  None = None  Ghost = Ghost
  Handlers = {h1, h2}
  Accounts = {a1}
  MaxCap = 2
  MaxDay = 2
  MaxErased = 1
SPECIFICATION FairSpec
INVARIANTS
  TypeOK
  OneSessionPerAccount
  QuotaHolds
PROPERTIES
  LockIsReleased
  ImplementsLock
