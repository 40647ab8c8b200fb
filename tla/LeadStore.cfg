CONSTANTS
  r1 = r1  r2 = r2  s1 = s1  s2 = s2
  Runs = {r1, r2}
  Slugs = {s1, s2}
  Searches <- SearchChoices
  MaxPages = 2
  MaxTries = 2
  MaxFailures = 1
  MaxDeletions = 1
SPECIFICATION FairLeadSpec
INVARIANTS
  LeadTypeOK
  ScrapedHasEvidence
  EvidenceGapIsABrokenAttempt
  NewLeadsCountedOnce
PROPERTIES
  LeadsOutliveRuns
  JobsOfDeletedAccountEnd
  UsesQueueAsSpecified
CHECK_DEADLOCK FALSE
