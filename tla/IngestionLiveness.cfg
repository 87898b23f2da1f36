CONSTANTS
  None = None
  w1 = w1 w2 = w2 a1 = a1
  j1 = j1 j2 = j2 c1 = c1 c2 = c2
  Workers = {w1, w2}
  Admins = {}
  Jobs = {j1}
  Categories = {c1, c2}
  MaxAttempts = 2 MaxStalled = 1 MaxRetries = 3
  MaxVersion = 1 MaxDeletes = 0 MaxFailures = 1 MaxLosses = 1 MaxLockLosses = 1
SPECIFICATION FairSpec
PROPERTIES JobsEnd ProcessingEnds EarlyFailuresHeal
CHECK_DEADLOCK FALSE
