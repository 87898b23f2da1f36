CONSTANTS
  None = None
  w1 = w1 w2 = w2 a1 = a1
  j1 = j1 j2 = j2 c1 = c1 c2 = c2
  Workers = {w1}
  Admins = {a1}
  Jobs = {j1, j2}
  Categories = {c1}
  MaxAttempts = 3 MaxStalled = 1 MaxRetries = 3
  MaxVersion = 1 MaxDeletes = 0 MaxFailures = 6 MaxLosses = 0 MaxLockLosses = 0
SPECIFICATION Spec
INVARIANT FailedCanBeRetried
CHECK_DEADLOCK FALSE
