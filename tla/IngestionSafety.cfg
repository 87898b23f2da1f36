CONSTANTS
  None = None
  w1 = w1 w2 = w2 a1 = a1
  j1 = j1 j2 = j2 c1 = c1 c2 = c2
  Workers = {w1, w2}
  Admins = {a1}
  Jobs = {j1, j2}
  Categories = {c1}
  MaxAttempts = 2 MaxStalled = 1 MaxRetries = 3
  MaxVersion = 2 MaxDeletes = 1 MaxFailures = 0 MaxLosses = 1 MaxLockLosses = 0
SPECIFICATION Spec
SYMMETRY Symmetry
INVARIANTS TypeOK  ProcessingIsInHand
CHECK_DEADLOCK FALSE
