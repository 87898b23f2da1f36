SPECIFICATION FairSpec
CONSTANTS
  None = None
  u1 = u1 k1 = k1
  Replicas = {r1}
  Users = {u1}
  Keys = {k1}
  UserOf <- OneUser
  Logins = {l1, l2}
  Requests = {q1}
  MaxAttempts = 2
  Window = 1
INVARIANTS TypeOK FailuresBounded
PROPERTIES LockoutsEnd RemovalIsEffective
