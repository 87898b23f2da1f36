SPECIFICATION BusySpec
CONSTANTS
  c1 = c1
  c2 = c2
  c3 = c3
  Calls = {c1, c2, c3}
  FailureThreshold = 3
  SuccessThreshold = 2
  Timeout = 2
  ResetTimeout = 3
INVARIANTS
  TypeOK
  CountersMatchState
  NoCallSinceLastFailure
PROPERTIES
  ProbeStartsAlone
  OutageEndsByWaiting
  CallsSettle
  Recovers
