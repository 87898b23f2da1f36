\* Sessions are as many as turns, so that every turn can create one.
SPECIFICATION FairSpec
CONSTANTS
  None = None
  Replicas = {r1}
  Ids = {p}
  Texts = {v1}
  Extras = {}
  Ops = {o1}
  SessionIds = {s1, s2}
  t1 = t1
  t2 = t2
  Turns = {t1, t2}
  Routes <- OneEach
INVARIANTS TypeOK TranscriptsAgree
PROPERTIES OnlyLateSessionsLosePersona TurnsEnd ExpiredAreRemoved
\* Once every turn is over and every session cleaned away nothing need happen.
CHECK_DEADLOCK FALSE
