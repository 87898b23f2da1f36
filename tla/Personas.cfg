SPECIFICATION Spec
CONSTANTS
  None = None
  Replicas = {r1, r2}
  Ids = {p}
  Texts = {v1}
  Extras = {x1}
  Ops = {o1, o2}
  SessionIds = {}
  t1 = t1
  t2 = t2
  Turns = {}
  Routes <- NoRoutes
INVARIANTS CoherentUnlessDisturbed
