SPECIFICATION Spec
CONSTANTS
  Queues = {q1}
  Topics = {t1}
  Versions = {v1, v2}
  Clients = {c1}
  Cap = 6
  MaxUpdates = 3
  MaxPushes = 0
  None = None
SYMMETRY Symmetry
INVARIANTS LastConfigApplied
CHECK_DEADLOCK FALSE
