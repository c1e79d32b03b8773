SPECIFICATION FairSpec
CONSTANTS
  Queues = {q1, q2}
  Topics = {t1, t2}
  Versions = {v1}
  Clients = {c1}
  Cap = 4
  MaxUpdates = 2
  MaxPushes = 1
  None = None
INVARIANTS TypeOK RegistryMatchesConfig OnlyRegisteredAlive PushersSeeRegistry UpdateApplied
CHECK_DEADLOCK FALSE
PROPERTIES EverythingDrains 
