CONSTANTS
  t1 = t1
  t2 = t2
  NoTask = NoTask
  NoBridge = NoBridge
  b1 = b1
  b2 = b2
  Tasks = {t1, t2}
  Bridges = {b1, b2}
  Serves <- MCServes
  CreatedAt <- MCCreatedAt
  Gated = {t2}
  LeaseTTL = 2
  HeartbeatDue = 1
  MayStall = {b1}
  MaxExits = 1
  MaxPatches = 1
  MaxDisturbances = 1
  RetryCap = 0
SPECIFICATION FairSpec
INVARIANTS HeldLeaseIsLive ParkedHasApproval
PROPERTIES RequeueSparesHolder FirstResultStands ImplementsTaskLife LocalTaskFinishes
\* All tasks finished: idle daemons poll without effect.
CHECK_DEADLOCK FALSE
