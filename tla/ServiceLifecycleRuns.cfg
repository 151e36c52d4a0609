\* auth_svc with two listeners, two coroutines that use the bus, four
\* connections, three losses.
SPECIFICATION FairSpec
CONSTANTS
  Listeners = {l1, l2}
  Users = {u1, u2}
  Life = Life
  HasRedis = TRUE
  MaxConnections = 4
  MaxLosses = 3
INVARIANTS ConsumesOnce DownIsSilent
PROPERTIES ConsumesAgain ReadyAgain
CHECK_DEADLOCK FALSE
