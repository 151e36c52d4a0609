\* auth_svc with one listener and one coroutine that uses the bus; the
\* connection of the listener is lost once.
SPECIFICATION FairSpec
CONSTANTS
  Listeners = {l1}
  Users = {u1}
  Life = Life
  HasRedis = TRUE
  MaxConnections = 2
  MaxLosses = 1
INVARIANT ReadyConsumes
CHECK_DEADLOCK FALSE
