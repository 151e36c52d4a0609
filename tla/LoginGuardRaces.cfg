\* One user name, three auth_svc processes, a limit of two failures, a ban
\* that outlives the window, one fault.
SPECIFICATION FairSpec
CONSTANTS
  Users = {u1}
  Tasks = {t1, t2, t3}
  NoUser = NoUser
  MaxAttempts = 2
  WindowTtl = 2
  LockTtl = 3
  MaxFaults = 1
INVARIANTS CounterHasWindowOrFault LimitEnforced LateFailuresBounded BanStartsCleanCount
PROPERTIES BanLapses CounterLapses
