\* Two overlapping requests in two runs, one fault; the relationship loaded.
SPECIFICATION FairSpec
CONSTANTS
  Requests = {q1, q2}
  Runs = {r1, r2}
  Earlier = Earlier
  Nobody = Nobody
  AccountLoads = TRUE
  MaxFaults = 1
INVARIANTS SessionKept
PROPERTIES ImplementsContract LogoutTakesPlace
CHECK_DEADLOCK FALSE
