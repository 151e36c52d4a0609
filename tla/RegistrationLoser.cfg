\* Two requests for one user name in two runs, no faults.
SPECIFICATION Spec
CONSTANTS
  Requests = {q1, q2}
  Runs = {r1, r2}
  Names = {n1}
  Mails = {e1, e2}
  NoRequest = NoRequest
  NoName = NoName
  NoMail = NoMail
  MaxFaults = 0
SYMMETRY Symmetry
INVARIANT TakenIsToldExists
CHECK_DEADLOCK FALSE
