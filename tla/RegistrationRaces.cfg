\* Two requests, two overlapping runs, two names and e-mails, two faults.
SPECIFICATION FairSpec
CONSTANTS
  Requests = {q1, q2}
  Runs = {r1, r2}
  Names = {n1, n2}
  Mails = {e1, e2}
  NoRequest = NoRequest
  NoName = NoName
  NoMail = NoMail
  MaxFaults = 2
INVARIANTS SuccessOwns RefusalTrue SomeoneWins
PROPERTIES ImplementsRegistry EveryRequestSettles
CHECK_DEADLOCK FALSE
