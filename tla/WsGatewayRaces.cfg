\* Two connections, one event, an idle limit of one unit; dependencies that
\* resolve.
SPECIFICATION FairSpec
CONSTANTS
  Sockets = {s1, s2}
  Events = {e1}
  NoSocket = NoSocket
  IdleTimeout = 1
  DependenciesResolve = TRUE
INVARIANTS NoGhosts NoOrphans EventReachesAll
PROPERTIES ImplementsAudience IdleCloseJustified VanishedRemoved
CHECK_DEADLOCK FALSE
