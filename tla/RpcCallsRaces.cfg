\* Two calls that may share a correlation id, every message answered up to
\* twice, one reconnection, two faults.
SPECIFICATION FairSpec
CONSTANTS
  Calls = {c1, c2}
  Ids = {i1, i2}
  NoCall = NoCall
  NoId = NoId
  MaxServes = 2
  MaxChannels = 2
  MaxFaults = 2
INVARIANTS OwnAnswer TableExact
PROPERTIES AnsweredOnce EveryCallReturns
CHECK_DEADLOCK FALSE
