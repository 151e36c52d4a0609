\* Two calls and one lost channel: what a reconnection leaves behind.
SPECIFICATION Spec
CONSTANTS
  Calls = {c1, c2}
  Ids = {i1}
  NoCall = NoCall
  NoId = NoId
  MaxServes = 1
  MaxChannels = 2
  MaxFaults = 1
SYMMETRY Symmetry
INVARIANT ReplyConsumerStarted
CHECK_DEADLOCK FALSE
