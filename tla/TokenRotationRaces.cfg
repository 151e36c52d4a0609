\* Two overlapping calls, three tokens, one fault; the relationship loaded.
SPECIFICATION FairSpec
CONSTANTS
  Tokens = {j1, j2, j3}
  Runs = {r1, r2}
  NoToken = NoToken
  AccountLoads = TRUE
  MaxFaults = 1
INVARIANTS UsesBounded ExchangeRevokes SessionKept
PROPERTIES ImplementsSessionTable RunsEnd
