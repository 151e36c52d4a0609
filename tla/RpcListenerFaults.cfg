\* Two processes with one delivery each; a repairable, a non-JSON and a
\* non-repairable message; two incidents.
SPECIFICATION FairSpec
CONSTANTS
  Services = {s1, s2}
  Slots = {k1}
  Msgs <- OneOfEachKind
  NoMsg = NoMsg
  Malformed <- NotJson
  Invalid <- NotRepairable
  MaxRetries = 2
  Prefetch = 1
  MaxIncidents = 2
INVARIANTS NoLoss NoRepeatWithoutFault RetryBudget DlqOnlyWhenDue
PROPERTIES ImplementsAtLeastOnce EverySubmittedSettles
CHECK_DEADLOCK FALSE
