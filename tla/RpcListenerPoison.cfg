\* One process, one message whose body is not JSON, no incidents.
SPECIFICATION FairSpec
CONSTANTS
  Services = {s1}
  Slots = {k1}
  Msgs <- NotJson
  NoMsg = NoMsg
  Malformed <- NotJson
  Invalid = {}
  MaxRetries = 2
  Prefetch = 1
  MaxIncidents = 0
PROPERTY ExhaustedReachesDlq
CHECK_DEADLOCK FALSE
