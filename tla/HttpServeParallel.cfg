SPECIFICATION FairSpec
CONSTANTS
  large = large
  stalled = stalled
  Requests = {large, stalled}
  Serialized = FALSE
  Bodyless = {}
  Size <- BodySize
  Limit = 2
  Slow = {stalled}
  Fuel = 2
  None = None
  NoReq = NoReq
INVARIANTS NoPartialBody
PROPERTIES EveryRequestEnds
CHECK_DEADLOCK FALSE
