SPECIFICATION FairSpec
CONSTANTS
  large = large
  stalled = stalled
  Requests = {large, stalled}
  Serialized = TRUE
  Bodyless = {}
  Size <- BodySize
  Limit = 2
  Slow = {stalled}
  Fuel = 3
  None = None
  NoReq = NoReq
INVARIANTS StatusIsTruthful SerialBodyIsWhole
PROPERTIES UpdatesAreAtomic OthersAreAnswered EveryRequestEnds
CHECK_DEADLOCK FALSE
