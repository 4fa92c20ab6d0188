SPECIFICATION Spec
CONSTANTS
  large = large
  stalled = stalled
  Requests = {large}
  Serialized = FALSE
  Bodyless = {}
  Size <- BodySize
  Limit = 2
  Slow = {}
  Fuel = 4
  None = None
  NoReq = NoReq
INVARIANTS OversizeIsRefused
CHECK_DEADLOCK FALSE
