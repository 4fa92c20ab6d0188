SPECIFICATION FairSpec
CONSTANTS
  Programs <- DiscardingPrograms
  MaxInstructions = 70
  MaxMemory = 8
  MaxCallDepth = 4
  MaxMapEvents = 6
  MaxMapResources = 2
  Cloned <- CloneScope
  MaxInt = 31
  Fuel = 12
INVARIANT DiscardsDoNoHarm
CHECK_DEADLOCK FALSE
