SPECIFICATION FairSpec
CONSTANTS
  Programs <- MCPrograms
  MaxInstructions = 70
  MaxMemory = 14
  MaxCallDepth = 4
  MaxMapEvents = 6
  MaxMapResources = 2
  Cloned <- CloneScope
  MaxInt = 31
  Fuel = 12
INVARIANTS TypeOK AgreesWithInterpreter OperandsNest NoOperandIsMissing WasmAgrees DepthIsCalls LedgerTellsTheMaps AgentsKeepToCopies
PROPERTY Terminates
CHECK_DEADLOCK FALSE
