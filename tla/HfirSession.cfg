SPECIFICATION Spec
CONSTANTS
  Graphs <- MCGraphs
  Replacements <- MCReplacements
  Targets = {"bytecode", "wasm"}
  MaxEvents = 3
  MaxCandidateNodes = 12
  MaxNodeInputs = 3
  MaxAdapterDepth = 6
  MaxAdapterExpansion = 20
  MaxRepairOperations = 2
  MaxRepairRegionNodes = 5
CHECK_DEADLOCK FALSE
INVARIANTS IncrementalIsClean StoreIsWhole
PROPERTY RepairsStayInRegion
