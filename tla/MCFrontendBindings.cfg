SPECIFICATION ArtSpec
CONSTANTS
  MaxDecls = 2
  FaultSets <- MCFaultSets
  Structs <- MCStructs
  HelperDefs <- MCHelperDefs
INVARIANTS
  Republished
CHECK_DEADLOCK FALSE
