SPECIFICATION ArtSpec
CONSTANTS
  MaxDecls = 1
  FaultSets <- MCFaultSets
  Structs <- MCStructs
  HelperDefs <- MCHelperDefs
INVARIANTS
  AllDeclared
CHECK_DEADLOCK FALSE
