SPECIFICATION ArtSpec
CONSTANTS
  MaxDecls = 3
  FaultSets <- MCFaultSets
  Structs <- MCStructs
  HelperDefs <- MCHelperDefs
INVARIANTS
  TypeOK
  FindingsExact
  AcceptedSound
  ArtTypeOK
  
  LayoutWhenAligned
CHECK_DEADLOCK FALSE
