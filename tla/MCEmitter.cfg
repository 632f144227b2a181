SPECIFICATION DSpec
CONSTANTS
  MaxNodes = 4
  MaxDepth = 2
  MaxFields = 1
  MaxVars = 2
  PreludeLines = 1
  ElseParts = {}
  MaxRefs = 2
INVARIANTS
  TypeOK
  HeadsResolve
  MappingsInOrder
  NothingDropped
  DTypeOK
  HeadsAnnotated
  PositionsTrue
CHECK_DEADLOCK FALSE
