SPECIFICATION DSpec
CONSTANTS
  MaxNodes = 4
  MaxDepth = 3
  MaxFields = 0
  MaxVars = 2
  PreludeLines = 1
  ElseParts = {"init", "else"}
  MaxRefs = 1
INVARIANTS
  NothingDropped
CHECK_DEADLOCK FALSE
