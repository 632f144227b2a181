SPECIFICATION Spec
CONSTANTS
  MaxOps = 2
  MaxDepth = 0
INVARIANT SameGrouping
CHECK_DEADLOCK FALSE
