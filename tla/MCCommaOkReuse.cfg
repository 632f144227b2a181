SPECIFICATION CSpec
CONSTANTS
  MaxNodes = 4
  MaxDepth = 2
  MaxFields = 0
  MaxVars = 0
  PreludeLines = 1
  ElseParts = {}
  Names <- MCNames
  Forms = {"reuse"}
INVARIANTS
  Simulates
CHECK_DEADLOCK FALSE
