SPECIFICATION CSpec
CONSTANTS
  MaxNodes = 5
  MaxDepth = 2
  MaxFields = 0
  MaxVars = 0
  PreludeLines = 1
  ElseParts = {}
  Names <- MCNames
  Forms = {"var"}
INVARIANTS
  CTypeOK
  Simulates
  NoClash
CHECK_DEADLOCK FALSE
