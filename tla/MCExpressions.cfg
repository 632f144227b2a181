SPECIFICATION Spec
CONSTANTS
  MaxOps = 3
  MaxDepth = 1
INVARIANTS
  TypeOK
  ReadsBack
  GroupsWhereRanksAgree
CHECK_DEADLOCK FALSE
