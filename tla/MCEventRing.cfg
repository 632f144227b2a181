SPECIFICATION Spec
CONSTANTS
  Kinds = {"exec", "execFailed", "procExit"}
  Pids = {p1, p2}
  Size = 5
  RecLen = 2
  MaxEvents = 3
  MaxLives = 2
  Signals = {p1}
  Roots = {p1}
  All = FALSE
  ShowOpen = FALSE
  AllExits = FALSE
INVARIANTS
  TypeOK
  NoTornRecord
  ExitsExplained
PROPERTIES
  EventuallyRead
  ShutdownEnds
CHECK_DEADLOCK FALSE
