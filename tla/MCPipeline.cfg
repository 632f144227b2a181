SPECIFICATION Spec
CONSTANTS
  NFiles = 2
  MaxVersion = 2
  BindingsFlags = {TRUE, FALSE}
  Torn = Torn
INVARIANTS
  TypeOK
  ResultsOnDisk
  ExitZeroIsComplete
PROPERTIES
  OnlyAcceptedTouched
  RunEnds
