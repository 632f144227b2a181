SPECIFICATION SysmonSpec
CONSTANTS
  NProgs = 4
  NMaps = 2
  Section <- MCSection
  GoOrder <- MCGoOrder
  Versions = {1, 2}
  Ifindexes = {0, 1}
  PacketMap = 1
  CPUs = {c1, c2, c3}
  MaxPackets = 4
INVARIANTS
  TypeOK
  CounterTypeOK
  NoOrphanLink
  CloseReleases
  NeverOver
  StatsSound
PROPERTIES
  KeepsPromise
  LossOnlyAtCreation
CHECK_DEADLOCK FALSE
