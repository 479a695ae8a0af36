SPECIFICATION FairSpec
CONSTANTS
  Workers = {w1, w2}
  continent = continent
  dungeon = dungeon
  BaseMaps = {continent, dungeon}
  Instances = {i1, i2}
  Parent <- MCParent
  Lfg = Lfg
  NoRequest = NoRequest
  MaxTicks = 3
INVARIANTS
  Barrier
PROPERTIES
  TickRefined
  TickCompletes
  ShutdownCompletes
CHECK_DEADLOCK FALSE
