SPECIFICATION FairSpec
CONSTANTS
  a1 = a1
  a2 = a2
  a3 = a3
  s1 = s1
  Async = {a1, a2, a3}
  Sync = {s1}
  Length <- MCLength
  LoopBreaker = 1
  MaxTries = 2
  MaxLosses <- MCMaxLosses
  NoThread = NoThread
INVARIANTS
  Atomic
  
  DamageBounded
PROPERTIES
  EveryTaskEnds
CHECK_DEADLOCK FALSE
