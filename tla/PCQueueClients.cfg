SPECIFICATION FairSpec
CONSTANTS
  Consumers = {c1, c2, c3}
  MaxPushes = 4
INVARIANTS
  FIFO
  WakeupsSuffice
PROPERTIES
  EveryElementLeaves
CHECK_DEADLOCK FALSE
