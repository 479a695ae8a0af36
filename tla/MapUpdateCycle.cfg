SPECIFICATION CycleSpec
CONSTANTS
  MaxDiff = 2
  MinInterval = 1
  MaxInterval = 6
  MaxReloads = 2
  MaxElapsed = 22
INVARIANTS
  NoTimeLost
  WaitBounded
