SPECIFICATION Spec
CONSTANTS
  Workers = {w1}
  MaxOps = 2
  MaxChain = 1
  NoOp = NoOp
  NoWorker = NoWorker
INVARIANTS
  SavedOnShutdown
CHECK_DEADLOCK FALSE
