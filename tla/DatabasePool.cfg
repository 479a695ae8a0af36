SPECIFICATION FairSpec
CONSTANTS
  Workers = {w1, w2}
  MaxOps = 3
  MaxChain = 2
  NoOp = NoOp
  NoWorker = NoWorker
INVARIANTS
  NoOvertaking
  CallbackOnce
PROPERTIES
  CallbackRuns
  CloseReturns
CHECK_DEADLOCK FALSE
