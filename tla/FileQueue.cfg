SPECIFICATION Spec
CONSTANTS
  a = a
  b = b
  Job = {a, b}
  Worker = {v, w}
  NoWorker = NoWorker
  NoJob = NoJob
  MaxAttempts <- MCMaxAttempts
  LeaseTicks = 1
  MaxCrashes = 1
SYMMETRY MCSymmetry
INVARIANTS
  TypeOK
  EveryReadIsAQueue
  LeaseHasRunner
PROPERTY
  LedgerUntilOverlap
