SPECIFICATION Spec
CONSTANTS
  j1 = j1
  j2 = j2
  j3 = j3
  Job = {j1, j2, j3}
  Worker = {w1, w2}
  NoWorker = NoWorker
  NoJob = NoJob
  Resolvable = {j1, j2}
  Throwing = {j2}
  LeaseTicks = 2
  MaxAttempts <- MCMaxAttempts
INVARIANTS TypeOK OnePlace AttemptsWithinLimit OwnerRunsItsJob
PROPERTY ImplementsLedger
