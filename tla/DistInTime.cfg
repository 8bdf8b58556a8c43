SPECIFICATION Spec
CONSTANTS
  a = a
  b = b
  c = c
  d = d
  Job = {a, b, c, d}
  Worker = {w1, w2}
  NoWorker = NoWorker
  NoStep = NoStep
  Needs <- DiamondNeeds
  MaxAttempts <- DiamondAttempts
  ContinueOnError = {b}
  Throwing = {}
  HasTimeout = TRUE
  LeaseTicks = 2
  MaxTicks = 1
  MaxResumes = 0
CHECK_DEADLOCK FALSE
INVARIANTS OneRunner FailureMeansExhausted CleanEnd
PROPERTIES DependencyOrder FinishedOnce RunEnds StepsSettle
