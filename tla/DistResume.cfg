SPECIFICATION Spec
CONSTANTS
  a = a
  b = b
  c = c
  d = d
  Job = {a, b, c}
  Worker = {w1, w2}
  NoWorker = NoWorker
  NoStep = NoStep
  Needs <- JoinNeeds
  MaxAttempts <- JoinAttempts
  ContinueOnError = {}
  Throwing = {}
  HasTimeout = FALSE
  LeaseTicks = 1
  MaxTicks = 0
  MaxResumes = 1
CHECK_DEADLOCK FALSE
PROPERTY FinishedOnce
