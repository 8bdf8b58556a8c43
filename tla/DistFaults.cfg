SPECIFICATION Spec
CONSTANTS
  a = a
  b = b
  c = c
  d = d
  Job = {a, b, c}
  Worker = {w1, w2}
  NoWorker = NoWorker
  NoStep = NoStep
  Needs <- ChainNeeds
  MaxAttempts <- ChainAttempts
  ContinueOnError = {b}
  Throwing = {c}
  HasTimeout = TRUE
  LeaseTicks = 1
  MaxTicks = 1
  MaxResumes = 1
CHECK_DEADLOCK FALSE
INVARIANTS TypeOK ProgressIsDurable
PROPERTY CompleteWhenReported
