SPECIFICATION FairSpec
CONSTANTS
  a = a
  b = b
  Job = {a, b}
  Manual = {a}
  Text = {a, b}
  Delayed = {b}
  Priority <- MCPriority
  MaxRetries <- MCMaxRetries
  MaxSize = 2
  MaxConcurrent = 2
  MaxExecutions = 1
  WorkerCount = 2
  MaxStarts = 2
  MaxDeaths = 2
INVARIANTS
  TypeOK
  OnePlacePerJob
  RunningIsHeld
  AttemptsBounded
  ExecutionsBounded
PROPERTY
  ExecutionsEnd
CHECK_DEADLOCK FALSE
