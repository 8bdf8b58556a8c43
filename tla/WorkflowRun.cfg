SPECIFICATION FairSpec
CONSTANTS
  MaxCalls = 2
  RunId = {r}
  Step <- MCStep
  Needs <- MCNeeds
  Plan <- MCPlan
  RetryMax <- MCRetryMax
  Untimely <- MCUntimely
  Conditional <- MCConditional
  Referencing <- MCReferencing
  Continuing <- MCContinuing
  Idempotent <- MCStep
  MaxCrashes = 1
INVARIANTS
  TypeOK
  DependencyOrder
  SuccessIsComplete
  ReturnIsOnDisk
  ExhaustedNotRetried
PROPERTIES
  DurableStepsKept
  CallsReturn
CHECK_DEADLOCK FALSE
