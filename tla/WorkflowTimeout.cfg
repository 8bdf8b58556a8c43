SPECIFICATION Spec
CONSTANTS
  MaxCalls = 2
  RunId = {r}
  Step <- MCStep
  Needs <- MCNeeds
  Plan <- MCPlan
  RetryMax <- MCRetryMax
  Untimely <- MCUntimely
  Conditional <- MCConditional
  Referencing <- MCReferencing
  Continuing <- MCContinuing
  Idempotent <- MCStep
  MaxCrashes = 1
INVARIANT TimeoutIsTerminal
CHECK_DEADLOCK FALSE
