SPECIFICATION ComponentsSpec
CONSTANTS
  Event = {1, 2}
  Process = {p, r}
  BatchSizes = {2}
  MaxRetryAttempts = 2
  MaxSpoolCrashes = 1
  Schedule = {s}
  Interval = 1
  CronTicks = {1, 3}
  MaxConcurrent = 2
  EndDate = 1
  MaxTime = 3
  MaxCalls = 3
  Call = {a, b}
  MaxComponents = 2
  MaxLifeCalls = 4
  MaxAttempts = 3
  LastDay = 2
  Key = {1, 2}
  WeekLength = 1
  MonthLength = 2
  FetchLimit = 1
  Aggregator = {1, 2}
  MaxEvents = 2
  MaxMishaps = 1
  Items = 3
  WaveSizes = {2}
  Parallel = {1, 2}
  StepsOfWorkflow = 1
  QuotaRuns = 1
  QuotaSteps = 1
  Steps = 4
  MaxNeeds = 4
  Durations = {1, 2}
  Source = {a, b}
  Engine = {p, r}
  MaxHistory = 2
  MaxArtifacts = 3
  MaxRecords = 4
  MaxTornIndexes = 1
  Handlers = 2
  Emission = {a, b}
  Hooks = 2
  HookRun = {p}
  MaxListenCalls = 2
  Runs = 2
  StepsOfRun = 2
  MaxConnections = 1
  MaxPools = 2
  MaxCreated = 3
  DocSteps = 3
  MaxInk = 5
  MaxNodes = 3
  MaxEdges = 3
  CacheSource = {a, b}
  Content = {1, 2}
  MaxCacheCalls = 4
  Amounts = {0, 5, 6}
  MaxRemarks = 3
  Bases = {0, 1, 3, 4}
  TriedSteps = 3
  MaxFailedRuns = 2
  StateStep = {s, t}
  MaxMoves = 5
  MaxInstant = 2
  ScheduleId = {s, t}
  TriggerCall = {a, b}
  StoreProcess = {p, r}
  MaxVersions = 3
  MaxStoreCalls = 4
  StepId = {s, t}
  MaxStoreOps = 4
  AdapterName = {1, 2}
  MaxRegistryCalls = 5
  MaxTries = 2
  Task = {a, b}
  Level = "warn"
  MaxLogHistory = 1
  MaxLogged = 2
  Workspace = {a, b}
  MaxRecorded = 2
  RunQuota = 2
  StepQuota = 3
  ComputeQuota = 4
  DraftSteps = 3
  MaxEdits = 4
INVARIANTS ComponentsTypeOK SpoolSafe CronSafe AggregatesSafe BatchSafe PlannerSound 
PROPERTIES EventsSettle
CHECK_DEADLOCK FALSE
