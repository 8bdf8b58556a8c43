---------------------------- MODULE MCComponents ----------------------------
(***************************************************************************)
(* The components of the engine that share no state with the others, in    *)
(* one run: part says which of them moves in a behaviour, the other ones   *)
(* stay as they begin.                                                     *)
(***************************************************************************)
EXTENDS UsageSpool, CronSchedule, Lifecycle, UsageAggregates,
        BatchRuns, WorkflowPlans, DiagramIndex, Listeners,
        SharedRuntime, ConnectionPool, WorkflowIntake, FileCache,
        Guards, Automation, ExecutionStates, Schedules, Resolution,
        Adapters, EngineLog, UsageQueries, Explanation

VARIABLE part

vars == <<part, spoolVars, cronVars, lifeVars, retryVars, usageVars,
          batchVars, needs, diagramVars, listenVars, runtimeVars,
          poolVars, doc, drawingVars, cacheVars, guarded, scene,
          timed, backoff, failing, stateVars, triggerVars,
          storeVars, contextVars, registryVars, stepCall, logVars,
          queryVars, draft>>

Parts == {"spool", "cron", "life", "retry", "usage", "batch", "plans",
          "diagrams", "listeners", "hooks", "runtime", "pool", "intake",
          "drawing", "cache", "guards", "limits", "timeouts",
          "backoffs", "failures", "states", "triggers", "stores",
          "contexts", "adapters", "calls", "log", "queries",
          "explained"}

\* The choices that the other parts begin with make no difference.
OneOf(S) == CHOOSE x \in S : TRUE

ComponentsInit ==
  /\ part \in Parts
  /\ SpoolInit /\ (part # "spool" => batchSize = OneOf(BatchSizes))
  /\ RetryInit /\ (part # "retry" => policy = OneOf(Policies))
  /\ RuntimeInit /\ (part # "runtime" => setting = "run")
  /\ DrawingInit /\ (part # "drawing" => nodes = <<>>)
  /\ BatchInit /\ (part # "batch" => /\ batch.wave = OneOf(WaveSizes) /\ batch.workers = OneOf(Parallel)
                                     /\ ~batch.failFast /\ ~batch.enforced)
  /\ TimedInit /\ (part # "timeouts" => ~timed.cleans)
  /\ BackoffInit /\ (part # "backoffs" => backoff.config = OneOf(BackoffConfigs) /\ backoff.attempt = 1)
  /\ FailInit /\ (part # "failures" => failing.strategy = OneOf(Strategies))
  /\ CronInit /\ LifeInit /\ UsageInit /\ PlansInit /\ DiagramInit /\ ListenInit /\ PoolInit
  /\ IntakeInit /\ CacheInit /\ GuardsInit /\ LimitsInit
  /\ CallInit /\ (part # "calls" => stepCall.set = OneOf({c \in CallSettings : c.when = "none"}))
  /\ StatesInit /\ TriggerInit /\ StoresInit /\ ContextInit /\ RegistryInit /\ LogInit /\ QueryInit /\ DraftInit

ComponentsNext ==
  /\ UNCHANGED part
  /\ IF part = "spool" THEN SpoolNext ELSE UNCHANGED spoolVars
  /\ IF part = "cron" THEN CronNext ELSE UNCHANGED cronVars
  /\ IF part = "life" THEN LifeNext ELSE UNCHANGED lifeVars
  /\ IF part = "retry" THEN RetryNext ELSE UNCHANGED retryVars
  /\ IF part = "usage" THEN UsageNext ELSE UNCHANGED usageVars
  /\ IF part = "batch" THEN BatchNext ELSE UNCHANGED batchVars
  /\ IF part = "plans" THEN PlansNext ELSE UNCHANGED needs
  /\ IF part = "diagrams" THEN DiagramNext ELSE UNCHANGED diagramVars
  /\ IF part = "listeners" THEN BusNext ELSE UNCHANGED busVars
  /\ IF part = "hooks" THEN HookNext ELSE UNCHANGED hookVars
  /\ part \notin {"listeners", "hooks"} => UNCHANGED listenCalls
  /\ IF part = "runtime" THEN RuntimeNext ELSE UNCHANGED runtimeVars
  /\ IF part = "pool" THEN PoolNext ELSE UNCHANGED poolVars
  /\ IF part = "intake" THEN IntakeNext ELSE UNCHANGED doc
  /\ IF part = "drawing" THEN DrawingNext ELSE UNCHANGED drawingVars
  /\ IF part = "cache" THEN CacheNext ELSE UNCHANGED cacheVars
  /\ IF part = "guards" THEN GuardsNext ELSE UNCHANGED guarded
  /\ IF part = "limits" THEN LimitsNext ELSE UNCHANGED scene
  /\ IF part = "timeouts" THEN TimedNext ELSE UNCHANGED timed
  /\ IF part = "backoffs" THEN BackoffNext ELSE UNCHANGED backoff
  /\ IF part = "failures" THEN FailNext ELSE UNCHANGED failing
  /\ IF part = "states" THEN StatesNext ELSE UNCHANGED stateVars
  /\ IF part = "triggers" THEN TriggerNext ELSE UNCHANGED triggerVars
  /\ IF part = "stores" THEN StoresNext ELSE UNCHANGED storeVars
  /\ IF part = "contexts" THEN ContextNext ELSE UNCHANGED contextVars
  /\ IF part = "adapters" THEN RegistryNext ELSE UNCHANGED registryVars
  /\ IF part = "calls" THEN CallNext ELSE UNCHANGED stepCall
  /\ IF part = "log" THEN LogNext ELSE UNCHANGED logVars
  /\ IF part = "queries" THEN QueryNext ELSE UNCHANGED queryVars
  /\ IF part = "explained" THEN DraftNext ELSE UNCHANGED draft

\* SpoolFairness, where it matters.
ComponentsFairness == WF_spoolVars(part = "spool" /\ \E p \in Process : FlushStep(p))

ComponentsSpec == ComponentsInit /\ [][ComponentsNext]_vars /\ ComponentsFairness

\* The state of the component that moves has its type.
ComponentsTypeOK ==
  CASE part = "spool"     -> SpoolTypeOK
    [] part = "cron"      -> CronTypeOK
    [] part = "life"      -> LifeTypeOK
    [] part = "retry"     -> RetryTypeOK
    [] part = "usage"     -> UsageTypeOK
    [] part = "batch"     -> BatchTypeOK
    [] part = "plans"     -> PlansTypeOK
    [] part = "diagrams"  -> DiagramTypeOK
    [] part \in {"listeners", "hooks"} -> ListenTypeOK
    [] part = "runtime"   -> RuntimeTypeOK
    [] part = "pool"      -> PoolTypeOK
    [] part = "intake"    -> IntakeTypeOK
    [] part = "drawing"   -> DrawingTypeOK
    [] part = "cache"     -> CacheTypeOK
    [] part = "guards"    -> GuardsTypeOK
    [] part = "limits"    -> LimitsTypeOK
    [] part = "timeouts"  -> TimedTypeOK
    [] part = "backoffs"  -> BackoffTypeOK
    [] part = "failures"  -> FailTypeOK
    [] part = "states"    -> StatesTypeOK
    [] part = "triggers"  -> TriggersTypeOK
    [] part = "stores"    -> StoresTypeOK
    [] part = "contexts"  -> ContextTypeOK
    [] part = "adapters"  -> RegistryTypeOK
    [] part = "calls"     -> CallTypeOK
    [] part = "log"       -> LogTypeOK
    [] part = "queries"   -> QueryTypeOK
    [] part = "explained" -> DraftTypeOK

=============================================================================
