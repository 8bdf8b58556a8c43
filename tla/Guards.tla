------------------------------- MODULE Guards -------------------------------
(***************************************************************************)
(* What is decided about a run before it and its steps start.  The checks  *)
(* on a step that has been parsed: the texts of durations and their        *)
(* readers, StepGuard (before an execution) and ResourceGuard (against a   *)
(* permission policy).  What a run may use and how it should go:           *)
(* ExecutionLimits with the tiers of subscriptions, InternalContextBuilder,*)
(* IntentAnalyzer, ExecutionStrategyResolver and ExecutionStrategyGuard.   *)
(***************************************************************************)
EXTENDS Integers, FiniteSets, Sequences, FiniteSetsExt

CONSTANTS Amounts,    \* the numbers in texts of durations
          MaxRemarks  \* bound: the fields of a situation that are not as in Plain

ASSUME GuardsAssumption == Amounts \subseteq Nat /\ MaxRemarks \in Nat

VARIABLES guarded,  \* the step to be checked and the policy it is checked against
          scene     \* the situation of a run

-----------------------------------------------------------------------------
(***************************************************************************)
(* Durations, in milliseconds                                              *)
(***************************************************************************)
UnitMs == [ms |-> 1, s |-> 1000, m |-> 60000, h |-> 3600000, d |-> 86400000]
Minutes(n) == n * UnitMs.m

\* "30s", " 30s", "30.5s", "30" (the unit does not count then), "thirty".
Forms == {"plain", "spaced", "decimal", "bare", "word"}
DurationText == [amount : Amounts, unit : DOMAIN UnitMs, form : Forms]
NoText == [form |-> "none"]

\* What a reader does with a text that it does not take.
Refuses == -1

Exact(t) == t.amount * UnitMs[t.unit]

\* parseDurationToMs of the validator, parseInterval of the schedules
SchemaMs(t) == IF t.form \in {"plain", "spaced"} THEN Exact(t) ELSE Refuses
IntervalMs(t) == IF t.form \in {"plain", "spaced"} THEN Exact(t) ELSE Refuses

\* parseTimeString of the limits
LimitMs(t) == IF t.form = "plain" THEN Exact(t) ELSE Minutes(5)

\* parseTimeoutString of ResourceGuard
PolicyMs(t) == IF t.form = "plain" THEN Exact(t) ELSE 30000

\* parseTimeoutString of the workflow executor, of the step executor, of the
\* orchestrator and of the drivers; the graph has no timeout where they throw.
ExecutorMs(t) == IF t.form = "plain" /\ t.unit # "d" THEN Exact(t) ELSE Refuses
GraphMs(t) == IF t.form = "plain" /\ t.unit # "d" THEN Exact(t) ELSE Refuses

\* parseTimeout of TimeoutManager: half a unit for the fraction.
ManagerMs(t) ==
  CASE t.form = "bare" -> t.amount
    [] t.form \in {"plain", "spaced"} /\ t.unit # "d" -> Exact(t)
    [] t.form = "decimal" /\ t.unit # "d" -> Exact(t) + UnitMs[t.unit] \div 2
    [] OTHER -> Refuses

-----------------------------------------------------------------------------
(***************************************************************************)
(* StepGuard                                                               *)
(***************************************************************************)
\* validate: the check that throws, or "none".  Dependencies and references
\* are checked against the ids of the workflow.  The timeout must be a number,
\* and what the parser leaves is a text.
StepGuardRefusal_SelfNeed(step, ids) ==
  IF step.timeout # NoText THEN "timeout"
  ELSE IF step.retryMax \notin 0 .. 10 \/ step.retryDelay < 0 THEN "retry"
  ELSE IF ~(step.needs \subseteq ids) THEN "dependency"
  ELSE IF ~(step.mentions \subseteq ids) THEN "reference"
  ELSE "none"

StepGuardRefusal(step, ids) ==
  IF step.timeout # NoText THEN "timeout"
  ELSE IF step.retryMax \notin 0 .. 10 \/ step.retryDelay < 0 THEN "retry"
  ELSE IF ~(step.needs \subseteq ids \ {step.id}) THEN "dependency"
  ELSE IF ~(step.mentions \subseteq ids) THEN "reference"
  ELSE "none"

-----------------------------------------------------------------------------
(***************************************************************************)
(* ResourceGuard                                                           *)
(***************************************************************************)
Adapters == {"http", "webhook", "fs", "shell", "cli", "plugin", "db"}

Permissive ==
  [network |-> TRUE, files |-> TRUE, shell |-> TRUE, allowed |-> Adapters, blocked |-> {},
   maxStep |-> Minutes(30), maxWorkflow |-> Minutes(120)]
Restrictive ==
  [network |-> FALSE, files |-> FALSE, shell |-> FALSE, allowed |-> {"plugin"},
   blocked |-> {"shell", "cli", "exec", "fs"},
   maxStep |-> Minutes(5), maxWorkflow |-> Minutes(15)]

\* A policy is the permissive one with some of its fields replaced.
GuardPolicies ==
  {Permissive, Restrictive, [Permissive EXCEPT !.network = FALSE],
   [Permissive EXCEPT !.files = FALSE], [Permissive EXCEPT !.shell = FALSE],
   [Permissive EXCEPT !.blocked = {"db"}, !.maxStep = Minutes(5)]}

\* validateStep: the check that throws, or "none".
PolicyRefusal(step, policy) ==
  IF step.adapter \in policy.blocked \/ step.adapter \notin policy.allowed THEN "adapter"
  ELSE IF step.timeout # NoText /\ PolicyMs(step.timeout) > policy.maxStep THEN "timeout"
  ELSE IF ~policy.network /\ step.adapter \in {"http", "webhook", "api"} THEN "network"
  ELSE IF ~policy.files /\ step.adapter \in {"fs", "file"} THEN "files"
  ELSE IF ~policy.shell /\ step.adapter \in {"shell", "cli", "exec"} THEN "shell"
  ELSE "none"

\* validateWorkflow; a timeout of 0 is none.
WorkflowRefused(steps, timeout, policy) ==
  \/ timeout # 0 /\ timeout > policy.maxWorkflow
  \/ \E step \in steps : PolicyRefusal(step, policy) # "none"

-----------------------------------------------------------------------------
\* A step is written before a policy is chosen for it.
NoPolicy == [maxStep |-> 0]
Unwritten == [adapter |-> "unset", timeout |-> NoText, policy |-> NoPolicy]
GuardsInit == guarded = Unwritten

WritesTimeout ==
  /\ guarded = Unwritten
  /\ \E t \in DurationText : guarded' = [guarded EXCEPT !.timeout = t]
WritesAdapter ==
  /\ guarded.adapter = "unset"
  /\ \E a \in Adapters : guarded' = [guarded EXCEPT !.adapter = a]
MeetsPolicy ==
  /\ guarded.adapter # "unset" /\ guarded.policy = NoPolicy
  /\ \E p \in GuardPolicies : guarded' = [guarded EXCEPT !.policy = p]

GuardsNext == WritesTimeout \/ WritesAdapter \/ MeetsPolicy

GuardsSpec == GuardsInit /\ [][GuardsNext]_guarded

GuardsTypeOK ==
  /\ guarded.adapter \in Adapters \cup {"unset"}
  /\ guarded.timeout \in DurationText \cup {NoText}
  /\ guarded.policy \in GuardPolicies \cup {NoPolicy}

-----------------------------------------------------------------------------
(***************************************************************************)
(* Properties                                                              *)
(***************************************************************************)
\* A text that the validator lets through means the same to everyone who reads
\* it, if it is written without spaces and does not count days; and whatever
\* the executor takes, the validator, the policy and the limits have taken for
\* the same time.
DurationsAgree(t) ==
  /\ SchemaMs(t) # Refuses /\ t.form = "plain" /\ t.unit # "d" =>
       {LimitMs(t), PolicyMs(t), ExecutorMs(t), ManagerMs(t), IntervalMs(t), GraphMs(t)}
         = {SchemaMs(t)}
  /\ ExecutorMs(t) # Refuses => {SchemaMs(t), PolicyMs(t), LimitMs(t)} = {ExecutorMs(t)}

\* A step that the guard before an execution lets through cannot make the
\* executor throw over its timeout, and has all that it needs.
AdmittedStepsRun ==
  \A timeout \in DurationText \cup {NoText} : \A ids, wanted, mentions \in SUBSET {1, 2} :
    \A max \in {-1, 0, 10, 11} : \A delay \in {-1, 0} :
      LET whole == [id |-> 1, timeout |-> timeout, retryMax |-> max, retryDelay |-> delay,
                    needs |-> wanted, mentions |-> mentions]
      IN StepGuardRefusal(whole, ids) = "none" =>
           /\ timeout = NoText \/ ExecutorMs(timeout) # Refuses
           /\ wanted \cup mentions \subseteq ids /\ 1 \notin wanted
           /\ max \in 0 .. 10

\* A step that a policy lets through runs, if it runs at all, for no longer
\* than the policy says, and does nothing that the policy forbids, whichever
\* of the lists says so; what the restrictive policy lets through the permissive
\* one does.
PolicyHolds(step, policy) ==
  PolicyRefusal(step, policy) = "none" =>
    /\ step.timeout # NoText => ExecutorMs(step.timeout) <= policy.maxStep
    /\ ~policy.network => step.adapter \notin {"http", "webhook"}
    /\ ~policy.files => step.adapter # "fs"
    /\ ~policy.shell => step.adapter \notin {"shell", "cli"}
    /\ policy = Restrictive =>
         /\ PolicyRefusal(step, Permissive) = "none" /\ step.adapter = "plugin"
         /\ \A time \in {0, Minutes(15)} : ~WorkflowRefused({step}, time, Permissive)
    /\ ~WorkflowRefused({step}, policy.maxWorkflow, policy)
    /\ WorkflowRefused({step}, policy.maxWorkflow + 1, policy)

\* Whoever admits a step, the readers of its durations and the policies agree
\* on what has been admitted.
GuardsSound ==
  /\ AdmittedStepsRun
  /\ guarded.timeout # NoText => DurationsAgree(guarded.timeout)
  /\ guarded.policy # NoPolicy => PolicyHolds(guarded, guarded.policy)

-----------------------------------------------------------------------------
(***************************************************************************)
(* The situation of a run is written one remark at a time, from an idle    *)
(* machine and a small workflow.  Loads and rates are percentages.         *)
(***************************************************************************)
Unknown == -1    \* not given
NotANumber == -2

SceneValues ==
  [tier   |-> {"free", "local", "pro", "business", "gold"},
   cpu    |-> {71, 81, 86, 91, 96},
   memory |-> {81, 86, 96},
   active |-> {51, 101},
   rate   |-> {0, 20, 35, 45, 70},
   limit  |-> {1, 7},
   size   |-> {6, 16, 21, 31, 101},
   kind   |-> {"http", "cli", "pipeline", "many"},
   retry  |-> {TRUE},
   words  |-> {"data", "deploy", "test"},
   note   |-> {"data-pipeline", "monitoring", "odd"}]

Plain ==
  [tier |-> "free", cpu |-> Unknown, memory |-> 0, active |-> 0, rate |-> Unknown,
   limit |-> Unknown, size |-> 3, kind |-> "db", retry |-> FALSE, words |-> "unset", note |-> "unset"]

Remarks(s) == Cardinality({f \in DOMAIN s : s[f] # Plain[f]})

LimitsTypeOK ==
  \A f \in DOMAIN Plain : scene[f] \in SceneValues[f] \cup {Plain[f]}

LimitsInit == scene = Plain

LimitsNext ==
  /\ Remarks(scene) < MaxRemarks
  /\ \E f \in DOMAIN Plain : \E v \in SceneValues[f] :
       scene[f] = Plain[f] /\ scene' = [scene EXCEPT ![f] = v]

LimitsSpec == LimitsInit /\ [][LimitsNext]_scene

-----------------------------------------------------------------------------
(***************************************************************************)
(* Tiers and their limits                                                  *)
(***************************************************************************)
FreeTier ==
  [retries |-> 3, step |-> Minutes(5), workflow |-> Minutes(15), concurrency |-> 2,
   steps |-> 10, modes |-> <<"local">>, sandbox |-> "basic", mayDisable |-> FALSE,
   mayRush |-> FALSE, cpu |-> 1, memory |-> 512, disk |-> 1024]
ProTier ==
  [retries |-> 10, step |-> Minutes(30), workflow |-> Minutes(120), concurrency |-> 10,
   steps |-> 50, modes |-> <<"local", "docker">>, sandbox |-> "basic", mayDisable |-> FALSE,
   mayRush |-> FALSE, cpu |-> 4, memory |-> 2048, disk |-> 10240]
EnterpriseTier ==
  [retries |-> 50, step |-> Minutes(120), workflow |-> Minutes(1440), concurrency |-> 100,
   steps |-> 500, modes |-> <<"local", "docker", "remote", "distributed">>,
   sandbox |-> "none", mayDisable |-> TRUE, mayRush |-> TRUE, cpu |-> 32,
   memory |-> 32768, disk |-> 102400]

LimitsForTier(tier) ==
  CASE tier \in {"pro", "professional"} -> ProTier
    [] tier \in {"enterprise", "business"} -> EnterpriseTier
    [] OTHER -> FreeTier

\* build: the billing of a run follows the name of its tier, its limits what
\* the name stands for.
InternalContext(tier) ==
  [limits |-> LimitsForTier(tier), billable |-> tier # "free",
   payment |-> IF tier = "free" THEN "trial" ELSE "active"]

-----------------------------------------------------------------------------
(***************************************************************************)
(* The requests of a workflow, clamped                                     *)
(***************************************************************************)
AtMost(n, limit) == IF n = NotANumber THEN n ELSE Min({n, limit})

EnforcedRetries(n, limits) == IF n = Unknown THEN 3 ELSE AtMost(n, limits.retries)
EnforcedConcurrency(n, limits) == IF n = Unknown THEN 5 ELSE AtMost(n, limits.concurrency)

\* A text that is none of a duration stands for five minutes.
EnforcedTimeout(t, limits, ofWorkflow) ==
  IF t = NoText THEN Minutes(IF ofWorkflow THEN 15 ELSE 5)
  ELSE AtMost(LimitMs(t), IF ofWorkflow THEN limits.workflow ELSE limits.step)

SandboxLevel == [none |-> 0, basic |-> 1, strict |-> 2]

EnforcedSandbox(level, limits) ==
  IF level = "unset" THEN "basic"
  ELSE IF level = "none" /\ ~limits.mayDisable THEN limits.sandbox
  ELSE IF SandboxLevel[level] < SandboxLevel[limits.sandbox] THEN limits.sandbox
  ELSE level

EnforcedMode(mode, limits) ==
  IF mode = "unset" THEN "local"
  ELSE IF \E i \in DOMAIN limits.modes : limits.modes[i] = mode THEN mode ELSE limits.modes[1]

EnforcedPriority(priority, limits) ==
  IF priority = "unset" \/ (priority = "high" /\ ~limits.mayRush) THEN "normal" ELSE priority

\* parseResourceSize, in MB: 1, 1 GB, 1 TB, or a text that is none.
SizeMB == [MB |-> 1, GB |-> 1024, TB |-> 1024 * 1024, odd |-> 512]

\* A cpu text that is no number passes through the minimum.
EnforcedResources(cpu, memory, disk, limits) ==
  [cpu    |-> AtMost(IF cpu = Unknown THEN 1 ELSE cpu, limits.cpu),
   memory |-> AtMost(IF memory = "unset" THEN 512 ELSE SizeMB[memory], limits.memory),
   disk   |-> AtMost(IF disk = "unset" THEN 1024 ELSE SizeMB[disk], limits.disk)]

\* validateWorkflowLimits: the warnings that a step gets.
RetryWarned(max, limits) == max # Unknown /\ max > limits.retries
TimeoutWarned(t, limits) == t # NoText /\ LimitMs(t) > limits.step

-----------------------------------------------------------------------------
(***************************************************************************)
(* IntentAnalyzer                                                          *)
(***************************************************************************)
\* The adapters of the steps, in order.
AdapterOf(s, i) ==
  CASE s.kind = "pipeline" -> <<"http", "cli", "fs">>[((i - 1) % 3) + 1]
    [] s.kind = "many" -> <<"fs", "cli", "http", "db">>[((i - 1) % 4) + 1]
    [] OTHER -> s.kind

AdapterCount(s, set) == Cardinality({i \in 1 .. s.size : AdapterOf(s, i) \in set})

\* hasPattern: http, then cli, then fs, others between them.
HasDataFlow(s) ==
  \E i, j, k \in 1 .. Min({s.size, 12}) :
    /\ i < j /\ j < k
    /\ AdapterOf(s, i) = "http" /\ AdapterOf(s, j) = "cli" /\ AdapterOf(s, k) = "fs"

KnownIntents == {"data-pipeline", "deployment", "testing", "monitoring", "notification",
                 "integration", "automation", "orchestration"}

Classified(intent, confidence) == [intent |-> intent, confidence |-> confidence]

\* classify: the annotation, the words of the name, the pattern of the steps.
IntentOf(s) ==
  CASE s.note \in KnownIntents -> Classified(s.note, "high")
    [] s.note \notin KnownIntents /\ s.words # "unset" ->
         Classified([data |-> "data-pipeline", deploy |-> "deployment", test |-> "testing"][s.words],
                    "medium")
    [] OTHER ->
         IF HasDataFlow(s) THEN Classified("data-pipeline", "medium")
         ELSE IF AdapterCount(s, {"http"}) >= 2 THEN Classified("notification", "low")
         ELSE IF Cardinality({AdapterOf(s, i) : i \in 1 .. s.size}) >= 4
              THEN Classified("orchestration", "low")
         ELSE Classified("automation", "low")

-----------------------------------------------------------------------------
(***************************************************************************)
(* ExecutionStrategyResolver and ExecutionStrategyGuard                    *)
(***************************************************************************)
\* Adjustments that a strategy leaves out are Unknown; multipliers in halves.
Strategy(name, concurrency, retries, multiplier) ==
  [name |-> name, concurrency |-> concurrency, retries |-> retries, multiplier |-> multiplier]

ForHighLoad(s) ==
  Strategy(IF s.cpu > 90 THEN "sequential" ELSE "conservative",
           IF s.cpu > 90 THEN 1 ELSE IF s.cpu > 85 THEN 2 ELSE 3, 2,
           IF s.memory > 85 \/ s.size > 20 THEN 4 ELSE 3)

ForDataPipeline(s) ==
  LET atMost(n) == IF s.limit = Unknown THEN n ELSE Min({s.limit, n})
  IN Strategy("resilient",
              IF s.size > 30 THEN atMost(5) ELSE IF s.size > 15 THEN atMost(10) ELSE Unknown,
              IF s.rate \in 1 .. 79 THEN 7 ELSE 5, 3)

ForUnreliable(s) ==
  Strategy(IF s.rate < 40 THEN "sequential" ELSE "conservative",
           IF s.rate < 40 THEN 1 ELSE IF s.rate < 60 THEN 2 ELSE 3,
           IF s.rate < 30 THEN 5 ELSE IF s.rate < 50 THEN 4 ELSE 3,
           IF s.rate < 30 THEN 6 ELSE IF s.rate < 50 THEN 5 ELSE 4)

RequiresSafeMode(s) ==
  \/ s.size > 20
  \/ ~s.retry /\ s.size > 5
  \/ AdapterCount(s, {"http", "webhook", "api", "rest"}) > 5

\* resolve; a success rate of 0 is taken for none.
Resolve_IntentFirst(s, intent) ==
  IF intent = "data-pipeline" THEN ForDataPipeline(s)
  ELSE IF s.cpu > 80 THEN ForHighLoad(s)
  ELSE IF s.rate \in 1 .. 49 THEN ForUnreliable(s)
  ELSE IF s.limit = 1 THEN Strategy("sequential", 1, Unknown, Unknown)
  ELSE IF RequiresSafeMode(s) THEN Strategy("conservative", Unknown, 3, 3)
  ELSE Strategy("default", Unknown, Unknown, Unknown)

Resolve(s, intent) ==
  IF s.cpu > 80 THEN ForHighLoad(s)
  ELSE IF intent = "data-pipeline" THEN ForDataPipeline(s)
  ELSE IF s.rate \in 1 .. 49 THEN ForUnreliable(s)
  ELSE IF s.limit = 1 THEN Strategy("sequential", 1, Unknown, Unknown)
  ELSE IF RequiresSafeMode(s) THEN Strategy("conservative", Unknown, 3, 3)
  ELSE Strategy("default", Unknown, Unknown, Unknown)

\* estimateResourceRequirements, of the processor.
NeedsMuchCpu(s) == AdapterCount(s, {"cli", "shell", "exec", "script"}) > 5 \/ s.size > 30

\* isSafeToExecute
SafeToExecute(s) ==
  /\ s.cpu # Unknown => s.cpu <= 95 /\ s.memory <= 95 /\ s.active <= 100
  /\ ~(NeedsMuchCpu(s) /\ s.cpu > 70)
  /\ s.size <= 100

\* recommendedDelay
RecommendedDelay(s) ==
  IF s.cpu = Unknown THEN 0
  ELSE IF s.cpu \in 81 .. 95 THEN 5000
  ELSE IF s.memory \in 81 .. 95 THEN 3000
  ELSE IF s.active > 50 THEN 2000
  ELSE 0

-----------------------------------------------------------------------------
(***************************************************************************)
(* Properties                                                              *)
(***************************************************************************)
Between(low, n, high) == low <= n /\ n <= high

\* No request gets more than its tier allows, a higher tier never less than a
\* lower one, and a step is warned of exactly what is taken from it.  Left out
\* are the concurrency of who asks for none, and a processor share that is no
\* number: they get past the tier.
ClampsHold(tier) ==
  LET limits == LimitsForTier(tier)
  IN /\ \A n \in {Unknown, 0, 3, 4, 11, 51, 101} :
          /\ EnforcedRetries(n, limits) <= limits.retries
          /\ n # Unknown => EnforcedConcurrency(n, limits) <= limits.concurrency
          /\ Between(EnforcedRetries(n, FreeTier), EnforcedRetries(n, limits),
                     EnforcedRetries(n, EnterpriseTier))
          /\ Between(EnforcedConcurrency(n, FreeTier), EnforcedConcurrency(n, limits),
                     EnforcedConcurrency(n, EnterpriseTier))
          /\ n # Unknown => (RetryWarned(n, limits) <=> EnforcedRetries(n, limits) # n)
     /\ \A t \in DurationText \cup {NoText} : \A ofWorkflow \in BOOLEAN :
          /\ EnforcedTimeout(t, limits, ofWorkflow)
               <= (IF ofWorkflow THEN limits.workflow ELSE limits.step)
          /\ Between(EnforcedTimeout(t, FreeTier, ofWorkflow), EnforcedTimeout(t, limits, ofWorkflow),
                     EnforcedTimeout(t, EnterpriseTier, ofWorkflow))
          /\ t # NoText => (TimeoutWarned(t, limits) <=> EnforcedTimeout(t, limits, FALSE) # LimitMs(t))
     /\ \A level \in DOMAIN SandboxLevel \cup {"unset"} :
          /\ SandboxLevel[EnforcedSandbox(level, limits)] >= SandboxLevel[limits.sandbox]
          /\ level # "unset" => SandboxLevel[EnforcedSandbox(level, limits)] >= SandboxLevel[level]
     /\ \A mode \in {"unset", "local", "docker", "remote"} :
          \E i \in DOMAIN limits.modes : EnforcedMode(mode, limits) = limits.modes[i]
     /\ EnforcedPriority("high", limits) = "high" <=> limits.mayRush
     /\ \A cpu \in {Unknown, 1, 64} : \A memory, disk \in DOMAIN SizeMB \cup {"unset"} :
          LET got == EnforcedResources(cpu, memory, disk, limits)
          IN got.cpu <= limits.cpu /\ got.memory <= limits.memory /\ got.disk <= limits.disk
     /\ limits # FreeTier =>
          InternalContext(tier).billable /\ InternalContext(tier).payment = "active"

TiersClamp == \A tier \in SceneValues.tier : ClampsHold(tier)

\* What a strategy makes of the parallelism that was configured.
Concurrent(s) ==
  LET asked == Resolve(s, IntentOf(s).intent).concurrency
      configured == IF s.limit = Unknown THEN 100 ELSE s.limit
  IN IF asked = Unknown THEN configured ELSE asked

\* A busier machine or a worse record never makes a run more parallel, and a
\* worse record never makes it give up earlier, but for a configured limit below
\* three steps, which they override.
PressureIsHeeded ==
  /\ \A cpu \in SceneValues.cpu :
       cpu > scene.cpu => Concurrent([scene EXCEPT !.cpu = cpu]) <= Max({3, Concurrent(scene)})
  /\ \A cpu \in SceneValues.cpu :
       cpu > scene.cpu /\ scene.cpu > 80 => Concurrent([scene EXCEPT !.cpu = cpu]) <= Concurrent(scene)
  /\ scene.cpu > 90 => Resolve(scene, IntentOf(scene).intent).name = "sequential"
  /\ \A rate \in SceneValues.rate \ {0} :
       LET worse == [scene EXCEPT !.rate = rate]
           intent == IntentOf(scene).intent
       IN rate < scene.rate =>
            /\ Concurrent(worse) <= Max({2, Concurrent(scene)})
            /\ Resolve(worse, intent).retries >= Resolve(scene, intent).retries
                 \/ RequiresSafeMode(scene)

\* Whoever is neither refused nor delayed runs on a machine with a load of at
\* most 80 and with at most 50 other workflows.
NoneRushesIn ==
  SafeToExecute(scene) /\ RecommendedDelay(scene) = 0 /\ scene.cpu # Unknown =>
    scene.cpu <= 80 /\ scene.memory <= 80 /\ scene.active <= 50

\* A guess of little confidence does not change how a workflow runs.
GuessesDoNotSteer ==
  LET guess == IntentOf(scene)
  IN Resolve(scene, guess.intent) # Resolve(scene, "unknown") => guess.confidence # "low"

\* What a run is given depends on its tier, on the load and on its record, and
\* on each of them the way that the limits promise.
LimitsSound == TiersClamp /\ PressureIsHeeded /\ NoneRushesIn /\ GuessesDoNotSteer
=============================================================================
