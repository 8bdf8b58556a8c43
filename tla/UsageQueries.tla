---------------------------- MODULE UsageQueries ----------------------------
(***************************************************************************)
(* What the engine says of the usage it has archived: getUsage, the quota  *)
(* of a workspace for the day (before a run, and on demand), the estimate  *)
(* of a cost and the billing of events.  The archive grows by the events   *)
(* of one run at a time; how they get there is in UsageSpool.              *)
(***************************************************************************)
EXTENDS Integers, Sequences, FiniteSets, Functions

CONSTANTS Workspace,    \* the workspaces
          MaxRecorded,  \* bound: the runs that are recorded
          RunQuota,     \* QuotaPolicy.workflowRuns
          StepQuota,    \* QuotaPolicy.stepExecutions, and adapterCalls
          ComputeQuota  \* QuotaPolicy.computeMs

ASSUME QueriesAssumption ==
  /\ "any" \notin Workspace
  /\ MaxRecorded \in Nat /\ RunQuota \in Nat /\ StepQuota \in Nat /\ ComputeQuota \in Nat

VARIABLES
  usageLog,  \* the archived events, in the order of their time
  runsSoFar  \* the runs so far, as they were

queryVars == <<usageLog, runsSoFar>>

\* A run has one step or two; a step took 1 or 2 units, was skipped, or failed.
RunsRecorded ==
  [workspace : Workspace, billable : BOOLEAN, triggered : BOOLEAN,
   steps : {<<"fast">>, <<"failed", "skipped">>, <<"slow", "fast">>}]
MsOf(outcome) == CASE outcome = "slow" -> 2 [] outcome \in {"fast", "failed"} -> 1 [] outcome = "skipped" -> 0

QueryInit == usageLog = <<>> /\ runsSoFar = <<>>

-----------------------------------------------------------------------------
EventTypes == {"trigger", "run", "step", "adapter"}

\* createTriggerFireEvent and the like: success is what is given, and a run is
\* recorded as one before it has begun.
UsageEvent(run, type, success, ms) ==
  [type |-> type, time |-> Len(runsSoFar) + 1, workspace |-> run.workspace, billable |-> run.billable,
   success |-> success, ms |-> ms]

\* executeParsedWorkflow: a trigger that is not manual, the run, and each step
\* that was not skipped, as an execution and as a call of its adapter.
EventsOfStep_Skipped(run, outcome) ==
  <<UsageEvent(run, "step", outcome # "failed", MsOf(outcome)),
    UsageEvent(run, "adapter", outcome # "failed", MsOf(outcome))>>

EventsOfStep(run, outcome) ==
  IF outcome = "skipped" THEN <<>>
  ELSE <<UsageEvent(run, "step", outcome # "failed", MsOf(outcome)),
         UsageEvent(run, "adapter", outcome # "failed", MsOf(outcome))>>

EventsOfRun(run) ==
  (IF run.triggered THEN <<UsageEvent(run, "trigger", TRUE, 0)>> ELSE <<>>)
    \o <<UsageEvent(run, "run", TRUE, 0)>>
    \o EventsOfStep(run, run.steps[1])
    \o (IF Len(run.steps) = 2 THEN EventsOfStep(run, run.steps[2]) ELSE <<>>)

RecordsRun(run) ==
  /\ Len(runsSoFar) < MaxRecorded
  /\ usageLog' = usageLog \o EventsOfRun(run)
  /\ runsSoFar' = Append(runsSoFar, run)

QueryNext == \E run \in RunsRecorded : RecordsRun(run)

QuerySpec == QueryInit /\ [][QueryNext]_queryVars

-----------------------------------------------------------------------------
(***************************************************************************)
(* getUsage.  The events of an answer are the places where they are in the *)
(* log, whose order is theirs.                                             *)
(***************************************************************************)
\* matchesUsageQuery: both ends of the range count; a field that is not asked
\* for ("any") matches.
MatchesUsageQuery_Open(event, q) ==
  /\ event.time >= q.from /\ event.time < q.to
  /\ q.workspace \in {"any", event.workspace} /\ q.type \in {"any", event.type}

MatchesUsageQuery(event, q) ==
  /\ event.time >= q.from /\ event.time <= q.to
  /\ q.workspace \in {"any", event.workspace} /\ q.type \in {"any", event.type}

Queried(q) == {i \in DOMAIN usageLog : MatchesUsageQuery(usageLog[i], q)}

\* resolveTriggerKey reads metadata.triggerType, and the engine writes triggeredBy.
TriggerKeyOf(event) == IF event.type = "trigger" THEN "trigger.fire" ELSE "non-trigger"

\* resolveUsageGroupKey; a day has two of the times.
GroupKey(event, groupBy) ==
  CASE groupBy = "workspace" -> event.workspace
    [] groupBy = "type" -> event.type
    [] groupBy = "trigger" -> TriggerKeyOf(event)
    [] groupBy = "daily" -> (event.time + 1) \div 2
    [] OTHER -> "all"
GroupBys == {"workspace", "type", "trigger", "daily", "all"}

TotalDuration(events) == SumFunctionOnSet([i \in DOMAIN usageLog |-> usageLog[i].ms], events)
Numbered(events, key, groupBy) == Cardinality({i \in events : GroupKey(usageLog[i], groupBy) = key})

\* The counters of getUsage, and its groups.
GetUsage(q) ==
  LET events == Queried(q)
  IN [total    |-> Cardinality(events),
      billable |-> Cardinality({i \in events : usageLog[i].billable}),
      success  |-> Cardinality({i \in events : usageLog[i].success}),
      failure  |-> Cardinality({i \in events : ~usageLog[i].success}),
      duration |-> TotalDuration(events),
      byType   |-> [t \in EventTypes |-> Numbered(events, t, "type")],
      groups   |-> [g \in GroupBys |->
        [k \in {GroupKey(usageLog[i], g) : i \in events} |-> Numbered(events, k, g)]]]

\* includeEvents: the last of them, when there is a limit.
OutputEvents(q, limit) ==
  LET events == Queried(q)
  IN {i \in events : limit = 0 \/ Cardinality({j \in events : i < j}) < limit}

-----------------------------------------------------------------------------
(***************************************************************************)
(* Quota                                                                   *)
(***************************************************************************)
\* evaluateQuotaDecision, the first limit that is passed; ratio in tenths.
QuotaPolicy(ratio) ==
  [runs |-> RunQuota, steps |-> StepQuota, calls |-> StepQuota, ms |-> ComputeQuota, ratio |-> ratio]

QuotaDecision(policy, p) ==
  CASE p.runs > policy.runs -> "runs"
    [] p.runs <= policy.runs /\ p.steps > policy.steps -> "steps"
    [] p.runs <= policy.runs /\ p.steps <= policy.steps /\ p.calls > policy.calls -> "calls"
    [] p.runs <= policy.runs /\ p.steps <= policy.steps /\ p.calls <= policy.calls /\ p.ms > policy.ms -> "ms"
    [] OTHER -> IF \E f \in {"runs", "steps", "calls", "ms"} : p[f] >= (policy[f] * policy.ratio) \div 10
                THEN "warning" ELSE "allow"

Denials == {"runs", "steps", "calls", "ms"}

Today(w) == [from |-> 1, to |-> MaxRecorded, workspace |-> w, type |-> "any"]
Consumed(w) ==
  LET u == GetUsage(Today(w))
  IN [runs |-> u.byType.run, steps |-> u.byType.step, calls |-> u.byType.adapter, ms |-> u.duration]

\* evaluatePreExecutionQuota of a workflow with n steps; skipped ones count.
PreExecutionQuota_Consumed(w, billable, n, policy) ==
  IF ~billable THEN "allow" ELSE QuotaDecision(policy, Consumed(w))

PreExecutionQuota(w, billable, n, policy) ==
  LET c == Consumed(w)
  IN IF ~billable THEN "allow"
     ELSE QuotaDecision(policy, [c EXCEPT !.runs = @ + 1, !.steps = @ + n, !.calls = @ + n])

\* getQuotaStatus, with the increment that the caller projects.
QuotaStatus(w, increment, policy) ==
  QuotaDecision(policy, [f \in {"runs", "steps", "calls", "ms"} |-> Consumed(w)[f] + increment[f]])

-----------------------------------------------------------------------------
(***************************************************************************)
(* Billing, with one price for an event                                    *)
(***************************************************************************)
\* estimateUsageCost: what it prices are the buckets, which count every event.
EstimatedEvents(w) == GetUsage(Today(w)).total

\* calculateUsageBilling: of the events in the answer to the query, those that
\* are not marked as free.
BilledEvents(w, limit, all) == {i \in OutputEvents(Today(w), limit) : all \/ usageLog[i].billable}

-----------------------------------------------------------------------------
(***************************************************************************)
(* Properties                                                              *)
(***************************************************************************)
QueryTypeOK ==
  /\ runsSoFar \in Seq(RunsRecorded)
  /\ usageLog \in Seq([type : EventTypes, time : 1 .. MaxRecorded, workspace : Workspace,
                       billable : BOOLEAN, success : BOOLEAN, ms : 0 .. 2])

RunsOf(w) == {k \in DOMAIN runsSoFar : runsSoFar[k].workspace = w}
TimeOf(run) == SumFunctionOnSet([k \in DOMAIN run.steps |-> MsOf(run.steps[k])], DOMAIN run.steps)
ExecutedSteps(run) == Cardinality({k \in DOMAIN run.steps : run.steps[k] # "skipped"})

\* Every way of grouping the events gives them all, once; a query up to an
\* instant and one from the next make the whole, the one before the other.  The
\* runs of a workspace, and the steps that they executed, are what the counters
\* say, though the time of a step is in them twice; a failed step is two
\* failures, a failed run is none.
QueriesAddUp ==
  LET u == GetUsage(Today("any"))
  IN /\ \A g \in GroupBys : SumFunctionOnSet(u.groups[g], DOMAIN u.groups[g]) = u.total
     /\ u.success + u.failure = u.total
     /\ \A t \in 1 .. MaxRecorded :
          LET before == Queried([Today("any") EXCEPT !.to = t])
              later  == Queried([Today("any") EXCEPT !.from = t + 1])
          IN before \cup later = DOMAIN usageLog /\ \A i \in before, j \in later : i < j
     /\ \A w \in Workspace :
          LET c == Consumed(w) runs == RunsOf(w)
          IN /\ c.runs = Cardinality(runs)
             /\ c.steps = SumFunctionOnSet([k \in DOMAIN runsSoFar |-> ExecutedSteps(runsSoFar[k])], runs)
             /\ c.calls = c.steps
             /\ c.ms = 2 * SumFunctionOnSet([k \in DOMAIN runsSoFar |-> TimeOf(runsSoFar[k])], runs)

\* A run that the quota admits keeps the workspace within its limits, whatever
\* its steps come to, but for the time they take.  What is admitted before a run
\* is what the status API says of the same increment.  No usage of another
\* workspace counts, and a warning comes before a denial.
QuotaHolds ==
  \A w \in Workspace, n \in {1, 2}, ratio \in {5, 8, 10} :
    LET policy == QuotaPolicy(ratio)
        d == PreExecutionQuota(w, TRUE, n, policy)
        c == Consumed(w)
    IN /\ d = QuotaStatus(w, [runs |-> 1, steps |-> n, calls |-> n, ms |-> 0], policy)
       /\ d \notin Denials => c.runs < RunQuota /\ c.steps + n <= StepQuota
       /\ c.runs + 1 = RunQuota => d # "allow"
       /\ RunsOf(w) = {} => d = QuotaDecision(policy, [runs |-> 1, steps |-> n, calls |-> n, ms |-> 0])
       /\ PreExecutionQuota(w, FALSE, n, policy) = "allow"

\* An estimate never falls short of what is billed for the same events, and
\* covers more when some are free; a limit takes the oldest away from the bill,
\* and no others.
BillsAreCovered ==
  \A w \in Workspace :
    LET billed == BilledEvents(w, 0, FALSE)
    IN /\ Cardinality(billed) = GetUsage(Today(w)).billable
       /\ Cardinality(billed) <= EstimatedEvents(w)
       /\ Cardinality(BilledEvents(w, 0, TRUE)) = EstimatedEvents(w)
       /\ \A limit \in 1 .. 4 :
            LET last == BilledEvents(w, limit, FALSE)
            IN /\ last \subseteq billed
               /\ \A i \in last, j \in billed : i < j => j \in last
               /\ Cardinality(BilledEvents(w, limit, TRUE)) <= limit

\* What is said of usage before a run, on demand and on a bill is one story.
QueriesSound == QueriesAddUp /\ QuotaHolds /\ BillsAreCovered
=============================================================================
