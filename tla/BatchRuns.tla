------------------------------ MODULE BatchRuns ------------------------------
(***************************************************************************)
(* OrbytEngine.runMany: the workflows of a batch are loaded, an execution  *)
(* mode is resolved, and they are executed one by one, in waves, or all at *)
(* once with a bounded number of workers.  Before each of them the usage   *)
(* of the day is compared with a quota; a run is recorded after it is      *)
(* admitted and its steps after it has ended, both by process.nextTick.    *)
(*                                                                         *)
(* What follows an await without I/O runs before the callbacks of          *)
(* nextTick: RecordsAreWritten is when they run, all at once.              *)
(***************************************************************************)
EXTENDS Integers, SequencesExt

CONSTANTS Items,           \* the number of workflows of the batch
          WaveSizes,       \* values of mixedBatchSize, or inferred ones
          Parallel,        \* values of maxParallelWorkflows
          StepsOfWorkflow, \* the steps of each workflow
          QuotaRuns,       \* workflowRuns of the quota policy, without those of earlier
          QuotaSteps       \* stepExecutions, likewise

ASSUME BatchRunsAssumption ==
  /\ Items \in Nat /\ WaveSizes \cup Parallel \subseteq Nat \ {0}
  /\ StepsOfWorkflow \in Nat /\ QuotaRuns \in Nat /\ QuotaSteps \in Nat

VARIABLES
  batch,      \* the state of the call, its mode and its options
  item,       \* item[i]: where workflow i is
  seen,       \* seen[i]: the usage that i's quota check has read
  runRecords, \* runRecords[i]: the usage record of run i
  stepRecords \* stepRecords[i]: the records of its steps, and how many they are

batchVars == <<batch, item, seen, runRecords, stepRecords>>

Item == 1 .. Items
Modes == {"sequential", "parallel", "mixed"}
Ended == {"denied", "returned", "returned a failure", "failed", "failed at once"}
AtWork == {"reading", "running"}
Records == [at : {"none", "pending", "written"}, count : 0 .. StepsOfWorkflow]
NoRecords == [at |-> "none", count |-> 0]
Total(S) == MapThenSumSet(LAMBDA i : stepRecords[i].count, S)

BatchTypeOK ==
  /\ batch \in [at : {"loading", "rejected", "executing", "over"}, mode : Modes, failFast : BOOLEAN,
                enforced : BOOLEAN, wave : WaveSizes, workers : Parallel]
  /\ item \in [Item -> {"waiting"} \cup AtWork \cup Ended]
  /\ seen \in [Item -> [runs : 0 .. Items, steps : 0 .. Items * StepsOfWorkflow]]
  /\ runRecords \in [Item -> {"none", "pending", "written"}]
  /\ stepRecords \in [Item -> Records]

BatchInit ==
  /\ \E failFast, enforced \in BOOLEAN, wave \in WaveSizes, workers \in Parallel :
       batch = [at |-> "loading", mode |-> "sequential", failFast |-> failFast,
                enforced |-> enforced, wave |-> wave, workers |-> workers]
  /\ item = [i \in Item |-> "waiting"]
  /\ seen = [i \in Item |-> [runs |-> 0, steps |-> 0]]
  /\ runRecords = [i \in Item |-> "none"]
  /\ stepRecords = [i \in Item |-> NoRecords]

-----------------------------------------------------------------------------
\* resolveBatchExecutionMode: the option, else what the workflows agree on.
ResolvedMode(explicit, declared) ==
  LET modes == {declared[i] : i \in Item} \cap Modes
  IN IF explicit \in Modes THEN explicit
     ELSE IF modes = {} THEN "sequential"
     ELSE IF Cardinality(modes) = 1 THEN CHOOSE m \in modes : TRUE
     ELSE "mixed"

\* preloadWorkflows loads every workflow, and throws if one of them is invalid.
Preload(explicit, declared, invalid) ==
  /\ batch.at = "loading"
  /\ batch' = IF invalid THEN [batch EXCEPT !.at = "rejected"]
              ELSE [batch EXCEPT !.at = "executing", !.mode = ResolvedMode(explicit, declared)]
  /\ UNCHANGED <<item, seen, runRecords, stepRecords>>

\* A sequence is a batch with waves of one, a parallel batch has one wave.
WaveOf(i) == CASE batch.mode = "sequential" -> i
               [] batch.mode = "parallel"   -> 1
               [] batch.mode = "mixed"      -> ((i - 1) \div batch.wave) + 1

\* executeLoadedItem calls a workflow failed that throws; one that returns with
\* the status of a failure, or is denied, counts as a success.
Failed_AnyFailure(i) == item[i] \in {"failed", "failed at once", "returned a failure"}

Failed(i) == item[i] \in {"failed", "failed at once"}
Stopped(w) == batch.failFast /\ batch.mode # "parallel" /\ \E j \in Item : WaveOf(j) < w /\ Failed(j)

\* The wave w is reached: those before it have been awaited.
Reached_Unawaited(w) == ~Stopped(w)

Reached(w) ==
  /\ \A j \in Item : WaveOf(j) < w => item[j] \in Ended
  /\ ~Stopped(w)

Busy == {i \in Item : item[i] \in AtWork}
Workers == IF batch.mode = "sequential" THEN 1 ELSE batch.workers

\* mapWithConcurrency: a free worker takes the next index of the wave, and
\* executeParsedWorkflow reads the usage at once, up to its first await.
Takes(i) ==
  /\ batch.at = "executing"
  /\ item[i] = "waiting" /\ \A j \in Item : j < i => item[j] # "waiting"
  /\ Reached(WaveOf(i))
  /\ Cardinality(Busy) < Workers
  /\ item' = [item EXCEPT ![i] = "reading"]
  /\ seen' = [seen EXCEPT ![i] =
       [runs  |-> Cardinality({j \in Item : runRecords[j] = "written"}),
        steps |-> Total({j \in Item : stepRecords[j].at = "written"})]]
  /\ UNCHANGED <<batch, runRecords, stepRecords>>

\* evaluateQuotaDecision; it denies nothing to those without a policy.
Allowed_OffByOne(i) ==
  batch.enforced => /\ seen[i].runs <= QuotaRuns
                    /\ seen[i].steps + StepsOfWorkflow <= QuotaSteps

Allowed(i) ==
  batch.enforced => /\ seen[i].runs + 1 <= QuotaRuns
                    /\ seen[i].steps + StepsOfWorkflow <= QuotaSteps

\* A denied workflow returns a result.  An admitted one leaves its record to
\* nextTick and is executed.
Decides(i) ==
  /\ item[i] = "reading"
  /\ IF Allowed(i)
     THEN /\ item' = [item EXCEPT ![i] = "running"]
          /\ runRecords' = [runRecords EXCEPT ![i] = "pending"]
     ELSE item' = [item EXCEPT ![i] = "denied"] /\ UNCHANGED runRecords
  /\ UNCHANGED <<batch, seen, stepRecords>>

RecordsAreWritten ==
  /\ \E i \in Item : runRecords[i] = "pending" \/ stepRecords[i].at = "pending"
  /\ runRecords' = [i \in Item |-> IF runRecords[i] = "pending" THEN "written" ELSE runRecords[i]]
  /\ stepRecords' = [i \in Item |-> IF stepRecords[i].at = "pending"
                                    THEN [stepRecords[i] EXCEPT !.at = "written"] ELSE stepRecords[i]]
  /\ UNCHANGED <<batch, item, seen>>

\* The executor returns, after some I/O, also with a failure: the steps that
\* were not skipped are recorded.
Returns(i, steps) ==
  /\ item[i] = "running" /\ runRecords[i] = "written"
  /\ \E result \in {"returned", "returned a failure"} : item' = [item EXCEPT ![i] = result]
  /\ stepRecords' = [stepRecords EXCEPT ![i] = [at |-> "pending", count |-> steps]]
  /\ UNCHANGED <<batch, seen, runRecords>>

\* It throws: at once, as for a plan with a cycle, or later.
Throws(i) ==
  /\ item[i] = "running"
  /\ item' = [item EXCEPT ![i] = IF runRecords[i] = "pending" THEN "failed at once" ELSE "failed"]
  /\ UNCHANGED <<batch, seen, runRecords, stepRecords>>

\* Nothing is left that may be taken.
BatchEnds ==
  /\ batch.at = "executing" /\ Busy = {}
  /\ \A i \in Item : item[i] = "waiting" => ~Reached(WaveOf(i))
  /\ batch' = [batch EXCEPT !.at = "over"]
  /\ UNCHANGED <<item, seen, runRecords, stepRecords>>

BatchNext ==
  \/ \E explicit \in Modes \cup {"none"}, declared \in [Item -> Modes \cup {"none"}],
       invalid \in BOOLEAN : Preload(explicit, declared, invalid)
  \/ \E i \in Item : \/ Takes(i) \/ Decides(i) \/ Throws(i)
                     \/ \E steps \in 0 .. StepsOfWorkflow : Returns(i, steps)
  \/ RecordsAreWritten \/ BatchEnds

BatchSpec == BatchInit /\ [][BatchNext]_batchVars

-----------------------------------------------------------------------------
(***************************************************************************)
(* Properties                                                              *)
(***************************************************************************)
\* Only workflows of one wave are at work together, no more than the options
\* allow, and one that fails keeps those of later waves from starting.
WavesApart ==
  /\ \A i, j \in Busy : WaveOf(i) = WaveOf(j)
  /\ Cardinality(Busy) <= batch.workers
  /\ batch.failFast /\ batch.mode # "parallel" =>
       \A i, j \in Item : Failed(i) /\ WaveOf(j) > WaveOf(i) => item[j] = "waiting"

\* A batch that is over has executed whole waves, all of them unless it fails
\* fast and a workflow of an earlier wave threw: one that has returned, with a
\* failure too, is no excuse.  A rejected batch has executed nothing.
NothingSkipped ==
  /\ batch.at = "over" =>
       \A i \in Item :
         \/ item[i] \in Ended
         \/ /\ batch.failFast /\ batch.mode # "parallel"
            /\ \E j \in Item : WaveOf(j) < WaveOf(i) /\ item[j] \in {"failed", "failed at once"}
  /\ batch.at = "rejected" => \A i \in Item : item[i] = "waiting" /\ runRecords[i] = "none"

\* The quota holds but for what is at work and not recorded: one run for each
\* other worker, and twice the steps, because the steps of a workflow are
\* written only after the check of the one that follows it.
QuotaOvershoot ==
  LET admitted == {i \in Item : runRecords[i] # "none" /\ item[i] # "failed at once"}
  IN batch.enforced =>
       /\ Cardinality(admitted) <= QuotaRuns + Workers - 1
       /\ Total(Item) <= QuotaSteps + StepsOfWorkflow * (2 * Workers - 1)

\* runMany keeps its waves and executes what it is given; its runs overdraw the
\* quota by no more than those that are at work.
BatchSafe == WavesApart /\ NothingSkipped /\ QuotaOvershoot
=============================================================================
