---------------------------- MODULE SharedRuntime ----------------------------
(***************************************************************************)
(* Whose context a step works in.  The engine has one WorkflowExecutor and *)
(* one StepExecutor, and each keeps the context store, the first also the  *)
(* id, of the run that came last.  run and a sequential runMany use these; *)
(* parallel and mixed batches make a pair for each run.  A run that times  *)
(* out returns while its plan goes on with the executors it was given.     *)
(***************************************************************************)
EXTENDS Naturals, FiniteSets

CONSTANTS Runs,        \* the number of runs, in the order of a batch
          StepsOfRun   \* bound: the steps of a run

ASSUME SharedRuntimeAssumption == Runs \in Nat /\ StepsOfRun \in Nat

VARIABLES
  setting,    \* "run", for runs of the caller, or the mode of the batch; never changes
  place,      \* place[r]: where run r is
  flowStore,  \* flowStore[x]: whose context store WorkflowExecutor x has, and
              \* whose executionId; 0 is the pair of the engine
  stepStore,  \* stepStore[x]: whose context store StepExecutor x has
  atStep,     \* atStep[r]: whose context the step at work reads, or 0
  stepsLeft,  \* the steps that r has not started
  strayed,    \* history: runs with a step that read, or left its output in, the
              \* context of another run, or with a result that has another's id
  met,        \* history: runs that were at work on the engine's pair with another one
  timedOut    \* history: runs that have timed out

runtimeVars == <<setting, place, flowStore, stepStore, atStep, stepsLeft, strayed, met, timedOut>>

Runner == 1 .. Runs
Pair == 0 .. Runs

RuntimeTypeOK ==
  /\ setting \in {"run", "sequential", "parallel", "mixed"}
  /\ place \in [Runner -> {"waiting", "starting", "running", "abandoned", "ended"}]
  /\ flowStore \in [Pair -> Pair] /\ stepStore \in [Pair -> Pair]
  /\ atStep \in [Runner -> Pair] /\ stepsLeft \in [Runner -> 0 .. StepsOfRun]
  /\ strayed \cup met \cup timedOut \subseteq Runner

RuntimeInit ==
  /\ setting \in {"run", "sequential", "parallel", "mixed"}
  /\ place = [r \in Runner |-> "waiting"]
  /\ flowStore = [x \in Pair |-> 0] /\ stepStore = [x \in Pair |-> 0]
  /\ atStep = [r \in Runner |-> 0] /\ stepsLeft = [r \in Runner |-> StepsOfRun]
  /\ strayed = {} /\ met = {} /\ timedOut = {}

-----------------------------------------------------------------------------
\* The pair that executeParsedWorkflow takes.
PairOf_Mixed(r) == IF setting = "parallel" THEN r ELSE 0

PairOf(r) == IF setting \in {"parallel", "mixed"} THEN r ELSE 0

Live == {r \in Runner : place[r] \in {"starting", "running", "abandoned"}}
Awaited == {r \in Runner : place[r] \in {"starting", "running"}}

Strays(r, ok) == strayed' = IF ok THEN strayed ELSE strayed \cup {r}

\* execute makes the context and the id of this run those of the executor.
Begins(r) ==
  /\ place[r] = "waiting"
  /\ setting = "sequential" => Awaited = {} /\ \A q \in Runner : q < r => place[q] # "waiting"
  /\ place' = [place EXCEPT ![r] = "starting"]
  /\ flowStore' = [flowStore EXCEPT ![PairOf(r)] = r]
  /\ met' = LET others == {q \in Live : PairOf(q) = PairOf(r)}
            IN IF others = {} THEN met ELSE met \cup others \cup {r}
  /\ UNCHANGED <<setting, stepStore, atStep, stepsLeft, strayed, timedOut>>

\* After the events and hooks at its start, the StepExecutor gets the store
\* that the WorkflowExecutor has by then.
Configures(r) ==
  /\ place[r] = "starting"
  /\ place' = [place EXCEPT ![r] = "running"]
  /\ stepStore' = [stepStore EXCEPT ![PairOf(r)] = flowStore[PairOf(r)]]
  /\ UNCHANGED <<setting, flowStore, atStep, stepsLeft, strayed, met, timedOut>>

StepBegins(r) ==
  /\ place[r] \in {"running", "abandoned"} /\ atStep[r] = 0 /\ stepsLeft[r] > 0
  /\ stepsLeft' = [stepsLeft EXCEPT ![r] = @ - 1]
  /\ atStep' = [atStep EXCEPT ![r] = stepStore[PairOf(r)]]
  /\ Strays(r, atStep'[r] = r)
  /\ UNCHANGED <<setting, place, flowStore, stepStore, met, timedOut>>

\* The output goes where the StepExecutor's store is by then.
StepEnds(r) ==
  /\ atStep[r] # 0
  /\ atStep' = [atStep EXCEPT ![r] = 0]
  /\ Strays(r, stepStore[PairOf(r)] = r)
  /\ UNCHANGED <<setting, place, flowStore, stepStore, stepsLeft, met, timedOut>>

\* The timer of executeWithTimeout is first: the run returns, with the id that
\* the executor has by then.
TimesOut(r) ==
  /\ place[r] = "running"
  /\ place' = [place EXCEPT ![r] = "abandoned"]
  /\ timedOut' = timedOut \cup {r}
  /\ Strays(r, flowStore[PairOf(r)] = r)
  /\ UNCHANGED <<setting, flowStore, stepStore, atStep, stepsLeft, met>>

\* The plan ends, and the run returns if it has not.
PlanEnds(r) ==
  /\ place[r] \in {"running", "abandoned"} /\ atStep[r] = 0
  /\ place' = [place EXCEPT ![r] = "ended"]
  /\ Strays(r, place[r] = "abandoned" \/ flowStore[PairOf(r)] = r)
  /\ UNCHANGED <<setting, flowStore, stepStore, atStep, stepsLeft, met, timedOut>>

RuntimeNext ==
  \E r \in Runner : \/ Begins(r) \/ Configures(r) \/ StepBegins(r) \/ StepEnds(r)
                    \/ TimesOut(r) \/ PlanEnds(r)

RuntimeSpec == RuntimeInit /\ [][RuntimeNext]_runtimeVars

-----------------------------------------------------------------------------
(***************************************************************************)
(* Properties                                                              *)
(***************************************************************************)
\* A run works in its own context and returns its own id, unless another one
\* was at work on the same pair of executors.
OwnContext == strayed \subseteq met

\* That takes two runs of the caller at once, or a run of a sequential batch
\* that has timed out before; the runs of other batches are apart.
ApartInBatches ==
  /\ setting \in {"parallel", "mixed"} => met = {}
  /\ setting = "sequential" => \A r \in met : \E q \in timedOut : q <= r

RuntimeSafe == OwnContext /\ ApartInBatches
=============================================================================
