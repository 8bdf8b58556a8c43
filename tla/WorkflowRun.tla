----------------------------- MODULE WorkflowRun -----------------------------
(***************************************************************************)
(* WorkflowExecutor and StepExecutor, the local (not distributed) mode:    *)
(* calls of execute() on the one executor an engine keeps.  A call begins  *)
(* or resumes a run, runs the phases of its plan, the steps of a phase     *)
(* concurrently and each with its own retries, records their results when  *)
(* all of the phase have settled, and races the whole plan with a timer    *)
(* when it was given a timeout.  Nothing cancels the plan that lost to the *)
(* timer: it goes on, on the executor that the next call uses as well.     *)
(*                                                                         *)
(* Actions end at an await.  A checkpoint and a record are files that      *)
(* synchronous code overwrites in place, so a crash is the only thing that *)
(* can come between the writes of one action, or into one: a file it cuts  *)
(* does not parse, and reads as no file.                                   *)
(***************************************************************************)
EXTENDS Naturals, Sequences, FiniteSets, SequencesExt

CONSTANTS MaxCalls,        \* bound: the calls of execute, numbered as made
          RunId,           \* the run ids they are given or generate
          Step,            \* the steps of the workflow
          Needs,           \* Needs[s]: the steps that s depends on
          Plan,            \* the phases ExecutionPlanner plans for them
          RetryMax,        \* RetryMax[s]: retry.max of the step, 0 if it has none
          Untimely,        \* the steps whose errors may say "timeout": of a timer,
                           \* of the adapter, or by the name of the step
          Conditional,     \* the steps with a "when" condition
          Referencing,     \* the steps whose input refers to their needs' outputs
          Continuing,      \* the steps with continueOnError
          Idempotent,      \* the steps whose adapter declares itself idempotent
          MaxCrashes       \* bound: the crashes of the process

\* The executor trusts its plan: no step is ahead of a dependency (what
\* ExecutionPlan is checked to compute) and every step is in one phase.
ASSUME PlanAssumption ==
  /\ IsFiniteSet(Step) /\ Step # {}
  /\ Needs \in [Step -> SUBSET Step]
  /\ Plan \in Seq(Seq(Step)) /\ Plan # <<>>
  /\ \A s \in Step : \E i \in DOMAIN Plan : s \in ToSet(Plan[i])
  /\ \A i, j \in DOMAIN Plan : \A s \in ToSet(Plan[i]), d \in ToSet(Plan[j]) :
       (d \in Needs[s] => j < i) /\ (s = d => i = j)
ASSUME StepAssumption ==
  /\ RetryMax \in [Step -> Nat]
  /\ Untimely \cup Conditional \cup Referencing \cup Continuing \cup Idempotent \subseteq Step
  /\ MaxCalls \in Nat \ {0} /\ MaxCrashes \in Nat
ASSUME RunAssumption == "none" \notin RunId

Exec == 1 .. MaxCalls

Status == {"none", "running", "rejected",
           "success", "failure", "timeout", "skipped"}
MaxAttempt(s) == IF RetryMax[s] = 0 THEN 1 ELSE RetryMax[s]
Outcome(status, attempts) == [status |-> status, attempts |-> attempts]
NoResult == Outcome("none", 0)
Nothing == [s \in Step |-> NoResult]
NoFile == [status |-> "none", steps |-> Nothing, outputs |-> {}]

Policy == {"strict", "best-effort"}

Completed(r) == r.status \in {"success", "skipped"}

VARIABLES
  pc,          \* pc[e]: where the call is
  runOf,       \* runOf[e]: its run id
  resumed,     \* resumed[e]: the policy under which it restored a checkpoint
  limited,     \* limited[e]: it has a workflow timeout
  phase,       \* phase[e]: the phase its plan is in; 0 before, Len(Plan) + 1 after
  live,        \* live[e][s]: the step's execution in the current phase
  results,     \* results[e][s]: what stepResults holds
  outputs,     \* outputs[e]: the steps with an output in its ContextStore
  context,     \* context[e]: the call whose ContextStore its checkpoints save
  outcome,     \* outcome[e]: the status it returns or is about to return
  field,       \* the call that last set the executor's executionId and contextStore
  stepStore,   \* the call whose ContextStore the StepExecutor uses
  checkpoint,  \* checkpoint[id]: the checkpoint file
  record,      \* record[id]: the status in the execution record file
  crashes

callVars == <<pc, runOf, resumed, limited, phase, live, results, outputs, context, outcome>>
vars == <<callVars, field, stepStore, checkpoint, record, crashes>>

ResultSet == [status : Status, attempts : Nat]
TypeOK ==
  /\ pc \in [Exec -> {"idle", "starting", "running", "failing", "returned",
                      "refused", "lost"}]
  /\ runOf \in [Exec -> RunId \cup {"none"}]
  /\ resumed \in [Exec -> Policy \cup {"no"}] /\ limited \in [Exec -> BOOLEAN]
  /\ phase \in [Exec -> 0 .. Len(Plan) + 1]
  /\ live \in [Exec -> [Step -> ResultSet]] /\ results \in [Exec -> [Step -> ResultSet]]
  /\ outputs \in [Exec -> SUBSET Step]
  /\ context \in [Exec -> Exec]
  /\ outcome \in [Exec -> {"none", "success", "failure", "timeout"}]
  /\ field \in Exec /\ stepStore \in Exec
  /\ checkpoint \in [RunId -> [status : {"none", "running", "completed", "failed", "timeout"},
                               steps : [Step -> ResultSet], outputs : SUBSET Step]]
  /\ record \in [RunId -> {"none", "running", "completed", "failed", "timeout"}]
  /\ crashes \in 0 .. MaxCrashes

Init ==
  /\ pc = [e \in Exec |-> "idle"]
  /\ runOf = [e \in Exec |-> "none"]
  /\ resumed = [e \in Exec |-> "no"]
  /\ limited = [e \in Exec |-> FALSE]
  /\ phase = [e \in Exec |-> 0]
  /\ live = [e \in Exec |-> Nothing]
  /\ results = [e \in Exec |-> Nothing]
  /\ outputs = [e \in Exec |-> {}]
  /\ context = [e \in Exec |-> e]
  /\ outcome = [e \in Exec |-> "none"]
  /\ field = 1 /\ stepStore = 1
  /\ checkpoint = [id \in RunId |-> NoFile]
  /\ record = [id \in RunId |-> "none"]
  /\ crashes = 0

\* The call is between its start and its return.
Open(e) == pc[e] \in {"starting", "running", "failing"}
\* Its plan still runs steps, whether or not the call has returned.
PlanRuns(e) == phase[e] \in DOMAIN Plan /\ pc[e] # "lost"

-----------------------------------------------------------------------------
(***************************************************************************)
(* Files                                                                   *)
(***************************************************************************)
\* saveCheckpoint: under the executor's executionId, the results given and
\* the outputs in the ContextStore the call captured when it was launched.
Save_NoProgress(e, status, res, outs) ==
  [checkpoint EXCEPT ![runOf[field]].status = status]

Save(e, status, res, outs) ==
  [checkpoint EXCEPT ![runOf[field]] =
     [status |-> status, steps |-> res, outputs |-> outs[context[e]]]]

DiskStatus_Unmapped(status) == status

DiskStatus(status) == CASE status = "success" -> "completed"
                        [] status = "failure" -> "failed"
                        [] status = "timeout" -> "timeout"

-----------------------------------------------------------------------------
(***************************************************************************)
(* Begin and resume                                                        *)
(***************************************************************************)
\* collectNonRetryEligibleFailures, collectResumeIdempotencyRisks.
Exhausted_OffByOne(snapshot) ==
  \E s \in Step : snapshot.steps[s].status = "failure"
                  /\ snapshot.steps[s].attempts > RetryMax[s] + 1

Exhausted(snapshot) ==
  \E s \in Step : snapshot.steps[s].status = "failure"
                  /\ snapshot.steps[s].attempts > RetryMax[s]
Risky(snapshot) == \E s \in Step \ Idempotent : ~Completed(snapshot.steps[s])

\* There is something to resume: a checkpoint that is not terminal.
Resumable(snapshot) == snapshot.status = "running"
Refused(snapshot, policy) ==
  policy = "strict" /\ (~Resumable(snapshot) \/ Exhausted(snapshot) \/ Risky(snapshot))

\* The successes and the skips of a checkpoint.
Restored_SkipsForgotten(snapshot) ==
  [s \in Step |-> IF snapshot.steps[s].status = "success" THEN snapshot.steps[s]
                                                         ELSE NoResult]

Restored(snapshot) ==
  [s \in Step |-> LET r == snapshot.steps[s]
                  IN IF ~Completed(r) THEN NoResult
                     ELSE Outcome(r.status, IF r.attempts = 0 THEN 1 ELSE r.attempts)]

\* execute, to its first await: the record says "running", and the executor's
\* fields are the call's, even if the resume is then refused.
Start(e, id) ==
  /\ pc[e] = "idle" /\ \A f \in 1 .. e - 1 : pc[f] # "idle"
  /\ runOf' = [runOf EXCEPT ![e] = id]
  /\ record' = [record EXCEPT ![id] = "running"]
  /\ field' = e
  /\ limited' \in {[limited EXCEPT ![e] = b] : b \in BOOLEAN}
  /\ UNCHANGED <<phase, live, context, outcome, stepStore, checkpoint, crashes>>

Begin(e, id) ==
  /\ Start(e, id)
  /\ \A f \in Exec : runOf[f] # id
  /\ pc' = [pc EXCEPT ![e] = "starting"]
  /\ UNCHANGED <<resumed, results, outputs>>

\* A run is resumed once the call that ran it has returned or was lost.  A
\* best-effort resume of a missing or terminal checkpoint starts afresh.
Resume(e, id) ==
  /\ Start(e, id)
  /\ \E f \in Exec : runOf[f] = id
  /\ \A f \in Exec : runOf[f] = id => ~Open(f)
  /\ \E policy \in Policy :
     LET snapshot == checkpoint[id]
     IN \/ /\ Refused(snapshot, policy)
           /\ pc' = [pc EXCEPT ![e] = "refused"]
           /\ UNCHANGED <<resumed, results, outputs>>
        \/ /\ ~Refused(snapshot, policy)
           /\ pc' = [pc EXCEPT ![e] = "starting"]
           /\ resumed' = [resumed EXCEPT ![e] = IF Resumable(snapshot) THEN policy ELSE "no"]
           /\ results' = [results EXCEPT ![e] =
                IF Resumable(snapshot) THEN Restored(snapshot) ELSE Nothing]
           /\ outputs' = [outputs EXCEPT ![e] =
                IF Resumable(snapshot) THEN snapshot.outputs ELSE {}]

-----------------------------------------------------------------------------
(***************************************************************************)
(* Phases                                                                  *)
(***************************************************************************)
\* All steps of phase i start at once; a restored one keeps its result.  A
\* false condition skips a step, and an input that does not resolve makes
\* StepExecutor.execute throw.
Started(i, res, outs, skip) ==
  [s \in Step |->
     IF i \notin DOMAIN Plan \/ s \notin ToSet(Plan[i]) THEN NoResult
     ELSE IF Completed(res[s]) THEN res[s]
     ELSE IF s \in skip THEN Outcome("skipped", 0)
     ELSE IF s \in Referencing /\ ~(Needs[s] \subseteq outs) THEN Outcome("rejected", 1)
     ELSE Outcome("running", 1)]

\* The rest of execute's start: the StepExecutor gets the ContextStore that
\* is in the field by now, the baseline checkpoint, and the first phase.
Launch(e) ==
  /\ pc[e] = "starting"
  /\ pc' = [pc EXCEPT ![e] = "running"]
  /\ stepStore' = field
  /\ context' = [context EXCEPT ![e] = field]
  /\ checkpoint' = [checkpoint EXCEPT ![runOf[field]] =
       [status |-> "running", steps |-> results[e], outputs |-> outputs[field]]]
  /\ phase' = [phase EXCEPT ![e] = 1]
  /\ \E skip \in SUBSET Conditional :
       live' = [live EXCEPT ![e] = Started(1, results[e], outputs[field], skip)]
  /\ UNCHANGED <<runOf, resumed, limited, results, outputs, outcome, field, record, crashes>>

\* What Promise.allSettled gave for a step, as stepResults holds it.
AsResult(r) == IF r.status = "rejected" THEN Outcome("failure", 1) ELSE r

Stops_Never(e, s) == FALSE

Stops(e, s) == AsResult(live[e][s]).status = "failure" /\ s \notin Continuing

\* The results are recorded in the order of the phase, up to and including
\* the first that stops the workflow.
RecordedTo(e) ==
  LET p == Plan[phase[e]]
      stops == {i \in DOMAIN p : Stops(e, p[i])}
  IN IF stops = {} THEN Len(p) ELSE CHOOSE i \in stops : \A j \in stops : i <= j

After(e, n) ==
  [s \in Step |-> IF s \in ToSet(SubSeq(Plan[phase[e]], 1, n))
                  THEN AsResult(live[e][s]) ELSE results[e][s]]

Settled_Any(e) ==
  PlanRuns(e) /\ \E s \in ToSet(Plan[phase[e]]) :
                   live[e][s].status # "running"

Settled(e) ==
  PlanRuns(e) /\ \A s \in ToSet(Plan[phase[e]]) :
                   live[e][s].status # "running"

\* A failure stops the plan: execute's catch block runs unless the timer has
\* already made it run.
Stop(e) ==
  /\ Settled(e)
  /\ \E s \in ToSet(Plan[phase[e]]) : Stops(e, s)
  /\ results' = [results EXCEPT ![e] = After(e, RecordedTo(e))]
  /\ checkpoint' = Save(e, "running", results'[e], outputs)
  /\ phase' = [phase EXCEPT ![e] = Len(Plan) + 1]
  /\ live' = [live EXCEPT ![e] = Nothing]
  /\ IF pc[e] = "running"
     THEN /\ pc' = [pc EXCEPT ![e] = "failing"]
          /\ outcome' = [outcome EXCEPT ![e] = "failure"]
     ELSE UNCHANGED <<pc, outcome>>
  /\ UNCHANGED <<runOf, resumed, limited, outputs, context, field, stepStore,
                 record, crashes>>

\* Else the next phase starts at once.
Advance(e) ==
  /\ Settled(e)
  /\ \A s \in ToSet(Plan[phase[e]]) : ~Stops(e, s)
  /\ phase[e] < Len(Plan)
  /\ results' = [results EXCEPT ![e] = After(e, RecordedTo(e))]
  /\ checkpoint' = Save(e, "running", results'[e], outputs)
  /\ phase' = [phase EXCEPT ![e] = @ + 1]
  /\ \E skip \in SUBSET Conditional :
       live' = [live EXCEPT ![e] =
                  Started(phase[e] + 1, results'[e], outputs[stepStore], skip)]
  /\ UNCHANGED <<pc, runOf, resumed, limited, outputs, context, outcome, field,
                 stepStore, record, crashes>>

\* After the last phase the call returns success, if it is still waiting;
\* the plan of a call that timed out has only saved its progress.
Finish(e) ==
  /\ Settled(e)
  /\ \A s \in ToSet(Plan[phase[e]]) : ~Stops(e, s)
  /\ phase[e] = Len(Plan)
  /\ results' = [results EXCEPT ![e] = After(e, RecordedTo(e))]
  /\ phase' = [phase EXCEPT ![e] = Len(Plan) + 1]
  /\ live' = [live EXCEPT ![e] = Nothing]
  /\ IF pc[e] = "running"
     THEN /\ pc' = [pc EXCEPT ![e] = "returned"]
          /\ outcome' = [outcome EXCEPT ![e] = "success"]
          /\ record' = [record EXCEPT ![runOf[field]] = "completed"]
          /\ checkpoint' = Save(e, "completed", results'[e], outputs)
     ELSE /\ checkpoint' = Save(e, "running", results'[e], outputs)
          /\ UNCHANGED <<pc, outcome, record>>
  /\ UNCHANGED <<runOf, resumed, limited, outputs, context, field, stepStore, crashes>>

\* The workflow's timer wins the race.
TimeOut_WaitsForPlan(e) ==
  /\ pc[e] = "running" /\ limited[e] /\ Settled(e)
  /\ pc' = [pc EXCEPT ![e] = "failing"]
  /\ outcome' = [outcome EXCEPT ![e] = "timeout"]
  /\ UNCHANGED <<runOf, resumed, limited, phase, live, results, outputs, context,
                 field, stepStore, checkpoint, record, crashes>>

TimeOut(e) ==
  /\ pc[e] = "running" /\ limited[e]
  /\ pc' = [pc EXCEPT ![e] = "failing"]
  /\ outcome' = [outcome EXCEPT ![e] = "timeout"]
  /\ UNCHANGED <<runOf, resumed, limited, phase, live, results, outputs, context,
                 field, stepStore, checkpoint, record, crashes>>

\* The catch block after its awaits (the failed event, the onError hooks).
ReturnFailure(e) ==
  /\ pc[e] = "failing"
  /\ pc' = [pc EXCEPT ![e] = "returned"]
  /\ record' = [record EXCEPT ![runOf[field]] = DiskStatus(outcome[e])]
  /\ checkpoint' = Save(e, DiskStatus(outcome[e]), results[e], outputs)
  /\ UNCHANGED <<runOf, resumed, limited, phase, live, results, outputs, context,
                 outcome, field, stepStore, crashes>>

-----------------------------------------------------------------------------
(***************************************************************************)
(* Steps (StepExecutor.execute)                                            *)
(***************************************************************************)
Running(e, s) == PlanRuns(e) /\ live[e][s].status = "running"

StepTo(e, s, r) ==
  /\ live' = [live EXCEPT ![e][s] = r]
  /\ UNCHANGED <<pc, runOf, resumed, limited, phase, results, context, outcome,
                 field, stepStore, checkpoint, record, crashes>>

\* The output is stored in the ContextStore the StepExecutor has now.
StepSucceeds(e, s) ==
  /\ Running(e, s)
  /\ StepTo(e, s, Outcome("success", live[e][s].attempts))
  /\ outputs' = [outputs EXCEPT ![stepStore] = @ \cup {s}]

\* An attempt fails with attempts left: event, onRetry hook, and the backoff,
\* which counts as the beginning of the next attempt.
StepRetries(e, s) ==
  /\ Running(e, s) /\ live[e][s].attempts < MaxAttempt(s)
  /\ StepTo(e, s, Outcome("running", live[e][s].attempts + 1))
  /\ UNCHANGED outputs

\* The last attempt fails: the loop counter has moved past the limit.
AttemptsWhenExhausted(s) == MaxAttempt(s) + 1

StepFails(e, s) ==
  /\ Running(e, s) /\ live[e][s].attempts = MaxAttempt(s)
  /\ StepTo(e, s, Outcome("failure", AttemptsWhenExhausted(s)))
  /\ UNCHANGED outputs

\* An invalid configuration, or an error the policy does not retry.
StepGivesUp(e, s) ==
  /\ Running(e, s)
  /\ StepTo(e, s, Outcome("failure", live[e][s].attempts))
  /\ UNCHANGED outputs

\* An error that says "timeout", as that of the step's timer does: it is never
\* retried, and does not stop the workflow.
StepTimesOut(e, s) ==
  /\ Running(e, s) /\ s \in Untimely
  /\ StepTo(e, s, Outcome("timeout", live[e][s].attempts))
  /\ UNCHANGED outputs

-----------------------------------------------------------------------------
(***************************************************************************)
(* Crashes                                                                 *)
(***************************************************************************)
\* The process dies: calls and plans are gone, the files stay.
Lose ==
  /\ crashes < MaxCrashes
  /\ crashes' = crashes + 1
  /\ pc' = [e \in Exec |-> IF Open(e) \/ PlanRuns(e) THEN "lost" ELSE pc[e]]
  /\ live' = [e \in Exec |-> Nothing]
  /\ UNCHANGED <<runOf, resumed, limited, phase, results, outputs, context,
                 outcome, field, stepStore>>

Crash == Lose /\ UNCHANGED <<checkpoint, record>>

\* It dies after writing the first n of the checkpoints of a phase.
CrashWhileRecording(e) ==
  /\ Settled(e)
  /\ \E n \in 1 .. RecordedTo(e) : checkpoint' = Save(e, "running", After(e, n), outputs)
  /\ Lose /\ UNCHANGED record

\* The call is about to write how it ended: the record first, then the checkpoint.
Ending(e) ==
  \/ pc[e] = "failing"
  \/ /\ pc[e] = "running" /\ Settled(e) /\ phase[e] = Len(Plan)
     /\ \A s \in ToSet(Plan[phase[e]]) : ~Stops(e, s)

EndStatus(e) == IF pc[e] = "failing" THEN DiskStatus(outcome[e]) ELSE "completed"

\* It dies in the middle of a checkpoint, and nothing is left of it.
CrashWhileSaving(e) ==
  /\ \/ (pc[e] = "starting" \/ Settled(e)) /\ UNCHANGED record
     \/ Ending(e) /\ record' = [record EXCEPT ![runOf[field]] = EndStatus(e)]
  /\ checkpoint' = [checkpoint EXCEPT ![runOf[field]] = NoFile]
  /\ Lose

\* It dies in the middle of the last record, or between it and the checkpoint.
CrashWhileEnding(e) ==
  /\ Ending(e)
  /\ \E status \in {"none", EndStatus(e)} :
       record' = [record EXCEPT ![runOf[field]] = status]
  /\ checkpoint' = IF pc[e] = "failing" THEN checkpoint
                   ELSE Save(e, "running", After(e, RecordedTo(e)), outputs)
  /\ Lose

-----------------------------------------------------------------------------
StepEnds(e, s) == \/ StepSucceeds(e, s) \/ StepRetries(e, s)
                  \/ StepFails(e, s) \/ StepGivesUp(e, s) \/ StepTimesOut(e, s)

Next ==
  \/ \E e \in Exec : \/ \E id \in RunId : Begin(e, id) \/ Resume(e, id)
                     \/ Launch(e) \/ Stop(e) \/ Advance(e) \/ Finish(e)
                     \/ TimeOut(e) \/ ReturnFailure(e)
                     \/ CrashWhileRecording(e) \/ CrashWhileSaving(e) \/ CrashWhileEnding(e)
                     \/ \E s \in Step : StepEnds(e, s)
  \/ Crash

Spec == Init /\ [][Next]_vars

Proceed(e) == Launch(e) \/ Stop(e) \/ Advance(e) \/ Finish(e) \/ ReturnFailure(e)

\* The event loop and its timers go on.  An adapter answers in a call that
\* has no timeout; in one that has, it may hang for ever.
FairSpec ==
  /\ Spec
  /\ WF_vars(\E e \in Exec : Proceed(e))
  /\ WF_vars(\E e \in Exec : TimeOut(e))
  /\ WF_vars(\E e \in Exec, s \in Step : ~limited[e] /\ StepEnds(e, s))

-----------------------------------------------------------------------------
(***************************************************************************)
(* Properties                                                              *)
(***************************************************************************)
\* No step starts before every step it needs has a recorded result, in a
\* fresh run and in a resumed one, whatever mix of results was restored.
DependencyOrder ==
  \A e \in Exec, s \in Step :
    PlanRuns(e) /\ live[e][s] # NoResult
      => \A d \in Needs[s] : results[e][d].status \notin {"none", "running"}

\* A call that returns success has a result for every step, and no failure
\* but of steps that may fail; nor is a step still running.
SuccessIsComplete ==
  \A e \in Exec : outcome[e] = "success" =>
    /\ \A s \in Step : /\ results[e][s] # NoResult
                       /\ results[e][s].status = "failure" => s \in Continuing
    /\ ~PlanRuns(e)

\* A plan that lost to its timer writes over the files of the run, and a call
\* for another run takes the executor's fields (SharedRuntime is about that):
\* the properties of the files below are about the calls of one run, none of
\* which has timed out.
NoStragglers == \A e \in Exec : outcome[e] # "timeout"
OneRun == \A e, f \in Exec : runOf[e] # "none" /\ runOf[f] # "none" => runOf[e] = runOf[f]

\* When a call returns, the record and the checkpoint of its run both say how,
\* and go on saying so until the run is called again.
ReturnIsOnDisk ==
  \A e \in Exec :
    pc[e] = "returned" /\ field = e /\ NoStragglers /\ OneRun
      => /\ record[runOf[e]] = DiskStatus(outcome[e])
         /\ checkpoint[runOf[e]].status = DiskStatus(outcome[e])
         /\ checkpoint[runOf[e]].steps = results[e]

\* A step whose success or skip reached the checkpoint stays completed in it
\* and is not run again, through crashes and resumes, by the call that works
\* on the run; only a crash in the middle of a checkpoint loses it, with all of
\* the checkpoint.  (One that finds nothing to resume starts the run afresh.)
DurableStepsKept ==
  [][\A e \in Exec, s \in Step :
       (/\ field' = e /\ resumed'[e] # "no" /\ NoStragglers /\ OneRun'
        /\ Completed(checkpoint[runOf'[e]].steps[s]))
        => /\ live'[e][s].status # "running"
           /\ \/ Completed(checkpoint'[runOf'[e]].steps[s])
              \/ crashes' > crashes /\ checkpoint'[runOf'[e]] = NoFile]_vars

\* The call that f's run was resumed after: no other has worked in between.
Predecessor(f, e) ==
  f < e /\ runOf[f] = runOf[e] /\ \A g \in f + 1 .. e - 1 : pc[g] = "refused"

\* A strict resume never gives new attempts to a step that used up its retries
\* in the call before it.
ExhaustedNotRetried ==
  \A e, f \in Exec, s \in Step :
    resumed[e] = "strict" /\ Predecessor(f, e) /\ NoStragglers /\ OneRun
      /\ results[f][s].status = "failure" /\ results[f][s].attempts > MaxAttempt(s)
    => live[e][s].status # "running"

\* A call returns: one with a timeout even if its adapters hang.
CallsReturn ==
  \A e \in Exec : pc[e] = "starting" ~> pc[e] \in {"returned", "lost"}

\* After a timeout the run's checkpoint says so, and a strict resume of it is
\* refused as terminal.
TimeoutIsTerminal ==
  \A e \in Exec :
    pc[e] = "returned" /\ outcome[e] = "timeout" /\ field = e
      => checkpoint[runOf[e]].status = "timeout"
=============================================================================
