--------------------------- MODULE DistributedRun ---------------------------
(***************************************************************************)
(* DistributedWorkflowOrchestrator.execute: one run of a workflow whose    *)
(* steps are jobs of an in-memory queue (StepQueue), drained by workers of *)
(* the same process, with a checkpoint and an execution record on disk,    *)
(* and the crash of that process and the resumption of the run by another. *)
(*                                                                         *)
(* queuedSteps lets a run push one job per step, so a job is named by its  *)
(* step.  What a worker does between two awaits that wait for the outside  *)
(* world is one action: the awaits on the in-memory queue resume in the    *)
(* same turn of the event loop.                                            *)
(***************************************************************************)
EXTENDS StepQueue

CONSTANTS NoStep,           \* what an idle worker runs
          Needs,            \* needs[s], the steps s depends on
          ContinueOnError,  \* the steps whose failure does not abort the run
          Throwing,         \* the steps on which StepExecutor.execute throws
          HasTimeout,       \* whether options.timeout is set
          MaxTicks,         \* bound: ticks of the lease clock while a step runs
          MaxResumes        \* bound: executions with resumeFromRunId

Step == Job

\* DependencyResolver and CycleDetector have accepted the graph.
ASSUME DistributedRunAssumption ==
  /\ NoStep \notin Step
  /\ Needs \in [Step -> SUBSET Step]
  /\ \A S \in SUBSET Step : S # {} => \E s \in S : Needs[s] \cap S = {}
  /\ ContinueOnError \subseteq Step /\ Throwing \subseteq Step
  /\ HasTimeout \in BOOLEAN
  /\ MaxTicks \in Nat /\ MaxResumes \in Nat

VARIABLES q,            \* the queue of this execution
          holds,        \* holds[w]: the step worker w is running
          results,      \* stepResults; its keys are terminalSteps
          unresolved,   \* unresolvedDeps
          queuedSteps,  \* steps pushed in this execution
          error,        \* workflowError and its class; set exactly when aborted is
          stage,        \* where execute() is
          status,       \* the status execute() returned
          checkpoint,   \* the CheckpointStore file of the run
          record,       \* the ExecutionStore file of the run
          ticks, resumes

queueVars == <<q, holds>>
runVars == <<results, unresolved, queuedSteps, error>>
diskVars == <<checkpoint, record>>
vars == <<queueVars, runVars, stage, status, diskVars, ticks, resumes>>

Result == {"none", "success", "failure"}  \* "success" stands for skipped too
Disk == {"absent", "running", "completed", "failed", "timeout"}
NoResults == [s \in Step |-> "none"]

\* A snapshot as saveCheckpoint builds it, and the states of an execution
\* record: begin starts it afresh, stepUpdate sets one step's entry, finalize
\* replaces all of them.
Snapshot(st, res) == [status |-> st, states |-> res]
Begun == [status |-> "running", steps |-> NoResults]
StepUpdate(rec, s, outcome) == [rec EXCEPT !.steps[s] = outcome]
Finalized(st, res) == [status |-> st, steps |-> res]

TypeOK ==
  /\ q \in QueueState
  /\ holds \in [Worker -> Step \cup {NoStep}]
  /\ results \in [Step -> Result]
  /\ unresolved \in [Step -> Int]
  /\ queuedSteps \subseteq Step
  /\ error \in {"none", "failure", "timeout"}
  /\ stage \in {"idle", "running", "ended", "crashed"}
  /\ status \in {"none", "success", "partial", "failure", "timeout"}
  /\ checkpoint \in [status : Disk, states : [Step -> Result]]
  /\ record \in [status : Disk, steps : [Step -> Result]]
  /\ ticks \in 0..MaxTicks
  /\ resumes \in 0..MaxResumes

Init ==
  /\ q = EmptyQueue
  /\ holds = [w \in Worker |-> NoStep]
  /\ results = NoResults
  /\ unresolved = [s \in Step |-> Cardinality(Needs[s])]
  /\ queuedSteps = {}
  /\ error = "none" /\ stage = "idle" /\ status = "none"
  /\ checkpoint = Snapshot("absent", NoResults)
  /\ record = [status |-> "absent", steps |-> NoResults]
  /\ ticks = 0 /\ resumes = 0

Terminal == {s \in Step : results[s] # "none"}
Dependents(s) == {d \in Step : s \in Needs[d]}
InitialSteps == {s \in Step : Needs[s] = {}}
Idle == \A w \in Worker : holds[w] = NoStep

-----------------------------------------------------------------------------
(***************************************************************************)
(* Mutants                                                                 *)
(***************************************************************************)

\* A dependent is enqueued as soon as one of its needs is done.
Unlocked_Any(un, s) == Dependents(s)

\* A dependent is enqueued when its counter is below zero.
Unlocked_Never(un, s) == {d \in Dependents(s) : un[d] - 1 < 0}

\* The callbacks do not save a checkpoint.
SaveProgress_Skipped(res) == UNCHANGED checkpoint

\* Only queued === 0 is tested before the break.
Drained_IgnoresLeases(qq) == qq.queued = <<>>

\* The workflow's status is stored as it is.
DiskStatus_Unmapped(st) == st

-----------------------------------------------------------------------------
\* The dependents whose counter reaches zero when s has finished.
Unlocked(un, s) == {d \in Dependents(s) : un[d] - 1 <= 0}

Decremented(un, s) == [d \in Step |-> IF d \in Dependents(s) THEN un[d] - 1 ELSE un[d]]

\* enqueueStepJob for every step of a sequence, one Enqueue after the other:
\* the jobs are fresh, with no attempt charged.
PushAll(qq, seq) ==
  [qq EXCEPT !.queued = @ \o seq,
             !.attempts = [s \in Step |-> IF s \in ToSet(seq) THEN 0 ELSE qq.attempts[s]]]

\* saveCheckpoint with status 'running'.
SaveProgress(res) == checkpoint' = Snapshot("running", res)

\* unlockDependents and the pushes it makes, from the queue qq.
UnlockDependents(qq, s) ==
  /\ unresolved' = Decremented(unresolved, s)
  /\ queuedSteps' = queuedSteps \cup Unlocked(unresolved, s)
  /\ \E order \in SetToSeqs(Unlocked(unresolved, s) \ queuedSteps) : q' = PushAll(qq, order)

\* stepResults.set, terminalSteps.add, stepUpdate and saveCheckpoint.
RecordResult(s, outcome) ==
  /\ results' = [results EXCEPT ![s] = outcome]
  /\ record' = StepUpdate(record, s, outcome)
  /\ SaveProgress(results')

-----------------------------------------------------------------------------
(***************************************************************************)
(* The workers.  They stop polling once the run has ended; a step that is  *)
(* running then goes on, and so do the callbacks that follow it.           *)
(***************************************************************************)
Pull(w) ==
  /\ stage = "running" /\ holds[w] = NoStep
  /\ \E q0 \in RequeueExpired(q) :
       /\ q0.queued # <<>>
       /\ q' = Lease(q0, w)
       /\ holds' = [holds EXCEPT ![w] = Head(q0.queued)]
  /\ UNCHANGED <<runVars, stage, status, diskVars, ticks, resumes>>

\* The step succeeded: ack, then onStepFinished.
Succeed(w) ==
  /\ holds[w] \in Step \ Throwing
  /\ \E q0 \in RequeueExpired(q) : UnlockDependents(Ack(q0, holds[w]), holds[w])
  /\ RecordResult(holds[w], "success")
  /\ holds' = [holds EXCEPT ![w] = NoStep]
  /\ UNCHANGED <<error, stage, status, ticks, resumes>>

\* The step failed and nack sent it back: onStepFailed returns at once.
FailAndRetry(w) ==
  /\ holds[w] \in Step \ Throwing
  /\ \E q0 \in RequeueExpired(q) :
       /\ NackOutcome(q0, holds[w], TRUE) = "requeued"
       /\ q' = Nack(q0, holds[w], TRUE)
  /\ holds' = [holds EXCEPT ![w] = NoStep]
  /\ UNCHANGED <<runVars, stage, status, diskVars, ticks, resumes>>

\* The step failed and nack answered 'failed' or 'missing'; the run goes on.
FailAndContinue(w) ==
  /\ holds[w] \in ContinueOnError \ Throwing
  /\ \E q0 \in RequeueExpired(q) :
       /\ NackOutcome(q0, holds[w], TRUE) # "requeued"
       /\ UnlockDependents(Nack(q0, holds[w], TRUE), holds[w])
  /\ RecordResult(holds[w], "failure")
  /\ holds' = [holds EXCEPT ![w] = NoStep]
  /\ UNCHANGED <<error, stage, status, ticks, resumes>>

\* The same with a step whose failure aborts the run.  The status reported
\* later depends on whether the error's message contains "timeout".
FailAndAbort(w) ==
  /\ holds[w] \in Step \ (ContinueOnError \cup Throwing)
  /\ \E q0 \in RequeueExpired(q) :
       /\ NackOutcome(q0, holds[w], TRUE) # "requeued"
       /\ q' = Nack(q0, holds[w], TRUE)
  /\ RecordResult(holds[w], "failure")
  /\ error' \in {"failure", "timeout"}
  /\ holds' = [holds EXCEPT ![w] = NoStep]
  /\ UNCHANGED <<unresolved, queuedSteps, stage, status, ticks, resumes>>

\* execute threw: the run loop logs it and polls again; neither ack nor nack.
Throw(w) ==
  /\ holds[w] \in Throwing
  /\ holds' = [holds EXCEPT ![w] = NoStep]
  /\ UNCHANGED <<q, runVars, stage, status, diskVars, ticks, resumes>>

Heartbeat(w) ==
  /\ holds[w] # NoStep
  /\ \E q0 \in RequeueExpired(q) : q' = ExtendLease(q0, holds[w], w)
  /\ UNCHANGED <<holds, runVars, stage, status, diskVars, ticks, resumes>>

\* Time that passes under a running step is bounded, idle time is not.
Tick ==
  /\ q' = Age(q)
  /\ ticks' = (IF Idle THEN ticks ELSE ticks + 1) /\ ticks' <= MaxTicks
  /\ UNCHANGED <<holds, runVars, stage, status, diskVars, resumes>>

-----------------------------------------------------------------------------
(***************************************************************************)
(* The orchestrator                                                        *)
(***************************************************************************)

\* The status of the result, given the results and workflowError.
StatusOf(res, err) ==
  IF err # "none" THEN err
  ELSE IF \E s \in Step : res[s] = "failure" THEN "partial"
  ELSE "success"

\* finalStoreStatus
DiskStatus(st) ==
  CASE st = "timeout" -> "timeout" [] st = "failure" -> "failed" [] OTHER -> "completed"

\* From the end of the wait loop to the return: stop, finalize, checkpoint.
End(err) ==
  LET st == StatusOf(results, err)
  IN /\ error' = err
     /\ status' = st
     /\ stage' = "ended"
     /\ record' = Finalized(DiskStatus(st), results)
     /\ checkpoint' = Snapshot(DiskStatus(st), results)
     /\ UNCHANGED <<holds, results, unresolved, queuedSteps, ticks, resumes>>

\* The condition under which the wait loop looks at the queue at all.
Waits == stage = "running" /\ Terminal # Step /\ error = "none"

\* queued === 0 && leased === 0
Drained(qq) == qq.queued = <<>> /\ Leased(qq) = {}

\* The loop condition is false.
EndLoop == stage = "running" /\ ~Waits /\ End(error) /\ UNCHANGED q

\* The wait loop reads the statistics: it breaks off when nothing is queued
\* and nothing is leased, otherwise it sleeps.
Poll ==
  /\ Waits
  /\ \E q0 \in RequeueExpired(q) :
       /\ q' = q0
       /\ IF Drained(q0) THEN End("none")
          ELSE UNCHANGED <<holds, runVars, stage, status, diskVars, ticks, resumes>>

\* The deadline has passed.
EndTimeout ==
  /\ Waits /\ HasTimeout
  /\ q' \in RequeueExpired(q) /\ ~Drained(q')
  /\ End("timeout")

\* What the calls of unlockDependents enqueue for the restored steps.
UnlockedBy(restored) ==
  {s \in Step : Needs[s] \cap restored # {} /\ Needs[s] \subseteq restored}

\* unlockDependents for every restored step, then the plan's initial nodes:
\* from the restored results res on a fresh queue.
Restart(res) ==
  LET restored == {s \in Step : res[s] # "none"}
      first == UnlockedBy(restored) \cup InitialSteps
  IN /\ results' = res
     /\ unresolved' = [s \in Step |-> Cardinality(Needs[s] \ restored)]
     /\ queuedSteps' = first
     /\ \E order \in SetToSeqs(first) : q' = PushAll(EmptyQueue, order)
     /\ SaveProgress(res)
     /\ record' = Begun
     /\ error' = "none" /\ stage' = "running" /\ status' = "none"
     /\ UNCHANGED <<holds, ticks>>

\* execute() for a new run.
Start == stage = "idle" /\ Restart(NoResults) /\ UNCHANGED resumes

\* What restoreFromCheckpoint keeps of a snapshot.
Restored == [s \in Step |-> IF checkpoint.states[s] = "success" THEN "success" ELSE "none"]

\* The run is resumed once its process is gone, or its result was returned
\* and its workers are idle.
MayResume == stage \in {"crashed", "ended"} /\ Idle /\ resumes < MaxResumes

ResumeFromCheckpoint ==
  /\ MayResume
  /\ checkpoint.status = "running"
  /\ Restart(Restored)
  /\ resumes' = resumes + 1

\* No usable snapshot under 'best-effort': a fresh run under the old run id.
ResumeFresh ==
  /\ MayResume
  /\ checkpoint.status # "running"
  /\ Restart(NoResults)
  /\ resumes' = resumes + 1

\* No usable snapshot under 'strict': execute() throws, but begin() has
\* already written a new execution record for the run id.
ResumeRefused ==
  /\ MayResume
  /\ checkpoint.status # "running"
  /\ record' = Begun
  /\ resumes' = resumes + 1
  /\ UNCHANGED <<queueVars, runVars, stage, status, checkpoint, ticks>>

\* The process dies; a checkpoint it was writing is torn and unreadable.
Crash ==
  /\ stage = "running" \/ (stage = "ended" /\ ~Idle)
  /\ resumes < MaxResumes
  /\ stage' = "crashed"
  /\ q' = EmptyQueue
  /\ holds' = [w \in Worker |-> NoStep]
  /\ results' = NoResults
  /\ unresolved' = [s \in Step |-> Cardinality(Needs[s])]
  /\ queuedSteps' = {}
  /\ error' = "none" /\ status' = "none"
  /\ \/ UNCHANGED checkpoint
     \/ checkpoint' = Snapshot("absent", NoResults)
  /\ UNCHANGED <<record, ticks, resumes>>

-----------------------------------------------------------------------------
StepEnds(w) ==
  Succeed(w) \/ FailAndRetry(w) \/ FailAndContinue(w) \/ FailAndAbort(w) \/ Throw(w)

Next ==
  \/ Start \/ ResumeFromCheckpoint \/ ResumeFresh \/ ResumeRefused
  \/ \E w \in Worker : Pull(w) \/ StepEnds(w) \/ Heartbeat(w)
  \/ EndLoop \/ Poll \/ EndTimeout
  \/ Tick \/ Crash

\* The event loop runs every due timer, so workers and orchestrator keep
\* polling and time passes; a running step comes to an end.  The deadline is
\* not fair: it may be any time away.
Fairness ==
  /\ WF_vars(EndLoop) /\ WF_vars(Poll) /\ WF_vars(Tick)
  /\ \A w \in Worker : WF_vars(Pull(w)) /\ WF_vars(StepEnds(w))

Spec == Init /\ [][Next]_vars /\ Fairness

-----------------------------------------------------------------------------
(***************************************************************************)
(* Properties of every run                                                 *)
(***************************************************************************)

\* A run that ends without an error has a result for every step.  The wait
\* loop breaks off when the queue is empty without asking whether every step
\* is terminal; that this never hides a step rests on the counters, on
\* queuedSteps and on the restored steps unlocking their dependents.
CompleteWhenReported ==
  [][stage = "running" /\ status' \in {"success", "partial"} => Terminal = Step]_vars

\* Wherever a process may die, the checkpoint is that of a running run and
\* holds exactly the results the run has, and the execution record holds no
\* result that the run does not have.
ProgressIsDurable ==
  stage = "running" =>
    /\ checkpoint = Snapshot("running", results)
    /\ record.status = "running"
    /\ \A s \in Step : record.steps[s] \in {"none", results[s]}

(***************************************************************************)
(* Properties of a run that is not resumed and whose steps keep their      *)
(* leases                                                                  *)
(***************************************************************************)

\* No lease lapses under a running step, and each running step ends with an
\* ack or a nack.
LeasesKept == MaxTicks < LeaseTicks /\ Throwing = {}

NotResumed == MaxResumes = 0

Starts(w) == holds[w] = NoStep /\ holds'[w] # NoStep

\* A step starts only when each step it needs is over, successfully or with a
\* failure that does not abort the run.
DependencyOrder ==
  [][\A w \in Worker : Starts(w) =>
       \A n \in Needs[holds'[w]] :
         results[n] = "success" \/ (results[n] = "failure" /\ n \in ContinueOnError)]_vars

\* A step that has a result is not run again.
FinishedOnce ==
  [][\A w \in Worker : Starts(w) => results[holds'[w]] = "none"]_vars

\* No two workers run the same step.
OneRunner ==
  \A v, w \in Worker : holds[v] = holds[w] /\ holds[v] # NoStep => v = w

\* A step counts as failed only when the queue has given its job up after
\* maxAttempts attempts.
FailureMeansExhausted ==
  \A s \in Step : results[s] = "failure" => s \in q.failed /\ q.attempts[s] = Limit(s)

\* A run reported as a success, entirely or in part, leaves nothing behind: no
\* job, no running step, and both files say completed with the same results.
CleanEnd ==
  stage = "ended" /\ status \in {"success", "partial"} =>
    /\ Idle /\ Drained(q)
    /\ checkpoint = Snapshot("completed", results)
    /\ record = Finalized("completed", results)

\* A run that is going on ends, timeout or not.
RunEnds == stage = "running" ~> stage # "running"

\* A step that was enqueued gets a result, success or terminal failure,
\* unless the run ends first.
StepsSettle ==
  \A s \in Step :
    (stage = "running" /\ s \in queuedSteps) ~> (stage # "running" \/ results[s] # "none")
=============================================================================
