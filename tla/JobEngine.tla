------------------------------ MODULE JobEngine ------------------------------
(***************************************************************************)
(* ExecutionEngine and JobScheduler on the queue they share.  The engine's *)
(* loop takes jobs and runs their workflows; with the scheduler enabled a  *)
(* pool of worker threads takes jobs too, and what a worker does with one  *)
(* is to report it completed.  A thread can be given a job while it loads; *)
(* the 'ready' message that it sends then takes the job from it again.     *)
(* Jobs come from executeWorkflow and from direct calls of the queue,      *)
(* which getQueue gives out.                                               *)
(*                                                                         *)
(* An action ends where the code waits for the event loop: the loop's      *)
(* check, dequeue and bookkeeping run in one turn with this queue.  The    *)
(* worker threads run beside it and talk to it in messages.                *)
(***************************************************************************)
EXTENDS JobQueue

CONSTANTS Manual,         \* the jobs of executeWorkflow
          Text,           \* the jobs whose workflow is text, which may not parse
          MaxExecutions,  \* maxConcurrentExecutions of the engine
          WorkerCount,    \* workerCount of the pool
          MaxStarts,      \* bound: the calls of start
          MaxDeaths       \* bound: the worker threads that die

ASSUME JobEngineAssumption ==
  /\ Manual \cup Text \subseteq Job
  /\ MaxExecutions \in Nat \ {0} /\ WorkerCount \in Nat
  /\ MaxStarts \in Nat \ {0} /\ MaxDeaths \in Nat

\* The threads, numbered as created; their ids are taken to be distinct.
Thread == 1 .. MaxStarts * WorkerCount + MaxDeaths

VARIABLES
  q,          \* the queue
  isRunning,  \* of the engine
  starting,   \* a start is between its first await and scheduler.start
  loops,      \* the processQueue loops that have not ended
  executing,  \* runningExecutions, of queued jobs
  immediate,  \* runningExecutions, of executeWorkflowImmediate: 0 or 1
  execution,  \* execution[j]: the status in the executions map
  scheduled,  \* enableScheduler
  sched,      \* running, of the JobScheduler
  pool,       \* its workers array
  busy,       \* the threads whose state is busy
  current,    \* current[w]: currentJobId, {} for none
  doing,      \* doing[w]: the jobs sent to the thread and not reported by it
  alive,      \* the threads that are alive
  loading,    \* those of them whose 'ready' message has not come
  disowned,   \* history: the jobs that a 'ready' message took from their worker
  created,    \* the number of threads created
  starts, deaths

vars == <<q, isRunning, starting, loops, executing, immediate, execution, scheduled, sched,
          pool, busy, current, doing, alive, loading, disowned, created, starts, deaths>>
engineVars == <<isRunning, starting, loops, executing, immediate, execution, starts>>
poolVars == <<sched, pool, busy, current, doing, alive, loading, disowned, created, deaths>>

AtMostOne == {S \in SUBSET Job : Cardinality(S) <= 1}

TypeOK ==
  /\ q \in JobQueueState
  /\ {isRunning, starting, scheduled, sched} \subseteq BOOLEAN
  /\ loops \in 0 .. MaxStarts /\ starts \in 0 .. MaxStarts /\ deaths \in 0 .. MaxDeaths
  /\ executing \subseteq Job /\ immediate \in 0 .. 1
  /\ execution \in [Job -> {"none", "queued", "running", "completed", "failed"}]
  /\ pool \in Seq(Thread) /\ Len(pool) <= WorkerCount
  /\ busy \cup alive \subseteq Thread /\ created \in 0 .. Cardinality(Thread)
  /\ loading \subseteq alive /\ disowned \subseteq Job
  /\ current \in [Thread -> AtMostOne] /\ doing \in [Thread -> Seq(Job)]

Init ==
  /\ q = NoJobs
  /\ isRunning = FALSE /\ starting = FALSE /\ loops = 0
  /\ executing = {} /\ immediate = 0 /\ execution = [j \in Job |-> "none"]
  /\ scheduled \in BOOLEAN /\ sched = FALSE
  /\ pool = <<>> /\ busy = {} /\ alive = {} /\ loading = {} /\ created = 0 /\ disowned = {}
  /\ current = [w \in Thread |-> {}] /\ doing = [w \in Thread |-> <<>>]
  /\ starts = 0 /\ deaths = 0

-----------------------------------------------------------------------------
(***************************************************************************)
(* The engine                                                              *)
(***************************************************************************)
\* executeWorkflow, and enqueue by a user of the queue.
Submit(j) ==
  /\ q.status[j] = "new" /\ ~Full(q)
  /\ q' = Put(q, j)
  /\ execution' = IF j \in Manual THEN [execution EXCEPT ![j] = "queued"] ELSE execution
  /\ UNCHANGED <<isRunning, starting, loops, executing, immediate, starts, scheduled,
                 poolVars>>

\* start, up to the event it emits.
Start ==
  /\ ~isRunning /\ ~starting /\ starts < MaxStarts
  /\ isRunning' = TRUE /\ starting' = TRUE /\ starts' = starts + 1
  /\ UNCHANGED <<q, loops, executing, immediate, execution, scheduled, poolVars>>

\* The threads made next, which load their script first.
NewThreads(n) == created + 1 .. created + n
Creates(n) ==
  /\ created' = created + n
  /\ alive' = alive \cup NewThreads(n) /\ loading' = loading \cup NewThreads(n)

\* The rest of start: the scheduler, then the loop.  scheduler.start throws
\* when the scheduler is running, and start ends there.
StartScheduler ==
  /\ starting /\ starting' = FALSE
  /\ IF scheduled /\ ~sched
     THEN /\ sched' = TRUE
          /\ pool' = [i \in 1 .. WorkerCount |-> created + i]
          /\ Creates(WorkerCount)
     ELSE UNCHANGED <<sched, pool, alive, loading, created>>
  /\ loops' = IF (scheduled /\ sched) \/ ~isRunning THEN loops ELSE loops + 1
  /\ UNCHANGED <<q, isRunning, executing, immediate, execution, scheduled, busy, current,
                 doing, disowned, starts, deaths>>

\* The threads are terminated, what they were doing is lost and the queue is
\* not told.
SchedulerStops ==
  /\ sched' = FALSE /\ pool' = <<>> /\ alive' = alive \ ToSet(pool)
  /\ loading' = {} /\ busy' = {}
  /\ current' = [w \in Thread |-> {}] /\ doing' = [w \in Thread |-> <<>>]

\* stop; its wait for runningExecutions changes nothing.
Stop ==
  /\ isRunning /\ isRunning' = FALSE
  /\ SchedulerStops
  /\ UNCHANGED <<q, starting, loops, executing, immediate, execution, scheduled,
                 disowned, created, starts, deaths>>

\* A turn of the loop that takes a job, up to executeJob's first await.
EngineTakes_Unlimited ==
  LET j == Head(q.pending)
  IN /\ loops > 0 /\ isRunning
     /\ CanTake(q)
     /\ q' = Take(q)
     /\ executing' = executing \cup {j}
     /\ execution' = [execution EXCEPT ![j] = "running"]
     /\ UNCHANGED <<isRunning, starting, loops, immediate, starts, scheduled, poolVars>>

EngineTakes ==
  LET j == Head(q.pending)
  IN /\ loops > 0 /\ isRunning
     /\ Cardinality(executing) + immediate < MaxExecutions
     /\ CanTake(q)
     /\ q' = Take(q)
     /\ executing' = executing \cup {j}
     /\ execution' = [execution EXCEPT ![j] = "running"]
     /\ UNCHANGED <<isRunning, starting, loops, immediate, starts, scheduled, poolVars>>

\* A workflow that does not parse goes to the catch block at once.  There
\* markFailed throws for a job that was removed: the rejection of executeJob
\* is caught and the status in executions stays as it was.
EngineRejects ==
  LET j == Head(q.pending)
  IN /\ loops > 0 /\ isRunning
     /\ Cardinality(executing) + immediate < MaxExecutions
     /\ CanTake(q)
     /\ j \in Text
     /\ IF j \in q.jobs
        THEN /\ q' = Fail(Take(q), j)
             /\ execution' = [execution EXCEPT ![j] = "failed"]
        ELSE q' = Take(q) /\ UNCHANGED execution
     /\ UNCHANGED <<isRunning, starting, loops, executing, immediate, starts, scheduled,
                    poolVars>>

LoopEnds_WhenEmpty ==
  /\ loops > 0 /\ (~isRunning \/ q.pending = <<>>)
  /\ loops' = loops - 1
  /\ UNCHANGED <<q, isRunning, starting, executing, immediate, execution, starts,
                 scheduled, poolVars>>

LoopEnds ==
  /\ loops > 0 /\ ~isRunning
  /\ loops' = loops - 1
  /\ UNCHANGED <<q, isRunning, starting, executing, immediate, execution, starts,
                 scheduled, poolVars>>

\* The executor returns, whatever the status of its result, or throws.
ExecutionEnds(j, ok) ==
  /\ j \in executing
  /\ executing' = executing \ {j}
  /\ IF j \in q.jobs
     THEN /\ q' = IF ok THEN Complete(q, j) ELSE Fail(q, j)
          /\ execution' = [execution EXCEPT ![j] = IF ok THEN "completed" ELSE "failed"]
     ELSE UNCHANGED <<q, execution>>
  /\ UNCHANGED <<isRunning, starting, loops, immediate, starts, scheduled, poolVars>>

\* executeWorkflowImmediate counts against the limit and does not ask for it.
Immediate ==
  /\ immediate' = 1 - immediate
  /\ UNCHANGED <<q, isRunning, starting, loops, executing, execution, starts, scheduled,
                 poolVars>>

-----------------------------------------------------------------------------
(***************************************************************************)
(* The queue's timers, and its users                                       *)
(***************************************************************************)
QueueStep(q1) == q' = q1 /\ UNCHANGED <<engineVars, scheduled, poolVars>>

RetryFires(j)   == j \in q.delayed /\ QueueStep(Retry(q, j))
CleanUpFires(j) == j \in q.expiring /\ QueueStep(Expire(q, j))
UserRemoves(j)  == j \in q.jobs /\ QueueStep(Withdraw(q, j))
UserClears      == q.jobs # {} /\ QueueStep(Clear(q))

-----------------------------------------------------------------------------
(***************************************************************************)
(* The pool                                                                *)
(***************************************************************************)
PoolStep == UNCHANGED <<engineVars, scheduled>>

\* processJobs gives a job to a worker that is not busy: alive or not, loaded
\* or not.  What it posts to a thread that loads is read once that is done.
Assign(w) ==
  /\ sched /\ w \in ToSet(pool) \ busy /\ CanTake(q)
  /\ q' = Take(q)
  /\ busy' = busy \cup {w}
  /\ current' = [current EXCEPT ![w] = {Head(q.pending)}]
  /\ doing' = IF w \in alive THEN [doing EXCEPT ![w] = Append(@, Head(q.pending))] ELSE doing
  /\ PoolStep /\ UNCHANGED <<sched, pool, alive, loading, disowned, created, deaths>>

\* markCompleted or markFailed for the worker's job.  The call is not awaited:
\* when the job was removed nothing handles the rejection, which ends the
\* process unless the host handles it; the model goes on, as then.
Tell(w, completed) ==
  \/ current[w] \cap q.jobs = {} /\ UNCHANGED q
  \/ \E j \in current[w] \cap q.jobs : q' = IF completed THEN Complete(q, j) ELSE Fail(q, j)

\* The worker has no job any more and is free for another.
Frees(w) == busy' = busy \ {w} /\ current' = [current EXCEPT ![w] = {}]

\* The thread's 'ready' message: a job that it was given before is forgotten.
WorkerReady(w) ==
  /\ w \in loading
  /\ loading' = loading \ {w}
  /\ disowned' = disowned \cup current[w]
  /\ Frees(w)
  /\ PoolStep /\ UNCHANGED <<q, sched, pool, doing, alive, created, deaths>>

\* The thread's 'completed' message, for the first job it has: it settles the
\* one that its worker counts as current, if there is one.
WorkerReports(w) ==
  /\ w \in alive \ loading /\ doing[w] # <<>>
  /\ Tell(w, TRUE)
  /\ doing' = [doing EXCEPT ![w] = Tail(@)]
  /\ Frees(w)
  /\ PoolStep /\ UNCHANGED <<sched, pool, alive, loading, disowned, created, deaths>>

\* A thread dies by an uncaught error; its state stays in the pool until the
\* exit event, and is free for another job.
Dies(w) ==
  /\ w \in alive /\ deaths < MaxDeaths
  /\ deaths' = deaths + 1
  /\ alive' = alive \ {w} /\ loading' = loading \ {w}

WorkerError(w) ==
  /\ Dies(w) /\ Tell(w, FALSE) /\ Frees(w)
  /\ PoolStep /\ UNCHANGED <<doing, disowned, sched, pool, created>>

\* Or it ends with no error event.
WorkerQuits(w) ==
  /\ Dies(w)
  /\ PoolStep /\ UNCHANGED <<q, busy, current, doing, disowned, sched, pool, created>>

WorkerExit_Forgets(w) ==
  /\ w \in ToSet(pool) \ alive
  /\ UNCHANGED q
  /\ pool' = Append(RemoveFirst(pool, w), created + 1) /\ Creates(1)
  /\ doing' = [doing EXCEPT ![w] = <<>>] /\ Frees(w)
  /\ PoolStep /\ UNCHANGED <<sched, disowned, deaths>>

WorkerExit_Keeps(w) ==
  /\ w \in ToSet(pool) \ alive
  /\ Tell(w, FALSE)
  /\ pool' = Append(pool, created + 1) /\ Creates(1)
  /\ doing' = [doing EXCEPT ![w] = <<>>] /\ Frees(w)
  /\ PoolStep /\ UNCHANGED <<sched, disowned, deaths>>

\* The exit event: the job fails, a new thread takes the place.
WorkerExit(w) ==
  /\ w \in ToSet(pool) \ alive
  /\ Tell(w, FALSE)
  /\ pool' = Append(RemoveFirst(pool, w), created + 1) /\ Creates(1)
  /\ doing' = [doing EXCEPT ![w] = <<>>] /\ Frees(w)
  /\ PoolStep /\ UNCHANGED <<sched, disowned, deaths>>

-----------------------------------------------------------------------------
Progress ==
  \/ StartScheduler \/ EngineTakes \/ EngineRejects \/ LoopEnds
  \/ \E j \in Job : ExecutionEnds(j, TRUE) \/ ExecutionEnds(j, FALSE)
  \/ \E w \in Thread : Assign(w) \/ WorkerReady(w) \/ WorkerReports(w) \/ WorkerExit(w)

Users ==
  \/ Start \/ Stop \/ Immediate \/ UserClears
  \/ \E j \in Job : Submit(j) \/ UserRemoves(j)

Next ==
  \/ Progress \/ Users
  \/ \E j \in Job : RetryFires(j) \/ CleanUpFires(j)
  \/ \E w \in Thread : WorkerError(w) \/ WorkerQuits(w)

Spec == Init /\ [][Next]_vars

\* The loop is polled, executions end, timers fire, and messages arrive.  An
\* immediate execution ends as well, but may be followed by another at once.
FairSpec ==
  /\ Spec
  /\ WF_vars(StartScheduler)
  /\ WF_vars((EngineTakes \/ EngineRejects))
  /\ \A j \in Job : /\ WF_vars((ExecutionEnds(j, TRUE) \/ ExecutionEnds(j, FALSE)))
                    /\ WF_vars(RetryFires(j))
  /\ \A w \in Thread : WF_vars((WorkerReady(w) \/ WorkerReports(w) \/ WorkerExit(w)))

-----------------------------------------------------------------------------
(***************************************************************************)
(* Properties                                                              *)
(***************************************************************************)
\* A job is in one place: waiting once, waiting for its retry timer, run by
\* the engine, or in the hands of one worker, through deaths of workers,
\* assignments to dead ones, removals and retries.
OnePlacePerJob ==
  \A j \in Job :
    Cardinality({i \in DOMAIN q.pending : q.pending[i] = j})
      + Cardinality({j} \cap q.delayed) + Cardinality({j} \cap executing)
      + Cardinality({w \in Thread : j \in current[w]}) <= 1

InHands == executing \cup {j \in Job : \E w \in Thread : j \in current[w]}

\* Until a stop terminates the pool, a job that the queue counts as running
\* is with somebody who is going to settle it, so that its place among the
\* maxConcurrent is given back.  The one exception is a job whose worker was
\* given it before its thread was ready: nobody has that one any more, it stays
\* running and its place is lost.
RunningIsHeld ==
  starts = 1 /\ (isRunning \/ sched) =>
    \A j \in RunningJobs(q) :
      IF j \in disowned THEN j \notin InHands
      ELSE \/ j \in executing
           \/ \E w \in ToSet(pool) : /\ j \in current[w]
                                     /\ w \in alive => doing[w] # <<>> /\ Last(doing[w]) = j

\* A job is tried maxRetries times, whoever fails it, and once if it has none.
AttemptsBounded ==
  \A j \in Job : q.attempts[j] <= (IF MaxRetries[j] = 0 THEN 1 ELSE MaxRetries[j])

\* maxConcurrentExecutions bounds the queued executions over any number of
\* restarts, whose old loops may go on beside the new one.
ExecutionsBounded == Cardinality(executing) <= MaxExecutions

\* Without the scheduler, an engine that is left running ends each execution
\* that nobody removes from the queue.
ExecutionsEnd ==
  \A j \in Manual :
    [](~scheduled) /\ <>[](isRunning /\ immediate = 0)
      => (execution[j] = "queued" ~> execution[j] \in {"completed", "failed"}
                                       \/ j \notin q.jobs)

\* A worker that exits while its thread has a running job in work fails the
\* job: the exit event finds it in somebody's hands.
ExitFailsJob ==
  \A w \in ToSet(pool) \ alive : ToSet(doing[w]) \cap RunningJobs(q) \subseteq InHands
=============================================================================
