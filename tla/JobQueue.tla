------------------------------ MODULE JobQueue ------------------------------
(***************************************************************************)
(* InMemoryQueue, the queue of workflow jobs that ExecutionEngine and      *)
(* JobScheduler share: its state as a record and its operations as         *)
(* operators on it.                                                        *)
(*                                                                         *)
(*   jobs      the keys of the jobs map                                    *)
(*   status, attempts   fields of the job objects, which outlive the map   *)
(*   pending   the pendingQueue                                            *)
(*   delayed   the jobs whose retry timer is set                           *)
(*   expiring  the jobs whose clean-up timer is set                        *)
(***************************************************************************)
EXTENDS Naturals, SequencesExt

CONSTANTS Job,            \* job ids
          Priority,       \* Priority[j]
          MaxRetries,     \* MaxRetries[j]: maxRetries of the job
          Delayed,        \* the jobs with a retryDelayMs
          MaxSize,        \* maxSize of the queue, 0 for none
          MaxConcurrent   \* maxConcurrent of the queue

ASSUME JobQueueAssumption ==
  /\ IsFiniteSet(Job) /\ Delayed \subseteq Job
  /\ Priority \in [Job -> Nat] /\ MaxRetries \in [Job -> Nat]
  /\ MaxSize \in Nat /\ MaxConcurrent \in Nat

JobStatus == {"new", "pending", "running", "completed", "failed", "retrying"}

JobQueueState ==
  [jobs : SUBSET Job, status : [Job -> JobStatus], attempts : [Job -> Nat],
   pending : Seq(Job), delayed : SUBSET Job, expiring : SUBSET Job]

NoJobs ==
  [jobs |-> {}, status |-> [j \in Job |-> "new"], attempts |-> [j \in Job |-> 0],
   pending |-> <<>>, delayed |-> {}, expiring |-> {}]

-----------------------------------------------------------------------------
\* insertByPriority: behind the jobs of the same or a higher priority.
Waits(q, j) ==
  LET lower == {i \in DOMAIN q.pending : Priority[q.pending[i]] < Priority[j]}
      at == IF lower = {} THEN Len(q.pending) + 1 ELSE Min(lower)
  IN [q EXCEPT !.pending = InsertAt(@, at, j), !.status[j] = "pending"]

\* enqueue throws when the map is full.
Full(q) == MaxSize > 0 /\ Cardinality(q.jobs) >= MaxSize
Put(q, j) == Waits([q EXCEPT !.jobs = @ \cup {j}], j)

RunningJobs(q) == {j \in q.jobs : q.status[j] = "running"}

\* dequeue returns a job.
CanTake(q) == Cardinality(RunningJobs(q)) < MaxConcurrent /\ q.pending # <<>>

\* Mutant: the job is read and stays in the pending queue.
Take_Peeks(q) ==
  LET j == Head(q.pending) IN [q EXCEPT !.status[j] = "running", !.attempts[j] = @ + 1]

Take(q) ==
  LET j == Head(q.pending)
  IN [q EXCEPT !.pending = Tail(@), !.status[j] = "running", !.attempts[j] = @ + 1]

\* markCompleted and markFailed, for a job that is in the map.
Complete(q, j) == [q EXCEPT !.status[j] = "completed", !.expiring = @ \cup {j}]

RetriesLeft_OffByOne(q, j) == q.attempts[j] <= MaxRetries[j]

RetriesLeft(q, j) == q.attempts[j] < MaxRetries[j]

Fail(q, j) ==
  CASE ~RetriesLeft(q, j) -> [q EXCEPT !.status[j] = "failed", !.expiring = @ \cup {j}]
    [] RetriesLeft(q, j) /\ j \in Delayed ->
         [q EXCEPT !.status[j] = "retrying", !.delayed = @ \cup {j}]
    [] OTHER -> Waits(q, j)

\* The retry timer looks at nothing: it queues the job object.
Retry(q, j) == Waits([q EXCEPT !.delayed = @ \ {j}], j)

\* The clean-up timer, remove and clear.
Expire(q, j) == [q EXCEPT !.jobs = @ \ {j}, !.expiring = @ \ {j}]
Withdraw(q, j) ==
  [q EXCEPT !.jobs = @ \ {j}, !.pending = RemoveFirst(@, j)]
Clear(q) == [q EXCEPT !.jobs = {}, !.pending = <<>>]
=============================================================================
