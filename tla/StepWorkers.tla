---------------------------- MODULE StepWorkers ----------------------------
(***************************************************************************)
(* InMemoryDistributedJobQueue under the load DistributedStepWorker puts   *)
(* on it: workers poll, run what they get, then ack or nack it, while a    *)
(* timer per running step extends its lease.  Nothing stops a lease from   *)
(* expiring under a worker that is still running the step (a blocked event *)
(* loop, a heartbeat interval longer than the lease), so a worker may      *)
(* settle a job that was queued again or that another worker holds now.    *)
(***************************************************************************)
EXTENDS StepQueue

CONSTANTS NoJob,       \* what an idle worker holds
          Resolvable,  \* the jobs whose stepId the pulling workflow knows
          Throwing     \* those of them on which StepExecutor.execute throws

\* execute throws before its retry loop when the condition or the input of
\* the step does not resolve, for instance on the output of a failed step.
ASSUME StepWorkersAssumption ==
  NoJob \notin Job /\ Throwing \subseteq Resolvable /\ Resolvable \subseteq Job

VARIABLES q,       \* the queue
          pushed,  \* the jobs that producers have pushed
          holds    \* holds[w]: the job worker w is running

vars == <<q, pushed, holds>>

\* What the fields hold; among it that no lease ends later than leaseMs from now.
TypeOK ==
  /\ q \in QueueState
  /\ pushed \subseteq Job
  /\ holds \in [Worker -> Job \cup {NoJob}]

Init ==
  /\ q = EmptyQueue
  /\ pushed = {}
  /\ holds = [w \in Worker |-> NoJob]

-----------------------------------------------------------------------------
\* A producer pushes a job with a fresh id.
Push(j) ==
  /\ j \notin pushed
  /\ \E q0 \in RequeueExpired(q) : q' = Enqueue(q0, j)
  /\ pushed' = pushed \cup {j}
  /\ UNCHANGED holds

\* The run loop polls, gets the oldest job and starts its step.  A poll that
\* finds nothing requeued nothing either: it is a stuttering step.
Pull(w) ==
  /\ holds[w] = NoJob
  /\ \E q0 \in RequeueExpired(q) :
       /\ q0.queued # <<>>
       /\ q' = Lease(q0, w)
       /\ holds' = [holds EXCEPT ![w] = Head(q0.queued)]
  /\ UNCHANGED pushed

\* The step ended in success or was skipped.
Succeed(w) ==
  /\ holds[w] \in Resolvable \ Throwing
  /\ \E q0 \in RequeueExpired(q) : q' = Ack(q0, holds[w])
  /\ holds' = [holds EXCEPT ![w] = NoJob]
  /\ UNCHANGED pushed

\* The step failed: nack with requeue.
Fail(w) ==
  /\ holds[w] \in Resolvable \ Throwing
  /\ \E q0 \in RequeueExpired(q) : q' = Nack(q0, holds[w], TRUE)
  /\ holds' = [holds EXCEPT ![w] = NoJob]
  /\ UNCHANGED pushed

\* resolveStep found no such step: nack without requeue, nothing was run.
Reject(w) ==
  /\ holds[w] \in Job \ Resolvable
  /\ \E q0 \in RequeueExpired(q) : q' = Nack(q0, holds[w], FALSE)
  /\ holds' = [holds EXCEPT ![w] = NoJob]
  /\ UNCHANGED pushed

\* execute threw: the run loop logs it and goes on, and the lease stays.
Throw(w) ==
  /\ holds[w] \in Throwing
  /\ holds' = [holds EXCEPT ![w] = NoJob]
  /\ UNCHANGED <<q, pushed>>

\* The heartbeat timer of a running step.
Heartbeat(w) ==
  /\ holds[w] \in Resolvable
  /\ \E q0 \in RequeueExpired(q) : q' = ExtendLease(q0, holds[w], w)
  /\ UNCHANGED <<pushed, holds>>

\* getStats, which the orchestrator polls.
GetStats ==
  /\ q' \in RequeueExpired(q)
  /\ UNCHANGED <<pushed, holds>>

Tick ==
  /\ q' = Age(q)
  /\ UNCHANGED <<pushed, holds>>

Next ==
  \/ \E j \in Job : Push(j)
  \/ \E w \in Worker : \/ Pull(w) \/ Succeed(w) \/ Fail(w) \/ Reject(w)
                       \/ Throw(w) \/ Heartbeat(w)
  \/ GetStats
  \/ Tick

Spec == Init /\ [][Next]_vars

-----------------------------------------------------------------------------
(***************************************************************************)
(* Properties                                                              *)
(***************************************************************************)
Waiting == ToSet(q.queued)

\* A pushed job is never lost and never in two places: it is in exactly one
\* of the queue (once), the leased, the completed and the failed map, however
\* expiry, stale acks and stale nacks interleave; an id nobody pushed is nowhere.
OnePlace ==
  /\ \A i, k \in DOMAIN q.queued : q.queued[i] = q.queued[k] => i = k
  /\ Waiting \cup Leased(q) \cup q.completed \cup q.failed = pushed
  /\ Waiting \cap (Leased(q) \cup q.completed \cup q.failed) = {}
  /\ Leased(q) \cap (q.completed \cup q.failed) = {}
  /\ q.completed \cap q.failed = {}

\* maxAttempts bounds the failures charged to a job: whoever runs it has an
\* attempt left, and a job of a known step is given up only with none left.
AttemptsWithinLimit ==
  /\ \A j \in Waiting \cup Leased(q) : q.attempts[j] < Limit(j)
  /\ \A j \in q.completed : q.attempts[j] < Limit(j)
  /\ \A j \in q.failed : q.attempts[j] <= Limit(j)
  /\ \A j \in q.failed \cap Resolvable : q.attempts[j] = Limit(j)

\* The worker named in a lease is running that very job: but for a step that
\* threw, no lease is stranded with a worker that has moved on, so a queue
\* whose workers are idle has no lease and the orchestrator's wait loop ends.
OwnerRunsItsJob ==
  \A j \in Leased(q) : holds[q.owner[j]] = j \/ j \in Throwing

\* The queue implements the ledger its interface promises.
PhaseOf(j) ==
  CASE j \in q.completed  -> "done"
    [] j \in q.failed     -> "dead"
    [] q.owner[j] # NoWorker -> "leased"
    [] j \in Waiting      -> "queued"
    [] OTHER              -> "new"

Ledger == INSTANCE JobLedger
            WITH AttemptLimit <- [j \in Job |-> Limit(j)],
                 phase <- [j \in Job |-> PhaseOf(j)],
                 tries <- q.attempts

\* Every call of the queue is a call of JobLedger: settled jobs stay settled,
\* an attempt is charged to a leased job only, and no call moves two jobs.
ImplementsLedger == Ledger!Spec
=============================================================================
