----------------------------- MODULE StepQueue -----------------------------
(***************************************************************************)
(* The state of a distributed step queue and the effect of each of its     *)
(* operations on it, as InMemoryDistributedJobQueue implements them.  The  *)
(* module has no variables: an operator takes the queue's state and        *)
(* returns the state after the call, so that a handler that makes several  *)
(* calls is the composition of their operators.                            *)
(*                                                                         *)
(* A queue is a record:                                                    *)
(*   queued     the FIFO array of waiting jobs                             *)
(*   owner      owner[j] is the worker in the lease of job j, NoWorker     *)
(*              when the leased map has no entry for j                     *)
(*   age        clock ticks since the lease of j was granted or extended   *)
(*   completed  the keys of the completed map                              *)
(*   failed     the keys of the failed map                                 *)
(*   attempts   the attempts field of job j's record                       *)
(*                                                                         *)
(* Wall-clock time is abstracted to ticks: a lease lasts LeaseTicks ticks  *)
(* and leaseExpiresAt <= now is age >= LeaseTicks.                         *)
(***************************************************************************)
EXTENDS Integers, SequencesExt

CONSTANTS Job,          \* job ids
          Worker,       \* worker ids
          NoWorker,     \* the workerId of a job that is not leased
          MaxAttempts,  \* maxAttempts of each job, as its producer sets it
          LeaseTicks    \* length of a lease (leaseMs)

ASSUME StepQueueAssumption ==
  /\ IsFiniteSet(Job)
  /\ NoWorker \notin Worker
  /\ MaxAttempts \in [Job -> Int]
  /\ LeaseTicks \in Nat \ {0}

\* The ages say that no lease ends later than leaseMs from now, however often it
\* is extended: the job of a worker that dies waits no longer than that.
QueueState ==
  [queued : Seq(Job), owner : [Job -> Worker \cup {NoWorker}], age : [Job -> 0..LeaseTicks],
   completed : SUBSET Job, failed : SUBSET Job, attempts : [Job -> Nat]]

EmptyQueue ==
  [queued |-> <<>>, owner |-> [j \in Job |-> NoWorker], age |-> [j \in Job |-> 0],
   completed |-> {}, failed |-> {}, attempts |-> [j \in Job |-> 0]]

Leased(q) == {j \in Job : q.owner[j] # NoWorker}

\* Mutant: a lease is taken away one tick before it expires.
Lapsed_Early(q) == {j \in Leased(q) : q.age[j] + 1 >= LeaseTicks}

Lapsed(q) == {j \in Leased(q) : q.age[j] >= LeaseTicks}

\* push stores Math.max(1, maxAttempts).
Limit(j) == IF MaxAttempts[j] < 1 THEN 1 ELSE MaxAttempts[j]

-----------------------------------------------------------------------------
(***************************************************************************)
(* Mutants: each changes one operator the way a plausible bug would.       *)
(***************************************************************************)

\* The expired lease is queued again but stays in the leased map.
RequeueExpired_KeepsLease(q) ==
  {[q EXCEPT !.queued = q.queued \o s] : s \in SetToSeqs(Lapsed(q))}

\* The job is read with queued[0] instead of queued.shift().
Lease_KeepsQueued(q, w) ==
  [q EXCEPT !.owner[Head(q.queued)] = w, !.age[Head(q.queued)] = 0]

\* ack records the job as completed without looking it up in the leased map.
Ack_Unchecked(q, j) ==
  [q EXCEPT !.owner[j] = NoWorker, !.age[j] = 0, !.completed = @ \cup {j}]

\* nack compares with <= instead of <.
NackOutcome_OffByOne(q, j, requeue) ==
  IF j \notin Leased(q) THEN "missing"
  ELSE IF requeue /\ q.attempts[j] + 1 <= Limit(j) THEN "requeued"
  ELSE "failed"

\* An extension adds leaseMs to the old leaseExpiresAt instead of to now.
ExtendLease_FromOldEnd(q, j, w) ==
  IF q.owner[j] = w THEN [q EXCEPT !.age[j] = @ - LeaseTicks] ELSE q

-----------------------------------------------------------------------------
(***************************************************************************)
(* requeueExpired, which every operation of the queue runs first: all the  *)
(* lapsed leases go to the tail of the queue, attempts unchanged.  The     *)
(* order is the leased map's insertion order, which the model leaves open. *)
(***************************************************************************)
RequeueExpired(q) ==
  {[q EXCEPT !.queued = q.queued \o s,
             !.owner = [j \in Job |-> IF j \in Lapsed(q) THEN NoWorker ELSE q.owner[j]],
             !.age = [j \in Job |-> IF j \in Lapsed(q) THEN 0 ELSE q.age[j]]] :
     s \in SetToSeqs(Lapsed(q))}

\* push, for a fresh job.
Enqueue(q, j) == [q EXCEPT !.queued = Append(@, j), !.attempts[j] = 0]

\* pull on a queue that is not empty.
Lease(q, w) ==
  [q EXCEPT !.queued = Tail(@), !.owner[Head(q.queued)] = w, !.age[Head(q.queued)] = 0]

\* ack: no check of who calls it, nothing to do when the job has no lease.
Ack(q, j) ==
  IF j \in Leased(q)
  THEN [q EXCEPT !.owner[j] = NoWorker, !.age[j] = 0, !.completed = @ \cup {j}]
  ELSE q

\* What nack returns.
NackOutcome(q, j, requeue) ==
  IF j \notin Leased(q) THEN "missing"
  ELSE IF requeue /\ q.attempts[j] + 1 < Limit(j) THEN "requeued"
  ELSE "failed"

\* Mutant: nack decides on the stored attempts but never writes the increment back.
Nack_Uncounted(q, j, requeue) ==
  LET ended == [q EXCEPT !.owner[j] = NoWorker, !.age[j] = 0]
  IN CASE NackOutcome(q, j, requeue) = "missing"  -> q
       [] NackOutcome(q, j, requeue) = "requeued" -> [ended EXCEPT !.queued = Append(@, j)]
       [] NackOutcome(q, j, requeue) = "failed"   -> [ended EXCEPT !.failed = @ \cup {j}]

\* Mutant: a job that is sent back stays in the leased map.
Nack_KeepsLease(q, j, requeue) ==
  CASE NackOutcome(q, j, requeue) = "missing"  -> q
    [] NackOutcome(q, j, requeue) = "requeued" ->
         [q EXCEPT !.attempts[j] = @ + 1, !.queued = Append(@, j)]
    [] NackOutcome(q, j, requeue) = "failed"   ->
         [q EXCEPT !.owner[j] = NoWorker, !.age[j] = 0, !.attempts[j] = @ + 1,
                   !.failed = @ \cup {j}]

\* nack: no check of who calls it; a missing lease changes nothing.
Nack(q, j, requeue) ==
  LET ended == [q EXCEPT !.owner[j] = NoWorker, !.age[j] = 0, !.attempts[j] = @ + 1]
  IN CASE NackOutcome(q, j, requeue) = "missing"  -> q
       [] NackOutcome(q, j, requeue) = "requeued" -> [ended EXCEPT !.queued = Append(@, j)]
       [] NackOutcome(q, j, requeue) = "failed"   -> [ended EXCEPT !.failed = @ \cup {j}]

\* extendLease: the one operation that compares the worker with the owner.
ExtendLease(q, j, w) == IF q.owner[j] = w THEN [q EXCEPT !.age[j] = 0] ELSE q

\* The clock moves on under every lease; an expired lease stays expired.
Age(q) ==
  [q EXCEPT !.age = [j \in Job |-> IF j \in Leased(q) /\ q.age[j] < LeaseTicks
                                   THEN q.age[j] + 1 ELSE q.age[j]]]
=============================================================================
