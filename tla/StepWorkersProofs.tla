------------------------- MODULE StepWorkersProofs -------------------------
(***************************************************************************)
(* The invariants of StepWorkers, for any jobs, workers, attempt limits    *)
(* and lease length.  The conjunction of the four invariants the model     *)
(* checker checks is inductive; it is restated here over the state of a    *)
(* queue, because every action composes a call with requeueExpired and     *)
(* the state between the two is not a state of the specification.          *)
(***************************************************************************)
EXTENDS StepWorkers, StepQueueProofs

\* The jobs that were given up on had no attempt left.
Spent(r) == \A j \in r.failed \cap Resolvable : r.attempts[j] = Limit(j)

\* OwnerRunsItsJob for queue r and running jobs h.
Owned(r, h) == \A j \in Leased(r) : h[r.owner[j]] = j \/ j \in Throwing

Good(r, P, h) == Well(r, P) /\ Spent(r) /\ Owned(r, h)

\* The inductive invariant.
IInv ==
  /\ pushed \in SUBSET Job
  /\ holds \in [Worker -> Job \cup {NoJob}]
  /\ Good(q, pushed, holds)

LEMMA IInvImplies == IInv => TypeOK /\ OnePlace /\ AttemptsWithinLimit /\ OwnerRunsItsJob
  BY DEF IInv, Good, Well, Placed, Counted, Spent, Owned, Distinct, Waiting,
         TypeOK, OnePlace, AttemptsWithinLimit, OwnerRunsItsJob

LEMMA InitIInv == Init => IInv
<1> SUFFICES ASSUME Init PROVE IInv
  OBVIOUS
<1>1. Well(q, pushed)
  BY EmptyQueueWell DEF Init
<1>2. Leased(q) = {} /\ q.failed = {}
  BY DEF Init, EmptyQueue, Leased
<1> QED
  BY <1>1, <1>2 DEF Init, IInv, Good, Spent, Owned

\* The queue after requeueExpired satisfies the invariant too.
LEMMA Requeued ==
  ASSUME IInv, NEW r \in RequeueExpired(q)
  PROVE  Good(r, pushed, holds)
<1>1. Good(q, pushed, holds) /\ Well(q, pushed)
  BY DEF IInv, Good
<1>2. /\ Well(r, pushed)
      /\ \A j \in Job : r.owner[j] = IF j \in Lapsed(q) THEN NoWorker ELSE q.owner[j]
      /\ Leased(r) = Leased(q) \ Lapsed(q)
      /\ r.failed = q.failed /\ r.attempts = q.attempts
  BY <1>1, RequeueExpiredWell
<1>3. Spent(r)
  BY <1>1, <1>2 DEF Good, Spent
<1>4. Leased(r) \subseteq Job
  BY DEF Leased
<1>5. Owned(r, holds)
  BY <1>1, <1>2, <1>4 DEF Good, Owned
<1> QED
  BY <1>2, <1>3, <1>5 DEF Good

LEMMA PushKeeps == ASSUME IInv, NEW j \in Job, Push(j) PROVE IInv'
<1>1. PICK r \in RequeueExpired(q) : q' = Enqueue(r, j)
  BY DEF Push
<1>2. j \in Job \ pushed /\ pushed' = pushed \cup {j} /\ holds' = holds
  BY DEF Push
<1>3. Well(r, pushed) /\ Spent(r) /\ Owned(r, holds)
  BY <1>1, Requeued DEF Good
<1>4. Well(q', pushed')
  BY <1>1, <1>2, <1>3, EnqueueWell
<1>5. /\ q'.owner = r.owner /\ q'.failed = r.failed
      /\ \A k \in Job : k # j => q'.attempts[k] = r.attempts[k]
  BY <1>1, <1>3 DEF Enqueue, Well, QueueState
<1>6. j \notin r.failed /\ r.failed \subseteq Job
  BY <1>2, <1>3 DEF Well, Placed, QueueState
<1>7. Spent(q')
  BY <1>3, <1>5, <1>6 DEF Spent
<1>8. Owned(q', holds')
  BY <1>2, <1>3, <1>5 DEF Owned, Leased
<1> QED
  BY <1>2, <1>4, <1>7, <1>8 DEF IInv, Good

LEMMA PullKeeps == ASSUME IInv, NEW w \in Worker, Pull(w) PROVE IInv'
<1>1. PICK r \in RequeueExpired(q) :
        r.queued # <<>> /\ q' = Lease(r, w) /\ holds' = [holds EXCEPT ![w] = Head(r.queued)]
  BY DEF Pull
<1> DEFINE h == Head(r.queued)
<1>2. holds[w] = NoJob /\ pushed' = pushed
  BY DEF Pull
<1>3. Well(r, pushed) /\ Spent(r) /\ Owned(r, holds)
  BY <1>1, Requeued DEF Good
<1>4. /\ Well(q', pushed) /\ h \in Job /\ h \in ToSet(r.queued)
      /\ q'.owner = [r.owner EXCEPT ![h] = w]
      /\ Leased(q') = Leased(r) \cup {h}
      /\ q'.failed = r.failed /\ q'.attempts = r.attempts
  BY <1>1, <1>3, LeaseWell, LeaseEffect
<1>5. holds' \in [Worker -> Job \cup {NoJob}] /\ holds'[w] = h
  BY <1>1, <1>4 DEF IInv
<1>6. Spent(q')
  BY <1>3, <1>4 DEF Spent
<1>7. Owned(q', holds')
  <2> SUFFICES ASSUME NEW j \in Leased(q'), j \notin Throwing
               PROVE  holds'[q'.owner[j]] = j
    BY DEF Owned
  <2>1. r.owner \in [Job -> Worker \cup {NoWorker}] /\ Leased(r) \subseteq Job
    BY <1>3 DEF Well, QueueState, Leased
  <2>2. CASE j = h
    BY <1>4, <1>5, <2>1, <2>2
  <2>3. CASE j # h
    <3>1. j \in Leased(r) /\ q'.owner[j] = r.owner[j] /\ holds[r.owner[j]] = j
      BY <1>3, <1>4, <2>1, <2>3 DEF Owned
    <3>2. r.owner[j] # w
      BY <1>2, <2>1, <3>1, StepWorkersAssumption
    <3>3. r.owner[j] \in Worker
      BY <2>1, <3>1 DEF Leased
    <3> QED
      BY <1>1, <3>1, <3>2, <3>3 DEF IInv
  <2> QED
    BY <2>2, <2>3
<1> QED
  BY <1>2, <1>4, <1>5, <1>6, <1>7 DEF IInv, Good

\* Once a worker has settled or dropped its job, the leases are still owned.
LEMMA Released ==
  ASSUME NEW r, NEW h \in [Worker -> Job \cup {NoJob}], NEW w \in Worker, Owned(r, h),
         r.owner \in [Job -> Worker \cup {NoWorker}], h[w] \notin Leased(r) \/ h[w] \in Throwing
  PROVE  Owned(r, [h EXCEPT ![w] = NoJob])
<1> SUFFICES ASSUME NEW j \in Leased(r), j \notin Throwing
             PROVE  [h EXCEPT ![w] = NoJob][r.owner[j]] = j
  BY DEF Owned
<1>1. h[r.owner[j]] = j /\ r.owner[j] \in Worker
  BY DEF Owned, Leased
<1>2. r.owner[j] # w
  BY <1>1
<1> QED
  BY <1>1, <1>2

LEMMA SucceedKeeps == ASSUME IInv, NEW w \in Worker, Succeed(w) PROVE IInv'
<1> DEFINE j == holds[w]
<1>1. PICK r \in RequeueExpired(q) : q' = Ack(r, j)
  BY DEF Succeed
<1>2. j \in Job /\ holds' = [holds EXCEPT ![w] = NoJob] /\ pushed' = pushed
  BY StepWorkersAssumption DEF Succeed
<1>3. Well(r, pushed) /\ Spent(r) /\ Owned(r, holds)
  BY <1>1, Requeued DEF Good
<1>4. /\ Well(q', pushed) /\ Spent(q') /\ Owned(q', holds) /\ j \notin Leased(q')
  <2>1. CASE j \in Leased(r)
    <3>1. /\ Well(q', pushed)
          /\ q'.owner = [r.owner EXCEPT ![j] = NoWorker]
          /\ Leased(q') = Leased(r) \ {j}
          /\ q'.failed = r.failed /\ q'.attempts = r.attempts
      BY <1>1, <1>3, <2>1, AckWell, AckEffect
    <3>2. r.owner \in [Job -> Worker \cup {NoWorker}] /\ Leased(r) \subseteq Job
      BY <1>3 DEF Well, QueueState, Leased
    <3> QED
      BY <1>3, <3>1, <3>2 DEF Spent, Owned
  <2>2. CASE j \notin Leased(r)
    BY <1>1, <1>3, <2>2, StaleCalls
  <2> QED
    BY <2>1, <2>2
<1>5. Owned(q', holds')
  BY <1>2, <1>4, Released DEF IInv, Well, QueueState
<1> QED
  BY <1>2, <1>4, <1>5 DEF IInv, Good

\* The effect of nack, for Fail and Reject: a job of a known step goes back
\* while it has attempts left.
LEMMA Nacked ==
  ASSUME NEW P, NEW h, NEW r, Good(r, P, h), NEW j \in Job, NEW requeue \in BOOLEAN,
         requeue \/ j \notin Resolvable
  PROVE  Good(Nack(r, j, requeue), P, h) /\ j \notin Leased(Nack(r, j, requeue))
<1> DEFINE r2 == Nack(r, j, requeue)
<1>1. Well(r, P) /\ Spent(r) /\ Owned(r, h)
  BY DEF Good
<1>2. CASE j \notin Leased(r)
  BY <1>2, StaleCalls
<1>3. CASE j \in Leased(r)
  <2>1. Well(r2, P) /\ Charged(r, r2, j, requeue)
    BY <1>1, <1>3, NackWell, NackEffect
  <2>2. /\ r.owner \in [Job -> Worker \cup {NoWorker}]
        /\ r.attempts \in [Job -> Nat]
        /\ Leased(r) \subseteq Job /\ r.failed \subseteq Job
        /\ j \notin r.failed /\ r.attempts[j] < Limit(j) /\ Limit(j) \in Nat
    BY <1>1, <1>3, LimitType DEF Well, QueueState, Placed, Counted, Leased
  <2>3. Owned(r2, h)
    BY <1>1, <2>1, <2>2 DEF Owned, Charged
  <2>4. Spent(r2)
    <3> SUFFICES ASSUME NEW k \in r2.failed \cap Resolvable PROVE r2.attempts[k] = Limit(k)
      BY DEF Spent
    <3>1. CASE k = j
      BY <2>1, <2>2, <3>1 DEF Charged
    <3>2. CASE k # j
      BY <1>1, <2>1, <2>2, <3>2 DEF Spent, Charged
    <3> QED
      BY <3>1, <3>2
  <2> QED
    BY <2>1, <2>3, <2>4 DEF Good, Charged
<1> QED
  BY <1>2, <1>3

LEMMA NackKeeps ==
  ASSUME IInv, NEW w \in Worker, Fail(w) \/ Reject(w)
  PROVE  IInv'
<1> DEFINE j == holds[w]
<1>1. PICK requeue \in BOOLEAN, r \in RequeueExpired(q) :
        q' = Nack(r, j, requeue) /\ (requeue \/ j \notin Resolvable)
  BY DEF Fail, Reject
<1>2. j \in Job /\ holds' = [holds EXCEPT ![w] = NoJob] /\ pushed' = pushed
  BY StepWorkersAssumption DEF Fail, Reject
<1>3. Good(r, pushed, holds)
  BY <1>1, Requeued
<1>4. Good(q', pushed, holds) /\ j \notin Leased(q')
  BY <1>1, <1>2, <1>3, Nacked
<1>5. Owned(q', holds')
  BY <1>2, <1>4, Released DEF IInv, Good, Well, QueueState
<1> QED
  BY <1>2, <1>4, <1>5 DEF IInv, Good

LEMMA ThrowKeeps == ASSUME IInv, NEW w \in Worker, Throw(w) PROVE IInv'
<1>1. Owned(q, [holds EXCEPT ![w] = NoJob])
  BY Released DEF Throw, IInv, Good, Well, QueueState
<1> QED
  BY <1>1 DEF Throw, IInv, Good

\* The calls that neither move a job nor charge one.
LEMMA QuietKeeps ==
  ASSUME IInv, (\E w \in Worker : Heartbeat(w)) \/ GetStats \/ Tick
  PROVE  IInv'
<1>1. pushed' = pushed /\ holds' = holds
  BY DEF Heartbeat, GetStats, Tick
<1>2. CASE \E w \in Worker : Heartbeat(w)
  <2>1. PICK w \in Worker, r \in RequeueExpired(q) :
          holds[w] \in Job /\ q' = ExtendLease(r, holds[w], w)
    BY <1>2, StepWorkersAssumption DEF Heartbeat
  <2>2. Well(r, pushed) /\ Spent(r) /\ Owned(r, holds)
    BY <2>1, Requeued DEF Good
  <2>3. /\ Well(q', pushed) /\ q'.owner = r.owner
        /\ q'.failed = r.failed /\ q'.attempts = r.attempts
    BY <2>1, <2>2, ExtendLeaseWell
  <2> QED
    BY <1>1, <2>2, <2>3 DEF IInv, Good, Spent, Owned, Leased
<1>3. CASE GetStats
  BY <1>1, <1>3, Requeued DEF GetStats, IInv
<1>4. CASE Tick
  <2>1. Well(q, pushed) /\ Spent(q) /\ Owned(q, holds)
    BY DEF IInv, Good
  <2>2. /\ Well(q', pushed) /\ q'.owner = q.owner
        /\ q'.failed = q.failed /\ q'.attempts = q.attempts
    BY <1>4, <2>1, AgeWell DEF Tick
  <2> QED
    BY <1>1, <2>1, <2>2 DEF IInv, Good, Spent, Owned, Leased
<1> QED
  BY <1>2, <1>3, <1>4

LEMMA NextKeeps == IInv /\ [Next]_vars => IInv'
<1>1. ASSUME IInv, UNCHANGED vars PROVE IInv'
  BY <1>1 DEF IInv, vars
<1> QED
  BY <1>1, PushKeeps, PullKeeps, SucceedKeeps, NackKeeps, ThrowKeeps, QuietKeeps DEF Next

\* Every job pushed is in one place, within its limit, and its lease is with the
\* worker that runs it, after any calls of the workers.
THEOREM Invariance == Spec => []IInv
  BY InitIInv, NextKeeps, PTL DEF Spec

\* The types of the queue, of the submitted jobs and of what workers run.
THEOREM TypeCorrect == Spec => []TypeOK
  BY Invariance, IInvImplies, PTL

\* No interleaving of expiry, late acks and late nacks loses or duplicates a job.
THEOREM JobsInOnePlace == Spec => []OnePlace
  BY Invariance, IInvImplies, PTL

\* maxAttempts bounds what a job is charged, and giving up takes all of them.
THEOREM AttemptsBounded == Spec => []AttemptsWithinLimit
  BY Invariance, IInvImplies, PTL

\* A lease names a worker that runs the job, unless its execution threw.
THEOREM LeasesOwned == Spec => []OwnerRunsItsJob
  BY Invariance, IInvImplies, PTL

-----------------------------------------------------------------------------
(***************************************************************************)
(* StepWorkers implements JobLedger.  A call of the queue maps to one      *)
(* Ledger step: the leases that lapsed are the revoked ones, and the call  *)
(* moves at most one job afterwards.                                       *)
(***************************************************************************)
\* PhaseOf for queue r.
PhaseIn(r, j) ==
  CASE j \in r.completed     -> "done"
    [] j \in r.failed        -> "dead"
    [] j \in Leased(r)       -> "leased"
    [] j \in ToSet(r.queued) -> "queued"
    [] OTHER                 -> "new"

Phases(r) == [j \in Job |-> PhaseIn(r, j)]

LEMMA PhaseFacts ==
  ASSUME NEW P, NEW r, Well(r, P), NEW j \in Job
  PROVE  /\ j \in r.completed => PhaseIn(r, j) = "done"
         /\ j \in r.failed => PhaseIn(r, j) = "dead"
         /\ j \in Leased(r) => PhaseIn(r, j) = "leased"
         /\ j \in ToSet(r.queued) => PhaseIn(r, j) = "queued"
         /\ j \notin P => PhaseIn(r, j) = "new"
<1>1. /\ ToSet(r.queued) \cup Leased(r) \cup r.completed \cup r.failed = P
      /\ ToSet(r.queued) \cap (Leased(r) \cup r.completed \cup r.failed) = {}
      /\ Leased(r) \cap (r.completed \cup r.failed) = {}
      /\ r.completed \cap r.failed = {}
  BY DEF Well, Placed
<1>2. j \in r.completed => PhaseIn(r, j) = "done"
  BY <1>1 DEF PhaseIn
<1>3. j \in r.failed => PhaseIn(r, j) = "dead"
  BY <1>1 DEF PhaseIn
<1>4. j \in Leased(r) => PhaseIn(r, j) = "leased"
  BY <1>1 DEF PhaseIn
<1>5. j \in ToSet(r.queued) => PhaseIn(r, j) = "queued"
  BY <1>1 DEF PhaseIn
<1>6. j \notin P => PhaseIn(r, j) = "new"
  BY <1>1 DEF PhaseIn
<1> QED
  BY <1>2, <1>3, <1>4, <1>5, <1>6

\* Queues r and r2 have every job but j in the same place.
AgreeOff(r, r2, j) ==
  \A k \in Job \ {j} :
    /\ k \in r2.completed <=> k \in r.completed
    /\ k \in r2.failed <=> k \in r.failed
    /\ k \in Leased(r2) <=> k \in Leased(r)
    /\ k \in ToSet(r2.queued) <=> k \in ToSet(r.queued)

LEMMA OneMove ==
  ASSUME NEW r, NEW r2, NEW j \in Job, AgreeOff(r, r2, j)
  PROVE  Phases(r2) = [Phases(r) EXCEPT ![j] = PhaseIn(r2, j)]
<1>1. \A k \in Job \ {j} : PhaseIn(r2, k) = PhaseIn(r, k)
  BY DEF AgreeOff, PhaseIn
<1> QED
  BY <1>1 DEF Phases

\* The refinement mapping, before and after a step.
LEMMA PhaseMap ==
  /\ [j \in Job |-> PhaseOf(j)] = Phases(q)
  /\ [j \in Job |-> PhaseOf(j)]' = Phases(q')
<1>1. \A j \in Job : PhaseOf(j) = PhaseIn(q, j)
  BY DEF PhaseOf, PhaseIn, Waiting, Leased
<1>2. \A j \in Job : PhaseOf(j)' = PhaseIn(q', j)
  BY DEF PhaseOf, PhaseIn, Waiting, Leased
<1> QED
  BY <1>1, <1>2 DEF Phases

\* Requeueing the lapsed leases is the revocation of those leases.
LEMMA Revocation ==
  ASSUME IInv, NEW r \in RequeueExpired(q)
  PROVE  /\ Phases(r) = Ledger!Revoked(Lapsed(q))
         /\ Lapsed(q) \in SUBSET {j \in Job : [k \in Job |-> PhaseOf(k)][j] = "leased"}
<1>1. Well(q, pushed)
  BY DEF IInv, Good
<1>2. /\ Well(r, pushed)
      /\ ToSet(r.queued) = ToSet(q.queued) \cup Lapsed(q)
      /\ Leased(r) = Leased(q) \ Lapsed(q)
      /\ r.completed = q.completed /\ r.failed = q.failed
  BY <1>1, RequeueExpiredWell
<1>3. Lapsed(q) \subseteq Leased(q) /\ Leased(q) \subseteq Job
  BY DEF Lapsed, Leased
<1>4. \A j \in Job : PhaseIn(r, j) = IF j \in Lapsed(q) THEN "queued" ELSE PhaseIn(q, j)
  <2> TAKE j \in Job
  <2>1. CASE j \in Lapsed(q)
    BY <1>2, <2>1, PhaseFacts
  <2>2. CASE j \notin Lapsed(q)
    BY <1>2, <2>2 DEF PhaseIn
  <2> QED
    BY <2>1, <2>2
<1>5. \A j \in Lapsed(q) : PhaseIn(q, j) = "leased"
  BY <1>1, <1>3, PhaseFacts
<1> QED
  BY <1>3, <1>4, <1>5, PhaseMap DEF Phases, Ledger!Revoked

LEMMA OneCall ==
  ASSUME IInv, NEW r \in RequeueExpired(q), Ledger!Call(Phases(r))
  PROVE  Ledger!Next
  BY Revocation DEF Ledger!Next

LEMMA InitMaps == Init => Ledger!Init
<1> SUFFICES ASSUME Init PROVE Ledger!Init
  OBVIOUS
<1>1. \A j \in Job : PhaseIn(q, j) = "new"
  BY EmptyQueueWell, PhaseFacts DEF Init
<1>2. q.attempts = [j \in Job |-> 0]
  BY DEF Init, EmptyQueue
<1> QED
  BY <1>1, <1>2, PhaseMap DEF Ledger!Init, Phases

LEMMA PushMaps == ASSUME IInv, IInv', NEW j \in Job, Push(j) PROVE Ledger!Next
<1>1. PICK r \in RequeueExpired(q) : q' = Enqueue(r, j)
  BY DEF Push
<1>2. Well(r, pushed) /\ r.attempts = q.attempts /\ j \notin pushed
  BY <1>1, RequeueExpiredWell DEF IInv, Good, Push
<1>3. /\ q'.queued = Append(r.queued, j)
      /\ q'.owner = r.owner /\ q'.completed = r.completed /\ q'.failed = r.failed
      /\ q'.attempts = [r.attempts EXCEPT ![j] = 0]
  BY <1>1, <1>2 DEF Enqueue, Well, QueueState
<1>4. ToSet(q'.queued) = ToSet(r.queued) \cup {j}
  <2>1. r.queued \in Seq(Job) /\ Distinct(r.queued) /\ j \notin ToSet(r.queued)
    BY <1>2 DEF Well, QueueState, Placed
  <2> QED
    BY <1>3, <2>1, AppendDistinct
<1>5. AgreeOff(r, q', j)
  BY <1>3, <1>4 DEF AgreeOff, Leased
<1>6. Well(q', pushed')
  BY DEF IInv, Good
<1>7. PhaseIn(q', j) = "queued" /\ PhaseIn(r, j) = "new"
  BY <1>2, <1>4, <1>6, PhaseFacts
<1>8. Phases(q') = [Phases(r) EXCEPT ![j] = "queued"] /\ Phases(r)[j] = "new"
  BY <1>5, <1>7, OneMove DEF Phases
<1>9. Ledger!Submit(Phases(r), j)
  BY <1>2, <1>3, <1>8, PhaseMap DEF Ledger!Submit
<1>10. Ledger!Call(Phases(r))
  BY <1>9 DEF Ledger!Call
<1> QED
  BY <1>1, <1>10, OneCall

LEMMA PullMaps == ASSUME IInv, NEW w \in Worker, Pull(w) PROVE Ledger!Next
<1>1. PICK r \in RequeueExpired(q) : r.queued # <<>> /\ q' = Lease(r, w)
  BY DEF Pull
<1> DEFINE h == Head(r.queued)
<1>2. Well(r, pushed) /\ r.attempts = q.attempts
  BY <1>1, RequeueExpiredWell DEF IInv, Good
<1>3. /\ Well(q', pushed) /\ h \in Job /\ h \in ToSet(r.queued)
      /\ ToSet(q'.queued) = ToSet(r.queued) \ {h}
      /\ Leased(q') = Leased(r) \cup {h}
      /\ q'.completed = r.completed /\ q'.failed = r.failed
      /\ q'.attempts = r.attempts
  <2>1. Well(r, pushed) /\ r.queued # <<>>
    BY <1>1, <1>2
  <2>2. Well(q', pushed)
    BY <1>1, <2>1, LeaseWell
  <2> QED
    BY <1>1, <2>1, <2>2, LeaseEffect
<1>4. AgreeOff(r, q', h)
  BY <1>3 DEF AgreeOff
<1>5. PhaseIn(q', h) = "leased" /\ PhaseIn(r, h) = "queued"
  BY <1>2, <1>3, PhaseFacts
<1>6. Phases(q') = [Phases(r) EXCEPT ![h] = "leased"] /\ Phases(r)[h] = "queued"
  BY <1>3, <1>4, <1>5, OneMove DEF Phases
<1>7. Ledger!Deliver(Phases(r), h)
  BY <1>2, <1>3, <1>6, PhaseMap DEF Ledger!Deliver
<1>8. Ledger!Call(Phases(r))
  BY <1>3, <1>7 DEF Ledger!Call
<1> QED
  BY <1>1, <1>8, OneCall

\* A call that leaves every job where requeueExpired has put it.
LEMMA QuietMaps ==
  ASSUME IInv, NEW r \in RequeueExpired(q), Phases(q') = Phases(r), q'.attempts = q.attempts
  PROVE  Ledger!Next
<1>1. Ledger!Call(Phases(r))
  BY PhaseMap DEF Ledger!Call
<1> QED
  BY <1>1, OneCall

LEMMA SucceedMaps == ASSUME IInv, NEW w \in Worker, Succeed(w) PROVE Ledger!Next
<1> DEFINE j == holds[w]
<1>1. PICK r \in RequeueExpired(q) : q' = Ack(r, j)
  BY DEF Succeed
<1>2. Well(r, pushed) /\ r.attempts = q.attempts /\ j \in Job
  BY <1>1, RequeueExpiredWell, StepWorkersAssumption DEF IInv, Good, Succeed
<1>3. CASE j \notin Leased(r)
  <2>1. q' = r
    BY <1>1, <1>3, StaleCalls
  <2> QED
    BY <1>1, <1>2, <2>1, QuietMaps
<1>4. CASE j \in Leased(r)
  <2>1. /\ Well(q', pushed)
        /\ q'.queued = r.queued
        /\ Leased(q') = Leased(r) \ {j}
        /\ q'.completed = r.completed \cup {j} /\ q'.failed = r.failed
        /\ q'.attempts = r.attempts
    <3>1. Well(q', pushed)
      BY <1>1, <1>2, <1>4, AckWell
    <3> QED
      BY <1>1, <1>2, <1>4, <3>1, AckEffect
  <2>2. AgreeOff(r, q', j)
    BY <2>1 DEF AgreeOff
  <2>3. PhaseIn(q', j) = "done" /\ PhaseIn(r, j) = "leased"
    BY <1>2, <1>4, <2>1, PhaseFacts
  <2>4. Phases(q') = [Phases(r) EXCEPT ![j] = "done"] /\ Phases(r)[j] = "leased"
    BY <1>2, <2>2, <2>3, OneMove DEF Phases
  <2>5. Ledger!Finish(Phases(r), j)
    BY <1>2, <2>1, <2>4, PhaseMap DEF Ledger!Finish
  <2>6. Ledger!Call(Phases(r))
    BY <1>2, <2>5 DEF Ledger!Call
  <2> QED
    BY <1>1, <2>6, OneCall
<1> QED
  BY <1>3, <1>4

LEMMA NackMaps ==
  ASSUME IInv, NEW w \in Worker, Fail(w) \/ Reject(w)
  PROVE  Ledger!Next
<1> DEFINE j == holds[w]
<1>1. PICK requeue \in BOOLEAN, r \in RequeueExpired(q) : q' = Nack(r, j, requeue)
  BY DEF Fail, Reject
<1>2. Well(r, pushed) /\ r.attempts = q.attempts /\ j \in Job
  <2>1. j \in Job
    BY StepWorkersAssumption DEF Fail, Reject
  <2>2. Well(q, pushed)
    BY DEF IInv, Good
  <2> QED
    BY <2>1, <2>2, RequeueExpiredWell
<1>3. CASE j \notin Leased(r)
  <2>1. q' = r
    BY <1>1, <1>3, StaleCalls
  <2> QED
    BY <1>1, <1>2, <2>1, QuietMaps
<1>4. CASE j \in Leased(r)
  <2>1. Well(q', pushed) /\ Charged(r, q', j, requeue)
    BY <1>1, <1>2, <1>4, NackWell, NackEffect
  <2>2. AgreeOff(r, q', j)
    BY <2>1 DEF AgreeOff, Charged
  <2>3. Phases(q') = [Phases(r) EXCEPT ![j] = PhaseIn(q', j)] /\ Phases(r)[j] = "leased"
    BY <1>2, <1>4, <2>2, OneMove, PhaseFacts DEF Phases
  <2>4. CASE r.attempts[j] + 1 < Limit(j) /\ j \in ToSet(q'.queued)
    <3>1. PhaseIn(q', j) = "queued"
      BY <1>2, <2>1, <2>4, PhaseFacts
    <3>2. [k \in Job |-> Limit(k)][j] = Limit(j)
      BY <1>2
    <3>3. Ledger!SendBack(Phases(r), j)
      BY <1>2, <2>1, <2>3, <2>4, <3>1, <3>2, PhaseMap DEF Ledger!SendBack, Charged
    <3>4. Ledger!Call(Phases(r))
      BY <1>2, <3>3 DEF Ledger!Call
    <3> QED
      BY <1>1, <3>4, OneCall
  <2>5. CASE j \in q'.failed
    <3>1. PhaseIn(q', j) = "dead"
      BY <1>2, <2>1, <2>5, PhaseFacts
    <3>2. Ledger!Bury(Phases(r), j)
      BY <1>2, <2>1, <2>3, <3>1, PhaseMap DEF Ledger!Bury, Charged
    <3>3. Ledger!Call(Phases(r))
      BY <1>2, <3>2 DEF Ledger!Call
    <3> QED
      BY <1>1, <3>3, OneCall
  <2> QED
    BY <2>1, <2>4, <2>5 DEF Charged
<1> QED
  BY <1>3, <1>4

LEMMA HeartbeatMaps == ASSUME IInv, NEW w \in Worker, Heartbeat(w) PROVE Ledger!Next
<1>1. PICK r \in RequeueExpired(q) : q' = ExtendLease(r, holds[w], w) /\ holds[w] \in Job
  BY StepWorkersAssumption DEF Heartbeat
<1>2. Well(r, pushed) /\ r.attempts = q.attempts
  BY <1>1, RequeueExpiredWell DEF IInv, Good
<1>3. /\ q'.queued = r.queued /\ q'.owner = r.owner /\ q'.completed = r.completed
      /\ q'.failed = r.failed /\ q'.attempts = r.attempts
  BY <1>1, <1>2, ExtendLeaseWell
<1>4. Phases(q') = Phases(r)
  BY <1>3 DEF Phases, PhaseIn, Leased
<1> QED
  BY <1>1, <1>2, <1>3, <1>4, QuietMaps

LEMMA GetStatsMaps == ASSUME IInv, GetStats PROVE Ledger!Next
<1>1. q' \in RequeueExpired(q) /\ q'.attempts = q.attempts
  BY RequeueExpiredWell DEF IInv, Good, GetStats
<1> QED
  BY <1>1, QuietMaps

\* The clock moves no job.
LEMMA TickMaps == ASSUME IInv, Tick PROVE UNCHANGED Ledger!ledgerVars
<1>1. /\ q'.queued = q.queued /\ q'.owner = q.owner /\ q'.completed = q.completed
      /\ q'.failed = q.failed /\ q'.attempts = q.attempts
  BY AgeWell DEF Tick, IInv, Good
<1>2. [j \in Job |-> PhaseOf(j)]' = [j \in Job |-> PhaseOf(j)]
  BY <1>1 DEF PhaseOf, Waiting
<1> QED
  BY <1>1, <1>2 DEF Ledger!ledgerVars

LEMMA NextMaps == IInv /\ IInv' /\ [Next]_vars => [Ledger!Next]_(Ledger!ledgerVars)
<1>1. ASSUME UNCHANGED vars PROVE UNCHANGED Ledger!ledgerVars
  BY <1>1 DEF vars, Ledger!ledgerVars, PhaseOf, Waiting
<1>2. ASSUME NEW w \in Worker, Throw(w) PROVE UNCHANGED Ledger!ledgerVars
  BY <1>2 DEF Throw, Ledger!ledgerVars, PhaseOf, Waiting
<1> QED
  BY <1>1, <1>2, PushMaps, PullMaps, SucceedMaps, NackMaps, HeartbeatMaps, GetStatsMaps,
     TickMaps DEF Next

\* The in-memory queue, under any workers, keeps the promises of the ledger.
THEOREM QueueImplementsLedger == Spec => ImplementsLedger
<1>1. Init /\ [][Next]_vars /\ []IInv => Ledger!Spec
  BY InitMaps, NextMaps, PTL DEF Ledger!Spec
<1> QED
  BY <1>1, Invariance, PTL DEF Spec, ImplementsLedger
=============================================================================
