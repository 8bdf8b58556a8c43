-------------------------- MODULE StepQueueProofs --------------------------
(***************************************************************************)
(* What each operation of the queue preserves, as lemmas about the state   *)
(* of a queue; StepWorkersProofs uses them step by step.                   *)
(***************************************************************************)
EXTENDS StepQueue, DistinctSequences

\* The jobs in P, and no others, are each in one place of queue r.
Placed(r, P) ==
  /\ Distinct(r.queued)
  /\ ToSet(r.queued) \cup Leased(r) \cup r.completed \cup r.failed = P
  /\ ToSet(r.queued) \cap (Leased(r) \cup r.completed \cup r.failed) = {}
  /\ Leased(r) \cap (r.completed \cup r.failed) = {}
  /\ r.completed \cap r.failed = {}

\* Attempts stay within the limit.
Counted(r) ==
  /\ \A j \in ToSet(r.queued) \cup Leased(r) : r.attempts[j] < Limit(j)
  /\ \A j \in r.completed : r.attempts[j] < Limit(j)
  /\ \A j \in r.failed : r.attempts[j] <= Limit(j)

Well(r, P) == r \in QueueState /\ Placed(r, P) /\ Counted(r)

LEMMA LimitType == \A j \in Job : Limit(j) \in Nat \ {0}
  BY StepQueueAssumption DEF Limit

LEMMA RangeInJobs == \A s \in Seq(Job) : ToSet(s) \subseteq Job
  BY LenProperties, ElementOfSeq DEF ToSet

LEMMA EmptyQueueWell == Well(EmptyQueue, {})
<1>1. EmptyQueue \in QueueState
  BY StepQueueAssumption, EmptySeq DEF EmptyQueue, QueueState
<1>2. Leased(EmptyQueue) = {} /\ ToSet(EmptyQueue.queued) = {}
  BY DEF EmptyQueue, Leased, ToSet
<1>3. Distinct(EmptyQueue.queued) /\ EmptyQueue.completed = {} /\ EmptyQueue.failed = {}
  BY DEF EmptyQueue, Distinct
<1> QED
  BY <1>1, <1>2, <1>3 DEF Well, Placed, Counted

\* requeueExpired moves the lapsed leases to the queue and nothing else.
LEMMA RequeueExpiredWell ==
  ASSUME NEW P, NEW r, Well(r, P), NEW r2 \in RequeueExpired(r)
  PROVE  /\ Well(r2, P)
         /\ \A j \in Job : r2.owner[j] = IF j \in Lapsed(r) THEN NoWorker ELSE r.owner[j]
         /\ ToSet(r2.queued) = ToSet(r.queued) \cup Lapsed(r)
         /\ Leased(r2) = Leased(r) \ Lapsed(r)
         /\ r2.completed = r.completed /\ r2.failed = r.failed
         /\ r2.attempts = r.attempts
<1>1. PICK s \in SetToSeqs(Lapsed(r)) :
        r2 = [r EXCEPT !.queued = r.queued \o s,
                !.owner = [j \in Job |-> IF j \in Lapsed(r) THEN NoWorker ELSE r.owner[j]],
                !.age = [j \in Job |-> IF j \in Lapsed(r) THEN 0 ELSE r.age[j]]]
  BY DEF RequeueExpired
<1>2. r \in QueueState /\ Placed(r, P) /\ Counted(r)
  BY DEF Well
<1>3. Lapsed(r) \subseteq Leased(r) /\ Leased(r) \subseteq Job
  BY DEF Lapsed, Leased
<1>4. IsFiniteSet(Lapsed(r))
  BY <1>3, StepQueueAssumption, FS_Subset
<1>5. s \in Seq(Lapsed(r)) /\ ToSet(s) = Lapsed(r) /\ Distinct(s)
  BY <1>4, OrderOfSet
<1>6. s \in Seq(Job) /\ r.queued \in Seq(Job)
  BY <1>2, <1>3, <1>5, SeqMonotonic DEF QueueState
<1>7. ToSet(r.queued) \cap ToSet(s) = {}
  BY <1>2, <1>3, <1>5 DEF Placed
<1>8. /\ r.queued \o s \in Seq(Job)
      /\ ToSet(r.queued \o s) = ToSet(r.queued) \cup Lapsed(r)
      /\ Distinct(r.queued \o s)
  BY <1>2, <1>5, <1>6, <1>7, ConcatDistinct DEF Placed
<1>9. /\ r2.queued = r.queued \o s
      /\ r2.owner = [j \in Job |-> IF j \in Lapsed(r) THEN NoWorker ELSE r.owner[j]]
      /\ r2.age = [j \in Job |-> IF j \in Lapsed(r) THEN 0 ELSE r.age[j]]
      /\ r2.completed = r.completed /\ r2.failed = r.failed /\ r2.attempts = r.attempts
  BY <1>1, <1>2 DEF QueueState
<1>10. r2 \in QueueState
  <2>1. r2.owner \in [Job -> Worker \cup {NoWorker}]
    BY <1>2, <1>9 DEF QueueState
  <2>2. r2.age \in [Job -> 0..LeaseTicks]
    BY <1>2, <1>9, StepQueueAssumption DEF QueueState
  <2> QED
    BY <1>1, <1>2, <1>8, <1>9, <2>1, <2>2 DEF QueueState
<1>11. Leased(r2) = Leased(r) \ Lapsed(r)
  BY <1>9 DEF Leased
<1>12. Placed(r2, P)
  BY <1>2, <1>3, <1>8, <1>9, <1>11 DEF Placed
<1>13. Counted(r2)
  BY <1>2, <1>3, <1>8, <1>9, <1>11 DEF Counted
<1> QED
  BY <1>8, <1>9, <1>10, <1>11, <1>12, <1>13 DEF Well

\* push adds a job that was nowhere.
LEMMA EnqueueWell ==
  ASSUME NEW P, NEW r, Well(r, P), NEW j \in Job \ P
  PROVE  Well(Enqueue(r, j), P \cup {j})
<1> DEFINE r2 == Enqueue(r, j)
<1>1. r \in QueueState /\ Placed(r, P) /\ Counted(r)
  BY DEF Well
<1>2. r.queued \in Seq(Job) /\ Distinct(r.queued) /\ j \notin ToSet(r.queued)
  BY <1>1 DEF QueueState, Placed
<1>3. /\ Append(r.queued, j) \in Seq(Job)
      /\ ToSet(Append(r.queued, j)) = ToSet(r.queued) \cup {j}
      /\ Distinct(Append(r.queued, j))
  BY <1>2, AppendDistinct
<1>4. /\ r2.queued = Append(r.queued, j)
      /\ r2.owner = r.owner /\ r2.completed = r.completed /\ r2.failed = r.failed
      /\ r2.attempts = [r.attempts EXCEPT ![j] = 0]
  BY <1>1 DEF Enqueue, QueueState
<1>5. r2 \in QueueState
  BY <1>1, <1>3 DEF Enqueue, QueueState
<1>6. Leased(r2) = Leased(r)
  BY <1>4 DEF Leased
<1>7. Placed(r2, P \cup {j})
  BY <1>1, <1>3, <1>4, <1>6 DEF Placed
<1>8. \A k \in Job : r2.attempts[k] = IF k = j THEN 0 ELSE r.attempts[k]
  BY <1>1, <1>4 DEF QueueState
<1>9. /\ ToSet(r.queued) \subseteq Job /\ Leased(r) \subseteq Job
      /\ r.completed \subseteq Job /\ r.failed \subseteq Job
  BY <1>1, RangeInJobs DEF Leased, QueueState
<1>10. Counted(r2)
  BY <1>1, <1>3, <1>4, <1>6, <1>8, <1>9, LimitType DEF Counted
<1> QED
  BY <1>5, <1>7, <1>10 DEF Well

\* pull moves the head of the queue to a lease.
LEMMA LeaseEffect ==
  ASSUME NEW P, NEW r, Well(r, P), NEW w \in Worker, r.queued # <<>>
  PROVE  LET h == Head(r.queued)
             r2 == Lease(r, w)
         IN /\ h \in Job /\ h \in ToSet(r.queued)
            /\ r2.queued \in Seq(Job) /\ Distinct(r2.queued)
            /\ ToSet(r2.queued) = ToSet(r.queued) \ {h}
            /\ r2.owner = [r.owner EXCEPT ![h] = w]
            /\ Leased(r2) = Leased(r) \cup {h}
            /\ r2.completed = r.completed /\ r2.failed = r.failed
            /\ r2.attempts = r.attempts
<1> DEFINE h == Head(r.queued)
           r2 == Lease(r, w)
<1>1. r \in QueueState /\ Placed(r, P)
  BY DEF Well
<1>2. r.queued \in Seq(Job) /\ Distinct(r.queued)
  BY <1>1 DEF QueueState, Placed
<1>3. /\ h \in Job /\ h \in ToSet(r.queued)
      /\ Tail(r.queued) \in Seq(Job)
      /\ ToSet(Tail(r.queued)) = ToSet(r.queued) \ {h}
      /\ Distinct(Tail(r.queued))
  BY <1>2, TailDistinct
<1>4. /\ r2.queued = Tail(r.queued)
      /\ r2.owner = [r.owner EXCEPT ![h] = w]
      /\ r2.completed = r.completed /\ r2.failed = r.failed
      /\ r2.attempts = r.attempts
  BY <1>1 DEF Lease, QueueState
<1>5. Leased(r2) = Leased(r) \cup {h}
  BY <1>1, <1>3, <1>4, StepQueueAssumption DEF Leased, QueueState
<1> QED
  BY <1>3, <1>4, <1>5

LEMMA LeaseWell ==
  ASSUME NEW P, NEW r, Well(r, P), NEW w \in Worker, r.queued # <<>>
  PROVE  Well(Lease(r, w), P)
<1> DEFINE h == Head(r.queued)
           r2 == Lease(r, w)
<1>1. r \in QueueState /\ Placed(r, P) /\ Counted(r)
  BY DEF Well
<1>2. /\ h \in Job /\ h \in ToSet(r.queued)
      /\ r2.queued \in Seq(Job) /\ Distinct(r2.queued)
      /\ ToSet(r2.queued) = ToSet(r.queued) \ {h}
      /\ r2.owner = [r.owner EXCEPT ![h] = w]
      /\ Leased(r2) = Leased(r) \cup {h}
      /\ r2.completed = r.completed /\ r2.failed = r.failed
      /\ r2.attempts = r.attempts
  BY LeaseEffect
<1>3. r2 \in QueueState
  <2>1. r2.owner \in [Job -> Worker \cup {NoWorker}]
    BY <1>1, <1>2 DEF QueueState
  <2>2. r2.age = [r.age EXCEPT ![h] = 0]
    BY <1>1 DEF Lease, QueueState
  <2>3. r2.age \in [Job -> 0..LeaseTicks]
    BY <1>1, <2>2, StepQueueAssumption DEF QueueState
  <2> QED
    BY <1>1, <1>2, <2>1, <2>3 DEF QueueState, Lease
<1>4. Placed(r2, P)
  BY <1>1, <1>2 DEF Placed
<1>5. Counted(r2)
  BY <1>1, <1>2 DEF Counted
<1> QED
  BY <1>3, <1>4, <1>5 DEF Well

\* ack moves a leased job to the completed ones.
LEMMA AckEffect ==
  ASSUME NEW P, NEW r, Well(r, P), NEW j \in Leased(r)
  PROVE  LET r2 == Ack(r, j)
         IN /\ r2.queued = r.queued
            /\ r2.owner = [r.owner EXCEPT ![j] = NoWorker]
            /\ Leased(r2) = Leased(r) \ {j}
            /\ r2.completed = r.completed \cup {j} /\ r2.failed = r.failed
            /\ r2.attempts = r.attempts
<1> DEFINE r2 == Ack(r, j)
<1>1. r \in QueueState /\ j \in Job
  BY DEF Well, Leased
<1>2. /\ r2.queued = r.queued
      /\ r2.owner = [r.owner EXCEPT ![j] = NoWorker]
      /\ r2.completed = r.completed \cup {j} /\ r2.failed = r.failed
      /\ r2.attempts = r.attempts
  BY <1>1 DEF Ack, QueueState
<1>3. Leased(r2) = Leased(r) \ {j}
  BY <1>1, <1>2 DEF Leased, QueueState
<1> QED
  BY <1>2, <1>3

LEMMA AckWell ==
  ASSUME NEW P, NEW r, Well(r, P), NEW j \in Leased(r)
  PROVE  Well(Ack(r, j), P)
<1> DEFINE r2 == Ack(r, j)
<1>1. r \in QueueState /\ Placed(r, P) /\ Counted(r) /\ j \in Job
  BY DEF Well, Leased
<1>2. /\ r2.queued = r.queued
      /\ r2.owner = [r.owner EXCEPT ![j] = NoWorker]
      /\ Leased(r2) = Leased(r) \ {j}
      /\ r2.completed = r.completed \cup {j} /\ r2.failed = r.failed
      /\ r2.attempts = r.attempts
  BY AckEffect
<1>3. r2 \in QueueState
  <2>1. r2.owner \in [Job -> Worker \cup {NoWorker}]
    BY <1>1, <1>2 DEF QueueState
  <2>2. r2.age = [r.age EXCEPT ![j] = 0]
    BY <1>1 DEF Ack, QueueState
  <2>3. r2.age \in [Job -> 0..LeaseTicks]
    BY <1>1, <2>2, StepQueueAssumption DEF QueueState
  <2> QED
    BY <1>1, <1>2, <2>1, <2>3 DEF QueueState, Ack
<1>4. Placed(r2, P)
  BY <1>1, <1>2 DEF Placed
<1>5. Counted(r2)
  BY <1>1, <1>2 DEF Counted
<1> QED
  BY <1>3, <1>4, <1>5 DEF Well

\* nack charges a leased job one attempt, and queues it again or gives it up.
Charged(r, r2, j, requeue) ==
  /\ r2.queued \in Seq(Job) /\ Distinct(r2.queued)
  /\ r2.owner = [r.owner EXCEPT ![j] = NoWorker]
  /\ Leased(r2) = Leased(r) \ {j}
  /\ r2.completed = r.completed
  /\ r2.attempts = [r.attempts EXCEPT ![j] = @ + 1]
  /\ \/ /\ r.attempts[j] + 1 < Limit(j)
        /\ ToSet(r2.queued) = ToSet(r.queued) \cup {j}
        /\ r2.failed = r.failed
     \/ /\ requeue => ~(r.attempts[j] + 1 < Limit(j))
        /\ ToSet(r2.queued) = ToSet(r.queued)
        /\ r2.failed = r.failed \cup {j}

LEMMA NackEffect ==
  ASSUME NEW P, NEW r, Well(r, P), NEW j \in Leased(r), NEW requeue \in BOOLEAN
  PROVE  Charged(r, Nack(r, j, requeue), j, requeue)
<1> DEFINE r2 == Nack(r, j, requeue)
<1>1. r \in QueueState /\ Placed(r, P) /\ j \in Job
  BY DEF Well, Leased
<1>2. r.queued \in Seq(Job) /\ Distinct(r.queued) /\ j \notin ToSet(r.queued)
  BY <1>1 DEF QueueState, Placed
<1>3. /\ Append(r.queued, j) \in Seq(Job)
      /\ ToSet(Append(r.queued, j)) = ToSet(r.queued) \cup {j}
      /\ Distinct(Append(r.queued, j))
  BY <1>1, <1>2, AppendDistinct
<1>4. /\ r2.owner = [r.owner EXCEPT ![j] = NoWorker]
      /\ r2.completed = r.completed
      /\ r2.attempts = [r.attempts EXCEPT ![j] = @ + 1]
  BY <1>1 DEF Nack, NackOutcome, QueueState
<1>5. Leased(r2) = Leased(r) \ {j}
  BY <1>1, <1>4 DEF Leased, QueueState
<1>6. CASE NackOutcome(r, j, requeue) = "requeued"
  <2>1. r.attempts[j] + 1 < Limit(j)
    BY <1>6 DEF NackOutcome
  <2>2. r2.queued = Append(r.queued, j) /\ r2.failed = r.failed
    BY <1>1, <1>6 DEF Nack, QueueState
  <2> QED
    BY <1>3, <1>4, <1>5, <2>1, <2>2 DEF Charged
<1>7. CASE NackOutcome(r, j, requeue) = "failed"
  <2>1. requeue => ~(r.attempts[j] + 1 < Limit(j))
    BY <1>7 DEF NackOutcome
  <2>2. r2.queued = r.queued /\ r2.failed = r.failed \cup {j}
    BY <1>1, <1>7 DEF Nack, QueueState
  <2> QED
    BY <1>2, <1>4, <1>5, <2>1, <2>2 DEF Charged
<1> QED
  BY <1>6, <1>7 DEF NackOutcome

LEMMA NackWell ==
  ASSUME NEW P, NEW r, Well(r, P), NEW j \in Leased(r), NEW requeue \in BOOLEAN
  PROVE  Well(Nack(r, j, requeue), P)
<1> DEFINE r2 == Nack(r, j, requeue)
<1>1. r \in QueueState /\ Placed(r, P) /\ Counted(r) /\ j \in Job
  BY DEF Well, Leased
<1>2. r.attempts[j] \in Nat /\ Limit(j) \in Nat /\ r.attempts[j] < Limit(j)
  BY <1>1, LimitType DEF QueueState, Counted
<1>3. Charged(r, r2, j, requeue)
  BY NackEffect
<1>4. r2 \in QueueState
  <2>1. r2.owner \in [Job -> Worker \cup {NoWorker}]
    BY <1>1, <1>3 DEF QueueState, Charged
  <2>2. r2.age = [r.age EXCEPT ![j] = 0]
    BY <1>1 DEF Nack, NackOutcome, QueueState
  <2>3. r2.age \in [Job -> 0..LeaseTicks]
    BY <1>1, <2>2, StepQueueAssumption DEF QueueState
  <2>4. r2.attempts \in [Job -> Nat] /\ r2.failed \in SUBSET Job /\ r2.completed \in SUBSET Job
    BY <1>1, <1>2, <1>3 DEF QueueState, Charged
  <2>5. r2 = [queued |-> r2.queued, owner |-> r2.owner, age |-> r2.age,
              completed |-> r2.completed, failed |-> r2.failed, attempts |-> r2.attempts]
    BY <1>1 DEF Nack, NackOutcome, QueueState
  <2> HIDE DEF r2
  <2> QED
    BY <1>3, <2>1, <2>3, <2>4, <2>5 DEF QueueState, Charged
<1>5. Placed(r2, P)
  BY <1>1, <1>3 DEF Placed, Charged
<1>6. \A k \in Job : r2.attempts[k] = IF k = j THEN r.attempts[j] + 1 ELSE r.attempts[k]
  BY <1>1, <1>3 DEF QueueState, Charged
<1>7. /\ ToSet(r.queued) \subseteq Job /\ Leased(r) \subseteq Job
      /\ r.completed \subseteq Job /\ r.failed \subseteq Job
  BY <1>1, RangeInJobs DEF Leased, QueueState
<1>8. Counted(r2)
  BY <1>1, <1>2, <1>3, <1>6, <1>7 DEF Counted, Placed, Charged
<1> QED
  BY <1>4, <1>5, <1>8 DEF Well

\* ack and nack of a job that has no lease change nothing.
LEMMA StaleCalls ==
  ASSUME NEW r, NEW j, j \notin Leased(r), NEW requeue
  PROVE  Ack(r, j) = r /\ Nack(r, j, requeue) = r
  BY DEF Ack, Nack, NackOutcome

LEMMA ExtendLeaseWell ==
  ASSUME NEW P, NEW r, Well(r, P), NEW j \in Job, NEW w \in Worker
  PROVE  /\ Well(ExtendLease(r, j, w), P)
         /\ ExtendLease(r, j, w).queued = r.queued /\ ExtendLease(r, j, w).owner = r.owner
         /\ ExtendLease(r, j, w).completed = r.completed
         /\ ExtendLease(r, j, w).failed = r.failed
         /\ ExtendLease(r, j, w).attempts = r.attempts
<1> DEFINE r2 == ExtendLease(r, j, w)
<1>1. r \in QueueState /\ Placed(r, P) /\ Counted(r)
  BY DEF Well
<1>2. /\ r2.queued = r.queued /\ r2.owner = r.owner /\ r2.completed = r.completed
      /\ r2.failed = r.failed /\ r2.attempts = r.attempts
  BY <1>1 DEF ExtendLease, QueueState
<1>3. [r.age EXCEPT ![j] = 0] \in [Job -> 0..LeaseTicks]
  BY <1>1, StepQueueAssumption DEF QueueState
<1>4. r2 \in QueueState
  BY <1>1, <1>3 DEF ExtendLease, QueueState
<1>5. Leased(r2) = Leased(r)
  BY <1>2 DEF Leased
<1> QED
  BY <1>1, <1>2, <1>4, <1>5 DEF Well, Placed, Counted

LEMMA AgeWell ==
  ASSUME NEW P, NEW r, Well(r, P)
  PROVE  /\ Well(Age(r), P)
         /\ Age(r).queued = r.queued /\ Age(r).owner = r.owner
         /\ Age(r).completed = r.completed /\ Age(r).failed = r.failed
         /\ Age(r).attempts = r.attempts
<1> DEFINE r2 == Age(r)
           older == [j \in Job |-> IF j \in Leased(r) /\ r.age[j] < LeaseTicks
                                   THEN r.age[j] + 1 ELSE r.age[j]]
<1>1. r \in QueueState /\ Placed(r, P) /\ Counted(r)
  BY DEF Well
<1>2. /\ r2.queued = r.queued /\ r2.owner = r.owner /\ r2.completed = r.completed
      /\ r2.failed = r.failed /\ r2.attempts = r.attempts
  BY <1>1 DEF Age, QueueState
<1>3. older \in [Job -> 0..LeaseTicks]
  <2> SUFFICES ASSUME NEW j \in Job
               PROVE  (IF j \in Leased(r) /\ r.age[j] < LeaseTicks
                       THEN r.age[j] + 1 ELSE r.age[j]) \in 0..LeaseTicks
    OBVIOUS
  <2>1. r.age[j] \in 0..LeaseTicks
    BY <1>1 DEF QueueState
  <2> QED
    BY <2>1, StepQueueAssumption
<1>4. r2 \in QueueState
  BY <1>1, <1>3 DEF Age, QueueState
<1>5. Leased(r2) = Leased(r)
  BY <1>2 DEF Leased
<1> QED
  BY <1>1, <1>2, <1>4, <1>5 DEF Well, Placed, Counted
=============================================================================
