------------------------ MODULE DistributedRunProofs ------------------------
(***************************************************************************)
(* The invariants of the distributed run, for every workflow and every     *)
(* number of workers, in three layers: what holds whatever leases lapse,   *)
(* processes die and runs are resumed; what holds when steps keep their    *)
(* leases; and what holds when, besides, the run is not resumed.           *)
(***************************************************************************)
EXTENDS DistributedRun, StepQueueProofs

\* Every layer.  The queue holds the steps pushed in this execution, each in
\* one place, and what it has finished has a result.
Queue == Well(q, queuedSteps) /\ q.completed \cup q.failed \subseteq Terminal

\* While no error stops the run, a counter never exceeds the needs that have no
\* result, and a step whose needs all have one has been pushed.
Unlocks ==
  stage = "running" /\ error = "none" =>
    /\ \A d \in Step : unresolved[d] <= Cardinality(Needs[d] \ Terminal)
    /\ \A d \in Step : Needs[d] \subseteq Terminal => d \in queuedSteps

IInv ==
  /\ TypeOK /\ Queue /\ Unlocks /\ ProgressIsDurable
  /\ stage = "running" => status = "none"

-----------------------------------------------------------------------------
\* Steps keep their leases: a job is leased to a worker exactly while it runs
\* there, no lease is older than the time that passed under running steps, and
\* a failure is one the queue has charged in full.
Runners == \A w \in Worker, s \in Step : q.owner[s] = w <=> holds[w] = s
Young == \A s \in Step : q.age[s] <= ticks

Unstarted == stage = "idle" => Idle

KeptInv == IInv /\ Runners /\ Young /\ Unstarted /\ FailureMeansExhausted

-----------------------------------------------------------------------------
\* The steps that are over in a way that lets their dependents start.
Settled == {s \in Step : results[s] = "success" \/ (results[s] = "failure" /\ s \in ContinueOnError)}

\* The run is not resumed: the counters are exact, and what was pushed has its
\* needs settled.
Exact ==
  /\ \A d \in Step : unresolved[d] = Cardinality(Needs[d] \ Settled)
  /\ \A d \in queuedSteps : Needs[d] \subseteq Settled

Finished == Terminal = q.completed \cup q.failed

OnceInv == KeptInv /\ Finished /\ Exact /\ CleanEnd

-----------------------------------------------------------------------------
(***************************************************************************)
(* Operators of the model                                                  *)
(***************************************************************************)
LEMMA NeedsFinite == \A d \in Step, T \in SUBSET Step :
                       /\ Needs[d] \subseteq Step
                       /\ IsFiniteSet(Needs[d] \ T) /\ Cardinality(Needs[d] \ T) \in Nat
<1> SUFFICES ASSUME NEW d \in Step, NEW T \in SUBSET Step
             PROVE  /\ Needs[d] \subseteq Step
                    /\ IsFiniteSet(Needs[d] \ T) /\ Cardinality(Needs[d] \ T) \in Nat
  OBVIOUS
<1>1. Needs[d] \subseteq Step
  BY DistributedRunAssumption
<1>2. IsFiniteSet(Needs[d] \ T)
  BY <1>1, StepQueueAssumption, FS_Subset DEF Step
<1> QED
  BY <1>1, <1>2, FS_CardinalityType

\* One more step out of the way leaves a dependent one need less.
LEMMA OneNeedLess ==
  ASSUME NEW d \in Step, NEW T \in SUBSET Step, NEW s \in Step
  PROVE  Cardinality(Needs[d] \ (T \cup {s}))
           = IF s \in Needs[d] \ T THEN Cardinality(Needs[d] \ T) - 1
             ELSE Cardinality(Needs[d] \ T)
<1>1. Needs[d] \ (T \cup {s}) = (Needs[d] \ T) \ {s}
  OBVIOUS
<1>2. IsFiniteSet(Needs[d] \ T)
  BY NeedsFinite
<1> QED
  BY <1>1, <1>2, FS_RemoveElement

\* Pushing a set of fresh steps, in any order.
LEMMA PushAllWell ==
  ASSUME NEW P, NEW r, Well(r, P), NEW S \in SUBSET Step, S \cap P = {},
         NEW order \in SetToSeqs(S)
  PROVE  /\ Well(PushAll(r, order), P \cup S)
         /\ PushAll(r, order).owner = r.owner /\ PushAll(r, order).age = r.age
         /\ PushAll(r, order).completed = r.completed /\ PushAll(r, order).failed = r.failed
         /\ \A j \in Step \ S : PushAll(r, order).attempts[j] = r.attempts[j]
<1> DEFINE r2 == PushAll(r, order)
<1>1. r \in QueueState /\ Placed(r, P) /\ Counted(r)
  BY DEF Well
<1>2. IsFiniteSet(S)
  BY StepQueueAssumption, FS_Subset DEF Step
<1>3. order \in Seq(S) /\ ToSet(order) = S /\ Distinct(order)
  BY <1>2, OrderOfSet
<1>4. order \in Seq(Job)
  BY <1>3 DEF Step
<1>5. r.queued \in Seq(Job) /\ Distinct(r.queued) /\ ToSet(r.queued) \cap S = {}
  BY <1>1 DEF QueueState, Placed
<1>6. /\ r.queued \o order \in Seq(Job) /\ Distinct(r.queued \o order)
      /\ ToSet(r.queued \o order) = ToSet(r.queued) \cup S
  BY <1>3, <1>4, <1>5, ConcatDistinct
<1>7. /\ r2.queued = r.queued \o order
      /\ r2.owner = r.owner /\ r2.age = r.age
      /\ r2.completed = r.completed /\ r2.failed = r.failed
      /\ r2.attempts = [s \in Step |-> IF s \in S THEN 0 ELSE r.attempts[s]]
  BY <1>1, <1>3 DEF PushAll, QueueState
<1>8. r2.attempts \in [Job -> Nat]
  BY <1>1, <1>7 DEF QueueState, Step
<1>9. r2 \in QueueState
  BY <1>1, <1>3, <1>6, <1>8 DEF PushAll, QueueState, Step
<1>10. Leased(r2) = Leased(r)
  BY <1>7 DEF Leased
<1> HIDE DEF r2
<1>11. /\ Distinct(r2.queued) /\ ToSet(r2.queued) = ToSet(r.queued) \cup S
  BY <1>6, <1>7
<1>12. Placed(r2, P \cup S)
  BY <1>1, <1>7, <1>10, <1>11 DEF Placed
<1>13. Counted(r2)
  <2>1. \A j \in S : r2.attempts[j] = 0 /\ 0 < Limit(j)
    BY <1>7, LimitType DEF Step
  <2>2. ToSet(r.queued) \cup Leased(r) \cup r.completed \cup r.failed \subseteq Step
    BY <1>1, <1>5, RangeInJobs DEF QueueState, Leased, Step
  <2>3. \A j \in Step \ S : r2.attempts[j] = r.attempts[j]
    BY <1>7
  <2>4. S \cap (ToSet(r.queued) \cup Leased(r) \cup r.completed \cup r.failed) = {}
    BY <1>1 DEF Placed
  <2> QED
    BY <1>1, <1>7, <1>10, <1>11, <2>1, <2>2, <2>3, <2>4 DEF Counted
<1>14. Well(r2, P \cup S)
  BY <1>9, <1>12, <1>13 DEF Well
<1> QED
  BY <1>7, <1>14 DEF r2

\* A push for each step the end of s unlocks.
LEMMA Unlocking ==
  ASSUME TypeOK, NEW r, Well(r, queuedSteps), NEW s \in Step, UnlockDependents(r, s)
  PROVE  /\ Well(q', queuedSteps') /\ queuedSteps' \subseteq Step
         /\ unresolved' \in [Step -> Int]
         /\ q'.owner = r.owner /\ q'.age = r.age
         /\ q'.completed = r.completed /\ q'.failed = r.failed
         /\ \A j \in queuedSteps : q'.attempts[j] = r.attempts[j]
<1> DEFINE S == Unlocked(unresolved, s) \ queuedSteps
<1>1. S \in SUBSET Step /\ S \cap queuedSteps = {} /\ queuedSteps' = queuedSteps \cup S
  BY DEF UnlockDependents, Unlocked, Dependents
<1>2. PICK order \in SetToSeqs(S) : q' = PushAll(r, order)
  BY DEF UnlockDependents
<1>3. unresolved' \in [Step -> Int]
  BY DEF UnlockDependents, Decremented, TypeOK
<1> HIDE DEF S
<1>4. queuedSteps \subseteq Step
  BY DEF TypeOK
<1> QED
  BY <1>1, <1>2, <1>3, <1>4, PushAllWell

-----------------------------------------------------------------------------
(***************************************************************************)
(* The first layer                                                         *)
(***************************************************************************)
LEMMA ResultTypes ==
  /\ NoResults \in [Step -> Result] /\ Begun \in [status : Disk, steps : [Step -> Result]]
  /\ \A st \in Disk, res \in [Step -> Result] :
       /\ Snapshot(st, res) \in [status : Disk, states : [Step -> Result]]
       /\ Finalized(st, res) \in [status : Disk, steps : [Step -> Result]]
  /\ \A rec \in [status : Disk, steps : [Step -> Result]], s \in Step, outcome \in Result :
       /\ StepUpdate(rec, s, outcome) \in [status : Disk, steps : [Step -> Result]]
       /\ StepUpdate(rec, s, outcome).status = rec.status
       /\ StepUpdate(rec, s, outcome).steps = [rec.steps EXCEPT ![s] = outcome]
BY DEF NoResults, Begun, Snapshot, Finalized, StepUpdate, Result, Disk

LEMMA FreshTypes ==
  /\ [w \in Worker |-> NoStep] \in [Worker -> Step \cup {NoStep}]
  /\ [s \in Step |-> Cardinality(Needs[s])] \in [Step -> Int]
<1>1. \A s \in Step : Needs[s] = Needs[s] \ {}
  OBVIOUS
<1>2. \A s \in Step : Cardinality(Needs[s]) \in Nat
  BY <1>1, NeedsFinite
<1> QED
  BY <1>2

LEMMA InitIInv == Init => IInv
<1> SUFFICES ASSUME Init PROVE IInv
  OBVIOUS
<1>1. Well(q, queuedSteps) /\ q.completed = {} /\ q.failed = {}
  BY EmptyQueueWell DEF Init, EmptyQueue
<1>2. TypeOK
  BY <1>1, ResultTypes, FreshTypes, DistributedRunAssumption
     DEF Init, TypeOK, Well, Snapshot, Result, Disk
<1>3. Unlocks /\ ProgressIsDurable /\ (stage = "running" => status = "none")
  BY DEF Init, Unlocks, ProgressIsDurable
<1> QED
  BY <1>1, <1>2, <1>3 DEF IInv, Queue

\* requeueExpired keeps the queue as it should be.
LEMMA Requeued ==
  ASSUME IInv, NEW r \in RequeueExpired(q)
  PROVE  /\ Well(r, queuedSteps)
         /\ r.completed \cup r.failed \subseteq Terminal
         /\ r.completed = q.completed /\ r.failed = q.failed
         /\ r.attempts = q.attempts
BY RequeueExpiredWell DEF IInv, Queue

\* What an action that touches the queue alone, or a worker, has to keep.
LEMMA RunKept ==
  ASSUME IInv, UNCHANGED <<runVars, stage, status, diskVars, resumes>>,
         Well(q', queuedSteps), q'.completed \cup q'.failed \subseteq Terminal,
         holds' \in [Worker -> Step \cup {NoStep}], ticks' \in 0..MaxTicks
  PROVE  IInv'
<1>1. TypeOK' /\ Terminal' = Terminal
  BY DEF IInv, TypeOK, runVars, diskVars, Well, Terminal
<1>2. Unlocks'
  BY <1>1 DEF IInv, Unlocks, runVars
<1>3. ProgressIsDurable' /\ (stage = "running" => status = "none")'
  BY DEF IInv, ProgressIsDurable, runVars, diskVars, Snapshot
<1> QED
  BY <1>1, <1>2, <1>3 DEF IInv, Queue, runVars

LEMMA PullKeeps == ASSUME IInv, NEW w \in Worker, Pull(w) PROVE IInv'
<1>1. PICK r \in RequeueExpired(q) :
        /\ r.queued # <<>> /\ q' = Lease(r, w)
        /\ holds' = [holds EXCEPT ![w] = Head(r.queued)]
  BY DEF Pull
<1>2. Well(r, queuedSteps) /\ r.completed \cup r.failed \subseteq Terminal
  BY <1>1, Requeued
<1>3. /\ Well(q', queuedSteps) /\ Head(r.queued) \in Step
      /\ q'.completed = r.completed /\ q'.failed = r.failed
  BY <1>1, <1>2, LeaseWell, LeaseEffect DEF Step
<1>4. holds' \in [Worker -> Step \cup {NoStep}] /\ ticks' \in 0..MaxTicks
  BY <1>1, <1>3 DEF Pull, IInv, TypeOK
<1> QED
  BY <1>2, <1>3, <1>4, RunKept DEF Pull

\* nack, whether the job still has its lease or not.
LEMMA NackKeepsQueue ==
  ASSUME IInv, NEW r \in RequeueExpired(q), NEW s \in Step
  PROVE  /\ Well(Nack(r, s, TRUE), queuedSteps)
         /\ Nack(r, s, TRUE).completed = r.completed
         /\ Nack(r, s, TRUE).failed =
              IF NackOutcome(r, s, TRUE) = "failed" THEN r.failed \cup {s} ELSE r.failed
<1> DEFINE r2 == Nack(r, s, TRUE)
<1>1. Well(r, queuedSteps) /\ s \in Job
  BY Requeued DEF Step
<1>2. CASE s \notin Leased(r)
  BY <1>1, <1>2, StaleCalls DEF NackOutcome
<1>3. CASE s \in Leased(r)
  <2>1. Well(r2, queuedSteps) /\ r2.completed = r.completed
    BY <1>1, <1>3, NackWell, NackEffect DEF Charged
  <2>2. r \in QueueState
    BY <1>1 DEF Well
  <2>3. NackOutcome(r, s, TRUE) \in {"requeued", "failed"}
    BY <1>3 DEF NackOutcome
  <2>4. r2.failed = IF NackOutcome(r, s, TRUE) = "failed" THEN r.failed \cup {s} ELSE r.failed
    BY <1>3, <2>2, <2>3 DEF Nack, QueueState
  <2> QED
    BY <2>1, <2>4
<1> QED
  BY <1>2, <1>3

LEMMA RetryKeeps == ASSUME IInv, NEW w \in Worker, FailAndRetry(w) PROVE IInv'
<1>1. PICK r \in RequeueExpired(q) :
        NackOutcome(r, holds[w], TRUE) = "requeued" /\ q' = Nack(r, holds[w], TRUE)
  BY DEF FailAndRetry
<1>2. holds[w] \in Step /\ r.completed \cup r.failed \subseteq Terminal
  BY <1>1, Requeued DEF FailAndRetry
<1>3. Well(q', queuedSteps) /\ q'.completed \cup q'.failed \subseteq Terminal
  BY <1>1, <1>2, NackKeepsQueue
<1>4. holds' \in [Worker -> Step \cup {NoStep}] /\ ticks' \in 0..MaxTicks
  BY DEF FailAndRetry, IInv, TypeOK
<1> QED
  BY <1>3, <1>4, RunKept DEF FailAndRetry

LEMMA QuietKeeps ==
  ASSUME IInv, (\E w \in Worker : Throw(w) \/ Heartbeat(w)) \/ Tick
  PROVE  IInv'
<1>1. Well(q, queuedSteps) /\ q.completed \cup q.failed \subseteq Terminal
  BY DEF IInv, Queue
<1>2. ASSUME NEW w \in Worker, Throw(w) PROVE IInv'
  <2>1. holds' \in [Worker -> Step \cup {NoStep}] /\ ticks' \in 0..MaxTicks
    BY <1>2 DEF Throw, IInv, TypeOK
  <2>2. Well(q', queuedSteps) /\ q'.completed \cup q'.failed \subseteq Terminal
    BY <1>1, <1>2 DEF Throw
  <2> QED
    BY <1>2, <2>1, <2>2, RunKept DEF Throw
<1>3. ASSUME NEW w \in Worker, Heartbeat(w) PROVE IInv'
  <2>1. PICK r \in RequeueExpired(q) : q' = ExtendLease(r, holds[w], w)
    BY <1>3 DEF Heartbeat
  <2>2. Well(r, queuedSteps) /\ r.completed \cup r.failed \subseteq Terminal
    BY <2>1, Requeued
  <2>3. holds[w] \in Job
    BY <1>3 DEF Heartbeat, IInv, TypeOK, Step
  <2>4. /\ Well(q', queuedSteps)
        /\ q'.completed = r.completed /\ q'.failed = r.failed
    BY <2>1, <2>2, <2>3, ExtendLeaseWell
  <2>5. holds' \in [Worker -> Step \cup {NoStep}] /\ ticks' \in 0..MaxTicks
    BY <1>3 DEF Heartbeat, IInv, TypeOK
  <2> QED
    BY <1>3, <2>2, <2>4, <2>5, RunKept DEF Heartbeat
<1>4. CASE Tick
  <2>1. q' = Age(q) /\ ticks' \in 0..MaxTicks
    BY <1>4, DistributedRunAssumption DEF Tick, IInv, TypeOK
  <2>2. /\ Well(q', queuedSteps)
        /\ q'.completed = q.completed /\ q'.failed = q.failed
    BY <1>1, <2>1, AgeWell
  <2>3. holds' \in [Worker -> Step \cup {NoStep}]
    BY <1>4 DEF Tick, IInv, TypeOK
  <2> QED
    BY <1>1, <1>4, <2>1, <2>2, <2>3, RunKept DEF Tick
<1> QED
  BY <1>2, <1>3, <1>4

\* The result of a step, and what the two files then say.
LEMMA Recorded ==
  ASSUME IInv, NEW s \in Step, NEW outcome \in {"success", "failure"},
         RecordResult(s, outcome), stage' = stage
  PROVE  /\ results' \in [Step -> Result] /\ results' = [results EXCEPT ![s] = outcome]
         /\ Terminal' = Terminal \cup {s}
         /\ checkpoint' \in [status : Disk, states : [Step -> Result]]
         /\ record' \in [status : Disk, steps : [Step -> Result]]
         /\ ProgressIsDurable'
<1>1. outcome \in Result /\ outcome # "none" /\ "running" \in Disk
  BY DEF Result, Disk
<1>2. /\ results \in [Step -> Result] /\ record \in [status : Disk, steps : [Step -> Result]]
      /\ results' = [results EXCEPT ![s] = outcome]
  BY DEF IInv, TypeOK, RecordResult
<1>3. results' \in [Step -> Result]
  BY <1>1, <1>2
<1>4. Terminal' = Terminal \cup {s}
  BY <1>1, <1>2 DEF Terminal
<1>5. checkpoint' = Snapshot("running", results')
  BY DEF RecordResult, SaveProgress
<1>6. checkpoint' \in [status : Disk, states : [Step -> Result]]
  BY <1>1, <1>3, <1>5, ResultTypes
<1>7. /\ record' \in [status : Disk, steps : [Step -> Result]]
      /\ record'.status = record.status /\ record'.steps = [record.steps EXCEPT ![s] = outcome]
  BY <1>1, <1>2, ResultTypes DEF RecordResult
<1>8. ProgressIsDurable'
  <2> SUFFICES ASSUME stage' = "running"
               PROVE  /\ record'.status = "running"
                      /\ \A t \in Step : record'.steps[t] \in {"none", results'[t]}
    BY <1>5 DEF ProgressIsDurable, Snapshot
  <2>1. record.status = "running" /\ \A t \in Step : record.steps[t] \in {"none", results[t]}
    BY DEF IInv, ProgressIsDurable
  <2> QED
    BY <1>2, <1>7, <2>1
<1> QED
  BY <1>2, <1>3, <1>4, <1>6, <1>7, <1>8

\* A step ends with a result and unlocks its dependents.
LEMMA SettleKeeps ==
  ASSUME IInv, NEW w \in Worker, NEW s \in Step, NEW outcome \in {"success", "failure"},
         NEW r, Well(r, queuedSteps), r.completed \cup r.failed \subseteq Terminal \cup {s},
         UnlockDependents(r, s), RecordResult(s, outcome),
         holds' = [holds EXCEPT ![w] = NoStep],
         UNCHANGED <<error, stage, status, ticks, resumes>>
  PROVE  IInv'
<1>1. /\ Well(q', queuedSteps') /\ queuedSteps' \subseteq Step
      /\ unresolved' \in [Step -> Int]
      /\ q'.completed = r.completed /\ q'.failed = r.failed
  BY Unlocking DEF IInv
<1>2. /\ results' \in [Step -> Result] /\ Terminal' = Terminal \cup {s}
      /\ checkpoint' \in [status : Disk, states : [Step -> Result]]
      /\ record' \in [status : Disk, steps : [Step -> Result]]
      /\ ProgressIsDurable'
  BY Recorded
<1>3. TypeOK'
  BY <1>1, <1>2 DEF IInv, TypeOK, Well
<1>4. Queue'
  BY <1>1, <1>2 DEF Queue
<1>5. Unlocks'
  <2> SUFFICES ASSUME stage' = "running", error' = "none"
               PROVE  /\ \A d \in Step : unresolved'[d] <= Cardinality(Needs[d] \ Terminal')
                      /\ \A d \in Step : Needs[d] \subseteq Terminal' => d \in queuedSteps'
    BY DEF Unlocks
  <2>1. /\ \A d \in Step : unresolved[d] <= Cardinality(Needs[d] \ Terminal)
        /\ \A d \in Step : Needs[d] \subseteq Terminal => d \in queuedSteps
    BY DEF IInv, Unlocks
  <2>2. Terminal \in SUBSET Step /\ unresolved \in [Step -> Int]
    BY DEF Terminal, IInv, TypeOK
  <2>3. \A d \in Step : unresolved'[d] = IF s \in Needs[d] THEN unresolved[d] - 1 ELSE unresolved[d]
    BY DEF UnlockDependents, Decremented, Dependents
  <2>4. ASSUME NEW d \in Step
        PROVE  unresolved'[d] <= Cardinality(Needs[d] \ Terminal')
    <3> DEFINE n == Cardinality(Needs[d] \ Terminal)
    <3>1. Cardinality(Needs[d] \ Terminal') = IF s \in Needs[d] \ Terminal THEN n - 1 ELSE n
      BY <1>2, <2>2, OneNeedLess
    <3>2. n \in Nat /\ unresolved[d] \in Int /\ unresolved[d] <= n
      BY <2>1, <2>2, NeedsFinite
    <3> HIDE DEF n
    <3> QED
      BY <2>3, <3>1, <3>2
  <2>5. ASSUME NEW d \in Step, Needs[d] \subseteq Terminal', d \notin queuedSteps
        PROVE  d \in queuedSteps'
    <3>1. ~(Needs[d] \subseteq Terminal)
      BY <2>1, <2>5
    <3>2. s \in Needs[d] /\ Needs[d] \ Terminal = {s}
      BY <1>2, <2>5, <3>1
    <3>3. Cardinality(Needs[d] \ Terminal) = 1
      BY <3>2, FS_Singleton
    <3>4. unresolved[d] - 1 <= 0
      BY <2>1, <2>2, <3>3
    <3>5. d \in Unlocked(unresolved, s)
      BY <3>2, <3>4 DEF Unlocked, Dependents
    <3> QED
      BY <3>5 DEF UnlockDependents
  <2>6. queuedSteps \subseteq queuedSteps'
    BY DEF UnlockDependents
  <2> QED
    BY <2>4, <2>5, <2>6
<1> QED
  BY <1>2, <1>3, <1>4, <1>5 DEF IInv

LEMMA SucceedKeeps == ASSUME IInv, NEW w \in Worker, Succeed(w) PROVE IInv'
<1> DEFINE s == holds[w]
<1>1. PICK r \in RequeueExpired(q) : UnlockDependents(Ack(r, s), s)
  BY DEF Succeed
<1>2. s \in Step /\ RecordResult(s, "success")
  BY DEF Succeed
<1>3. Well(r, queuedSteps) /\ r.completed \cup r.failed \subseteq Terminal
  BY <1>1, Requeued
<1>4. /\ Well(Ack(r, s), queuedSteps)
      /\ Ack(r, s).completed \subseteq r.completed \cup {s} /\ Ack(r, s).failed = r.failed
  <2>1. CASE s \in Leased(r)
    BY <1>3, <2>1, AckWell, AckEffect
  <2>2. CASE s \notin Leased(r)
    BY <1>3, <2>2, StaleCalls
  <2> QED
    BY <2>1, <2>2
<1>5. /\ holds' = [holds EXCEPT ![w] = NoStep]
      /\ UNCHANGED <<error, stage, status, ticks, resumes>>
  BY DEF Succeed
<1> HIDE DEF s
<1> DEFINE r2 == Ack(r, s)
<1>6. Well(r2, queuedSteps) /\ r2.completed \cup r2.failed \subseteq Terminal \cup {s}
  BY <1>3, <1>4
<1>7. UnlockDependents(r2, s)
  BY <1>1
<1> HIDE DEF r2
<1> QED
  BY <1>2, <1>5, <1>6, <1>7, SettleKeeps

LEMMA ContinueKeeps == ASSUME IInv, NEW w \in Worker, FailAndContinue(w) PROVE IInv'
<1> DEFINE s == holds[w]
<1>1. PICK r \in RequeueExpired(q) : UnlockDependents(Nack(r, s, TRUE), s)
  BY DEF FailAndContinue
<1>2. s \in Step /\ RecordResult(s, "failure")
  BY DistributedRunAssumption DEF FailAndContinue
<1>3. r.completed \cup r.failed \subseteq Terminal
  BY <1>1, Requeued
<1>4. /\ holds' = [holds EXCEPT ![w] = NoStep]
      /\ UNCHANGED <<error, stage, status, ticks, resumes>>
  BY DEF FailAndContinue
<1> HIDE DEF s
<1> DEFINE r2 == Nack(r, s, TRUE)
<1>5. Well(r2, queuedSteps) /\ r2.completed \cup r2.failed \subseteq Terminal \cup {s}
  BY <1>1, <1>2, <1>3, NackKeepsQueue
<1>6. UnlockDependents(r2, s)
  BY <1>1
<1> HIDE DEF r2
<1> QED
  BY <1>2, <1>4, <1>5, <1>6, SettleKeeps

LEMMA AbortKeeps == ASSUME IInv, NEW w \in Worker, FailAndAbort(w) PROVE IInv'
<1> DEFINE s == holds[w]
<1>1. PICK r \in RequeueExpired(q) : q' = Nack(r, s, TRUE)
  BY DEF FailAndAbort
<1>2. s \in Step /\ RecordResult(s, "failure")
  BY DEF FailAndAbort
<1>3. r.completed \cup r.failed \subseteq Terminal
  BY <1>1, Requeued
<1>4. /\ holds' = [holds EXCEPT ![w] = NoStep] /\ error' \in {"failure", "timeout"}
      /\ UNCHANGED <<unresolved, queuedSteps, stage, status, ticks, resumes>>
  BY DEF FailAndAbort
<1> HIDE DEF s
<1>5. Well(q', queuedSteps) /\ q'.completed \cup q'.failed \subseteq Terminal \cup {s}
  BY <1>1, <1>2, <1>3, NackKeepsQueue
<1>6. /\ results' \in [Step -> Result] /\ Terminal' = Terminal \cup {s}
      /\ checkpoint' \in [status : Disk, states : [Step -> Result]]
      /\ record' \in [status : Disk, steps : [Step -> Result]]
      /\ ProgressIsDurable'
  BY <1>2, <1>4, Recorded
<1>7. TypeOK'
  BY <1>4, <1>5, <1>6 DEF IInv, TypeOK, Well
<1>8. Queue'
  BY <1>4, <1>5, <1>6 DEF Queue
<1>9. Unlocks'
  BY <1>4 DEF Unlocks
<1> QED
  BY <1>4, <1>6, <1>7, <1>8, <1>9 DEF IInv

-----------------------------------------------------------------------------
\* A restart from results that are all successes or absent.
LEMMA RestartKeeps ==
  ASSUME IInv, NEW res \in [Step -> Result], Restart(res), resumes' \in 0..MaxResumes
  PROVE  /\ IInv' /\ q'.completed = {} /\ q'.failed = {} /\ Leased(q') = {}
         /\ \A s \in Step : q'.owner[s] = NoWorker /\ q'.age[s] = 0
<1> DEFINE restored == {s \in Step : res[s] # "none"}
           first == UnlockedBy(restored) \cup InitialSteps
<1>1. first \in SUBSET Step /\ restored \in SUBSET Step
  BY DEF UnlockedBy, InitialSteps
<1>2. PICK order \in SetToSeqs(first) : q' = PushAll(EmptyQueue, order)
  BY DEF Restart
<1>3. /\ results' = res /\ unresolved' = [s \in Step |-> Cardinality(Needs[s] \ restored)]
      /\ queuedSteps' = first
      /\ checkpoint' = Snapshot("running", res) /\ record' = Begun
      /\ error' = "none" /\ stage' = "running" /\ status' = "none"
      /\ holds' = holds /\ ticks' = ticks
  BY DEF Restart, SaveProgress
<1>4. Terminal' = restored
  BY <1>3 DEF Terminal
<1>5. \A d \in Step : Needs[d] \subseteq restored => d \in first
  BY DEF UnlockedBy, InitialSteps
<1> HIDE DEF first, restored
<1>6. /\ Well(EmptyQueue, {}) /\ EmptyQueue.completed = {} /\ EmptyQueue.failed = {}
      /\ \A s \in Step : EmptyQueue.owner[s] = NoWorker /\ EmptyQueue.age[s] = 0
  BY EmptyQueueWell DEF EmptyQueue, Step
<1> DEFINE none == {}
<1>7. first \cap none = {} /\ none \cup first = first /\ Well(EmptyQueue, none)
  BY <1>6
<1> HIDE DEF none
<1>8. /\ Well(q', first) /\ q'.owner = EmptyQueue.owner /\ q'.age = EmptyQueue.age
      /\ q'.completed = {} /\ q'.failed = {}
  <2>1. /\ Well(PushAll(EmptyQueue, order), none \cup first)
        /\ PushAll(EmptyQueue, order).owner = EmptyQueue.owner
        /\ PushAll(EmptyQueue, order).age = EmptyQueue.age
        /\ PushAll(EmptyQueue, order).completed = EmptyQueue.completed
        /\ PushAll(EmptyQueue, order).failed = EmptyQueue.failed
    BY <1>1, <1>2, <1>7, PushAllWell
  <2> QED
    BY <1>2, <1>6, <1>7, <2>1
<1>9. unresolved' \in [Step -> Int]
  <2>1. \A s \in Step : Cardinality(Needs[s] \ restored) \in Nat
    BY <1>1, NeedsFinite
  <2> QED
    BY <1>3, <2>1
<1>10. /\ checkpoint' \in [status : Disk, states : [Step -> Result]]
       /\ record' \in [status : Disk, steps : [Step -> Result]]
  <2>1. "running" \in Disk
    BY DEF Disk
  <2> QED
    BY <1>3, <2>1, ResultTypes
<1>11. TypeOK'
  BY <1>1, <1>3, <1>8, <1>9, <1>10 DEF IInv, TypeOK, Well
<1>12. Queue'
  BY <1>3, <1>8 DEF Queue
<1>13. Unlocks'
  <2>1. \A d \in Step : Cardinality(Needs[d] \ restored) \in Nat
    BY <1>1, NeedsFinite
  <2>2. \A d \in Step : unresolved'[d] <= Cardinality(Needs[d] \ Terminal')
    BY <1>3, <1>4, <2>1
  <2> QED
    BY <1>3, <1>4, <1>5, <2>2 DEF Unlocks
<1>14. ProgressIsDurable'
  BY <1>3 DEF ProgressIsDurable, Begun, NoResults
<1>15. IInv'
  BY <1>3, <1>11, <1>12, <1>13, <1>14 DEF IInv
<1> QED
  BY <1>6, <1>8, <1>15 DEF Leased, Step

LEMMA StartKeeps == ASSUME IInv, Start PROVE IInv'
<1>1. NoResults \in [Step -> Result] /\ resumes' \in 0..MaxResumes
  BY ResultTypes DEF Start, IInv, TypeOK
<1> QED
  BY <1>1, RestartKeeps DEF Start

LEMMA RestoredType == IInv => Restored \in [Step -> Result]
  BY DEF Restored, Result

LEMMA ResumeKeeps ==
  ASSUME IInv, ResumeFromCheckpoint \/ ResumeFresh \/ ResumeRefused
  PROVE  IInv'
<1>1. resumes' \in 0..MaxResumes
  BY DistributedRunAssumption
     DEF ResumeFromCheckpoint, ResumeFresh, ResumeRefused, MayResume, IInv, TypeOK
<1>2. CASE ResumeFromCheckpoint
  BY <1>1, <1>2, RestoredType, RestartKeeps DEF ResumeFromCheckpoint
<1>3. CASE ResumeFresh
  BY <1>1, <1>3, ResultTypes, RestartKeeps DEF ResumeFresh
<1>4. CASE ResumeRefused
  <2>1. record' \in [status : Disk, steps : [Step -> Result]]
    BY <1>4, ResultTypes DEF ResumeRefused
  <2>2. TypeOK' /\ Terminal' = Terminal
    BY <1>1, <1>4, <2>1 DEF ResumeRefused, IInv, TypeOK, queueVars, runVars, Terminal
  <2>3. stage' \in {"crashed", "ended"}
    BY <1>4 DEF ResumeRefused, MayResume
  <2>4. Queue'
    BY <1>4, <2>2 DEF ResumeRefused, IInv, Queue, queueVars, runVars
  <2> QED
    BY <2>2, <2>3, <2>4 DEF IInv, Unlocks, ProgressIsDurable
<1> QED
  BY <1>2, <1>3, <1>4

LEMMA CrashKeeps == ASSUME IInv, Crash PROVE IInv'
<1>1. /\ stage' = "crashed" /\ q' = EmptyQueue /\ queuedSteps' = {} /\ results' = NoResults
      /\ holds' = [w \in Worker |-> NoStep] /\ error' = "none" /\ status' = "none"
      /\ unresolved' = [s \in Step |-> Cardinality(Needs[s])]
      /\ record' = record /\ ticks' = ticks /\ resumes' = resumes
  BY DEF Crash
<1>2. checkpoint' \in [status : Disk, states : [Step -> Result]]
  BY ResultTypes DEF Crash, IInv, TypeOK, Disk
<1>3. Well(q', {}) /\ q'.completed = {} /\ q'.failed = {}
  BY <1>1, EmptyQueueWell DEF EmptyQueue
<1>4. TypeOK'
  BY <1>1, <1>2, <1>3, ResultTypes, FreshTypes DEF IInv, TypeOK, Well
<1> QED
  BY <1>1, <1>3, <1>4 DEF IInv, Queue, Unlocks, ProgressIsDurable

-----------------------------------------------------------------------------
LEMMA StatusTypes ==
  /\ \A res, err \in {"none", "failure", "timeout"} :
       StatusOf(res, err) \in {"success", "partial", "failure", "timeout"}
  /\ \A st : DiskStatus(st) \in Disk
  /\ \A st : st \in {"success", "partial"} => DiskStatus(st) = "completed"
BY DEF StatusOf, DiskStatus, Disk

\* The end of the run, from the queue its last look has left.
LEMMA EndKeeps ==
  ASSUME IInv, NEW err \in {"none", "failure", "timeout"}, End(err),
         q' = q \/ q' \in RequeueExpired(q)
  PROVE  IInv'
<1>1. /\ error' = err /\ status' = StatusOf(results, err) /\ stage' = "ended"
      /\ record' = Finalized(DiskStatus(StatusOf(results, err)), results)
      /\ checkpoint' = Snapshot(DiskStatus(StatusOf(results, err)), results)
      /\ UNCHANGED <<holds, results, unresolved, queuedSteps, ticks, resumes>>
  BY DEF End
<1>2. Well(q', queuedSteps) /\ q'.completed = q.completed /\ q'.failed = q.failed
  BY Requeued DEF IInv, Queue
<1>3. /\ record' \in [status : Disk, steps : [Step -> Result]]
      /\ checkpoint' \in [status : Disk, states : [Step -> Result]]
      /\ status' \in {"success", "partial", "failure", "timeout"}
  <2>1. results \in [Step -> Result]
    BY DEF IInv, TypeOK
  <2>2. StatusOf(results, err) \in {"success", "partial", "failure", "timeout"}
    BY DEF StatusOf
  <2>3. DiskStatus(StatusOf(results, err)) \in Disk
    BY StatusTypes
  <2> QED
    BY <1>1, <2>1, <2>2, <2>3, ResultTypes
<1>4. TypeOK' /\ Terminal' = Terminal
  BY <1>1, <1>2, <1>3 DEF IInv, TypeOK, Well, Terminal
<1>5. Queue'
  BY <1>1, <1>2, <1>4 DEF IInv, Queue
<1> QED
  BY <1>1, <1>4, <1>5 DEF IInv, Unlocks, ProgressIsDurable

LEMMA OrchestratorKeeps ==
  ASSUME IInv, EndLoop \/ Poll \/ EndTimeout
  PROVE  IInv'
<1>1. CASE EndLoop
  BY <1>1, EndKeeps DEF EndLoop, IInv, TypeOK
<1>2. CASE Poll /\ End("none")
  BY <1>2, EndKeeps DEF Poll
<1>3. CASE Poll /\ UNCHANGED <<holds, runVars, stage, status, diskVars, ticks, resumes>>
  <2>1. q' \in RequeueExpired(q)
    BY <1>3 DEF Poll
  <2>2. Well(q', queuedSteps) /\ q'.completed \cup q'.failed \subseteq Terminal
    BY <2>1, Requeued
  <2>3. holds' \in [Worker -> Step \cup {NoStep}] /\ ticks' \in 0..MaxTicks
    BY <1>3 DEF IInv, TypeOK
  <2> QED
    BY <1>3, <2>2, <2>3, RunKept
<1>4. CASE EndTimeout
  BY <1>4, EndKeeps DEF EndTimeout
<1> QED
  BY <1>1, <1>2, <1>3, <1>4 DEF Poll

LEMMA NextKeeps == IInv /\ [Next]_vars => IInv'
<1>1. ASSUME IInv, UNCHANGED vars PROVE IInv'
  <2>1. Terminal' = Terminal
    BY <1>1 DEF vars, runVars, Terminal
  <2> QED
    BY <1>1, <2>1 DEF IInv, TypeOK, Queue, Unlocks, ProgressIsDurable, Snapshot,
                      vars, queueVars, runVars, diskVars
<1> QED
  BY <1>1, StartKeeps, ResumeKeeps, PullKeeps, SucceedKeeps, RetryKeeps, ContinueKeeps,
     AbortKeeps, QuietKeeps, OrchestratorKeeps, CrashKeeps DEF Next, StepEnds

\* Whatever leases lapse and processes die, the queue, the results, the counters
\* and the files agree as IInv says.
THEOREM Invariance == Spec => []IInv
  BY InitIInv, NextKeeps, PTL DEF Spec

\* The types of the queue, of the results and counters, and of the two files.
THEOREM TypeCorrect == Spec => []TypeOK
<1>1. IInv => TypeOK
  BY DEF IInv
<1> QED
  BY <1>1, Invariance, PTL

\* Wherever a process may die, the checkpoint of a running run holds exactly the
\* results the run has, and the execution record holds no other.
THEOREM ProgressDurable == Spec => []ProgressIsDurable
<1>1. IInv => ProgressIsDurable
  BY DEF IInv
<1> QED
  BY <1>1, Invariance, PTL

\* A graph all of whose steps are finished once their needs are has no step left.
LEMMA NoStepLeft ==
  ASSUME NEW T \in SUBSET Step, \A d \in Step : Needs[d] \subseteq T => d \in T
  PROVE  T = Step
<1> DEFINE rest == Step \ T
<1>1. SUFFICES ASSUME rest # {} PROVE FALSE
  OBVIOUS
<1>2. PICK s \in rest : Needs[s] \cap rest = {}
  BY <1>1, DistributedRunAssumption
<1>3. Needs[s] \subseteq T
  BY <1>2, NeedsFinite
<1> QED
  BY <1>2, <1>3

\* When the wait loop finds the queue drained, no step is left without a result.
LEMMA DrainedIsDone ==
  ASSUME IInv, Waits, NEW r \in RequeueExpired(q), Drained(r)
  PROVE  Terminal = Step
<1>1. Well(r, queuedSteps) /\ r.completed \cup r.failed \subseteq Terminal
  BY Requeued
<1>2. ToSet(r.queued) = {} /\ Leased(r) = {}
  BY DEF Drained, ToSet
<1>3. queuedSteps \subseteq Terminal
  BY <1>1, <1>2 DEF Well, Placed
<1>4. \A d \in Step : Needs[d] \subseteq Terminal => d \in queuedSteps
  BY DEF IInv, Unlocks, Waits
<1>5. Terminal \in SUBSET Step
  BY DEF Terminal
<1> QED
  BY <1>3, <1>4, <1>5, NoStepLeft

\* A run reported as a success, entirely or in part, has a result for every
\* step, though the wait loop only asks whether the queue is drained: with
\* expired leases, late answers, crashes and resumptions.
THEOREM CompletenessHolds == Spec => CompleteWhenReported
<1>1. ASSUME IInv, [Next]_vars, stage = "running", status' \in {"success", "partial"}
      PROVE  Terminal = Step
  <2>1. status = "none"
    BY <1>1 DEF IInv
  <2>2. EndLoop \/ Poll \/ EndTimeout
    BY <1>1, <2>1 DEF Next, vars, StepEnds, Start, Restart, ResumeFromCheckpoint, ResumeFresh,
         ResumeRefused, MayResume, Pull, Succeed, FailAndRetry, FailAndContinue, FailAndAbort,
         Throw, Heartbeat, Tick, Crash
  <2>3. CASE EndLoop
    <3>1. Terminal = Step \/ error # "none"
      BY <1>1, <2>3 DEF EndLoop, Waits
    <3>2. status' = StatusOf(results, error) /\ error \in {"none", "failure", "timeout"}
      BY <1>1, <2>3 DEF EndLoop, End, IInv, TypeOK
    <3> QED
      BY <1>1, <3>1, <3>2 DEF StatusOf
  <2>4. CASE Poll
    <3>1. PICK r \in RequeueExpired(q) :
            IF Drained(r) THEN End("none")
            ELSE UNCHANGED <<holds, runVars, stage, status, diskVars, ticks, resumes>>
      BY <2>4 DEF Poll
    <3>2. Drained(r)
      BY <1>1, <2>1, <3>1
    <3> QED
      BY <1>1, <2>4, <3>2, DrainedIsDone DEF Poll
  <2>5. CASE EndTimeout
    <3>1. status' = StatusOf(results, "timeout")
      BY <2>5 DEF EndTimeout, End
    <3> QED
      BY <1>1, <3>1 DEF StatusOf
  <2> QED
    BY <2>2, <2>3, <2>4, <2>5
<1>2. IInv /\ [Next]_vars =>
        [stage = "running" /\ status' \in {"success", "partial"} => Terminal = Step]_vars
  BY <1>1
<1> QED
  BY <1>2, Invariance, PTL DEF Spec, CompleteWhenReported

-----------------------------------------------------------------------------
(***************************************************************************)
(* The second layer: steps keep their leases                               *)
(***************************************************************************)
LEMMA NothingLapses ==
  ASSUME LeasesKept, KeptInv, NEW r \in RequeueExpired(q)
  PROVE  r = q
<1>1. q \in QueueState /\ ticks \in Nat /\ ticks <= MaxTicks
  BY DistributedRunAssumption DEF KeptInv, IInv, TypeOK
<1>2. LeaseTicks \in Nat /\ MaxTicks \in Nat /\ MaxTicks < LeaseTicks
  BY StepQueueAssumption, DistributedRunAssumption DEF LeasesKept
<1>3. \A j \in Job : q.age[j] \in Nat /\ q.age[j] <= ticks
  BY <1>1, StepQueueAssumption DEF KeptInv, Young, QueueState, Step
<1>4. Lapsed(q) = {}
  <2> SUFFICES ASSUME NEW j \in Job PROVE ~(q.age[j] >= LeaseTicks)
    BY DEF Lapsed, Leased
  <2> QED
    BY <1>1, <1>2, <1>3
<1>5. PICK s \in SetToSeqs({}) :
        r = [q EXCEPT !.queued = q.queued \o s,
               !.owner = [j \in Job |-> IF j \in Lapsed(q) THEN NoWorker ELSE q.owner[j]],
               !.age = [j \in Job |-> IF j \in Lapsed(q) THEN 0 ELSE q.age[j]]]
  BY <1>4 DEF RequeueExpired
<1>6. s = <<>>
  <2>1. s \in Seq({})
    BY OrderOfSet, FS_EmptySet
  <2> QED
    BY <2>1
<1>7. q.queued \o s = q.queued
  BY <1>1, <1>6 DEF QueueState
<1>8. /\ [j \in Job |-> IF j \in Lapsed(q) THEN NoWorker ELSE q.owner[j]] = q.owner
      /\ [j \in Job |-> IF j \in Lapsed(q) THEN 0 ELSE q.age[j]] = q.age
  BY <1>1, <1>4 DEF QueueState
<1> QED
  BY <1>1, <1>5, <1>7, <1>8 DEF QueueState

\* A running step has the lease of its job.
LEMMA RunningIsLeased ==
  ASSUME KeptInv, NEW w \in Worker, holds[w] \in Step
  PROVE  /\ holds[w] \in Leased(q) /\ holds[w] \in queuedSteps
         /\ q.owner[holds[w]] = w
         /\ holds[w] \notin q.completed \cup q.failed
         /\ q.attempts[holds[w]] \in Nat /\ Limit(holds[w]) \in Nat
         /\ q.attempts[holds[w]] < Limit(holds[w])
<1>1. q.owner[holds[w]] = w
  BY DEF KeptInv, Runners
<1>2. holds[w] \in Leased(q)
  BY <1>1, StepQueueAssumption DEF Leased, Step
<1>3. q \in QueueState /\ Placed(q, queuedSteps) /\ Counted(q)
  BY DEF KeptInv, IInv, Queue, Well
<1>4. q.attempts[holds[w]] \in Nat /\ Limit(holds[w]) \in Nat
  BY <1>3, LimitType DEF QueueState, Step
<1> QED
  BY <1>1, <1>2, <1>3, <1>4 DEF Placed, Counted

\* The lease ends with the run of the step.
LEMMA RunOver ==
  ASSUME KeptInv, NEW w \in Worker, NEW s \in Step, holds[w] = s,
         q'.owner = [q.owner EXCEPT ![s] = NoWorker], q'.age = [q.age EXCEPT ![s] = 0],
         holds' = [holds EXCEPT ![w] = NoStep], ticks' = ticks
  PROVE  Runners' /\ Young'
<1>1. /\ q.owner \in [Step -> Worker \cup {NoWorker}] /\ q.age \in [Step -> 0..LeaseTicks]
      /\ holds \in [Worker -> Step \cup {NoStep}] /\ ticks \in Nat
  BY DistributedRunAssumption DEF KeptInv, IInv, TypeOK, QueueState, Step
<1>2. Runners'
  <2> SUFFICES ASSUME NEW v \in Worker, NEW t \in Step
               PROVE  q'.owner[t] = v <=> holds'[v] = t
    BY DEF Runners
  <2>1. q.owner[t] = v <=> holds[v] = t
    BY DEF KeptInv, Runners
  <2>2. q.owner[t] = w <=> holds[w] = t
    BY DEF KeptInv, Runners
  <2>3. v # NoWorker /\ t # NoStep
    BY StepQueueAssumption, DistributedRunAssumption
  <2> QED
    BY <1>1, <2>1, <2>2, <2>3
<1>3. Young'
  BY <1>1 DEF KeptInv, Young
<1> QED
  BY <1>2, <1>3

\* The failures known so far stay charged in full, and one more joins them.
LEMMA FailuresKept ==
  ASSUME KeptInv, NEW s \in Step, NEW outcome,
         results' = [results EXCEPT ![s] = outcome],
         outcome = "failure" => s \in q'.failed /\ q'.attempts[s] = Limit(s),
         q.failed \subseteq q'.failed,
         \A j \in q.failed : j # s => q'.attempts[j] = q.attempts[j]
  PROVE  FailureMeansExhausted'
<1>1. results \in [Step -> Result]
  BY DEF KeptInv, IInv, TypeOK
<1> SUFFICES ASSUME NEW t \in Step, results'[t] = "failure"
             PROVE  t \in q'.failed /\ q'.attempts[t] = Limit(t)
  BY DEF FailureMeansExhausted, Limit
<1>2. CASE t = s
  BY <1>1, <1>2
<1>3. CASE t # s
  <2>1. results[t] = "failure"
    BY <1>1, <1>3
  <2> QED
    BY <1>3, <2>1 DEF KeptInv, FailureMeansExhausted
<1> QED
  BY <1>2, <1>3

LEMMA AckAge ==
  ASSUME NEW r \in QueueState, NEW s \in Leased(r)
  PROVE  Ack(r, s).age = [r.age EXCEPT ![s] = 0]
BY DEF Ack, QueueState

LEMMA NackAge ==
  ASSUME NEW r \in QueueState, NEW s \in Leased(r)
  PROVE  Nack(r, s, TRUE).age = [r.age EXCEPT ![s] = 0]
<1>1. NackOutcome(r, s, TRUE) \in {"requeued", "failed"}
  BY DEF NackOutcome
<1> QED
  BY <1>1 DEF Nack, QueueState

LEMMA PullKept ==
  ASSUME LeasesKept, KeptInv, NEW w \in Worker, Pull(w)
  PROVE  Runners' /\ Young' /\ FailureMeansExhausted'
<1> DEFINE h == Head(q.queued)
<1>1. q.queued # <<>> /\ q' = Lease(q, w) /\ holds' = [holds EXCEPT ![w] = h]
  BY NothingLapses DEF Pull
<1>2. Well(q, queuedSteps) /\ q \in QueueState /\ Placed(q, queuedSteps)
  BY DEF KeptInv, IInv, Queue, Well
<1>3. /\ h \in Step /\ h \in ToSet(q.queued)
      /\ q'.owner = [q.owner EXCEPT ![h] = w]
      /\ q'.failed = q.failed /\ q'.attempts = q.attempts
  BY <1>1, <1>2, LeaseEffect DEF Step
<1>4. q'.age = [q.age EXCEPT ![h] = 0]
  BY <1>1, <1>2 DEF Lease, QueueState
<1> HIDE DEF h
<1>5. /\ q.owner \in [Step -> Worker \cup {NoWorker}] /\ q.age \in [Step -> 0..LeaseTicks]
      /\ holds \in [Worker -> Step \cup {NoStep}] /\ ticks \in Nat
  BY DistributedRunAssumption DEF KeptInv, IInv, TypeOK, QueueState, Step
<1>6. q.owner[h] = NoWorker
  BY <1>2, <1>3 DEF Placed, Leased, Step
<1>7. Runners'
  <2> SUFFICES ASSUME NEW v \in Worker, NEW t \in Step
               PROVE  q'.owner[t] = v <=> holds'[v] = t
    BY DEF Runners
  <2>1. q.owner[t] = v <=> holds[v] = t
    BY DEF KeptInv, Runners
  <2>2. holds[w] = NoStep /\ v # NoWorker /\ t # NoStep
    BY StepQueueAssumption, DistributedRunAssumption DEF Pull
  <2> QED
    BY <1>1, <1>3, <1>5, <1>6, <2>1, <2>2
<1>8. Young'
  BY <1>3, <1>4, <1>5 DEF KeptInv, Young, Pull
<1>9. FailureMeansExhausted'
  BY <1>3 DEF KeptInv, FailureMeansExhausted, Limit, Pull, runVars
<1> QED
  BY <1>7, <1>8, <1>9

LEMMA SucceedKept ==
  ASSUME LeasesKept, KeptInv, NEW w \in Worker, Succeed(w)
  PROVE  Runners' /\ Young' /\ FailureMeansExhausted'
<1> DEFINE s == holds[w]
           r == Ack(q, s)
<1>1. /\ s \in Step /\ UnlockDependents(r, s) /\ RecordResult(s, "success")
      /\ holds' = [holds EXCEPT ![w] = NoStep] /\ ticks' = ticks
  BY NothingLapses DEF Succeed
<1>2. s \in Leased(q)
  BY <1>1, RunningIsLeased
<1>3. Well(q, queuedSteps) /\ q \in QueueState /\ q.failed \subseteq queuedSteps
  BY DEF KeptInv, IInv, Queue, Well, Placed
<1>4. /\ Well(r, queuedSteps)
      /\ r.owner = [q.owner EXCEPT ![s] = NoWorker] /\ r.age = [q.age EXCEPT ![s] = 0]
      /\ r.failed = q.failed /\ r.attempts = q.attempts
  BY <1>2, <1>3, AckWell, AckEffect, AckAge
<1> HIDE DEF r, s
<1>5. /\ q'.owner = r.owner /\ q'.age = r.age /\ q'.failed = r.failed
      /\ \A j \in queuedSteps : q'.attempts[j] = r.attempts[j]
  BY <1>1, <1>4, Unlocking DEF KeptInv, IInv
<1>6. Runners' /\ Young'
  BY <1>1, <1>4, <1>5, RunOver DEF s
<1>7. results' = [results EXCEPT ![s] = "success"]
  BY <1>1 DEF RecordResult
<1>8. q.failed \subseteq q'.failed /\ \A j \in q.failed : q'.attempts[j] = q.attempts[j]
  BY <1>3, <1>4, <1>5
<1>9. "success" # "failure"
  OBVIOUS
<1>10. FailureMeansExhausted'
  BY <1>1, <1>7, <1>8, <1>9, FailuresKept
<1> QED
  BY <1>6, <1>10

\* nack of a running step: sent back, or given up after its last attempt.
LEMMA NackRunning ==
  ASSUME KeptInv, NEW w \in Worker, holds[w] \in Step
  PROVE  LET s == holds[w]
             r == Nack(q, s, TRUE)
         IN /\ Well(r, queuedSteps) /\ r.completed = q.completed
            /\ r.owner = [q.owner EXCEPT ![s] = NoWorker] /\ r.age = [q.age EXCEPT ![s] = 0]
            /\ r.attempts = [q.attempts EXCEPT ![s] = @ + 1]
            /\ NackOutcome(q, s, TRUE) = "requeued" => r.failed = q.failed
            /\ NackOutcome(q, s, TRUE) # "requeued" =>
                 r.failed = q.failed \cup {s} /\ r.attempts[s] = Limit(s)
<1> DEFINE s == holds[w]
           r == Nack(q, s, TRUE)
<1>1. /\ s \in Step /\ s \in Leased(q) /\ s \notin q.failed
      /\ q.attempts[s] \in Nat /\ Limit(s) \in Nat /\ q.attempts[s] < Limit(s)
  BY RunningIsLeased
<1>2. Well(q, queuedSteps) /\ q \in QueueState
  BY DEF KeptInv, IInv, Queue, Well
<1>3. Well(r, queuedSteps) /\ Charged(q, r, s, TRUE) /\ r.age = [q.age EXCEPT ![s] = 0]
  BY <1>1, <1>2, NackWell, NackEffect, NackAge
<1>4. r.attempts[s] = q.attempts[s] + 1
  BY <1>1, <1>2, <1>3 DEF Charged, QueueState, Step
<1>5. NackOutcome(q, s, TRUE) = IF q.attempts[s] + 1 < Limit(s) THEN "requeued" ELSE "failed"
  BY <1>1 DEF NackOutcome
<1> HIDE DEF r, s
<1>6. NackOutcome(q, s, TRUE) = "requeued" => r.failed = q.failed
  BY <1>1, <1>3, <1>4, <1>5 DEF Charged
<1>7. NackOutcome(q, s, TRUE) # "requeued" =>
        r.failed = q.failed \cup {s} /\ r.attempts[s] = Limit(s)
  <2> SUFFICES ASSUME NackOutcome(q, s, TRUE) # "requeued"
               PROVE  r.failed = q.failed \cup {s} /\ r.attempts[s] = Limit(s)
    OBVIOUS
  <2>1. ~(q.attempts[s] + 1 < Limit(s))
    BY <1>5
  <2>2. r.failed = q.failed \cup {s}
    BY <1>3, <2>1 DEF Charged
  <2>3. r.attempts[s] = Limit(s)
    BY <1>1, <1>4, <2>1
  <2> QED
    BY <2>2, <2>3
<1>8. /\ Well(r, queuedSteps) /\ r.completed = q.completed
      /\ r.owner = [q.owner EXCEPT ![s] = NoWorker] /\ r.age = [q.age EXCEPT ![s] = 0]
      /\ r.attempts = [q.attempts EXCEPT ![s] = @ + 1]
  BY <1>3 DEF Charged
<1> QED
  BY <1>6, <1>7, <1>8 DEF r, s

LEMMA RetryKept ==
  ASSUME LeasesKept, KeptInv, NEW w \in Worker, FailAndRetry(w)
  PROVE  Runners' /\ Young' /\ FailureMeansExhausted'
<1> DEFINE s == holds[w]
<1>1. /\ s \in Step /\ NackOutcome(q, s, TRUE) = "requeued" /\ q' = Nack(q, s, TRUE)
      /\ holds' = [holds EXCEPT ![w] = NoStep] /\ ticks' = ticks /\ results' = results
  BY NothingLapses DEF FailAndRetry, runVars
<1>2. /\ q'.owner = [q.owner EXCEPT ![s] = NoWorker] /\ q'.age = [q.age EXCEPT ![s] = 0]
      /\ q'.attempts = [q.attempts EXCEPT ![s] = @ + 1] /\ q'.failed = q.failed
      /\ s \notin q.failed
  BY <1>1, NackRunning, RunningIsLeased
<1> HIDE DEF s
<1>3. Runners' /\ Young'
  BY <1>1, <1>2, RunOver DEF s
<1>4. q.attempts \in [Step -> Nat]
  BY DEF KeptInv, IInv, TypeOK, QueueState, Step
<1>5. FailureMeansExhausted'
  BY <1>1, <1>2, <1>4 DEF KeptInv, FailureMeansExhausted, Limit
<1> QED
  BY <1>3, <1>5

\* What the two kinds of terminal failure have in common.
LEMMA FailureKept ==
  ASSUME KeptInv, NEW w \in Worker, NEW s \in Step, holds[w] = s,
         NackOutcome(q, s, TRUE) # "requeued", NEW r, r = Nack(q, s, TRUE),
         q'.owner = r.owner, q'.age = r.age, q'.failed = r.failed,
         \A j \in queuedSteps : q'.attempts[j] = r.attempts[j],
         RecordResult(s, "failure"), holds' = [holds EXCEPT ![w] = NoStep], ticks' = ticks
  PROVE  Runners' /\ Young' /\ FailureMeansExhausted'
<1>1. /\ r.owner = [q.owner EXCEPT ![s] = NoWorker] /\ r.age = [q.age EXCEPT ![s] = 0]
      /\ r.attempts = [q.attempts EXCEPT ![s] = @ + 1]
      /\ r.failed = q.failed \cup {s} /\ r.attempts[s] = Limit(s)
  BY NackRunning
<1>2. s \in queuedSteps
  BY RunningIsLeased
<1>10. q'.owner = [q.owner EXCEPT ![s] = NoWorker] /\ q'.age = [q.age EXCEPT ![s] = 0]
  BY <1>1
<1>3. Runners' /\ Young'
  BY <1>10, RunOver
<1>4. results' = [results EXCEPT ![s] = "failure"]
  BY DEF RecordResult
<1>5. q \in QueueState /\ q.failed \subseteq queuedSteps /\ q.failed \subseteq Step
  BY DEF KeptInv, IInv, Queue, Well, Placed, QueueState, Step
<1>6. q.attempts \in [Step -> Nat]
  BY <1>5 DEF QueueState, Step
<1>7. q.failed \subseteq q'.failed /\ \A j \in q.failed : j # s => q'.attempts[j] = q.attempts[j]
  BY <1>1, <1>5, <1>6
<1>8. s \in q'.failed /\ q'.attempts[s] = Limit(s)
  BY <1>1, <1>2
<1>9. FailureMeansExhausted'
  BY <1>4, <1>7, <1>8, FailuresKept
<1> QED
  BY <1>3, <1>9

LEMMA ContinueKept ==
  ASSUME LeasesKept, KeptInv, NEW w \in Worker, FailAndContinue(w)
  PROVE  Runners' /\ Young' /\ FailureMeansExhausted'
<1> DEFINE s == holds[w]
           r == Nack(q, s, TRUE)
<1>1. /\ s \in Step /\ NackOutcome(q, s, TRUE) # "requeued" /\ UnlockDependents(r, s)
      /\ RecordResult(s, "failure")
      /\ holds' = [holds EXCEPT ![w] = NoStep] /\ ticks' = ticks
  BY NothingLapses, DistributedRunAssumption DEF FailAndContinue
<1>2. Well(r, queuedSteps)
  BY <1>1, NackRunning
<1>3. TypeOK
  BY DEF KeptInv, IInv
<1> HIDE DEF r, s
<1>4. /\ q'.owner = r.owner /\ q'.age = r.age /\ q'.failed = r.failed
      /\ \A j \in queuedSteps : q'.attempts[j] = r.attempts[j]
  BY <1>1, <1>2, <1>3, Unlocking
<1> QED
  BY <1>1, <1>4, FailureKept DEF r, s

LEMMA AbortKept ==
  ASSUME LeasesKept, KeptInv, NEW w \in Worker, FailAndAbort(w)
  PROVE  Runners' /\ Young' /\ FailureMeansExhausted'
<1> DEFINE s == holds[w]
<1>1. /\ s \in Step /\ NackOutcome(q, s, TRUE) # "requeued" /\ q' = Nack(q, s, TRUE)
      /\ RecordResult(s, "failure")
      /\ holds' = [holds EXCEPT ![w] = NoStep] /\ ticks' = ticks
  BY NothingLapses DEF FailAndAbort
<1> QED
  BY <1>1, FailureKept

\* Heartbeats extend the lease of the worker that asks; the clock moves only
\* under running steps.
LEMMA QuietKept ==
  ASSUME LeasesKept, KeptInv, (\E w \in Worker : Throw(w) \/ Heartbeat(w)) \/ Tick
  PROVE  Runners' /\ Young' /\ FailureMeansExhausted'
<1>1. /\ Well(q, queuedSteps) /\ q \in QueueState /\ q.age \in [Step -> 0..LeaseTicks]
      /\ ticks \in Nat /\ LeaseTicks \in Nat
  <2>1. Well(q, queuedSteps) /\ q \in QueueState
    BY DEF KeptInv, IInv, Queue, Well
  <2>2. ticks \in Nat /\ LeaseTicks \in Nat
    BY StepQueueAssumption, DistributedRunAssumption DEF KeptInv, IInv, TypeOK
  <2>3. q.age \in [Step -> 0..LeaseTicks]
    BY <2>1 DEF QueueState, Step
  <2> QED
    BY <2>1, <2>2, <2>3
<1>2. ASSUME NEW w \in Worker, Throw(w) PROVE FALSE
  BY <1>2 DEF Throw, LeasesKept
<1>3. ASSUME NEW w \in Worker, Heartbeat(w)
      PROVE  Runners' /\ Young' /\ FailureMeansExhausted'
  <2>1. /\ q' = ExtendLease(q, holds[w], w) /\ holds' = holds /\ ticks' = ticks
        /\ results' = results
    BY <1>3, NothingLapses DEF Heartbeat, runVars
  <2>2. holds[w] \in Job
    BY <1>3 DEF Heartbeat, KeptInv, IInv, TypeOK, Step
  <2>3. q'.owner = q.owner /\ q'.failed = q.failed /\ q'.attempts = q.attempts
    BY <1>1, <2>1, <2>2, ExtendLeaseWell
  <2>4. q'.age = [q.age EXCEPT ![holds[w]] = 0] \/ q'.age = q.age
    BY <1>1, <2>1 DEF ExtendLease, QueueState
  <2>5. Young'
    BY <1>1, <2>1, <2>4 DEF KeptInv, Young
  <2> QED
    BY <2>1, <2>3, <2>5 DEF KeptInv, Runners, FailureMeansExhausted, Limit
<1>4. CASE Tick
  <2>1. /\ q' = Age(q) /\ ticks' = (IF Idle THEN ticks ELSE ticks + 1)
        /\ holds' = holds /\ results' = results
    BY <1>4 DEF Tick, runVars
  <2>2. q'.owner = q.owner /\ q'.failed = q.failed /\ q'.attempts = q.attempts
    BY <1>1, <2>1, AgeWell
  <2>3. q'.age = [j \in Job |-> IF j \in Leased(q) /\ q.age[j] < LeaseTicks
                                THEN q.age[j] + 1 ELSE q.age[j]]
    BY <1>1, <2>1 DEF Age, QueueState
  <2>4. Young'
    <3> SUFFICES ASSUME NEW s \in Step PROVE q'.age[s] <= ticks'
      BY DEF Young
    <3>1. q.age[s] \in Nat /\ q.age[s] <= ticks
      BY <1>1 DEF KeptInv, Young
    <3>2. CASE s \in Leased(q)
      <4>1. q.owner[s] \in Worker
        BY <1>1, <3>2 DEF Leased, QueueState, Step
      <4>2. ~Idle
        BY <4>1, DistributedRunAssumption DEF Idle, KeptInv, Runners
      <4> QED
        BY <1>1, <2>1, <2>3, <3>1, <4>2 DEF Step
    <3>3. CASE s \notin Leased(q)
      BY <1>1, <2>1, <2>3, <3>1, <3>3 DEF Step
    <3> QED
      BY <3>2, <3>3
  <2> QED
    BY <2>1, <2>2, <2>4 DEF KeptInv, Runners, FailureMeansExhausted, Limit
<1> QED
  BY <1>2, <1>3, <1>4

\* A restart begins with idle workers and without a failure; a crash leaves
\* nothing behind.
LEMMA RestartKept ==
  ASSUME KeptInv, Idle, NEW res \in [Step -> Result], \A s \in Step : res[s] # "failure",
         Restart(res), resumes' \in 0..MaxResumes
  PROVE  Runners' /\ Young' /\ FailureMeansExhausted'
<1>1. \A s \in Step : q'.owner[s] = NoWorker /\ q'.age[s] = 0
  BY RestartKeeps DEF KeptInv
<1>2. holds' = holds /\ ticks' = ticks /\ results' = res
  BY DEF Restart
<1>3. ticks \in Nat
  BY DistributedRunAssumption DEF KeptInv, IInv, TypeOK
<1> QED
  BY <1>1, <1>2, <1>3, StepQueueAssumption, DistributedRunAssumption
     DEF Runners, Young, FailureMeansExhausted, Idle

LEMMA LifeKept ==
  ASSUME KeptInv, Start \/ ResumeFromCheckpoint \/ ResumeFresh \/ ResumeRefused \/ Crash
  PROVE  Runners' /\ Young' /\ FailureMeansExhausted'
<1>1. resumes' \in 0..MaxResumes \/ Crash
  BY DistributedRunAssumption DEF Start, ResumeFromCheckpoint, ResumeFresh, ResumeRefused,
     MayResume, KeptInv, IInv, TypeOK
<1>2. /\ NoResults \in [Step -> Result] /\ Restored \in [Step -> Result]
      /\ \A s \in Step : NoResults[s] # "failure" /\ Restored[s] # "failure"
  BY ResultTypes, RestoredType DEF KeptInv, NoResults, Restored
<1>3. CASE Start \/ ResumeFresh
  BY <1>1, <1>2, <1>3, RestartKept DEF Start, ResumeFresh, MayResume, Crash, KeptInv, Unstarted
<1>4. CASE ResumeFromCheckpoint
  BY <1>1, <1>2, <1>4, RestartKept DEF ResumeFromCheckpoint, MayResume, Crash
<1>5. CASE ResumeRefused
  BY <1>5 DEF ResumeRefused, queueVars, runVars, KeptInv, Runners, Young,
     FailureMeansExhausted, Limit
<1>6. CASE Crash
  <2>1. /\ q' = EmptyQueue /\ holds' = [w \in Worker |-> NoStep] /\ results' = NoResults
        /\ ticks' = ticks /\ ticks \in Nat
    BY <1>6, DistributedRunAssumption DEF Crash, KeptInv, IInv, TypeOK
  <2>2. \A s \in Step : q'.owner[s] = NoWorker /\ q'.age[s] = 0
    BY <2>1 DEF EmptyQueue, Step
  <2>3. Runners' /\ Young'
    BY <2>1, <2>2, StepQueueAssumption, DistributedRunAssumption DEF Runners, Young
  <2>4. FailureMeansExhausted'
    BY <1>2, <2>1 DEF FailureMeansExhausted
  <2> QED
    BY <2>3, <2>4
<1> QED
  BY <1>3, <1>4, <1>5, <1>6

\* The orchestrator changes nothing of the queue, and a stutter nothing at all.
LEMMA RestKept ==
  ASSUME LeasesKept, KeptInv, EndLoop \/ Poll \/ EndTimeout \/ UNCHANGED vars
  PROVE  Runners' /\ Young' /\ FailureMeansExhausted'
<1>1. q' = q /\ holds' = holds /\ results' = results /\ ticks' = ticks
  BY NothingLapses
     DEF EndLoop, Poll, EndTimeout, End, vars, queueVars, runVars
<1> QED
  BY <1>1 DEF KeptInv, Runners, Young, FailureMeansExhausted, Limit

LEMMA UnstartedKept == KeptInv /\ [Next]_vars => Unstarted'
<1> SUFFICES ASSUME KeptInv, [Next]_vars, stage' = "idle" PROVE Idle'
  BY DEF Unstarted
<1>1. CASE UNCHANGED vars
  BY <1>1 DEF KeptInv, Unstarted, Idle, vars, queueVars
<1>2. CASE Next
  <2>1. stage = "idle" => Idle
    BY DEF KeptInv, Unstarted
  <2>2. ASSUME NEW w \in Worker, Pull(w) \/ StepEnds(w) \/ Heartbeat(w) PROVE FALSE
    <3>1. stage' = stage
      BY <2>2 DEF Pull, StepEnds, Succeed, FailAndRetry, FailAndContinue, FailAndAbort, Throw,
         Heartbeat
    <3>2. holds[w] = NoStep /\ stage = "idle"
      BY <2>1, <3>1 DEF Idle
    <3> QED
      BY <2>2, <3>2, DistributedRunAssumption DEF Pull, StepEnds, Succeed, FailAndRetry,
         FailAndContinue, FailAndAbort, Throw, Heartbeat
  <2>3. ~(Start \/ ResumeFromCheckpoint \/ ResumeFresh \/ Crash \/ EndLoop \/ EndTimeout)
    BY DEF Start, Restart, ResumeFromCheckpoint, ResumeFresh, Crash, EndLoop, EndTimeout, End
  <2>4. CASE ResumeRefused
    BY <2>4 DEF ResumeRefused, MayResume, queueVars, Idle
  <2>5. CASE Poll
    BY <2>5 DEF Poll, Waits, End
  <2>6. CASE Tick
    BY <2>1, <2>6 DEF Tick, Idle
  <2> QED
    BY <1>2, <2>2, <2>3, <2>4, <2>5, <2>6 DEF Next
<1> QED
  BY <1>1, <1>2

LEMMA NextKept == LeasesKept /\ KeptInv /\ [Next]_vars => KeptInv'
<1> SUFFICES ASSUME LeasesKept, KeptInv, [Next]_vars PROVE KeptInv'
  OBVIOUS
<1>1. IInv'
  BY NextKeeps DEF KeptInv
<1>2. Unstarted'
  BY UnstartedKept
<1>3. Runners' /\ Young' /\ FailureMeansExhausted'
  BY PullKept, SucceedKept, RetryKept, ContinueKept, AbortKept, QuietKept, LifeKept, RestKept
     DEF Next, StepEnds
<1> QED
  BY <1>1, <1>2, <1>3 DEF KeptInv

LEMMA InitKept == Init => KeptInv
<1> SUFFICES ASSUME Init PROVE KeptInv
  OBVIOUS
<1>1. IInv
  BY InitIInv
<1>2. /\ \A s \in Step : q.owner[s] = NoWorker /\ q.age[s] = 0
      /\ ticks = 0 /\ Idle /\ \A s \in Step : results[s] = "none"
  BY DEF Init, EmptyQueue, Idle, NoResults, Step
<1> QED
  BY <1>1, <1>2, StepQueueAssumption, DistributedRunAssumption
     DEF KeptInv, Runners, Young, Unstarted, Idle, FailureMeansExhausted

LEMMA KeptInvariance == ASSUME LeasesKept PROVE Spec => []KeptInv
  BY InitKept, NextKept, PTL DEF Spec

\* While steps keep their leases no two workers run the same step, over any
\* number of crashes and resumptions.
THEOREM OneRunnerHolds == ASSUME LeasesKept PROVE Spec => []OneRunner
<1>1. ASSUME KeptInv PROVE OneRunner
  <2> SUFFICES ASSUME NEW v \in Worker, NEW w \in Worker, holds[v] = holds[w], holds[v] # NoStep
               PROVE  v = w
    BY DEF OneRunner
  <2>1. holds[v] \in Step
    BY <1>1 DEF KeptInv, IInv, TypeOK
  <2> QED
    BY <1>1, <2>1 DEF KeptInv, Runners
<1> QED
  BY <1>1, KeptInvariance, PTL

\* While steps keep their leases, a step counts as failed only when the queue
\* has given its job up after maxAttempts attempts, also in a resumed run.
THEOREM FailuresExhausted == ASSUME LeasesKept PROVE Spec => []FailureMeansExhausted
<1>1. KeptInv => FailureMeansExhausted
  BY DEF KeptInv
<1> QED
  BY <1>1, KeptInvariance, PTL

-----------------------------------------------------------------------------
(***************************************************************************)
(* The third layer: besides, the run is not resumed                        *)
(***************************************************************************)
LEMMA NoResume ==
  ASSUME NotResumed, IInv
  PROVE  ~(ResumeFromCheckpoint \/ ResumeFresh \/ ResumeRefused \/ Crash)
BY DistributedRunAssumption
   DEF NotResumed, IInv, TypeOK, ResumeFromCheckpoint, ResumeFresh, ResumeRefused, MayResume,
       Crash

\* Only the end of a step and a start touch results, counters and pushed steps.
LEMMA ExactSame ==
  ASSUME Exact, UNCHANGED <<results, unresolved, queuedSteps>>
  PROVE  Exact' /\ Settled' = Settled
BY DEF Exact, Settled

\* A step that settles brings its dependents one need closer.
LEMMA ExactSettles ==
  ASSUME OnceInv, NEW s \in Step, results[s] = "none",
         NEW outcome, outcome = "success" \/ (outcome = "failure" /\ s \in ContinueOnError),
         results' = [results EXCEPT ![s] = outcome],
         unresolved' = Decremented(unresolved, s),
         queuedSteps' = queuedSteps \cup Unlocked(unresolved, s)
  PROVE  Exact'
<1>1. results \in [Step -> Result] /\ Settled \in SUBSET Step /\ s \notin Settled
  BY DEF OnceInv, KeptInv, IInv, TypeOK, Settled
<1>2. Settled' = Settled \cup {s}
  BY <1>1 DEF Settled
<1>3. /\ \A d \in Step : unresolved[d] = Cardinality(Needs[d] \ Settled)
      /\ \A d \in queuedSteps : Needs[d] \subseteq Settled
  BY DEF OnceInv, Exact
<1>4. \A d \in Step : unresolved'[d] = IF s \in Needs[d] THEN unresolved[d] - 1 ELSE unresolved[d]
  BY DEF Decremented, Dependents
<1>5. ASSUME NEW d \in Step PROVE unresolved'[d] = Cardinality(Needs[d] \ Settled')
  BY <1>1, <1>2, <1>3, <1>4, OneNeedLess
<1>6. ASSUME NEW d \in Unlocked(unresolved, s) PROVE Needs[d] \subseteq Settled'
  <2>1. d \in Step /\ s \in Needs[d] /\ unresolved[d] - 1 <= 0
    BY DEF Unlocked, Dependents
  <2> DEFINE rest == Needs[d] \ Settled
  <2>3. s \in rest
    BY <1>1, <2>1
  <2>8. IsFiniteSet(rest) /\ Cardinality(rest) \in Nat
    BY <1>1, <2>1, NeedsFinite
  <2>9. unresolved[d] = Cardinality(rest)
    BY <1>3, <2>1
  <2>2. IsFiniteSet(rest) /\ Cardinality(rest) \in Nat /\ Cardinality(rest) <= 1
    <3> HIDE DEF rest
    <3> QED
      BY <2>1, <2>8, <2>9
  <2>4. IsFiniteSet(rest \ {s}) /\ Cardinality(rest \ {s}) = Cardinality(rest) - 1
    BY <2>2, <2>3, FS_RemoveElement
  <2>5. IsFiniteSet(rest \ {s}) /\ Cardinality(rest \ {s}) \in Nat
    BY <2>4, FS_CardinalityType
  <2> HIDE DEF rest
  <2>6. Cardinality(rest \ {s}) = 0
    BY <2>2, <2>4, <2>5
  <2>7. rest \ {s} = {}
    BY <2>5, <2>6, FS_EmptySet
  <2> QED
    BY <1>2, <2>7 DEF rest
<1> QED
  BY <1>2, <1>3, <1>5, <1>6 DEF Exact

LEMMA EmptyRange ==
  ASSUME NEW T, NEW s \in Seq(T), ToSet(s) = {}
  PROVE  s = <<>>
<1>1. Len(s) \in Nat /\ DOMAIN s = 1..Len(s)
  BY LenProperties
<1>2. Len(s) = 0
  <2> SUFFICES ASSUME Len(s) # 0 PROVE FALSE
    OBVIOUS
  <2>1. 1 \in DOMAIN s
    BY <1>1
  <2> QED
    BY <2>1 DEF ToSet
<1> QED
  BY <1>2, EmptySeq

\* While a step runs, the run has not ended cleanly; a worker that is done
\* leaves that as it is.
LEMMA NoCleanEndRunning ==
  ASSUME OnceInv, NEW w \in Worker, holds[w] \in Step, stage' = stage, status' = status
  PROVE  CleanEnd'
BY DistributedRunAssumption DEF OnceInv, CleanEnd, Idle

LEMMA SucceedOnce ==
  ASSUME LeasesKept, OnceInv, NEW w \in Worker, Succeed(w)
  PROVE  Finished' /\ Exact' /\ CleanEnd'
<1> DEFINE s == holds[w]
           r == Ack(q, s)
<1>1. /\ s \in Step /\ UnlockDependents(r, s) /\ RecordResult(s, "success")
      /\ stage' = stage /\ status' = status
  BY NothingLapses DEF Succeed, OnceInv
<1>2. s \in Leased(q) /\ s \notin q.completed \cup q.failed
  BY <1>1, RunningIsLeased DEF OnceInv
<1>5. CleanEnd'
  BY <1>1, NoCleanEndRunning
<1> HIDE DEF s
<1>3. Well(q, queuedSteps) /\ IInv
  BY DEF OnceInv, KeptInv, IInv, Queue
<1>4. /\ Well(r, queuedSteps) /\ r.completed = q.completed \cup {s} /\ r.failed = q.failed
  <2>1. Well(r, queuedSteps)
    BY <1>2, <1>3, AckWell
  <2>2. r.completed = q.completed \cup {s} /\ r.failed = q.failed
    BY <1>2, <1>3, AckEffect
  <2> QED
    BY <2>1, <2>2
<1> HIDE DEF r
<1>6. q'.completed = r.completed /\ q'.failed = r.failed
  BY <1>1, <1>3, <1>4, Unlocking DEF IInv
<1>7. Terminal' = Terminal \cup {s} /\ results' = [results EXCEPT ![s] = "success"]
  BY <1>1, <1>3, Recorded
<1>8. Finished'
  BY <1>4, <1>6, <1>7 DEF OnceInv, Finished
<1>9. results[s] = "none"
  BY <1>1, <1>2 DEF OnceInv, Finished, Terminal
<1>10. Exact'
  BY <1>1, <1>7, <1>9, ExactSettles DEF UnlockDependents
<1> QED
  BY <1>5, <1>8, <1>10

\* A terminal failure, before it is told whether it aborts the run.
LEMMA FailureOnce ==
  ASSUME OnceInv, NEW w \in Worker, NEW s \in Step, holds[w] = s,
         NackOutcome(q, s, TRUE) # "requeued",
         q'.completed = Nack(q, s, TRUE).completed, q'.failed = Nack(q, s, TRUE).failed,
         RecordResult(s, "failure"), stage' = stage, status' = status
  PROVE  /\ Finished' /\ CleanEnd'
         /\ results[s] = "none" /\ results' = [results EXCEPT ![s] = "failure"]
<1>1. KeptInv /\ IInv /\ holds[w] \in Step
  BY DEF OnceInv, KeptInv
<1>2. s \notin q.completed \cup q.failed
  BY <1>1, RunningIsLeased
<1>3. Nack(q, s, TRUE).completed = q.completed /\ Nack(q, s, TRUE).failed = q.failed \cup {s}
  BY <1>1, NackRunning
<1>4. Terminal' = Terminal \cup {s} /\ results' = [results EXCEPT ![s] = "failure"]
  BY <1>1, Recorded
<1>5. Finished'
  BY <1>3, <1>4 DEF OnceInv, Finished
<1>6. results[s] = "none"
  BY <1>2 DEF OnceInv, Finished, Terminal
<1>7. CleanEnd'
  BY <1>1, NoCleanEndRunning
<1> QED
  BY <1>4, <1>5, <1>6, <1>7

LEMMA ContinueOnce ==
  ASSUME LeasesKept, OnceInv, NEW w \in Worker, FailAndContinue(w)
  PROVE  Finished' /\ Exact' /\ CleanEnd'
<1> DEFINE s == holds[w]
           r == Nack(q, s, TRUE)
<1>1. /\ s \in Step /\ s \in ContinueOnError /\ NackOutcome(q, s, TRUE) # "requeued"
      /\ UnlockDependents(r, s) /\ RecordResult(s, "failure")
      /\ stage' = stage /\ status' = status
  BY NothingLapses, DistributedRunAssumption DEF FailAndContinue, OnceInv
<1>2. KeptInv /\ IInv /\ TypeOK
  BY DEF OnceInv, KeptInv, IInv
<1>3. Well(r, queuedSteps)
  BY <1>1, <1>2, NackRunning
<1> HIDE DEF r
<1>4. q'.completed = r.completed /\ q'.failed = r.failed
  BY <1>1, <1>2, <1>3, Unlocking
<1>5. /\ Finished' /\ CleanEnd'
      /\ results[s] = "none" /\ results' = [results EXCEPT ![s] = "failure"]
  BY <1>1, <1>4, FailureOnce DEF r
<1> HIDE DEF s
<1>6. Exact'
  BY <1>1, <1>5, ExactSettles DEF UnlockDependents
<1> QED
  BY <1>5, <1>6

LEMMA AbortOnce ==
  ASSUME LeasesKept, OnceInv, NEW w \in Worker, FailAndAbort(w)
  PROVE  Finished' /\ Exact' /\ CleanEnd'
<1> DEFINE s == holds[w]
<1>1. /\ s \in Step /\ s \notin ContinueOnError /\ NackOutcome(q, s, TRUE) # "requeued"
      /\ q' = Nack(q, s, TRUE) /\ RecordResult(s, "failure")
      /\ UNCHANGED <<unresolved, queuedSteps, stage, status>>
  BY NothingLapses DEF FailAndAbort, OnceInv
<1>2. /\ Finished' /\ CleanEnd'
      /\ results[s] = "none" /\ results' = [results EXCEPT ![s] = "failure"]
  BY <1>1, FailureOnce
<1> HIDE DEF s
<1>3. results \in [Step -> Result]
  BY DEF OnceInv, KeptInv, IInv, TypeOK
<1>4. Settled' = Settled
  BY <1>1, <1>2, <1>3 DEF Settled
<1>5. Exact'
  BY <1>1, <1>4 DEF OnceInv, Exact
<1> QED
  BY <1>2, <1>5

\* The end of a run that has a result for every step, or nothing in its queue.
LEMMA EndClean ==
  ASSUME OnceInv, NEW err \in {"none", "failure", "timeout"}, End(err), q' = q,
         Terminal = Step \/ Drained(q) \/ err # "none"
  PROVE  CleanEnd'
<1> SUFFICES ASSUME status' \in {"success", "partial"}
             PROVE  /\ Idle' /\ Drained(q)
                    /\ checkpoint' = Snapshot("completed", results')
                    /\ record' = Finalized("completed", results')
  BY DEF CleanEnd, Drained, Leased
<1>1. /\ status' = StatusOf(results, err) /\ holds' = holds /\ results' = results
      /\ record' = Finalized(DiskStatus(StatusOf(results, err)), results)
      /\ checkpoint' = Snapshot(DiskStatus(StatusOf(results, err)), results)
  BY DEF End
<1>2. DiskStatus(StatusOf(results, err)) = "completed" /\ err = "none"
  BY <1>1, StatusTypes DEF StatusOf
<1>3. q \in QueueState /\ Placed(q, queuedSteps)
  BY DEF OnceInv, KeptInv, IInv, Queue, Well
<1>4. Drained(q)
  <2> SUFFICES ASSUME Terminal = Step PROVE Drained(q)
    BY <1>2
  <2>1. q.completed \cup q.failed = Step
    BY DEF OnceInv, Finished
  <2>2. q.queued \in Seq(Job) /\ ToSet(q.queued) \subseteq Step /\ Leased(q) \subseteq Step
    BY <1>3, RangeInJobs DEF QueueState, Leased, Step
  <2>3. ToSet(q.queued) = {} /\ Leased(q) = {}
    BY <1>3, <2>1, <2>2 DEF Placed
  <2> QED
    BY <2>2, <2>3, EmptyRange DEF Drained
<1>5. Idle
  <2> SUFFICES ASSUME NEW w \in Worker, holds[w] # NoStep PROVE FALSE
    BY DEF Idle
  <2>1. holds[w] \in Step
    BY DEF OnceInv, KeptInv, IInv, TypeOK
  <2> QED
    BY <1>4, <2>1, RunningIsLeased DEF Drained, OnceInv
<1> QED
  BY <1>1, <1>2, <1>4, <1>5 DEF Idle

LEMMA OrchestratorOnce ==
  ASSUME LeasesKept, OnceInv, EndLoop \/ Poll \/ EndTimeout
  PROVE  Finished' /\ Exact' /\ CleanEnd'
<1>1. q' = q /\ UNCHANGED <<results, unresolved, queuedSteps>>
  BY NothingLapses DEF EndLoop, Poll, EndTimeout, End, runVars, OnceInv
<1>2. Finished' /\ Exact'
  BY <1>1, ExactSame DEF OnceInv, Finished, Terminal
<1>3. CASE EndLoop
  <2>1. End(error) /\ (Terminal = Step \/ error # "none")
    BY <1>3 DEF EndLoop, Waits
  <2>2. error \in {"none", "failure", "timeout"}
    BY DEF OnceInv, KeptInv, IInv, TypeOK
  <2> QED
    BY <1>1, <1>2, <2>1, <2>2, EndClean
<1>4. CASE Poll
  <2>1. PICK r \in RequeueExpired(q) :
          IF Drained(r) THEN End("none")
          ELSE UNCHANGED <<holds, runVars, stage, status, diskVars, ticks, resumes>>
    BY <1>4 DEF Poll
  <2>2. r = q
    BY NothingLapses DEF OnceInv
  <2>3. CASE Drained(q)
    <3>1. End("none") /\ "none" \in {"none", "failure", "timeout"}
      BY <2>1, <2>2, <2>3
    <3> QED
      BY <1>1, <1>2, <2>3, <3>1, EndClean
  <2>4. CASE ~Drained(q)
    BY <1>2, <1>4, <2>1, <2>2, <2>4 DEF Poll, Waits, CleanEnd
  <2> QED
    BY <2>3, <2>4
<1>5. CASE EndTimeout
  <2>1. End("timeout") /\ "timeout" \in {"none", "failure", "timeout"} /\ "timeout" # "none"
    BY <1>5 DEF EndTimeout
  <2> QED
    BY <1>1, <1>2, <2>1, EndClean
<1> QED
  BY <1>2, <1>3, <1>4, <1>5

LEMMA StartOnce == ASSUME OnceInv, Start PROVE Finished' /\ Exact' /\ CleanEnd'
<1>1. /\ stage' = "running" /\ results' = NoResults
      /\ unresolved' = [s \in Step |-> Cardinality(Needs[s] \ {})]
      /\ queuedSteps' = UnlockedBy({}) \cup InitialSteps
  BY DEF Start, Restart, NoResults
<1>2. q'.completed = {} /\ q'.failed = {}
  <2>1. NoResults \in [Step -> Result] /\ resumes' \in 0..MaxResumes /\ IInv
    BY ResultTypes DEF Start, OnceInv, KeptInv, IInv, TypeOK
  <2> QED
    BY <2>1, RestartKeeps DEF Start
<1>3. Terminal' = {} /\ Settled' = {}
  BY <1>1 DEF Terminal, Settled, NoResults
<1>4. queuedSteps' = InitialSteps
  BY <1>1 DEF UnlockedBy
<1> QED
  BY <1>1, <1>2, <1>3, <1>4 DEF Finished, Exact, InitialSteps, CleanEnd

LEMMA OthersOnce ==
  ASSUME LeasesKept, OnceInv,
         \/ \E w \in Worker : Pull(w) \/ FailAndRetry(w) \/ Throw(w) \/ Heartbeat(w)
         \/ Tick \/ UNCHANGED vars
  PROVE  Finished' /\ Exact' /\ CleanEnd'
<1>1. UNCHANGED <<results, unresolved, queuedSteps, stage, status, diskVars>>
  BY DEF Pull, FailAndRetry, Throw, Heartbeat, Tick, vars, runVars
<1>2. Exact' /\ Terminal' = Terminal
  BY <1>1, ExactSame DEF OnceInv, Terminal
<1>3. Well(q, queuedSteps) /\ TypeOK /\ KeptInv
  BY DEF OnceInv, KeptInv, IInv, Queue
<1>4. ASSUME NEW w \in Worker, Pull(w) PROVE Finished' /\ CleanEnd'
  <2>1. q' = Lease(q, w) /\ q.queued # <<>> /\ stage = "running"
    BY <1>3, <1>4, NothingLapses DEF Pull
  <2>2. q'.completed = q.completed /\ q'.failed = q.failed
    BY <1>3, <2>1, LeaseEffect
  <2> QED
    BY <1>1, <1>2, <2>1, <2>2 DEF OnceInv, Finished, CleanEnd
<1>5. ASSUME NEW w \in Worker, FailAndRetry(w) PROVE Finished' /\ CleanEnd'
  <2>1. /\ holds[w] \in Step /\ q' = Nack(q, holds[w], TRUE)
        /\ NackOutcome(q, holds[w], TRUE) = "requeued"
    BY <1>3, <1>5, NothingLapses DEF FailAndRetry
  <2>2. q'.completed = q.completed /\ q'.failed = q.failed
    BY <1>3, <2>1, NackRunning
  <2>3. CleanEnd'
    BY <1>1, <2>1, NoCleanEndRunning
  <2> QED
    BY <1>2, <2>2, <2>3 DEF OnceInv, Finished
<1>6. ASSUME NEW w \in Worker, Throw(w) PROVE FALSE
  BY <1>6 DEF Throw, LeasesKept
<1>7. ASSUME NEW w \in Worker, Heartbeat(w) PROVE Finished' /\ CleanEnd'
  <2>1. holds[w] \in Step /\ q' = ExtendLease(q, holds[w], w)
    BY <1>3, <1>7, NothingLapses DEF Heartbeat, TypeOK
  <2>2. q'.completed = q.completed /\ q'.failed = q.failed
    BY <1>3, <2>1, ExtendLeaseWell DEF Step
  <2>3. CleanEnd'
    BY <1>1, <2>1, NoCleanEndRunning
  <2> QED
    BY <1>2, <2>2, <2>3 DEF OnceInv, Finished
<1>8. CASE Tick
  <2>1. q' = Age(q) /\ holds' = holds
    BY <1>8 DEF Tick
  <2>2. /\ q'.completed = q.completed /\ q'.failed = q.failed
        /\ q'.queued = q.queued /\ q'.owner = q.owner
    BY <1>3, <2>1, AgeWell
  <2> QED
    BY <1>1, <1>2, <2>1, <2>2
       DEF OnceInv, Finished, CleanEnd, Idle, Drained, Leased, Snapshot, Finalized, diskVars
<1>9. CASE UNCHANGED vars
  <2>1. q' = q /\ holds' = holds
    BY <1>9 DEF vars, queueVars
  <2> QED
    BY <1>1, <1>2, <2>1
       DEF OnceInv, Finished, CleanEnd, Idle, Drained, Leased, Snapshot, Finalized, diskVars
<1>10. Finished' /\ CleanEnd'
  BY <1>4, <1>5, <1>6, <1>7, <1>8, <1>9
<1> QED
  BY <1>2, <1>10

LEMMA NextOnce == LeasesKept /\ NotResumed /\ OnceInv /\ [Next]_vars => OnceInv'
<1> SUFFICES ASSUME LeasesKept, NotResumed, OnceInv, [Next]_vars PROVE OnceInv'
  OBVIOUS
<1>1. KeptInv'
  BY NextKept DEF OnceInv
<1>2. ~(ResumeFromCheckpoint \/ ResumeFresh \/ ResumeRefused \/ Crash)
  BY NoResume DEF OnceInv, KeptInv
<1>3. Finished' /\ Exact' /\ CleanEnd'
  BY <1>2, SucceedOnce, ContinueOnce, AbortOnce, OrchestratorOnce, StartOnce, OthersOnce
     DEF Next, StepEnds
<1> QED
  BY <1>1, <1>3 DEF OnceInv

LEMMA InitOnce == Init => OnceInv
<1> SUFFICES ASSUME Init PROVE OnceInv
  OBVIOUS
<1>1. Terminal = {} /\ Settled = {}
  BY DEF Init, NoResults, Terminal, Settled
<1>2. q.completed = {} /\ q.failed = {} /\ queuedSteps = {} /\ stage = "idle"
  BY DEF Init, EmptyQueue
<1>3. \A d \in Step : unresolved[d] = Cardinality(Needs[d] \ {})
  <2>1. \A d \in Step : Needs[d] \ {} = Needs[d]
    OBVIOUS
  <2> QED
    BY <2>1 DEF Init
<1> QED
  BY <1>1, <1>2, <1>3, InitKept DEF OnceInv, Finished, Exact, CleanEnd

LEMMA OnceInvariance == ASSUME LeasesKept, NotResumed PROVE Spec => []OnceInv
  BY InitOnce, NextOnce, PTL DEF Spec

\* The only step that makes a worker run something is Pull, and what it runs
\* is a pushed step that has no result.
LEMMA StartsFresh ==
  ASSUME LeasesKept, NotResumed, OnceInv, [Next]_vars, NEW w \in Worker, Starts(w)
  PROVE  holds'[w] \in queuedSteps /\ holds'[w] \in Step \ Terminal
<1>1. holds \in [Worker -> Step \cup {NoStep}]
  BY DEF OnceInv, KeptInv, IInv, TypeOK
<1>2. PICK v \in Worker : Pull(v)
  <2>1. ~(ResumeFromCheckpoint \/ ResumeFresh \/ ResumeRefused \/ Crash)
    BY NoResume DEF OnceInv, KeptInv
  <2>2. ASSUME holds' = holds PROVE FALSE
    BY <2>2 DEF Starts
  <2>3. ASSUME NEW v \in Worker, holds' = [holds EXCEPT ![v] = NoStep] PROVE FALSE
    BY <1>1, <2>3 DEF Starts
  <2>4. ASSUME NEW v \in Worker PROVE ~StepEnds(v)
    BY <2>3 DEF StepEnds, Succeed, FailAndRetry, FailAndContinue, FailAndAbort, Throw
  <2>5. ~(Start \/ EndLoop \/ Poll \/ EndTimeout \/ Tick \/ UNCHANGED vars)
    BY <2>2 DEF Start, Restart, EndLoop, Poll, EndTimeout, End, Tick, vars, queueVars
  <2>6. ASSUME NEW v \in Worker PROVE ~Heartbeat(v)
    BY <2>2 DEF Heartbeat
  <2> QED
    BY <2>1, <2>4, <2>5, <2>6 DEF Next
<1>3. q.queued # <<>> /\ holds' = [holds EXCEPT ![v] = Head(q.queued)]
  BY <1>2, NothingLapses DEF Pull, OnceInv
<1>4. holds'[w] = Head(q.queued)
  BY <1>1, <1>3 DEF Starts
<1>5. Well(q, queuedSteps) /\ Placed(q, queuedSteps)
  BY DEF OnceInv, KeptInv, IInv, Queue, Well
<1>6. Head(q.queued) \in Step /\ Head(q.queued) \in ToSet(q.queued)
  BY <1>2, <1>3, <1>5, LeaseEffect DEF Step
<1> QED
  BY <1>4, <1>5, <1>6 DEF Placed, OnceInv, Finished

\* With leases kept and no resumption a step starts only when each step it needs
\* is over, successfully or with a failure that does not abort the run.
THEOREM DependenciesFirst == ASSUME LeasesKept, NotResumed PROVE Spec => DependencyOrder
<1>1. ASSUME OnceInv, [Next]_vars, NEW w \in Worker, Starts(w), NEW n \in Needs[holds'[w]]
      PROVE  results[n] = "success" \/ (results[n] = "failure" /\ n \in ContinueOnError)
  <2>1. holds'[w] \in queuedSteps
    BY <1>1, StartsFresh
  <2>2. n \in Settled
    BY <1>1, <2>1 DEF OnceInv, Exact
  <2> QED
    BY <2>2 DEF Settled
<1>2. OnceInv /\ [Next]_vars =>
        [\A w \in Worker : Starts(w) =>
           \A n \in Needs[holds'[w]] :
             results[n] = "success" \/ (results[n] = "failure" /\ n \in ContinueOnError)]_vars
  BY <1>1
<1> QED
  BY <1>2, OnceInvariance, PTL DEF Spec, DependencyOrder

\* With leases kept and no resumption a step that has a result is not run again.
THEOREM StepsFinishOnce == ASSUME LeasesKept, NotResumed PROVE Spec => FinishedOnce
<1>1. ASSUME OnceInv, [Next]_vars, NEW w \in Worker, Starts(w)
      PROVE  results[holds'[w]] = "none"
  BY <1>1, StartsFresh DEF Terminal
<1>2. OnceInv /\ [Next]_vars =>
        [\A w \in Worker : Starts(w) => results[holds'[w]] = "none"]_vars
  BY <1>1
<1> QED
  BY <1>2, OnceInvariance, PTL DEF Spec, FinishedOnce

\* With leases kept and no resumption, a run reported as a success leaves no
\* job, no running step, and two files that say completed with its results.
THEOREM EndsClean == ASSUME LeasesKept, NotResumed PROVE Spec => []CleanEnd
<1>1. OnceInv => CleanEnd
  BY DEF OnceInv
<1> QED
  BY <1>1, OnceInvariance, PTL
=============================================================================
