---------------------------- MODULE JobEngineProofs ----------------------------
(***************************************************************************)
(* The safety of JobEngine, for any jobs, priorities and retry limits, any *)
(* limits of the queue and the engine, any number of worker threads, of    *)
(* their deaths and of restarts. What each operation does to a queue is    *)
(* stated first, of any queue (Sound); the invariant then says where the   *)
(* jobs outside the queue are, and that the pool has no more threads than  *)
(* were made for it. The sections after it are about what a job of the     *)
(* engine goes through: the pair of executors that overlapping runs share, *)
(* an operation under its retry policy, the strategies for failures, the   *)
(* listeners that are told of it all, the timer that a call is raced with, *)
(* and the delay between two attempts.                                     *)
(***************************************************************************)
EXTENDS JobEngine, SharedRuntime, Automation, Listeners, DistinctSequences

\* A job is tried this often.
Tries(j) == IF MaxRetries[j] = 0 THEN 1 ELSE MaxRetries[j]

Waiting(r) == ToSet(r.pending) \cup r.delayed

\* A job waits once, with attempts left, and a new one is nowhere.
Sound(r) ==
  /\ r \in JobQueueState
  /\ Distinct(r.pending) /\ ToSet(r.pending) \cap r.delayed = {}
  /\ \A j \in r.jobs \cup Waiting(r) : r.status[j] # "new"
  /\ \A j \in Job : /\ r.status[j] = "new" => r.attempts[j] = 0
                    /\ r.attempts[j] <= Tries(j)
                    /\ j \in Waiting(r) => r.attempts[j] < Tries(j)

\* The jobs outside the queue are each in one pair of hands, but for those
\* that a 'ready' message took away: they are in none.
Hands ==
  /\ InHands \cap Waiting(q) = {}
  /\ \A j \in InHands : q.status[j] # "new"
  /\ \A w \in Thread : current[w] \cap executing = {}
  /\ \A v, w \in Thread : v # w => current[v] \cap current[w] = {}
  /\ \A j \in disowned : j \notin InHands \cup Waiting(q) /\ q.status[j] # "new"

\* The threads that a start which has gone through, or a death, made room for.
Room == (IF starting THEN starts - 1 ELSE starts) * WorkerCount + deaths

Dead == ToSet(pool) \ alive

\* Each start makes at most one loop.
Loops ==
  /\ starting => starts > 0
  /\ loops <= IF starting THEN starts - 1 ELSE starts

\* A worker with a job is in the pool and busy, and the job is the last one
\* that its thread, if that is alive, was sent.
IsLast(j, w) == doing[w] # <<>> /\ Last(doing[w]) = j

Owners ==
  \A w \in Thread : /\ current[w] # {} => w \in ToSet(pool) \cap busy
                    /\ w \in alive => \A j \in current[w] : IsLast(j, w)

Pool ==
  /\ Distinct(pool)
  /\ ToSet(pool) \cup alive \subseteq 1 .. created
  /\ created + Cardinality(Dead) <= Room
  /\ Loops
  /\ Owners
  /\ ~sched => pool = <<>>

\* Somebody is going to settle the job.
Held(j) == j \in executing \/ \E w \in ToSet(pool) : j \in current[w] /\ (w \in alive => IsLast(j, w))

\* Before and after the first start nothing runs that nobody settles, until a
\* stop terminates the pool.
Settled ==
  /\ starts = 0 => ~isRunning /\ ~starting /\ ~sched /\ loops = 0
  /\ starts = 1 /\ starting => ~sched
  /\ starts = 0 \/ (starts = 1 /\ (isRunning \/ starting \/ sched)) =>
       \A j \in RunningJobs(q) \ disowned : Held(j)

IInv ==
  /\ TypeOK
  /\ Sound(q)
  /\ Hands
  /\ Pool
  /\ Settled
  /\ Cardinality(executing) <= MaxExecutions

-----------------------------------------------------------------------------
(***************************************************************************)
(* The queue                                                               *)
(***************************************************************************)
\* From r to r2, only the jobs of S have come to wait or changed status.
Touches(r, r2, S) ==
  /\ Waiting(r2) \subseteq Waiting(r) \cup S
  /\ r2.jobs \subseteq r.jobs \cup S
  /\ \A k \in Job \ S : r2.status[k] = r.status[k]
  /\ \A k \in S : r2.status[k] # "new"

LEMMA TriesType == \A j \in Job : Tries(j) \in Nat \ {0} /\ (MaxRetries[j] <= Tries(j))
  BY JobQueueAssumption DEF Tries

\* insertByPriority puts the job at a place of the queue, or at its end.
LEMMA WaitsEffect ==
  ASSUME NEW r \in JobQueueState, Distinct(r.pending), NEW j \in Job, j \notin ToSet(r.pending)
  PROVE  LET r2 == Waits(r, j)
         IN /\ r2 \in JobQueueState
            /\ Distinct(r2.pending) /\ ToSet(r2.pending) = ToSet(r.pending) \cup {j}
            /\ r2.status = [r.status EXCEPT ![j] = "pending"]
            /\ r2.jobs = r.jobs /\ r2.attempts = r.attempts
            /\ r2.delayed = r.delayed /\ r2.expiring = r.expiring
<1> DEFINE lower == {i \in DOMAIN r.pending : Priority[r.pending[i]] < Priority[j]}
           at == IF lower = {} THEN Len(r.pending) + 1 ELSE Min(lower)
<1>1. r.pending \in Seq(Job) /\ Len(r.pending) \in Nat /\ DOMAIN r.pending = 1 .. Len(r.pending)
  BY LenProperties DEF JobQueueState
<1>2. at \in 1 .. Len(r.pending) + 1
  <2>1. lower \in SUBSET Nat /\ lower \subseteq 1 .. Len(r.pending)
    BY <1>1
  <2>2. lower # {} => Min(lower) \in lower
    BY <2>1, MinFacts
  <2> QED
    BY <1>1, <2>1, <2>2
<1> HIDE DEF at
<1> DEFINE p == InsertAt(r.pending, at, j)
<1>3. p \in Seq(Job) /\ ToSet(p) = ToSet(r.pending) \cup {j} /\ Distinct(p)
  BY <1>1, <1>2, InsertDistinct
<1>4. Waits(r, j) = [r EXCEPT !.pending = p, !.status[j] = "pending"]
  BY DEF Waits, at
<1> HIDE DEF p
<1>5. [r.status EXCEPT ![j] = "pending"] \in [Job -> JobStatus]
  BY DEF JobQueueState, JobStatus
<1> QED
  BY <1>3, <1>4, <1>5 DEF JobQueueState

\* enqueue, of a job that was never in the queue.
LEMMA PutSound ==
  ASSUME NEW r, Sound(r), NEW j \in Job, r.status[j] = "new"
  PROVE  /\ Sound(Put(r, j)) /\ Touches(r, Put(r, j), {j})
         /\ j \notin RunningJobs(Put(r, j))
<1> DEFINE r1 == [r EXCEPT !.jobs = r.jobs \cup {j}]
<1>1. r \in JobQueueState /\ j \notin Waiting(r) /\ j \notin r.jobs
  BY DEF Sound
<1>2. /\ r1 \in JobQueueState /\ r1.jobs = r.jobs \cup {j} /\ r1.pending = r.pending
      /\ r1.status = r.status /\ r1.attempts = r.attempts
      /\ r1.delayed = r.delayed /\ r1.expiring = r.expiring
  BY <1>1 DEF JobQueueState
<1>3. Put(r, j) = Waits(r1, j)
  BY DEF Put
<1> HIDE DEF r1
<1> DEFINE r2 == Waits(r1, j)
<1>4. /\ r2 \in JobQueueState
      /\ Distinct(r2.pending) /\ ToSet(r2.pending) = ToSet(r.pending) \cup {j}
      /\ r2.status = [r.status EXCEPT ![j] = "pending"]
      /\ r2.jobs = r.jobs \cup {j} /\ r2.attempts = r.attempts
      /\ r2.delayed = r.delayed
  <2>1. Distinct(r1.pending) /\ j \notin ToSet(r1.pending)
    BY <1>1, <1>2 DEF Sound, Waiting
  <2>2. r1 \in JobQueueState
    BY <1>2
  <2>3. /\ r2 \in JobQueueState
        /\ Distinct(r2.pending) /\ ToSet(r2.pending) = ToSet(r1.pending) \cup {j}
        /\ r2.status = [r1.status EXCEPT ![j] = "pending"]
        /\ r2.jobs = r1.jobs /\ r2.attempts = r1.attempts
        /\ r2.delayed = r1.delayed
    BY <2>1, <2>2, WaitsEffect
  <2> HIDE DEF r2
  <2> QED
    BY <1>2, <2>3
<1> HIDE DEF r2
<1>5. \A k \in Job : r2.status[k] = IF k = j THEN "pending" ELSE r.status[k]
  BY <1>1, <1>4 DEF JobQueueState
<1>6. Waiting(r2) = Waiting(r) \cup {j}
  BY <1>4 DEF Waiting
<1>7. Sound(r2)
  <2>1. ToSet(r2.pending) \cap r2.delayed = {}
    BY <1>1, <1>4 DEF Sound, Waiting
  <2>2. \A k \in r2.jobs \cup Waiting(r2) : r2.status[k] # "new"
    BY <1>1, <1>4, <1>5, <1>6, RangeIn DEF Sound, JobQueueState, Waiting
  <2>3. \A k \in Job : /\ r2.status[k] = "new" => r2.attempts[k] = 0
                       /\ r2.attempts[k] <= Tries(k)
                       /\ k \in Waiting(r2) => r2.attempts[k] < Tries(k)
    BY <1>4, <1>5, <1>6, TriesType DEF Sound
  <2> QED
    BY <1>4, <2>1, <2>2, <2>3 DEF Sound
<1>8. Touches(r, r2, {j})
  BY <1>4, <1>5, <1>6 DEF Touches
<1> QED
  BY <1>3, <1>5, <1>7, <1>8 DEF RunningJobs, r2

\* dequeue.
LEMMA TakeSound ==
  ASSUME NEW r, Sound(r), r.pending # <<>>
  PROVE  LET j == Head(r.pending)
         IN /\ Sound(Take(r)) /\ Touches(r, Take(r), {j})
            /\ j \in Job /\ j \in Waiting(r) /\ j \notin Waiting(Take(r))
            /\ Take(r).jobs = r.jobs
<1> DEFINE j == Head(r.pending)
           r2 == Take(r)
<1>1. r \in JobQueueState /\ r.pending \in Seq(Job) /\ Distinct(r.pending)
  BY DEF Sound, JobQueueState
<1>2. /\ j \in Job /\ j \in ToSet(r.pending)
      /\ Tail(r.pending) \in Seq(Job)
      /\ ToSet(Tail(r.pending)) = ToSet(r.pending) \ {j}
      /\ Distinct(Tail(r.pending))
  BY <1>1, TailDistinct
<1>3. r2 = [r EXCEPT !.pending = Tail(r.pending),
                     !.status = [r.status EXCEPT ![j] = "running"],
                     !.attempts = [r.attempts EXCEPT ![j] = r.attempts[j] + 1]]
  BY <1>1 DEF Take, JobQueueState
<1> HIDE DEF r2, j
<1>4. /\ r2.pending = Tail(r.pending) /\ r2.delayed = r.delayed /\ r2.jobs = r.jobs
      /\ r2.status = [r.status EXCEPT ![j] = "running"]
      /\ r2.attempts = [r.attempts EXCEPT ![j] = r.attempts[j] + 1]
      /\ r2.expiring = r.expiring
  BY <1>1, <1>3 DEF JobQueueState
<1>5. r2 \in JobQueueState
  <2>1. r.attempts[j] + 1 \in Nat /\ "running" \in JobStatus
    BY <1>1, <1>2 DEF JobQueueState, JobStatus
  <2> QED
    BY <1>1, <1>2, <1>3, <2>1 DEF JobQueueState
<1>6. \A k \in Job : /\ r2.status[k] = IF k = j THEN "running" ELSE r.status[k]
                     /\ r2.attempts[k] = IF k = j THEN r.attempts[j] + 1 ELSE r.attempts[k]
  BY <1>1, <1>4 DEF JobQueueState
<1>7. j \notin r.delayed /\ Waiting(r2) = Waiting(r) \ {j}
  BY <1>2, <1>4 DEF Sound, Waiting
<1>8. j \in Waiting(r) /\ r.attempts[j] < Tries(j) /\ r.attempts[j] \in Nat
  BY <1>1, <1>2 DEF Sound, Waiting, JobQueueState
<1>9. Sound(r2)
  <2>1. ToSet(r2.pending) \cap r2.delayed = {} /\ Distinct(r2.pending)
    BY <1>2, <1>4 DEF Sound
  <2>2. \A k \in r2.jobs \cup Waiting(r2) : k \in Job /\ r2.status[k] # "new"
    BY <1>1, <1>4, <1>6, <1>7, RangeIn DEF Sound, JobQueueState, Waiting
  <2>3. \A k \in Job : /\ r2.status[k] = "new" => r2.attempts[k] = 0
                       /\ r2.attempts[k] <= Tries(k)
                       /\ k \in Waiting(r2) => r2.attempts[k] < Tries(k)
    BY <1>2, <1>6, <1>7, <1>8, TriesType DEF Sound
  <2> QED
    BY <1>5, <2>1, <2>2, <2>3 DEF Sound
<1>10. Touches(r, r2, {j})
  BY <1>4, <1>6, <1>7, <1>2 DEF Touches
<1> QED
  BY <1>2, <1>4, <1>7, <1>8, <1>9, <1>10 DEF r2, j

\* A job that keeps its place gets a status that is not "new".
LEMMA StatusSound ==
  ASSUME NEW r, Sound(r), NEW j \in Job, NEW st \in JobStatus \ {"new"}, NEW r2 \in JobQueueState,
         r2.status = [r.status EXCEPT ![j] = st], r2.attempts = r.attempts,
         r2.pending = r.pending, r2.delayed = r.delayed, r2.jobs = r.jobs
  PROVE  Sound(r2) /\ Touches(r, r2, {j}) /\ Waiting(r2) = Waiting(r)
<1>1. \A k \in Job : r2.status[k] = IF k = j THEN st ELSE r.status[k]
  BY DEF Sound, JobQueueState
<1>2. Waiting(r2) = Waiting(r)
  BY DEF Waiting
<1>3. r.jobs \cup Waiting(r) \subseteq Job
  BY RangeIn DEF Sound, JobQueueState, Waiting
<1> QED
  BY <1>1, <1>2, <1>3 DEF Sound, Touches

\* markCompleted.
LEMMA CompleteSound ==
  ASSUME NEW r, Sound(r), NEW j \in Job
  PROVE  /\ Sound(Complete(r, j)) /\ Touches(r, Complete(r, j), {j})
         /\ Waiting(Complete(r, j)) = Waiting(r) /\ j \notin RunningJobs(Complete(r, j))
<1> DEFINE r2 == Complete(r, j)
<1> DEFINE st == [r.status EXCEPT ![j] = "completed"]
<1>1. r \in JobQueueState /\ st \in [Job -> JobStatus]
  BY DEF Sound, JobQueueState, JobStatus
<1>2. /\ r2 \in JobQueueState /\ r2.status = st
      /\ r2.attempts = r.attempts /\ r2.pending = r.pending
      /\ r2.delayed = r.delayed /\ r2.jobs = r.jobs
  <2>1. r2 = [r EXCEPT !.status = st, !.expiring = r.expiring \cup {j}]
    BY DEF Complete
  <2> HIDE DEF st, r2
  <2> QED
    BY <1>1, <2>1 DEF JobQueueState
<1> HIDE DEF r2
<1>3. Sound(r2) /\ Touches(r, r2, {j}) /\ Waiting(r2) = Waiting(r)
  BY <1>2, StatusSound DEF JobStatus
<1>4. j \notin RunningJobs(r2)
  BY <1>1, <1>2 DEF RunningJobs, JobQueueState
<1> QED
  BY <1>3, <1>4 DEF r2

\* A job with attempts left that waits nowhere is put into the queue.
LEMMA WaitsSound ==
  ASSUME NEW r, Sound(r), NEW j \in Job, j \notin Waiting(r), r.attempts[j] < Tries(j)
  PROVE  /\ Sound(Waits(r, j)) /\ Touches(r, Waits(r, j), {j})
         /\ j \notin RunningJobs(Waits(r, j))
<1> DEFINE r2 == Waits(r, j)
<1>1. r \in JobQueueState /\ Distinct(r.pending) /\ j \notin ToSet(r.pending)
  BY DEF Sound, Waiting
<1>2. /\ r2 \in JobQueueState
      /\ Distinct(r2.pending) /\ ToSet(r2.pending) = ToSet(r.pending) \cup {j}
      /\ r2.status = [r.status EXCEPT ![j] = "pending"]
      /\ r2.jobs = r.jobs /\ r2.attempts = r.attempts /\ r2.delayed = r.delayed
  BY <1>1, WaitsEffect
<1> HIDE DEF r2
<1>3. \A k \in Job : r2.status[k] = IF k = j THEN "pending" ELSE r.status[k]
  BY <1>1, <1>2 DEF JobQueueState
<1>4. Waiting(r2) = Waiting(r) \cup {j} /\ Waiting(r) \subseteq Job /\ r.jobs \subseteq Job
  BY <1>1, <1>2, RangeIn DEF Waiting, JobQueueState
<1>5. Sound(r2)
  <2>1. ToSet(r2.pending) \cap r2.delayed = {}
    BY <1>2 DEF Sound, Waiting
  <2>2. \A k \in r2.jobs \cup Waiting(r2) : r2.status[k] # "new"
    BY <1>2, <1>3, <1>4 DEF Sound
  <2>3. \A k \in Job : /\ r2.status[k] = "new" => r2.attempts[k] = 0
                       /\ r2.attempts[k] <= Tries(k)
                       /\ k \in Waiting(r2) => r2.attempts[k] < Tries(k)
    BY <1>2, <1>3, <1>4 DEF Sound
  <2> QED
    BY <1>2, <2>1, <2>2, <2>3 DEF Sound
<1>6. Touches(r, r2, {j})
  BY <1>2, <1>3, <1>4 DEF Touches
<1>7. j \notin RunningJobs(r2)
  BY <1>3 DEF RunningJobs
<1> QED
  BY <1>5, <1>6, <1>7 DEF r2

\* markFailed: for good, to its timer or back to the queue.
LEMMA FailSound ==
  ASSUME NEW r, Sound(r), NEW j \in Job, j \notin Waiting(r)
  PROVE  /\ Sound(Fail(r, j)) /\ Touches(r, Fail(r, j), {j})
         /\ j \notin RunningJobs(Fail(r, j))
<1> DEFINE r2 == Fail(r, j)
<1>1. r \in JobQueueState /\ r.attempts[j] \in Nat
  BY DEF Sound, JobQueueState
<1>2. CASE ~RetriesLeft(r, j)
  <2> DEFINE st == [r.status EXCEPT ![j] = "failed"]
  <2>1. r2 = [r EXCEPT !.status = st, !.expiring = r.expiring \cup {j}]
    BY <1>2 DEF Fail
  <2>2. /\ r2 \in JobQueueState /\ r2.status = st
        /\ r2.attempts = r.attempts /\ r2.pending = r.pending
        /\ r2.delayed = r.delayed /\ r2.jobs = r.jobs
    <3>1. st \in [Job -> JobStatus]
      BY <1>1 DEF JobQueueState, JobStatus
    <3> HIDE DEF st, r2
    <3> QED
      BY <1>1, <2>1, <3>1 DEF JobQueueState
  <2> HIDE DEF r2
  <2>3. Sound(r2) /\ Touches(r, r2, {j})
    BY <2>2, StatusSound DEF JobStatus
  <2>4. j \notin RunningJobs(r2)
    BY <1>1, <2>2 DEF RunningJobs, JobQueueState
  <2> QED
    BY <2>3, <2>4 DEF r2
<1>3. CASE RetriesLeft(r, j) /\ j \in Delayed
  <2> DEFINE st == [r.status EXCEPT ![j] = "retrying"]
  <2>1. r2 = [r EXCEPT !.status = st, !.delayed = r.delayed \cup {j}]
    BY <1>3 DEF Fail
  <2>2. /\ r2 \in JobQueueState /\ r2.status = st
        /\ r2.attempts = r.attempts /\ r2.pending = r.pending
        /\ r2.delayed = r.delayed \cup {j} /\ r2.jobs = r.jobs
    <3>1. st \in [Job -> JobStatus]
      BY <1>1 DEF JobQueueState, JobStatus
    <3> HIDE DEF st, r2
    <3> QED
      BY <1>1, <2>1, <3>1 DEF JobQueueState
  <2> HIDE DEF r2
  <2>3. \A k \in Job : r2.status[k] = IF k = j THEN "retrying" ELSE r.status[k]
    BY <1>1, <2>2 DEF JobQueueState
  <2>4. Waiting(r2) = Waiting(r) \cup {j} /\ Waiting(r) \subseteq Job /\ r.jobs \subseteq Job
    BY <1>1, <2>2, RangeIn DEF Waiting, JobQueueState
  <2>5. r.attempts[j] < Tries(j)
    BY <1>1, <1>3, TriesType, JobQueueAssumption DEF RetriesLeft
  <2>6. Sound(r2)
    <3>1. Distinct(r2.pending) /\ ToSet(r2.pending) \cap r2.delayed = {}
      BY <2>2 DEF Sound, Waiting
    <3>2. \A k \in r2.jobs \cup Waiting(r2) : r2.status[k] # "new"
      BY <2>2, <2>3, <2>4 DEF Sound
    <3>3. \A k \in Job : /\ r2.status[k] = "new" => r2.attempts[k] = 0
                         /\ r2.attempts[k] <= Tries(k)
                         /\ k \in Waiting(r2) => r2.attempts[k] < Tries(k)
      BY <2>2, <2>3, <2>4, <2>5 DEF Sound
    <3> QED
      BY <2>2, <3>1, <3>2, <3>3 DEF Sound
  <2>7. Touches(r, r2, {j}) /\ j \notin RunningJobs(r2)
    BY <2>2, <2>3, <2>4 DEF Touches, RunningJobs
  <2> QED
    BY <2>6, <2>7 DEF r2
<1>4. CASE RetriesLeft(r, j) /\ j \notin Delayed
  <2>1. r2 = Waits(r, j)
    BY <1>4 DEF Fail
  <2>2. r.attempts[j] < Tries(j)
    BY <1>1, <1>4, TriesType, JobQueueAssumption DEF RetriesLeft
  <2> QED
    BY <2>1, <2>2, WaitsSound
<1> QED
  BY <1>2, <1>3, <1>4

\* The retry timer.
LEMMA RetrySound ==
  ASSUME NEW r, Sound(r), NEW j \in r.delayed
  PROVE  /\ Sound(Retry(r, j)) /\ Touches(r, Retry(r, j), {j})
         /\ j \notin RunningJobs(Retry(r, j)) /\ j \in Job
<1> DEFINE r1 == [r EXCEPT !.delayed = r.delayed \ {j}]
<1>1. r \in JobQueueState /\ j \in Job /\ j \in Waiting(r) /\ r.attempts[j] < Tries(j)
  BY DEF Sound, JobQueueState, Waiting
<1>2. /\ r1 \in JobQueueState /\ r1.delayed = r.delayed \ {j}
      /\ r1.jobs = r.jobs /\ r1.pending = r.pending
      /\ r1.status = r.status /\ r1.attempts = r.attempts
  BY <1>1 DEF JobQueueState
<1>3. Retry(r, j) = Waits(r1, j)
  BY DEF Retry
<1> HIDE DEF r1
<1>4. Waiting(r1) = Waiting(r) \ {j}
  BY <1>2 DEF Sound, Waiting
<1>5. Sound(r1)
  BY <1>2, <1>4 DEF Sound
<1>6. Sound(Waits(r1, j)) /\ Touches(r1, Waits(r1, j), {j}) /\ j \notin RunningJobs(Waits(r1, j))
  BY <1>1, <1>2, <1>4, <1>5, WaitsSound
<1> QED
  BY <1>1, <1>2, <1>3, <1>4, <1>6 DEF Touches

\* The clean-up timer, remove and clear take jobs away.
LEMMA TakeAwaySound ==
  ASSUME NEW r, Sound(r), NEW r2 \in JobQueueState,
         r2.status = r.status, r2.attempts = r.attempts, r2.delayed = r.delayed,
         r2.jobs \subseteq r.jobs, Distinct(r2.pending), ToSet(r2.pending) \subseteq ToSet(r.pending)
  PROVE  Sound(r2) /\ Touches(r, r2, {})
BY DEF Sound, Touches, Waiting

LEMMA ExpireSound ==
  ASSUME NEW r, Sound(r), NEW j
  PROVE  Sound(Expire(r, j)) /\ Touches(r, Expire(r, j), {})
<1> DEFINE r2 == Expire(r, j)
<1>1. /\ r2 \in JobQueueState /\ r2.status = r.status /\ r2.attempts = r.attempts
      /\ r2.delayed = r.delayed /\ r2.jobs \subseteq r.jobs /\ r2.pending = r.pending
  BY DEF Sound, Expire, JobQueueState
<1> HIDE DEF r2
<1> QED
  BY <1>1, TakeAwaySound DEF Sound, r2

LEMMA WithdrawSound ==
  ASSUME NEW r, Sound(r), NEW j
  PROVE  Sound(Withdraw(r, j)) /\ Touches(r, Withdraw(r, j), {})
<1> DEFINE r2 == Withdraw(r, j)
           p == RemoveFirst(r.pending, j)
<1>1. r \in JobQueueState /\ r.pending \in Seq(Job) /\ Distinct(r.pending)
  BY DEF Sound, JobQueueState
<1>2. p \in Seq(Job) /\ ToSet(p) \subseteq ToSet(r.pending) /\ Distinct(p)
  BY <1>1, RemoveDistinct
<1>3. r2 = [r EXCEPT !.jobs = r.jobs \ {j}, !.pending = p]
  BY DEF Withdraw
<1> HIDE DEF p, r2
<1>4. /\ r2 \in JobQueueState /\ r2.status = r.status /\ r2.attempts = r.attempts
      /\ r2.delayed = r.delayed /\ r2.jobs \subseteq r.jobs /\ r2.pending = p
  BY <1>1, <1>2, <1>3 DEF JobQueueState
<1> QED
  BY <1>2, <1>4, TakeAwaySound DEF r2

LEMMA ClearSound ==
  ASSUME NEW r, Sound(r)
  PROVE  Sound(Clear(r)) /\ Touches(r, Clear(r), {})
<1> DEFINE r2 == Clear(r)
<1>1. <<>> \in Seq(Job) /\ ToSet(<<>>) = {} /\ Distinct(<<>>)
  BY DEF ToSet, Distinct
<1>2. /\ r2 \in JobQueueState /\ r2.status = r.status /\ r2.attempts = r.attempts
      /\ r2.delayed = r.delayed /\ r2.jobs \subseteq r.jobs /\ r2.pending = <<>>
  BY <1>1 DEF Sound, Clear, JobQueueState
<1> HIDE DEF r2
<1> QED
  BY <1>1, <1>2, TakeAwaySound DEF r2

-----------------------------------------------------------------------------
(***************************************************************************)
(* The hands                                                               *)
(***************************************************************************)
LEMMA OneAtMost ==
  /\ {} \in AtMostOne
  /\ \A j \in Job : {j} \in AtMostOne
  /\ \A S \in AtMostOne : S \subseteq Job /\ \A j \in S : S = {j}
<1>1. Cardinality({}) = 0 /\ \A j : Cardinality({j}) = 1
  BY FS_EmptySet, FS_Singleton
<1>2. ASSUME NEW S \in AtMostOne, NEW j \in S PROVE S = {j}
  <2>1. IsFiniteSet(S) /\ Cardinality(S) \in Nat /\ Cardinality(S) <= 1
    BY JobQueueAssumption, FS_Subset, FS_CardinalityType DEF AtMostOne
  <2>2. Cardinality({j}) = 1 /\ {j} \subseteq S /\ IsFiniteSet({j})
    BY <1>1, FS_Singleton
  <2>3. Cardinality({j}) <= Cardinality(S) /\ (Cardinality({j}) = Cardinality(S) => S = {j})
    BY <2>1, <2>2, FS_Subset
  <2> QED
    BY <2>1, <2>2, <2>3
<1>3. \A j \in Job : {j} \in SUBSET Job /\ Cardinality({j}) <= 1
  BY <1>1
<1>4. \A S \in AtMostOne : S \subseteq Job
  BY DEF AtMostOne
<1>5. {} \in AtMostOne
  BY <1>1 DEF AtMostOne
<1>6. \A j \in Job : {j} \in AtMostOne
  BY <1>3 DEF AtMostOne
<1> QED
  BY <1>2, <1>4, <1>5, <1>6

\* A worker's job is settled, or is no longer the queue's.
LEMMA TellSound ==
  ASSUME IInv, NEW w \in Thread, NEW ok \in BOOLEAN, Tell(w, ok)
  PROVE  /\ Sound(q') /\ Touches(q, q', current[w])
         /\ current[w] \cap RunningJobs(q') = {}
<1>1. current[w] \in AtMostOne /\ current[w] \subseteq InHands /\ current[w] \subseteq Job
  BY OneAtMost DEF IInv, TypeOK, InHands
<1>2. \A j \in current[w] : q.status[j] # "new" /\ j \notin Waiting(q) /\ current[w] = {j}
  BY <1>1, OneAtMost DEF IInv, Hands
<1>3. CASE current[w] \cap q.jobs = {} /\ UNCHANGED q
  BY <1>2, <1>3 DEF IInv, Touches, RunningJobs
<1>4. CASE \E j \in current[w] \cap q.jobs : q' = IF ok THEN Complete(q, j) ELSE Fail(q, j)
  <2>1. PICK j \in current[w] : q' = IF ok THEN Complete(q, j) ELSE Fail(q, j)
    BY <1>4
  <2>2. Sound(q) /\ j \in Job /\ j \notin Waiting(q) /\ current[w] = {j}
    BY <1>1, <1>2 DEF IInv
  <2>3. CASE ok
    BY <2>1, <2>2, <2>3, CompleteSound
  <2>4. CASE ~ok
    BY <2>1, <2>2, <2>4, FailSound
  <2> QED
    BY <2>3, <2>4
<1> QED
  BY <1>3, <1>4 DEF Tell

\* A change of the queue that leaves the jobs in hands alone.
LEMMA QueueKeeps ==
  ASSUME IInv, NEW S, Sound(q'), Touches(q, q', S),
         S \cap RunningJobs(q') = {}, S \cap InHands = {}, S \cap disowned = {},
         UNCHANGED <<executing, isRunning, starting, loops, starts, scheduled, poolVars>>
  PROVE  Hands' /\ Pool' /\ Settled' /\ (Cardinality(executing) <= MaxExecutions)'
<1>1. RunningJobs(q') \subseteq RunningJobs(q)
  BY DEF RunningJobs, Touches, Sound, JobQueueState
<1>2. InHands' = InHands /\ Dead' = Dead /\ Room' = Room /\ \A j : Held(j)' <=> Held(j)
  BY DEF InHands, Dead, Room, Held, IsLast, poolVars
<1>3. InHands \subseteq Job
  BY DEF IInv, TypeOK, InHands
<1>4. Hands'
  <2>1. disowned' = disowned /\ disowned \subseteq Job
    BY DEF IInv, TypeOK, poolVars
  <2> QED
    BY <1>2, <1>3, <2>1 DEF IInv, Hands, Touches, poolVars
<1>5. Pool'
  BY <1>2 DEF IInv, Pool, Loops, Owners, IsLast, poolVars
<1>6. Settled'
  BY <1>1, <1>2 DEF IInv, Settled, poolVars
<1> QED
  BY <1>4, <1>5, <1>6 DEF IInv, poolVars

-----------------------------------------------------------------------------
(***************************************************************************)
(* The steps                                                               *)
(***************************************************************************)
LEMMA SubmitStep ==
  ASSUME IInv, NEW j \in Job, Submit(j)
  PROVE  IInv'
<1>1. Sound(q) /\ q.status[j] = "new" /\ q' = Put(q, j)
  BY DEF IInv, Submit
<1>2. Sound(q') /\ Touches(q, q', {j}) /\ {j} \cap RunningJobs(q') = {}
  BY <1>1, PutSound
<1>3. {j} \cap InHands = {} /\ {j} \cap disowned = {}
  BY <1>1 DEF IInv, Hands
<1>4. Hands' /\ Pool' /\ Settled' /\ (Cardinality(executing) <= MaxExecutions)'
  BY <1>2, <1>3, QueueKeeps DEF Submit
<1>5. TypeOK'
  BY <1>2 DEF IInv, TypeOK, Submit, Sound, poolVars
<1> QED
  BY <1>2, <1>4, <1>5 DEF IInv

LEMMA RetryStep ==
  ASSUME IInv, NEW j \in Job, RetryFires(j)
  PROVE  IInv'
<1>1. Sound(q) /\ j \in q.delayed /\ q' = Retry(q, j)
  BY DEF IInv, RetryFires, QueueStep
<1>2. Sound(q') /\ Touches(q, q', {j}) /\ {j} \cap RunningJobs(q') = {}
  BY <1>1, RetrySound
<1>3. {j} \cap InHands = {} /\ {j} \cap disowned = {}
  BY <1>1 DEF IInv, Hands, Waiting
<1>4. Hands' /\ Pool' /\ Settled' /\ (Cardinality(executing) <= MaxExecutions)'
  BY <1>2, <1>3, QueueKeeps DEF RetryFires, QueueStep, engineVars
<1>5. TypeOK'
  BY <1>2 DEF IInv, TypeOK, RetryFires, QueueStep, Sound, engineVars, poolVars
<1> QED
  BY <1>2, <1>4, <1>5 DEF IInv

\* The clean-up timer, remove and clear.
LEMMA TakeAwayStep ==
  ASSUME IInv, (\E j \in Job : CleanUpFires(j) \/ UserRemoves(j)) \/ UserClears
  PROVE  IInv'
<1>1. /\ Sound(q)
      /\ \/ \E j \in Job : q' = Expire(q, j) \/ q' = Withdraw(q, j)
         \/ q' = Clear(q)
      /\ UNCHANGED <<engineVars, scheduled, poolVars>>
  BY DEF IInv, CleanUpFires, UserRemoves, UserClears, QueueStep
<1>2. Sound(q') /\ Touches(q, q', {})
  BY <1>1, ExpireSound, WithdrawSound, ClearSound
<1>3. Hands' /\ Pool' /\ Settled' /\ (Cardinality(executing) <= MaxExecutions)'
  BY <1>1, <1>2, QueueKeeps DEF engineVars
<1>4. TypeOK'
  BY <1>1, <1>2 DEF IInv, TypeOK, Sound, engineVars, poolVars
<1> QED
  BY <1>2, <1>3, <1>4 DEF IInv

LEMMA StartStep ==
  ASSUME IInv, Start
  PROVE  IInv'
<1>1. TypeOK'
  BY JobEngineAssumption DEF IInv, TypeOK, Start, poolVars
<1>2. Hands' /\ Sound(q') /\ Cardinality(executing') <= MaxExecutions
  BY DEF IInv, Hands, InHands, Start, poolVars
<1>3. Room' = Room /\ Dead' = Dead
  BY JobEngineAssumption DEF IInv, TypeOK, Room, Dead, Start, poolVars
<1>4. Pool'
  BY <1>3 DEF IInv, TypeOK, Pool, Loops, Owners, IsLast, Start, poolVars
<1>5. \A j : Held(j)' <=> Held(j)
  BY DEF Held, IsLast, Start, poolVars
<1>6. Settled'
  BY <1>5 DEF IInv, TypeOK, Settled, Start, poolVars
<1> QED
  BY <1>1, <1>2, <1>4, <1>6 DEF IInv

\* There are as many numbers for threads as a run can need.
LEMMA ThreadCount ==
  ASSUME IInv
  PROVE  /\ Cardinality(Thread) = MaxStarts * WorkerCount + MaxDeaths
         /\ IsFiniteSet(Dead) /\ Cardinality(Dead) \in Nat
         /\ Room \in Int /\ created \in Nat
<1>1. MaxStarts * WorkerCount \in Nat /\ MaxDeaths \in Nat
  BY JobEngineAssumption
<1> DEFINE n == MaxStarts * WorkerCount + MaxDeaths
<1>2. n \in Nat /\ Thread = 1 .. n
  BY <1>1 DEF Thread
<1> HIDE DEF n
<1>3. IsFiniteSet(Thread) /\ Cardinality(Thread) = n
  BY <1>2, FS_Interval
<1>4. Dead \subseteq Thread
  BY RangeIn DEF IInv, TypeOK, Dead
<1>5. IsFiniteSet(Dead) /\ Cardinality(Dead) \in Nat
  BY <1>3, <1>4, FS_Subset, FS_CardinalityType
<1>6. created \in Nat
  BY <1>2, <1>3 DEF IInv, TypeOK
<1>7. Room \in Int
  BY JobEngineAssumption DEF IInv, TypeOK, Room
<1> QED
  BY <1>3, <1>5, <1>6, <1>7 DEF n

\* With an empty pool no worker has a job.
LEMMA EmptyPool ==
  ASSUME IInv, pool = <<>>
  PROVE  /\ ToSet(pool) = {} /\ Dead = {}
         /\ \A w \in Thread : current[w] = {}
<1>1. ToSet(pool) = {}
  BY DEF ToSet
<1>2. \A w \in Thread : current[w] = {}
  BY <1>1 DEF IInv, Pool, Loops, Owners
<1> QED
  BY <1>1, <1>2 DEF Dead

LEMMA StopStep ==
  ASSUME IInv, Stop
  PROVE  IInv'
<1>1. /\ sched' = FALSE /\ pool' = <<>> /\ alive' = alive \ ToSet(pool)
      /\ loading' = {} /\ busy' = {}
      /\ current' = [w \in Thread |-> {}] /\ doing' = [w \in Thread |-> <<>>]
      /\ isRunning /\ isRunning' = FALSE
      /\ UNCHANGED <<q, starting, loops, executing, immediate, execution, scheduled,
                     disowned, created, starts, deaths>>
  BY DEF Stop, SchedulerStops
<1>2. ToSet(pool') = {} /\ Dead' = {} /\ Len(pool') = 0 /\ Distinct(pool') /\ pool' \in Seq(Thread)
  BY <1>1 DEF ToSet, Dead, Distinct
<1>3. TypeOK'
  <2>1. current' \in [Thread -> AtMostOne] /\ doing' \in [Thread -> Seq(Job)]
    BY <1>1, OneAtMost
  <2>2. Len(pool') <= WorkerCount
    BY <1>2, JobEngineAssumption
  <2> QED
    BY <1>1, <1>2, <2>1, <2>2 DEF IInv, TypeOK
<1>4. Hands' /\ Sound(q') /\ Cardinality(executing') <= MaxExecutions
  BY <1>1 DEF IInv, Hands, InHands
<1>5. Pool'
  <2>1. Room' = Room /\ Cardinality(Dead') = 0
    BY <1>1, <1>2, FS_EmptySet DEF Room
  <2>2. Cardinality(Dead) \in Nat /\ Room \in Int /\ created \in Nat
    BY ThreadCount
  <2>3. created' + Cardinality(Dead') <= Room'
    BY <1>1, <2>1, <2>2 DEF IInv, Pool, Loops, Owners
  <2>4. \A w \in Thread : current'[w] = {}
    BY <1>1
  <2>5. ToSet(pool') \cup alive' \subseteq 1 .. created'
    BY <1>1, <1>2 DEF IInv, Pool, Loops, Owners
  <2> QED
    BY <1>1, <1>2, <2>3, <2>4, <2>5 DEF IInv, Pool, Loops, Owners
<1>6. Settled'
  <2>1. CASE starting /\ starts = 1
    <3>1. pool = <<>>
      BY <2>1 DEF IInv, Settled, Pool, Loops, Owners
    <3> QED
      BY <1>1, <2>1, <3>1, EmptyPool DEF IInv, Settled, Held
  <2>2. CASE ~starting \/ starts # 1
    BY <1>1, <2>2 DEF IInv, Settled
  <2> QED
    BY <2>1, <2>2
<1> QED
  BY <1>3, <1>4, <1>5, <1>6 DEF IInv

LEMMA LoopStep ==
  ASSUME IInv, LoopEnds \/ Immediate
  PROVE  IInv'
<1>1. /\ UNCHANGED <<q, isRunning, starting, executing, execution, starts, scheduled, poolVars>>
      /\ loops' \in 0 .. loops /\ immediate' \in 0 .. 1
  BY DEF IInv, TypeOK, LoopEnds, Immediate
<1>2. TypeOK'
  BY <1>1, JobEngineAssumption DEF IInv, TypeOK, poolVars
<1>3. Hands' /\ Sound(q') /\ Cardinality(executing') <= MaxExecutions
  BY <1>1 DEF IInv, Hands, InHands, poolVars
<1>4. Room' = Room /\ Dead' = Dead /\ \A j : Held(j)' <=> Held(j)
  BY <1>1 DEF Room, Dead, Held, IsLast, poolVars
<1>5. Pool'
  BY <1>1, <1>4 DEF IInv, TypeOK, Pool, Loops, Owners, IsLast, poolVars
<1>6. Settled'
  BY <1>1, <1>4 DEF IInv, TypeOK, Settled, poolVars
<1> QED
  BY <1>2, <1>3, <1>5, <1>6 DEF IInv

\* What is left of start makes the threads of the pool.
LEMMA StartSchedulerStep ==
  ASSUME IInv, StartScheduler
  PROVE  IInv'
<1> USE JobEngineAssumption
<1>1. /\ starting /\ starting' = FALSE /\ starts' = starts /\ starts \in 1 .. MaxStarts
      /\ starts = 1 => ~sched
      /\ UNCHANGED <<q, isRunning, executing, immediate, execution, scheduled, busy, current,
                     doing, disowned, deaths>>
      /\ loops' \in {loops, loops + 1} /\ loops <= starts - 1 /\ loops \in Nat
  BY DEF IInv, TypeOK, Pool, Loops, Owners, Settled, StartScheduler
<1>8. loops' \in 0 .. MaxStarts /\ loops' <= starts
  BY <1>1
<1>2. Room' = Room + WorkerCount /\ Room' = starts * WorkerCount + deaths /\ Room' \in Nat
  <2>1. Room = (starts - 1) * WorkerCount + deaths /\ Room' = starts * WorkerCount + deaths
    BY <1>1 DEF Room
  <2>2. (starts - 1) * WorkerCount + WorkerCount = starts * WorkerCount
    BY <1>1
  <2>3. (starts - 1) * WorkerCount \in Nat /\ deaths \in Nat
    BY <1>1 DEF IInv, TypeOK
  <2> QED
    BY <2>1, <2>2, <2>3
<1>3. Room' <= MaxStarts * WorkerCount + MaxDeaths
  <2>1. starts * WorkerCount <= MaxStarts * WorkerCount
    BY <1>1
  <2>2. deaths \in 0 .. MaxDeaths /\ starts * WorkerCount \in Nat /\ MaxStarts * WorkerCount \in Nat
    BY <1>1 DEF IInv, TypeOK
  <2> QED
    BY <1>2, <2>1, <2>2
<1>4. Hands' /\ Sound(q') /\ Cardinality(executing') <= MaxExecutions
  BY <1>1 DEF IInv, Hands, InHands
<1>5. Settled'
  <2>1. ASSUME starts = 1, NEW j \in RunningJobs(q) \ disowned PROVE j \in executing
    <3>1. pool = <<>>
      BY <1>1, <2>1 DEF IInv, Pool, Loops, Owners
    <3>2. Held(j)
      BY <1>1, <2>1 DEF IInv, Settled
    <3> QED
      BY <3>1, <3>2, EmptyPool DEF Held
  <2> QED
    BY <1>1, <2>1 DEF Settled, Held
<1>6. CASE scheduled /\ ~sched
  <2>1. /\ sched' = TRUE /\ pool' = [i \in 1 .. WorkerCount |-> created + i]
        /\ alive' = alive \cup NewThreads(WorkerCount)
        /\ loading' = loading \cup NewThreads(WorkerCount)
        /\ created' = created + WorkerCount
    BY <1>6 DEF StartScheduler, Creates
  <2>2. /\ pool = <<>> /\ Dead = {} /\ created \in Nat /\ created <= Room
        /\ \A w \in Thread : current[w] = {}
    <3>1. pool = <<>>
      BY <1>6 DEF IInv, Pool, Loops, Owners
    <3> QED
      BY <3>1, EmptyPool, ThreadCount, FS_EmptySet DEF IInv, Pool, Loops, Owners
  <2>3. Cardinality(Thread) = MaxStarts * WorkerCount + MaxDeaths /\ Room \in Int
    BY ThreadCount
  <2>4. created' \in Nat /\ created' <= Room' /\ created' <= Cardinality(Thread)
    BY <1>2, <1>3, <2>1, <2>2, <2>3
  <2>5. 1 .. created' \subseteq Thread
    BY <2>3, <2>4 DEF Thread
  <2>6. /\ pool' \in Seq(Thread) /\ Len(pool') = WorkerCount /\ DOMAIN pool' = 1 .. WorkerCount
        /\ \A i \in 1 .. WorkerCount : pool'[i] = created + i
    <3>1. \A i \in 1 .. WorkerCount : created + i \in Thread
      BY <2>1, <2>2, <2>5
    <3>2. pool' \in [1 .. WorkerCount -> Thread]
      BY <2>1, <3>1
    <3> QED
      BY <2>1, <3>2, SeqDef, LenProperties
  <2>7. Distinct(pool') /\ ToSet(pool') = NewThreads(WorkerCount)
    <3>1. Distinct(pool')
      BY <2>2, <2>6 DEF Distinct
    <3>2. \A t \in NewThreads(WorkerCount) : t - created \in 1 .. WorkerCount /\ t = created + (t - created)
      BY <2>2 DEF NewThreads
    <3>3. \A i \in 1 .. WorkerCount : created + i \in NewThreads(WorkerCount)
      BY <2>2 DEF NewThreads
    <3>4. ToSet(pool') = {created + i : i \in 1 .. WorkerCount}
      BY <2>6 DEF ToSet
    <3> QED
      BY <3>1, <3>2, <3>3, <3>4
  <2>8. NewThreads(WorkerCount) \subseteq 1 .. created' /\ alive \subseteq 1 .. created'
    BY <2>1, <2>2 DEF NewThreads, IInv, Pool, Loops, Owners
  <2>9. Dead' = {} /\ Cardinality(Dead') = 0
    BY <2>1, <2>7, FS_EmptySet DEF Dead
  <2>10. TypeOK'
    <3>1. {isRunning', starting', scheduled', sched'} \subseteq BOOLEAN
      BY <1>1, <2>1 DEF IInv, TypeOK
    <3>2. busy' \cup alive' \subseteq Thread /\ created' \in 0 .. Cardinality(Thread)
      BY <1>1, <2>1, <2>3, <2>4, <2>5, <2>8 DEF IInv, TypeOK
    <3>4. loading' \subseteq alive'
      BY <2>1 DEF IInv, TypeOK
    <3>3. Len(pool') <= WorkerCount
      BY <2>6
    <3> QED
      BY <1>1, <1>8, <2>6, <3>1, <3>2, <3>3, <3>4 DEF IInv, TypeOK
  <2>11. Pool'
    <3>1. created' + Cardinality(Dead') <= Room'
      BY <1>2, <2>4, <2>9
    <3>2. \A w \in Thread : current'[w] = {}
      BY <1>1, <2>2
    <3>3. ToSet(pool') \cup alive' \subseteq 1 .. created'
      BY <2>1, <2>7, <2>8
    <3> QED
      BY <1>1, <1>8, <2>1, <2>7, <3>1, <3>2, <3>3 DEF Pool, Loops, Owners
  <2> QED
    BY <1>4, <1>5, <2>10, <2>11 DEF IInv
<1>7. CASE ~(scheduled /\ ~sched)
  <2>1. UNCHANGED <<sched, pool, alive, loading, created>>
    BY <1>7 DEF StartScheduler
  <2>2. Dead' = Dead /\ Cardinality(Dead) \in Nat /\ Room \in Int /\ created \in Nat
    BY <2>1, ThreadCount DEF Dead
  <2>3. Pool'
    BY <1>1, <1>2, <1>8, <2>1, <2>2 DEF IInv, Pool, Loops, Owners, IsLast
  <2>4. TypeOK'
    <3>1. {isRunning', starting', scheduled', sched'} \subseteq BOOLEAN
      BY <1>1, <2>1 DEF IInv, TypeOK
    <3> QED
      BY <1>1, <1>8, <2>1, <3>1 DEF IInv, TypeOK
  <2> QED
    BY <1>4, <1>5, <2>3, <2>4 DEF IInv
<1> QED
  BY <1>6, <1>7

\* The engine runs the job at the head of the queue.
LEMMA TakesStep ==
  ASSUME IInv, EngineTakes
  PROVE  IInv'
<1> DEFINE j == Head(q.pending)
<1>1. /\ Sound(q) /\ q.pending # <<>> /\ q' = Take(q) /\ executing' = executing \cup {j}
      /\ execution' = [execution EXCEPT ![j] = "running"]
      /\ Cardinality(executing) + immediate < MaxExecutions
      /\ UNCHANGED <<isRunning, starting, loops, immediate, starts, scheduled, poolVars>>
  BY DEF IInv, EngineTakes, CanTake
<1>2. /\ Sound(q') /\ Touches(q, q', {j})
      /\ j \in Job /\ j \in Waiting(q) /\ j \notin Waiting(q') /\ q'.jobs = q.jobs
  BY <1>1, TakeSound
<1> HIDE DEF j
<1>3. j \notin InHands /\ InHands' = InHands \cup {j} /\ InHands \subseteq Job
  BY <1>1, <1>2 DEF IInv, TypeOK, Hands, InHands, poolVars
<1>4. Hands'
  <2>1. InHands' \cap Waiting(q') = {} /\ \A k \in InHands' : q'.status[k] # "new"
    BY <1>2, <1>3 DEF IInv, Hands, Touches
  <2>2. \A w \in Thread : current'[w] = current[w] /\ j \notin current[w]
    BY <1>1, <1>2, <1>3 DEF InHands, poolVars
  <2>3. \A k \in disowned' : k # j /\ k \notin InHands' \cup Waiting(q') /\ q'.status[k] # "new"
    BY <1>1, <1>2, <1>3 DEF IInv, TypeOK, Hands, Touches, poolVars
  <2> QED
    BY <1>1, <2>1, <2>2, <2>3 DEF IInv, Hands
<1>5. Room' = Room /\ Dead' = Dead
  BY <1>1 DEF Room, Dead, poolVars
<1>6. Pool'
  BY <1>1, <1>5 DEF IInv, Pool, Loops, Owners, IsLast, poolVars
<1>7. Settled'
  <2>1. \A k \in RunningJobs(q') : k = j \/ k \in RunningJobs(q)
    BY <1>2 DEF RunningJobs, Touches, Sound, JobQueueState
  <2>2. \A k : k = j \/ Held(k) => Held(k)'
    BY <1>1 DEF Held, IsLast, poolVars
  <2> QED
    BY <1>1, <2>1, <2>2 DEF IInv, Settled, poolVars
<1>8. Cardinality(executing') <= MaxExecutions
  <2>1. IsFiniteSet(executing) /\ Cardinality(executing) \in Nat /\ immediate \in Nat
    BY JobQueueAssumption, FS_Subset, FS_CardinalityType DEF IInv, TypeOK
  <2>2. j \notin executing
    BY <1>3 DEF InHands
  <2>3. Cardinality(executing \cup {j}) = Cardinality(executing) + 1
    BY <2>1, <2>2, FS_AddElement
  <2> QED
    BY <1>1, <2>1, <2>3, JobEngineAssumption
<1>9. TypeOK'
  BY <1>1, <1>2 DEF IInv, TypeOK, Sound, poolVars
<1> QED
  BY <1>2, <1>4, <1>6, <1>7, <1>8, <1>9 DEF IInv

\* A workflow that does not parse fails at once.
LEMMA RejectsStep ==
  ASSUME IInv, EngineRejects
  PROVE  IInv'
<1> DEFINE j == Head(q.pending)
<1>1. /\ Sound(q) /\ q.pending # <<>>
      /\ UNCHANGED <<isRunning, starting, loops, executing, immediate, starts, scheduled, poolVars>>
      /\ execution' = execution \/ execution' = [execution EXCEPT ![j] = "failed"]
      /\ q' = IF j \in q.jobs THEN Fail(Take(q), j) ELSE Take(q)
  BY DEF IInv, EngineRejects, CanTake
<1> DEFINE q1 == Take(q)
<1>2. /\ Sound(q1) /\ Touches(q, q1, {j})
      /\ j \in Job /\ j \in Waiting(q) /\ j \notin Waiting(q1) /\ q1.jobs = q.jobs
  BY <1>1, TakeSound
<1> HIDE DEF j, q1
<1>3. Sound(q') /\ Touches(q, q', {j}) /\ j \notin RunningJobs(q')
  <2>1. CASE j \in q.jobs
    <3>1. q' = Fail(q1, j)
      BY <1>1, <2>1 DEF q1
    <3>2. Sound(q') /\ Touches(q1, q', {j}) /\ j \notin RunningJobs(q')
      BY <1>2, <3>1, FailSound
    <3> QED
      BY <1>2, <3>2 DEF Touches
  <2>2. CASE j \notin q.jobs
    <3>1. q' = q1
      BY <1>1, <2>2 DEF q1
    <3> QED
      BY <1>2, <2>2, <3>1 DEF RunningJobs
  <2> QED
    BY <2>1, <2>2
<1>4. {j} \cap InHands = {} /\ {j} \cap disowned = {} /\ {j} \cap RunningJobs(q') = {}
  BY <1>2, <1>3 DEF IInv, Hands
<1>5. Hands' /\ Pool' /\ Settled' /\ (Cardinality(executing) <= MaxExecutions)'
  BY <1>1, <1>3, <1>4, QueueKeeps
<1>6. TypeOK'
  BY <1>1, <1>2, <1>3 DEF IInv, TypeOK, Sound, poolVars
<1> QED
  BY <1>3, <1>5, <1>6 DEF IInv

\* An execution that ends is settled in the queue, if the job is still there.
LEMMA EndsStep ==
  ASSUME IInv, NEW j \in Job, NEW ok \in BOOLEAN, ExecutionEnds(j, ok)
  PROVE  IInv'
<1>1. /\ Sound(q) /\ j \in executing /\ executing' = executing \ {j}
      /\ q' = IF j \in q.jobs THEN (IF ok THEN Complete(q, j) ELSE Fail(q, j)) ELSE q
      /\ execution' \in {execution, [execution EXCEPT ![j] = "completed"],
                           [execution EXCEPT ![j] = "failed"]}
      /\ UNCHANGED <<isRunning, starting, loops, immediate, starts, scheduled, poolVars>>
  BY DEF IInv, ExecutionEnds
<1>2. j \in InHands /\ j \notin Waiting(q) /\ q.status[j] # "new"
  BY <1>1 DEF IInv, Hands, InHands
<1>3. Sound(q') /\ Touches(q, q', {j}) /\ j \notin RunningJobs(q')
  <2>1. CASE j \in q.jobs /\ ok
    BY <1>1, <2>1, CompleteSound
  <2>2. CASE j \in q.jobs /\ ~ok
    BY <1>1, <1>2, <2>2, FailSound
  <2>3. CASE j \notin q.jobs
    BY <1>1, <1>2, <2>3 DEF Touches, RunningJobs
  <2> QED
    BY <2>1, <2>2, <2>3
<1>4. InHands' = InHands \ {j} /\ InHands \subseteq Job
  BY <1>1 DEF IInv, TypeOK, Hands, InHands, poolVars
<1>5. Hands'
  <2>1. InHands' \cap Waiting(q') = {} /\ \A k \in InHands' : q'.status[k] # "new"
    BY <1>3, <1>4 DEF IInv, Hands, Touches
  <2>2. \A k \in disowned' : k \notin InHands' \cup Waiting(q') /\ q'.status[k] # "new"
    BY <1>1, <1>2, <1>3, <1>4 DEF IInv, TypeOK, Hands, Touches, poolVars
  <2> QED
    BY <1>1, <2>1, <2>2 DEF IInv, Hands, poolVars
<1>6. Room' = Room /\ Dead' = Dead
  BY <1>1 DEF Room, Dead, poolVars
<1>7. Pool'
  BY <1>1, <1>6 DEF IInv, Pool, Loops, Owners, IsLast, poolVars
<1>8. Settled'
  <2>1. \A k \in RunningJobs(q') : k # j /\ k \in RunningJobs(q)
    BY <1>3 DEF RunningJobs, Touches, Sound, JobQueueState
  <2>2. \A k : k # j /\ Held(k) => Held(k)'
    BY <1>1 DEF Held, IsLast, poolVars
  <2> QED
    BY <1>1, <2>1, <2>2 DEF IInv, Settled, poolVars
<1>9. Cardinality(executing') <= MaxExecutions
  <2>1. IsFiniteSet(executing) /\ Cardinality(executing) \in Nat
    BY JobQueueAssumption, FS_Subset, FS_CardinalityType DEF IInv, TypeOK
  <2>2. Cardinality(executing') <= Cardinality(executing) /\ Cardinality(executing') \in Nat
    BY <1>1, <2>1, FS_Subset, FS_CardinalityType
  <2> QED
    BY <2>1, <2>2, JobEngineAssumption DEF IInv
<1>10. TypeOK'
  BY <1>1, <1>3 DEF IInv, TypeOK, Sound, poolVars
<1> QED
  BY <1>3, <1>5, <1>7, <1>8, <1>9, <1>10 DEF IInv

LEMMA LastAppended ==
  ASSUME NEW S, NEW l \in Seq(S), NEW x \in S
  PROVE  Append(l, x) \in Seq(S) /\ Append(l, x) # <<>> /\ Last(Append(l, x)) = x
<1>1. /\ Append(l, x) \in Seq(S) /\ Len(Append(l, x)) = Len(l) + 1
      /\ Append(l, x)[Len(l) + 1] = x /\ Len(l) \in Nat
  BY AppendProperties, LenProperties
<1> QED
  BY <1>1 DEF Last

\* processJobs gives the head of the queue to a worker that has no job.
LEMMA AssignStep ==
  ASSUME IInv, NEW w \in Thread, Assign(w)
  PROVE  IInv'
<1>0. PICK j : j = Head(q.pending)
  OBVIOUS
<1> DEFINE given == Append(doing[w], j)
<1>1. /\ Sound(q) /\ q.pending # <<>> /\ q' = Take(q) /\ sched
      /\ w \in ToSet(pool) \ busy /\ busy' = busy \cup {w}
      /\ current' = [current EXCEPT ![w] = {j}]
      /\ doing' = IF w \in alive THEN [doing EXCEPT ![w] = given] ELSE doing
      /\ UNCHANGED <<engineVars, scheduled, sched, pool, alive, loading, disowned, created, deaths>>
  BY <1>0 DEF IInv, Assign, CanTake, PoolStep
<1>2. /\ Sound(q') /\ Touches(q, q', {j})
      /\ j \in Job /\ j \in Waiting(q) /\ j \notin Waiting(q') /\ q'.jobs = q.jobs
  BY <1>0, <1>1, TakeSound
<1>3. current \in [Thread -> AtMostOne] /\ doing \in [Thread -> Seq(Job)] /\ {j} \in AtMostOne
  BY <1>2, OneAtMost DEF IInv, TypeOK
<1>12. given \in Seq(Job) /\ given # <<>> /\ Last(given) = j
  BY <1>2, <1>3, LastAppended
<1> HIDE DEF given
<1>4. current[w] = {}
  BY <1>1 DEF IInv, Pool, Loops, Owners
<1>5. /\ \A v \in Thread : current'[v] = IF v = w THEN {j} ELSE current[v]
      /\ \A v \in Thread : v # w => doing'[v] = doing[v]
      /\ w \in alive => doing'[w] = given
  BY <1>1, <1>3
<1>13. (w \in alive => IsLast(j, w)') /\ \A v \in Thread : v # w => \A k : IsLast(k, v)' <=> IsLast(k, v)
  BY <1>5, <1>12 DEF IsLast
<1>6. j \notin InHands /\ InHands' = InHands \cup {j} /\ InHands \subseteq Job
  BY <1>1, <1>2, <1>4, <1>5 DEF IInv, TypeOK, Hands, InHands, engineVars
<1>7. Hands'
  <2>1. InHands' \cap Waiting(q') = {} /\ \A k \in InHands' : q'.status[k] # "new"
    BY <1>2, <1>6 DEF IInv, Hands, Touches
  <2>2. \A v \in Thread : j \notin current[v]
    BY <1>2, <1>6 DEF InHands
  <2>3. j \notin executing
    BY <1>6 DEF InHands
  <2>4. \A k \in disowned' : k \notin InHands' \cup Waiting(q') /\ q'.status[k] # "new"
    BY <1>1, <1>2, <1>6 DEF IInv, TypeOK, Hands, Touches
  <2> QED
    BY <1>1, <1>5, <2>1, <2>2, <2>3, <2>4 DEF IInv, Hands, engineVars
<1>8. Room' = Room /\ Dead' = Dead
  BY <1>1 DEF Room, Dead, engineVars
<1>9. Pool'
  <2>1. Owners'
    BY <1>1, <1>5, <1>13 DEF IInv, Pool, Owners
  <2> QED
    BY <1>1, <1>8, <2>1 DEF IInv, Pool, Loops, engineVars
<1>10. Settled'
  <2>1. \A k \in RunningJobs(q') : k = j \/ k \in RunningJobs(q)
    BY <1>2 DEF RunningJobs, Touches, Sound, JobQueueState
  <2>2. \A v \in ToSet(pool) : v \in Thread
    BY RangeIn DEF IInv, TypeOK
  <2>3. \A k : k = j \/ Held(k) => Held(k)'
    BY <1>1, <1>4, <1>5, <1>13, <2>2 DEF Held, engineVars
  <2> QED
    BY <1>1, <2>1, <2>3 DEF IInv, Settled, engineVars
<1>11. TypeOK'
  <2>1. doing' \in [Thread -> Seq(Job)]
    BY <1>1, <1>3, <1>12
  <2> QED
    BY <1>1, <1>2, <1>3, <2>1 DEF IInv, TypeOK, Sound, engineVars
<1> QED
  BY <1>1, <1>2, <1>7, <1>9, <1>10, <1>11 DEF IInv, engineVars

\* A worker that is freed has no job, and what the others have stays theirs.
LEMMA FreedWorker ==
  ASSUME IInv, NEW w \in Thread, current' = [current EXCEPT ![w] = {}]
  PROVE  /\ current' \in [Thread -> AtMostOne]
         /\ \A v \in Thread : current'[v] = IF v = w THEN {} ELSE current[v]
         /\ executing' = executing => InHands' = InHands \ current[w]
         /\ InHands \subseteq Job
<1>1. /\ current \in [Thread -> AtMostOne] /\ current' \in [Thread -> AtMostOne]
      /\ \A v \in Thread : current'[v] = IF v = w THEN {} ELSE current[v]
  BY OneAtMost DEF IInv, TypeOK
<1>2. executing' = executing => InHands' = InHands \ current[w]
  BY <1>1 DEF IInv, TypeOK, Hands, InHands
<1>3. InHands \subseteq Job
  BY DEF IInv, TypeOK, InHands
<1> QED
  BY <1>1, <1>2, <1>3

\* A worker's job leaves its hands.
LEMMA TellHands ==
  ASSUME IInv, NEW w \in Thread, NEW ok \in BOOLEAN, Tell(w, ok), Frees(w),
         executing' = executing, disowned' = disowned
  PROVE  /\ Sound(q') /\ Hands' /\ current' \in [Thread -> AtMostOne]
         /\ \A v \in Thread : current'[v] = IF v = w THEN {} ELSE current[v]
         /\ \A k \in RunningJobs(q') : k \in RunningJobs(q) /\ k \notin current[w]
<1>1. /\ Sound(q') /\ Touches(q, q', current[w])
      /\ current[w] \cap RunningJobs(q') = {}
  BY TellSound
<1>2. /\ current' \in [Thread -> AtMostOne]
      /\ \A v \in Thread : current'[v] = IF v = w THEN {} ELSE current[v]
      /\ InHands' = InHands \ current[w] /\ InHands \subseteq Job
  BY FreedWorker DEF Frees
<1>4. InHands' \cap Waiting(q') = {} /\ \A k \in InHands' : q'.status[k] # "new"
  BY <1>1, <1>2 DEF IInv, Hands, Touches
<1>3. \A k \in disowned' : k \notin InHands' \cup Waiting(q') /\ q'.status[k] # "new"
  <2>1. current[w] \subseteq InHands
    BY <1>2 DEF IInv, TypeOK, InHands, AtMostOne
  <2> QED
    BY <1>1, <1>2, <2>1 DEF IInv, TypeOK, Hands, Touches
<1>5. Hands'
  BY <1>2, <1>3, <1>4 DEF IInv, Hands
<1>6. \A k \in RunningJobs(q') : k \in RunningJobs(q) /\ k \notin current[w]
  BY <1>1 DEF RunningJobs, Touches, Sound, JobQueueState
<1> QED
  BY <1>1, <1>2, <1>5, <1>6

\* The ready message takes a worker's job away, and lists it.
LEMMA ReadyStep ==
  ASSUME IInv, NEW w \in Thread, WorkerReady(w)
  PROVE  IInv'
<1>1. /\ loading' = loading \ {w} /\ disowned' = disowned \cup current[w]
      /\ busy' = busy \ {w} /\ current' = [current EXCEPT ![w] = {}]
      /\ UNCHANGED <<engineVars, scheduled, q, sched, pool, doing, alive, created, deaths>>
  BY DEF WorkerReady, Frees, PoolStep
<1>2. /\ current' \in [Thread -> AtMostOne]
      /\ \A v \in Thread : current'[v] = IF v = w THEN {} ELSE current[v]
      /\ InHands' = InHands \ current[w] /\ InHands \subseteq Job
  BY <1>1, FreedWorker DEF engineVars
<1>3. current[w] \subseteq InHands
  BY <1>2 DEF IInv, TypeOK, InHands, AtMostOne
<1>4. Hands'
  BY <1>1, <1>2, <1>3 DEF IInv, Hands, engineVars
<1>5. Room' = Room /\ Dead' = Dead /\ \A v \in Thread : \A k : IsLast(k, v)' <=> IsLast(k, v)
  BY <1>1 DEF Room, Dead, IsLast, engineVars
<1>6. Pool'
  BY <1>1, <1>2, <1>5 DEF IInv, Pool, Loops, Owners, engineVars
<1>7. Settled'
  <2>1. \A v \in ToSet(pool) : v \in Thread
    BY RangeIn DEF IInv, TypeOK
  <2>2. \A k : k \notin current[w] /\ Held(k) => Held(k)'
    BY <1>1, <1>2, <1>5, <2>1 DEF Held, engineVars
  <2>3. RunningJobs(q') = RunningJobs(q)
    BY <1>1
  <2> QED
    BY <1>1, <2>2, <2>3 DEF IInv, Settled, engineVars
<1>8. TypeOK'
  <2>1. disowned' \subseteq Job /\ loading' \subseteq alive'
    BY <1>1, <1>2, <1>3 DEF IInv, TypeOK
  <2> QED
    BY <1>1, <1>2, <2>1 DEF IInv, TypeOK, engineVars
<1> QED
  BY <1>1, <1>4, <1>6, <1>7, <1>8 DEF IInv, engineVars

LEMMA ReportStep ==
  ASSUME IInv, NEW w \in Thread, WorkerReports(w)
  PROVE  IInv'
<1>1. /\ Tell(w, TRUE) /\ Frees(w) /\ doing[w] # <<>>
      /\ doing' = [doing EXCEPT ![w] = Tail(@)] /\ busy' = busy \ {w}
      /\ UNCHANGED <<engineVars, scheduled, sched, pool, alive, loading, disowned, created, deaths>>
  BY DEF WorkerReports, Frees, PoolStep
<1>2. /\ Sound(q') /\ Hands' /\ current' \in [Thread -> AtMostOne]
      /\ \A v \in Thread : current'[v] = IF v = w THEN {} ELSE current[v]
      /\ \A k \in RunningJobs(q') : k \in RunningJobs(q) /\ k \notin current[w]
  BY <1>1, TellHands DEF engineVars
<1>3. /\ doing' \in [Thread -> Seq(Job)]
      /\ \A v \in Thread : v # w => \A k : IsLast(k, v)' <=> IsLast(k, v)
  <2>1. doing \in [Thread -> Seq(Job)] /\ Tail(doing[w]) \in Seq(Job)
    BY <1>1, HeadTailProperties DEF IInv, TypeOK
  <2> QED
    BY <1>1, <2>1 DEF IsLast
<1>4. Room' = Room /\ Dead' = Dead
  BY <1>1 DEF Room, Dead, engineVars
<1>5. Pool'
  <2>1. Owners'
    BY <1>1, <1>2, <1>3 DEF IInv, Pool, Owners
  <2> QED
    BY <1>1, <1>4, <2>1 DEF IInv, Pool, Loops, engineVars
<1>6. Settled'
  <2>1. \A v \in ToSet(pool) : v \in Thread
    BY RangeIn DEF IInv, TypeOK
  <2>2. \A k : k \notin current[w] /\ Held(k) => Held(k)'
    BY <1>1, <1>2, <1>3, <2>1 DEF Held, engineVars
  <2> QED
    BY <1>1, <1>2, <2>2 DEF IInv, Settled, engineVars
<1>7. TypeOK'
  BY <1>1, <1>2, <1>3 DEF IInv, TypeOK, Sound, engineVars
<1> QED
  BY <1>1, <1>2, <1>5, <1>6, <1>7 DEF IInv, engineVars

\* A thread dies, with an error event for its job or without.
LEMMA DeathStep ==
  ASSUME IInv, NEW w \in Thread, WorkerError(w) \/ WorkerQuits(w)
  PROVE  IInv'
<1>1. /\ w \in alive /\ deaths < MaxDeaths /\ deaths' = deaths + 1
      /\ alive' = alive \ {w} /\ loading' = loading \ {w}
      /\ UNCHANGED <<engineVars, scheduled, sched, pool, doing, disowned, created>>
  BY DEF WorkerError, WorkerQuits, Dies, PoolStep
<1>2. /\ Sound(q') /\ Hands' /\ current' \in [Thread -> AtMostOne]
      /\ \A v \in Thread \ {w} : current'[v] = current[v]
      /\ \A k \in RunningJobs(q') : k \in RunningJobs(q) /\ (k \in current[w] => k \in current'[w])
      /\ current'[w] \in {{}, current[w]}
      /\ busy' = busy \/ (busy' = busy \ {w} /\ current'[w] = {})
  <2>1. CASE WorkerError(w)
    <3>1. Tell(w, FALSE) /\ Frees(w) /\ busy' = busy \ {w}
      BY <2>1 DEF WorkerError, Frees
    <3>2. /\ Sound(q') /\ Hands' /\ current' \in [Thread -> AtMostOne]
          /\ \A v \in Thread : current'[v] = IF v = w THEN {} ELSE current[v]
          /\ \A k \in RunningJobs(q') : k \in RunningJobs(q) /\ k \notin current[w]
      BY <1>1, <3>1, TellHands DEF engineVars
    <3> QED
      BY <3>1, <3>2
  <2>2. CASE WorkerQuits(w)
    <3>1. UNCHANGED <<q, busy, current>>
      BY <2>2 DEF WorkerQuits
    <3> QED
      BY <1>1, <3>1 DEF IInv, TypeOK, Hands, InHands, engineVars
  <2> QED
    BY <2>1, <2>2
<1>3. \A v, k : IsLast(k, v)' <=> IsLast(k, v)
  BY <1>1 DEF IsLast
<1>4. created' + Cardinality(Dead') <= Room'
  <2>1. Room' = Room + 1 /\ Room \in Int
    <3>1. Room = (IF starting THEN starts - 1 ELSE starts) * WorkerCount + deaths
      BY DEF Room
    <3>2. Room' = (IF starting THEN starts - 1 ELSE starts) * WorkerCount + (deaths + 1)
      BY <1>1 DEF Room, engineVars
    <3>3. (IF starting THEN starts - 1 ELSE starts) * WorkerCount \in Int /\ deaths \in Int
      BY JobEngineAssumption DEF IInv, TypeOK
    <3> QED
      BY <3>1, <3>2, <3>3
  <2>2. IsFiniteSet(Dead) /\ Cardinality(Dead) \in Nat /\ created \in Nat
    BY ThreadCount
  <2>3. Dead' \subseteq Dead \cup {w} /\ w \notin Dead
    BY <1>1 DEF Dead
  <2>4. IsFiniteSet(Dead \cup {w}) /\ Cardinality(Dead \cup {w}) = Cardinality(Dead) + 1
    BY <2>2, <2>3, FS_AddElement
  <2>5. Cardinality(Dead') \in Nat /\ Cardinality(Dead') <= Cardinality(Dead) + 1
    BY <2>3, <2>4, FS_Subset, FS_CardinalityType
  <2>6. created + Cardinality(Dead) <= Room
    BY DEF IInv, Pool, Loops, Owners
  <2> QED
    BY <1>1, <2>1, <2>2, <2>5, <2>6
<1>5. Pool'
  <2>1. \A v \in Thread : /\ current'[v] # {} => v \in ToSet(pool') \cap busy'
                          /\ v \in alive' => \A k \in current'[v] : IsLast(k, v)'
    BY <1>1, <1>2, <1>3 DEF IInv, Pool, Loops, Owners
  <2>2. Loops'
    BY <1>1 DEF IInv, Pool, Loops, Owners, engineVars
  <2>3. Distinct(pool') /\ ToSet(pool') \cup alive' \subseteq 1 .. created' /\ (~sched' => pool' = <<>>)
    BY <1>1 DEF IInv, Pool, Loops, Owners
  <2>4. Owners'
    BY <2>1 DEF Owners
  <2> QED
    BY <1>4, <2>2, <2>3, <2>4 DEF Pool
<1>6. Settled'
  <2>1. \A v \in ToSet(pool) : v \in Thread
    BY RangeIn DEF IInv, TypeOK
  <2>2. \A k : Held(k) /\ (k \in current[w] => k \in current'[w]) => Held(k)'
    BY <1>1, <1>2, <1>3, <2>1 DEF Held, IsLast, engineVars
  <2> QED
    BY <1>1, <1>2, <2>2 DEF IInv, Settled, engineVars
<1>7. TypeOK'
  <2>1. deaths' \in 0 .. MaxDeaths
    BY <1>1, JobEngineAssumption DEF IInv, TypeOK
  <2> QED
    BY <1>1, <1>2, <1>3, <2>1 DEF IInv, TypeOK, Sound, engineVars
<1> QED
  BY <1>1, <1>2, <1>5, <1>6, <1>7 DEF IInv, engineVars

\* The exit event: a new thread takes the place of the dead one.
LEMMA ExitStep ==
  ASSUME IInv, NEW w \in Thread, WorkerExit(w)
  PROVE  IInv'
<1> USE JobEngineAssumption
<1> DEFINE n == created + 1
           p == RemoveFirst(pool, w)
<1>1. /\ w \in Dead /\ Tell(w, FALSE)
      /\ pool' = Append(p, n) /\ created' = n
      /\ alive' = alive \cup {n} /\ loading' = loading \cup {n}
      /\ Frees(w) /\ busy' = busy \ {w} /\ doing' = [doing EXCEPT ![w] = <<>>]
      /\ UNCHANGED <<engineVars, scheduled, sched, disowned, deaths>>
  <2>1. created \in Nat
    BY ThreadCount
  <2>2. NewThreads(1) = {n}
    BY <2>1 DEF NewThreads
  <2> QED
    BY <2>2 DEF WorkerExit, PoolStep, Dead, Creates, Frees
<1>2. /\ Sound(q') /\ Hands' /\ current' \in [Thread -> AtMostOne]
      /\ \A v \in Thread : current'[v] = IF v = w THEN {} ELSE current[v]
      /\ \A k \in RunningJobs(q') : k \in RunningJobs(q) /\ k \notin current[w]
  BY <1>1, TellHands DEF engineVars
<1>3. /\ IsFiniteSet(Dead) /\ Cardinality(Dead) \in Nat /\ Room \in Int /\ created \in Nat
      /\ Cardinality(Thread) = MaxStarts * WorkerCount + MaxDeaths
      /\ created + Cardinality(Dead) <= Room
  BY ThreadCount DEF IInv, Pool, Loops, Owners
<1>4. Cardinality(Dead \ {w}) = Cardinality(Dead) - 1 /\ Cardinality(Dead) > 0
  <2>1. Cardinality(Dead \ {w}) = Cardinality(Dead) - 1 /\ IsFiniteSet(Dead \ {w})
    BY <1>1, <1>3, FS_RemoveElement
  <2>2. Cardinality(Dead \ {w}) \in Nat
    BY <2>1, FS_CardinalityType
  <2> QED
    BY <1>3, <2>1, <2>2
<1>5. n \in Nat /\ n <= Room /\ n <= Cardinality(Thread) /\ n \in Thread
  <2>1. Room <= MaxStarts * WorkerCount + MaxDeaths
    <3> DEFINE m == IF starting THEN starts - 1 ELSE starts
    <3>1. m \in Int /\ m <= MaxStarts /\ deaths \in 0 .. MaxDeaths
      BY DEF IInv, TypeOK
    <3>2. Room = m * WorkerCount + deaths
      BY DEF Room
    <3> HIDE DEF m
    <3>3. m * WorkerCount <= MaxStarts * WorkerCount /\ m * WorkerCount \in Int
      BY <3>1
    <3>4. MaxStarts * WorkerCount \in Int
      OBVIOUS
    <3> QED
      BY <3>1, <3>2, <3>3, <3>4
  <2>2. n \in Nat /\ n <= Room
    BY <1>3, <1>4
  <2>3. MaxStarts * WorkerCount + MaxDeaths \in Int
    OBVIOUS
  <2>4. n <= MaxStarts * WorkerCount + MaxDeaths
    BY <1>3, <2>1, <2>2, <2>3
  <2> QED
    BY <1>3, <2>2, <2>4 DEF Thread
<1>6. /\ pool \in Seq(Thread) /\ Distinct(pool) /\ Len(pool) <= WorkerCount
      /\ ToSet(pool) \cup alive \subseteq 1 .. created
  BY DEF IInv, TypeOK, Pool, Loops, Owners
<1>7. n \notin ToSet(pool) /\ n \notin alive /\ w # n
  BY <1>1, <1>3, <1>6 DEF Dead
<1>8. /\ p \in Seq(Thread) /\ ToSet(p) = ToSet(pool) \ {w} /\ Distinct(p)
      /\ Len(p) = Len(pool) - 1
  BY <1>1, <1>6, RemoveDistinct DEF Dead
<1> HIDE DEF n, p
<1>9. /\ pool' \in Seq(Thread) /\ ToSet(pool') = (ToSet(pool) \ {w}) \cup {n} /\ Distinct(pool')
      /\ Len(pool') = Len(pool)
  <2>1. n \notin ToSet(p)
    BY <1>7, <1>8
  <2>2. Append(p, n) \in Seq(Thread) /\ ToSet(Append(p, n)) = ToSet(p) \cup {n} /\ Distinct(Append(p, n))
    BY <1>5, <1>8, <2>1, AppendDistinct
  <2>3. Len(Append(p, n)) = Len(p) + 1 /\ Len(pool) \in Nat
    BY <1>5, <1>6, <1>8, AppendProperties, LenProperties
  <2> QED
    BY <1>1, <1>8, <2>2, <2>3
<1>10. Dead' = Dead \ {w}
  BY <1>1, <1>7, <1>9 DEF Dead
<1>14. /\ doing' \in [Thread -> Seq(Job)]
       /\ \A v \in Thread : v # w => \A k : IsLast(k, v)' <=> IsLast(k, v)
  <2>1. doing \in [Thread -> Seq(Job)] /\ <<>> \in Seq(Job)
    BY DEF IInv, TypeOK
  <2> QED
    BY <1>1, <2>1 DEF IsLast
<1>11. Pool'
  <2>1. Room' = Room
    BY <1>1 DEF Room, engineVars
  <2>2. created' + Cardinality(Dead') <= Room'
    BY <1>1, <1>3, <1>4, <1>10, <2>1 DEF n
  <2>3. ToSet(pool') \cup alive' \subseteq 1 .. created'
    BY <1>1, <1>3, <1>5, <1>6, <1>9 DEF n
  <2>4. sched /\ current[n] = {}
    <3>1. pool # <<>>
      BY <1>1 DEF Dead, ToSet
    <3> QED
      BY <1>5, <1>7, <3>1 DEF IInv, Pool, Loops, Owners
  <2>5. \A v \in Thread : /\ current'[v] # {} => v \in ToSet(pool') \cap busy'
                          /\ v \in alive' => \A k \in current'[v] : IsLast(k, v)'
    BY <1>1, <1>2, <1>9, <1>14, <2>4 DEF IInv, Pool, Loops, Owners
  <2>6. Loops'
    BY <1>1 DEF IInv, Pool, Loops, Owners, engineVars
  <2>7. Owners'
    BY <2>5 DEF Owners
  <2>8. (~sched => pool = <<>>)'
    BY <1>1, <2>4
  <2> QED
    BY <1>9, <2>2, <2>3, <2>6, <2>7, <2>8 DEF Pool
<1>12. Settled'
  <2>1. \A v \in ToSet(pool) : v \in Thread /\ v # n
    BY <1>7, RangeIn DEF IInv, TypeOK
  <2>2. \A k : k \notin current[w] /\ Held(k) => Held(k)'
    BY <1>1, <1>2, <1>9, <1>14, <2>1 DEF Held, engineVars
  <2> QED
    BY <1>1, <1>2, <2>2 DEF IInv, Settled, engineVars
<1>13. TypeOK'
  <2>1. created' \in 0 .. Cardinality(Thread)
    BY <1>1, <1>3, <1>5
  <2>2. busy' \cup alive' \subseteq Thread /\ loading' \subseteq alive' /\ Len(pool') <= WorkerCount
    BY <1>1, <1>5, <1>6, <1>9 DEF IInv, TypeOK
  <2> QED
    BY <1>1, <1>2, <1>9, <1>14, <2>1, <2>2 DEF IInv, TypeOK, Sound, engineVars
<1> QED
  BY <1>1, <1>2, <1>11, <1>12, <1>13 DEF IInv, engineVars

-----------------------------------------------------------------------------
(***************************************************************************)
(* The theorems                                                            *)
(***************************************************************************)
LEMMA InitIInv == Init => IInv
<1> SUFFICES ASSUME Init PROVE IInv
  OBVIOUS
<1>1. /\ q = NoJobs /\ isRunning = FALSE /\ starting = FALSE /\ loops = 0
      /\ executing = {} /\ immediate = 0 /\ execution = [j \in Job |-> "none"]
      /\ scheduled \in BOOLEAN /\ sched = FALSE
      /\ pool = <<>> /\ busy = {} /\ alive = {} /\ loading = {} /\ created = 0 /\ disowned = {}
      /\ current = [w \in Thread |-> {}] /\ doing = [w \in Thread |-> <<>>]
      /\ starts = 0 /\ deaths = 0
  BY DEF Init
<1>2. ToSet(<<>>) = {} /\ Distinct(<<>>) /\ Len(<<>>) = 0 /\ <<>> \in Seq(Job) /\ <<>> \in Seq(Thread)
  BY DEF ToSet, Distinct
<1>3. Sound(q)
  <2>1. /\ q \in JobQueueState /\ q.jobs = {} /\ q.pending = <<>> /\ q.delayed = {}
        /\ \A j \in Job : q.status[j] = "new" /\ q.attempts[j] = 0
    BY <1>1, <1>2 DEF NoJobs, JobQueueState, JobStatus
  <2>2. Waiting(q) = {}
    BY <1>2, <2>1 DEF Waiting
  <2> QED
    BY <1>2, <2>1, <2>2, TriesType DEF Sound
<1>4. /\ current \in [Thread -> AtMostOne] /\ doing \in [Thread -> Seq(Job)]
      /\ \A w \in Thread : current[w] = {}
  BY <1>1, OneAtMost
<1>5. Cardinality({}) = 0
  BY FS_EmptySet
<1>6. MaxStarts * WorkerCount + MaxDeaths \in Nat /\ 0 * WorkerCount = 0
  BY JobEngineAssumption
<1>7. Cardinality(Thread) \in Nat
  BY <1>6, FS_Interval, FS_CardinalityType DEF Thread
<1>8. TypeOK
  <2>1. {isRunning, starting, scheduled, sched} \subseteq BOOLEAN
    BY <1>1
  <2> QED
    BY <1>1, <1>2, <1>3, <1>4, <1>7, <2>1, JobEngineAssumption DEF TypeOK, Sound
<1>9. Hands
  BY <1>1, <1>4 DEF Hands, InHands
<1>10. Pool
  <2>1. Dead = {} /\ Room = 0 * WorkerCount + 0
    BY <1>1, <1>2 DEF Dead, Room
  <2>2. created + Cardinality(Dead) <= Room
    BY <1>1, <1>5, <1>6, <2>1
  <2>3. Loops /\ Owners
    BY <1>1, <1>4 DEF Loops, Owners
  <2> QED
    BY <1>1, <1>2, <2>2, <2>3 DEF Pool
<1>11. Settled
  BY <1>1, <1>3 DEF Settled, NoJobs, RunningJobs
<1> QED
  BY <1>1, <1>3, <1>5, <1>8, <1>9, <1>10, <1>11, JobEngineAssumption DEF IInv

LEMMA StutterStep ==
  ASSUME IInv, UNCHANGED vars
  PROVE  IInv'
<1>1. TypeOK' /\ Sound(q')
  BY DEF IInv, TypeOK, vars
<1>2. Hands' /\ Cardinality(executing') <= MaxExecutions
  BY DEF IInv, Hands, InHands, vars
<1>3. Dead' = Dead /\ Room' = Room /\ \A j : Held(j)' <=> Held(j)
  BY DEF Dead, Room, Held, IsLast, vars
<1>4. Pool' /\ Settled'
  BY <1>3 DEF IInv, Pool, Loops, Owners, IsLast, Settled, vars
<1> QED
  BY <1>1, <1>2, <1>4 DEF IInv

\* The invariant is inductive.
THEOREM Inductive == Spec => []IInv
<1>1. ASSUME IInv, [Next]_vars PROVE IInv'
  <2>1. CASE StartScheduler
    BY <1>1, <2>1, StartSchedulerStep
  <2>2. CASE EngineTakes
    BY <1>1, <2>2, TakesStep
  <2>3. CASE EngineRejects
    BY <1>1, <2>3, RejectsStep
  <2>4. CASE LoopEnds \/ Immediate
    BY <1>1, <2>4, LoopStep
  <2>5. CASE \E j \in Job : ExecutionEnds(j, TRUE) \/ ExecutionEnds(j, FALSE)
    BY <1>1, <2>5, EndsStep
  <2>6. CASE \E w \in Thread : Assign(w)
    BY <1>1, <2>6, AssignStep
  <2>7. CASE \E w \in Thread : WorkerReports(w)
    BY <1>1, <2>7, ReportStep
  <2>16. CASE \E w \in Thread : WorkerReady(w)
    BY <1>1, <2>16, ReadyStep
  <2>8. CASE \E w \in Thread : WorkerExit(w)
    BY <1>1, <2>8, ExitStep
  <2>9. CASE \E w \in Thread : WorkerError(w) \/ WorkerQuits(w)
    BY <1>1, <2>9, DeathStep
  <2>10. CASE Start
    BY <1>1, <2>10, StartStep
  <2>11. CASE Stop
    BY <1>1, <2>11, StopStep
  <2>12. CASE \E j \in Job : Submit(j)
    BY <1>1, <2>12, SubmitStep
  <2>13. CASE \E j \in Job : RetryFires(j)
    BY <1>1, <2>13, RetryStep
  <2>14. CASE (\E j \in Job : CleanUpFires(j) \/ UserRemoves(j)) \/ UserClears
    BY <1>1, <2>14, TakeAwayStep
  <2>15. CASE UNCHANGED vars
    BY <1>1, <2>15, StutterStep
  <2> QED
    BY <1>1, <2>1, <2>2, <2>3, <2>4, <2>5, <2>6, <2>7, <2>8, <2>9, <2>10, <2>11, <2>12,
       <2>13, <2>14, <2>15, <2>16 DEF Next, Progress, Users
<1> QED
  BY <1>1, InitIInv, PTL DEF Spec

\* The variables have their types: among them, no worker has two jobs and no
\* more threads are made than starts and deaths account for.
THEOREM TypeCorrect == Spec => []TypeOK
<1>1. IInv => TypeOK
  BY DEF IInv
<1> QED
  BY <1>1, Inductive, PTL

LEMMA AtMostOneMember ==
  ASSUME NEW S, \A x, y \in S : x = y
  PROVE  Cardinality(S) = IF S = {} THEN 0 ELSE 1
<1>1. CASE S = {}
  BY <1>1, FS_EmptySet
<1>2. CASE S # {}
  <2>1. PICK x \in S : TRUE
    BY <1>2
  <2>2. S = {x}
    BY <2>1
  <2>3. Cardinality({x}) = 1
    BY FS_Singleton
  <2> QED
    BY <1>2, <2>2, <2>3
<1> QED
  BY <1>1, <1>2

\* A job waits once, or waits for its retry timer, or is run by the engine, or
\* is in the hands of one worker: through the deaths of workers, assignments
\* to dead ones, removals, retries and restarts it is never in two places.
THEOREM JobsInOnePlace == Spec => []OnePlacePerJob
<1>1. ASSUME IInv PROVE OnePlacePerJob
  <2> SUFFICES ASSUME NEW j \in Job
      PROVE  Cardinality({i \in DOMAIN q.pending : q.pending[i] = j})
               + Cardinality({j} \cap q.delayed) + Cardinality({j} \cap executing)
               + Cardinality({w \in Thread : j \in current[w]}) <= 1
    BY DEF OnePlacePerJob
  <2> DEFINE A == {i \in DOMAIN q.pending : q.pending[i] = j}
             B == {j} \cap q.delayed
             C == {j} \cap executing
             D == {w \in Thread : j \in current[w]}
  <2>1. /\ A # {} => j \in ToSet(q.pending)
        /\ B # {} => j \in q.delayed
        /\ C # {} => j \in executing
        /\ D # {} => \E w \in Thread : j \in current[w]
    BY DEF ToSet
  <2>2. /\ ~(A # {} /\ B # {}) /\ ~(A # {} /\ C # {}) /\ ~(A # {} /\ D # {})
        /\ ~(B # {} /\ C # {}) /\ ~(B # {} /\ D # {}) /\ ~(C # {} /\ D # {})
    BY <1>1, <2>1 DEF IInv, Sound, Hands, InHands, Waiting
  <2>3. \A x, y \in A : x = y
    BY <1>1 DEF IInv, Sound, Distinct
  <2>4. \A x, y \in B : x = y
    OBVIOUS
  <2>5. \A x, y \in C : x = y
    OBVIOUS
  <2>6. \A x, y \in D : x = y
    BY <1>1 DEF IInv, Hands
  <2> HIDE DEF A, B, C, D
  <2>7. /\ Cardinality(A) = IF A = {} THEN 0 ELSE 1
        /\ Cardinality(B) = IF B = {} THEN 0 ELSE 1
        /\ Cardinality(C) = IF C = {} THEN 0 ELSE 1
        /\ Cardinality(D) = IF D = {} THEN 0 ELSE 1
    BY <2>3, <2>4, <2>5, <2>6, AtMostOneMember
  <2>8. Cardinality(A) + Cardinality(B) + Cardinality(C) + Cardinality(D) <= 1
    BY <2>2, <2>7
  <2> QED
    BY <2>8 DEF A, B, C, D
<1> QED
  BY <1>1, Inductive, PTL

\* Until a stop terminates the pool, whoever a running job is with settles it,
\* and one that is with nobody was taken from its worker by a ready message.
THEOREM RunningHeld == Spec => []RunningIsHeld
<1>1. ASSUME IInv PROVE RunningIsHeld
  BY <1>1 DEF IInv, Hands, Settled, Held, IsLast, RunningIsHeld
<1> QED
  BY <1>1, Inductive, PTL

\* No job is tried more often than its maxRetries says.
THEOREM TriesBounded == Spec => []AttemptsBounded
<1>1. ASSUME IInv PROVE AttemptsBounded
  BY <1>1 DEF IInv, Sound, Tries, AttemptsBounded
<1> QED
  BY <1>1, Inductive, PTL

\* The engine executes no more queued jobs at once than its limit, over any
\* number of restarts.
THEOREM ExecutionsLimited == Spec => []ExecutionsBounded
<1>1. ASSUME IInv PROVE ExecutionsBounded
  BY <1>1 DEF IInv, ExecutionsBounded
<1> QED
  BY <1>1, Inductive, PTL

-----------------------------------------------------------------------------
(***************************************************************************)
(* Runs on a shared pair of executors                                      *)
(***************************************************************************)
\* A run that has met no other is alone with its pair of executors, which hold
\* its context for as long as it works with them.
AloneWithItsPair ==
  \A r \in Live \ met :
    /\ \A p \in Live : PairOf(p) = PairOf(r) => p = r
    /\ flowStore[PairOf(r)] = r
    /\ place[r] # "starting" => stepStore[PairOf(r)] = r
    /\ atStep[r] \in {0, r}

\* Steps are at work in runs only; only a timer leaves a plan behind; and the
\* runs of a sequential batch begin in their order.
RunsAreRegular ==
  /\ \A r \in Runner : atStep[r] # 0 => place[r] \in {"running", "abandoned"}
  /\ \A r \in Runner : place[r] = "abandoned" => r \in timedOut
  /\ setting = "sequential" =>
       \A p, r \in Runner : p < r /\ place[r] # "waiting" => place[p] # "waiting"

RuntimeInv == RuntimeTypeOK /\ AloneWithItsPair /\ RunsAreRegular /\ RuntimeSafe

LEMMA PairsAreTyped == RuntimeTypeOK => \A r \in Runner : PairOf(r) \in Pair
  BY SharedRuntimeAssumption DEF PairOf, Runner, Pair

LEMMA RuntimeStarts == RuntimeInit => RuntimeInv
<1> SUFFICES ASSUME RuntimeInit PROVE RuntimeInv
  OBVIOUS
<1>1. RuntimeTypeOK
  BY SharedRuntimeAssumption DEF RuntimeInit, RuntimeTypeOK, Pair, Runner
<1>2. Live = {}
  BY DEF RuntimeInit, Live
<1>3. AloneWithItsPair /\ RunsAreRegular /\ RuntimeSafe
  BY <1>2 DEF RuntimeInit, AloneWithItsPair, RunsAreRegular, RuntimeSafe, OwnContext, ApartInBatches
<1> QED
  BY <1>1, <1>3 DEF RuntimeInv

LEMMA RuntimeSteps == RuntimeInv /\ [RuntimeNext]_runtimeVars => RuntimeInv'
<1> SUFFICES ASSUME RuntimeInv, [RuntimeNext]_runtimeVars PROVE RuntimeInv'
  OBVIOUS
<1> USE SharedRuntimeAssumption
<1>p. /\ \A r \in Runner : PairOf(r) \in Pair
      /\ Runner \subseteq Pair /\ 0 \notin Runner /\ 0 \in Pair
  BY PairsAreTyped DEF RuntimeInv, Runner, Pair
<1>1. ASSUME NEW r \in Runner, Begins(r) PROVE RuntimeInv'
  <2>1. RuntimeTypeOK'
    BY <1>1, <1>p DEF Begins, RuntimeInv, RuntimeTypeOK, Live
  <2>2. \A p \in Runner : PairOf(p)' = PairOf(p)
    BY <1>1 DEF Begins, PairOf
  <2>3. /\ place'[r] = "starting" /\ \A p \in Runner \ {r} : place'[p] = place[p]
        /\ flowStore'[PairOf(r)] = r /\ \A x \in Pair \ {PairOf(r)} : flowStore'[x] = flowStore[x]
        /\ Live' = Live \cup {r} /\ r \notin Live
    BY <1>1, <1>p DEF Begins, RuntimeInv, RuntimeTypeOK, Live
  <2>4. /\ met \subseteq met'
        /\ \A p \in Live : PairOf(p) = PairOf(r) => p \in met' /\ r \in met'
        /\ met' \subseteq met \cup {r} \cup {p \in Live : PairOf(p) = PairOf(r)}
        /\ met' # met => \E p \in Live : PairOf(p) = PairOf(r)
    BY <1>1 DEF Begins
  <2>5. AloneWithItsPair'
    <3> SUFFICES ASSUME NEW s \in Live' \ met'
                 PROVE  /\ \A p \in Live' : PairOf(p) = PairOf(s) => p = s
                        /\ flowStore'[PairOf(s)] = s
                        /\ place'[s] # "starting" => stepStore'[PairOf(s)] = s
                        /\ atStep'[s] \in {0, s}
      BY <2>2 DEF AloneWithItsPair, Live
    <3>1. CASE s = r
      BY <1>1, <2>3, <2>4, <3>1 DEF Begins, RuntimeInv, RunsAreRegular
    <3>2. CASE s # r
      BY <1>1, <1>p, <2>3, <2>4, <3>2 DEF Begins, RuntimeInv, AloneWithItsPair, Live
    <3> QED
      BY <3>1, <3>2
  <2>6. RunsAreRegular'
    BY <1>1, <2>3 DEF Begins, RuntimeInv, RunsAreRegular, Runner
  <2>7. RuntimeSafe'
    <3>1. OwnContext'
      BY <1>1, <2>4 DEF Begins, RuntimeInv, RuntimeSafe, OwnContext
    <3>2. setting' \in {"parallel", "mixed"} => met' = {}
      BY <1>1, <2>3, <2>4 DEF Begins, RuntimeInv, RuntimeSafe, ApartInBatches, PairOf
    <3>3. ASSUME setting' = "sequential", NEW s \in met' PROVE \E p \in timedOut' : p <= s
      <4>1. setting = "sequential" /\ timedOut' = timedOut
        BY <1>1, <3>3 DEF Begins
      <4>2. \A p \in Live : p \in timedOut /\ p < r
        BY <1>1, <4>1 DEF Begins, RuntimeInv, RunsAreRegular, Live, Awaited, Runner
      <4>3. CASE s \in met
        BY <4>1, <4>3 DEF RuntimeInv, RuntimeSafe, ApartInBatches
      <4>4. CASE s \notin met
        <5>1. s \in Live \cup {r} /\ Live # {}
          BY <2>4, <3>3, <4>4
        <5> QED
          BY <4>1, <4>2, <5>1 DEF Live, Runner
      <4> QED
        BY <4>3, <4>4
    <3> QED
      BY <3>1, <3>2, <3>3 DEF RuntimeSafe, ApartInBatches
  <2> QED
    BY <2>1, <2>5, <2>6, <2>7 DEF RuntimeInv
<1>2. ASSUME NEW r \in Runner, Configures(r) PROVE RuntimeInv'
  <2>1. RuntimeTypeOK'
    BY <1>2, <1>p DEF Configures, RuntimeInv, RuntimeTypeOK
  <2>2. AloneWithItsPair'
    BY <1>2, <1>p DEF Configures, RuntimeInv, RuntimeTypeOK, AloneWithItsPair, Live, PairOf
  <2>3. RunsAreRegular' /\ RuntimeSafe'
    BY <1>2 DEF Configures, RuntimeInv, RuntimeTypeOK, RunsAreRegular, RuntimeSafe, OwnContext, ApartInBatches
  <2> QED
    BY <2>1, <2>2, <2>3 DEF RuntimeInv
<1>3. ASSUME NEW r \in Runner, StepBegins(r) PROVE RuntimeInv'
  <2>1. RuntimeTypeOK'
    BY <1>3, <1>p DEF StepBegins, Strays, RuntimeInv, RuntimeTypeOK
  <2>2. AloneWithItsPair'
    BY <1>3, <1>p DEF StepBegins, RuntimeInv, RuntimeTypeOK, AloneWithItsPair, Live, PairOf
  <2>3. RunsAreRegular'
    BY <1>3 DEF StepBegins, RuntimeInv, RuntimeTypeOK, RunsAreRegular
  <2>4. RuntimeSafe'
    BY <1>3, <1>p DEF StepBegins, Strays, RuntimeInv, RuntimeTypeOK, AloneWithItsPair, Live, RuntimeSafe,
                      OwnContext, ApartInBatches
  <2> QED
    BY <2>1, <2>2, <2>3, <2>4 DEF RuntimeInv
<1>4. ASSUME NEW r \in Runner, StepEnds(r) PROVE RuntimeInv'
  <2>1. RuntimeTypeOK'
    BY <1>4, <1>p DEF StepEnds, Strays, RuntimeInv, RuntimeTypeOK
  <2>2. AloneWithItsPair'
    BY <1>4, <1>p DEF StepEnds, RuntimeInv, RuntimeTypeOK, AloneWithItsPair, Live, PairOf
  <2>3. RunsAreRegular'
    BY <1>4 DEF StepEnds, RuntimeInv, RuntimeTypeOK, RunsAreRegular
  <2>4. RuntimeSafe'
    BY <1>4, <1>p DEF StepEnds, Strays, RuntimeInv, RuntimeTypeOK, AloneWithItsPair, RunsAreRegular, Live,
                      RuntimeSafe, OwnContext, ApartInBatches
  <2> QED
    BY <2>1, <2>2, <2>3, <2>4 DEF RuntimeInv
<1>5. ASSUME NEW r \in Runner, TimesOut(r) PROVE RuntimeInv'
  <2>1. RuntimeTypeOK'
    BY <1>5, <1>p DEF TimesOut, Strays, RuntimeInv, RuntimeTypeOK
  <2>2. AloneWithItsPair'
    BY <1>5, <1>p DEF TimesOut, RuntimeInv, RuntimeTypeOK, AloneWithItsPair, Live, PairOf
  <2>3. RunsAreRegular'
    BY <1>5 DEF TimesOut, RuntimeInv, RuntimeTypeOK, RunsAreRegular
  <2>4. RuntimeSafe'
    BY <1>5, <1>p DEF TimesOut, Strays, RuntimeInv, RuntimeTypeOK, AloneWithItsPair, RunsAreRegular, Live,
                      RuntimeSafe, OwnContext, ApartInBatches
  <2> QED
    BY <2>1, <2>2, <2>3, <2>4 DEF RuntimeInv
<1>6. ASSUME NEW r \in Runner, PlanEnds(r) PROVE RuntimeInv'
  <2>1. RuntimeTypeOK'
    BY <1>6, <1>p DEF PlanEnds, Strays, RuntimeInv, RuntimeTypeOK
  <2>2. AloneWithItsPair'
    BY <1>6, <1>p DEF PlanEnds, RuntimeInv, RuntimeTypeOK, AloneWithItsPair, Live, PairOf
  <2>3. RunsAreRegular'
    BY <1>6 DEF PlanEnds, RuntimeInv, RuntimeTypeOK, RunsAreRegular
  <2>4. RuntimeSafe'
    BY <1>6, <1>p DEF PlanEnds, Strays, RuntimeInv, RuntimeTypeOK, AloneWithItsPair, RunsAreRegular, Live,
                      RuntimeSafe, OwnContext, ApartInBatches
  <2> QED
    BY <2>1, <2>2, <2>3, <2>4 DEF RuntimeInv
<1>7. CASE UNCHANGED runtimeVars
  BY <1>7 DEF runtimeVars, RuntimeInv, RuntimeTypeOK, AloneWithItsPair, RunsAreRegular, RuntimeSafe, OwnContext,
              ApartInBatches, Live, PairOf
<1> QED
  BY <1>1, <1>2, <1>3, <1>4, <1>5, <1>6, <1>7 DEF RuntimeNext

\* A run works in its own context and returns its own id unless another was at
\* work on its executors, which in a batch takes a run that has timed out, for
\* any runs and steps (the stores in WorkflowExecutor and StepExecutor).
THEOREM RunsKeepApart == RuntimeSpec => []RuntimeSafe
<1>1. RuntimeInv => RuntimeSafe
  BY DEF RuntimeInv
<1> QED
  BY RuntimeStarts, RuntimeSteps, <1>1, PTL DEF RuntimeSpec

-----------------------------------------------------------------------------
(***************************************************************************)
(* Retries                                                                 *)
(***************************************************************************)
\* The place of the loop says how many attempts have left an error, how many
\* delays were waited and how many operations can have taken effect.
RetryCounts ==
  /\ retry.attempt <= policy.max
  /\ abandoned + effects <= (IF retry.at = "running" THEN retry.attempt - 1 ELSE retry.attempt)
  /\ retry.at = "loop" => /\ retry.attempt < policy.max \/ retry.attempt = 0
                          /\ retry.errors = retry.attempt /\ slept = retry.attempt
  /\ retry.at = "running" => /\ retry.attempt > 0
                             /\ retry.errors = retry.attempt - 1 /\ slept = retry.attempt - 1
  /\ retry.at = "sleeping" => /\ retry.attempt \in 1 .. (policy.max - 1)
                              /\ retry.errors = retry.attempt /\ slept = retry.attempt - 1
  /\ retry.at = "threw" => retry.errors <= retry.attempt /\ slept <= retry.attempt
  /\ retry.last = "abort" => retry.at \in {"aborted", "threw"}
  /\ abandoned > 0 => policy.timed
  /\ ~policy.timed /\ ~listenerThrew => effects = 0 \/ retry.at = "success"

RetryInv == RetryTypeOK /\ RetryCounts /\ RetrySafe

RetryLoops == [at : {"loop", "running", "sleeping"} \cup Final, attempt : 0 .. MaxAttempts,
          errors : 0 .. MaxAttempts, last : Errors \cup {"none"}]

LEMMA RetryStarts == RetryInit => RetryInv
<1> SUFFICES ASSUME RetryInit PROVE RetryInv
  OBVIOUS
<1>1. /\ retry \in RetryLoops /\ retry.at = "loop" /\ retry.attempt = 0 /\ retry.errors = 0
      /\ retry.last = "none" /\ policy.max \in Nat
  BY RetryRunAssumption DEF RetryInit, RetryLoops, Policies
<1>2. RetryTypeOK
  BY <1>1, RetryRunAssumption DEF RetryInit, RetryTypeOK, RetryLoops
<1> QED
  BY <1>1, <1>2 DEF RetryInit, RetryInv, RetryCounts, RetrySafe, NoRepeatedEffect, ResultIsTrue, WaitsBetween, Final

\* What the catch block makes of an error of the attempt that runs.
LEMMA CatchFacts ==
  ASSUME RetryInv, retry.at = "running", NEW error \in Errors, Catches(error)
  PROVE  /\ retry' \in RetryLoops
         /\ retry'.attempt = retry.attempt /\ retry'.errors = retry.attempt /\ retry'.last = error
         /\ retry'.at \in {"threw", "sleeping", "aborted", "failed"}
         /\ retry'.at = "sleeping" => retry.attempt < policy.max /\ error # "abort"
         /\ retry'.at = "aborted" => error = "abort"
         /\ retry'.at = "failed" => /\ error # "abort"
                                    /\ retry.attempt = policy.max \/ (policy.selective /\ error = "other")
<1> DEFINE caught == [retry EXCEPT !.errors = @ + 1, !.last = error]
<1>1. /\ retry \in RetryLoops /\ policy \in Policies
      /\ retry.attempt <= policy.max /\ retry.attempt > 0 /\ retry.errors = retry.attempt - 1
  BY DEF RetryInv, RetryTypeOK, RetryCounts, RetryLoops
<1>2. /\ caught \in RetryLoops
      /\ caught.attempt = retry.attempt /\ caught.errors = retry.attempt /\ caught.last = error
  <2>1. retry.errors + 1 \in 0 .. MaxAttempts /\ retry.errors + 1 = retry.attempt
    BY <1>1, RetryRunAssumption DEF RetryLoops, Policies
  <2> QED
    BY <1>1, <2>1 DEF RetryLoops
<1>3. \E at \in {"threw", "sleeping", "aborted", "failed"} :
        /\ retry' = [caught EXCEPT !.at = at]
        /\ at = "sleeping" => ShouldRetry(error, retry.attempt)
        /\ at = "aborted" => ShouldAbort(error)
        /\ at = "failed" => ~ShouldRetry(error, retry.attempt) /\ ~ShouldAbort(error)
  <2> HIDE DEF caught
  <2>1. \/ retry' = [caught EXCEPT !.at = "threw"]
        \/ retry' = [caught EXCEPT !.at =
                       CASE ShouldRetry(error, retry.attempt) -> "sleeping"
                         [] ~ShouldRetry(error, retry.attempt) /\ ShouldAbort(error) -> "aborted"
                         [] OTHER -> "failed"]
    BY DEF Catches, caught
  <2> QED
    BY <2>1
<1>4. PICK at \in {"threw", "sleeping", "aborted", "failed"} :
        /\ retry' = [caught EXCEPT !.at = at]
        /\ at = "sleeping" => ShouldRetry(error, retry.attempt)
        /\ at = "aborted" => ShouldAbort(error)
        /\ at = "failed" => ~ShouldRetry(error, retry.attempt) /\ ~ShouldAbort(error)
  BY <1>3
<1> HIDE DEF caught
<1>5. /\ retry' \in RetryLoops /\ retry'.at = at
      /\ retry'.attempt = caught.attempt /\ retry'.errors = caught.errors /\ retry'.last = caught.last
  BY <1>2, <1>4 DEF RetryLoops, Final
<1>6. /\ at = "sleeping" => retry.attempt < policy.max /\ error # "abort"
      /\ at = "aborted" => error = "abort"
  BY <1>4 DEF ShouldRetry, ShouldAbort
<1>7. at = "failed" => /\ error # "abort"
                       /\ retry.attempt = policy.max \/ (policy.selective /\ error = "other")
  <2>1. ASSUME at = "failed", retry.attempt < policy.max
        PROVE  error # "abort" /\ policy.selective /\ error # "listed"
    BY <2>1, <1>4 DEF ShouldRetry, ShouldAbort
  <2>4. at = "failed" => error # "abort"
    BY <1>4 DEF ShouldAbort
  <2>2. ~(retry.attempt < policy.max) => retry.attempt = policy.max
    BY <1>1, RetryRunAssumption DEF Policies, RetryLoops
  <2>3. error # "abort" /\ error # "listed" => error = "other"
    BY DEF Errors
  <2> QED
    BY <2>1, <2>2, <2>3, <2>4
<1> QED
  BY <1>2, <1>5, <1>6, <1>7

LEMMA RetrySteps == RetryInv /\ [RetryNext]_retryVars => RetryInv'
<1> SUFFICES ASSUME RetryInv, [RetryNext]_retryVars PROVE RetryInv'
  OBVIOUS
<1> USE RetryRunAssumption
        DEF RetryInv, RetryTypeOK, RetryCounts, RetrySafe, NoRepeatedEffect, ResultIsTrue, WaitsBetween,
            Policies, Errors, Final
<1>1. CASE Attempt
  <2>1. CASE retry.attempt < policy.max
    <3>1. /\ retry' \in RetryLoops /\ retry'.at \in {"running", "threw"} /\ retry'.attempt = retry.attempt + 1
          /\ retry'.errors = retry.errors /\ retry'.last = retry.last
      <4>1. retry.attempt + 1 \in 0 .. MaxAttempts /\ retry \in RetryLoops
        BY <2>1 DEF RetryLoops
      <4>2. PICK at \in {"running", "threw"} : retry' = [retry EXCEPT !.at = at, !.attempt = @ + 1]
        BY <1>1, <2>1 DEF Attempt, Ends
      <4>3. at \in {"loop", "running", "sleeping"} \cup Final
        BY <4>2
      <4> QED
        BY <4>1, <4>2, <4>3 DEF RetryLoops
    <3> QED
      BY <1>1, <2>1, <3>1 DEF Attempt, RetryLoops
  <2>2. CASE ~(retry.attempt < policy.max)
    <3>1. /\ retry' \in RetryLoops /\ retry'.at = "failed" /\ retry'.attempt = retry.attempt
          /\ retry'.errors = retry.errors /\ retry'.last = retry.last
      BY <1>1, <2>2 DEF Attempt, Ends, RetryLoops
    <3> QED
      BY <1>1, <2>2, <3>1 DEF Attempt, RetryLoops
  <2> QED
    BY <2>1, <2>2
<1>2. CASE OperationResolves
  <2>1. CASE Ends("success") /\ UNCHANGED listenerThrew
    <3>1. /\ retry' \in RetryLoops /\ retry'.at = "success" /\ retry'.attempt = retry.attempt
          /\ retry'.errors = retry.errors /\ retry'.last = retry.last
      BY <2>1 DEF Ends, RetryLoops
    <3> QED
      BY <1>2, <2>1, <3>1 DEF OperationResolves, RetryLoops
  <2>2. CASE Catches("other") /\ listenerThrew' = TRUE
    BY <1>2, <2>2, CatchFacts DEF OperationResolves, RetryLoops
  <2> QED
    BY <1>2, <2>1, <2>2 DEF OperationResolves
<1>3. CASE OperationRejects
  BY <1>3, CatchFacts DEF OperationRejects, RetryLoops
<1>4. CASE AttemptTimesOut
  BY <1>4, CatchFacts DEF AttemptTimesOut, RetryLoops
<1>5. CASE AbandonedEnds
  BY <1>5 DEF AbandonedEnds
<1>6. CASE BackoffEnds
  BY <1>6 DEF BackoffEnds, Ends
<1>7. CASE UNCHANGED retryVars
  BY <1>7 DEF retryVars
<1> QED
  BY <1>1, <1>2, <1>3, <1>4, <1>5, <1>6, <1>7 DEF RetryNext

\* An operation that took effect is not run again unless its answer was late or
\* lost, and the result says truly what happened, for any number of attempts
\* (RetryExecutor with RetryPolicy).
THEOREM RetriesAreSafe == RetrySpec => []RetrySafe
<1>1. RetryInv => RetrySafe
  BY DEF RetryInv
<1> QED
  BY RetryStarts, RetrySteps, <1>1, PTL DEF RetrySpec

-----------------------------------------------------------------------------
(***************************************************************************)
(* Failure strategies                                                      *)
(***************************************************************************)
FailedRuns == [completed : Nat, failed : SUBSET (1 .. TriedSteps), skipped : Nat, skips : BOOLEAN,
               why : {"none", "critical", "max", "abort"}, verdict : {"none", "success", "partial", "failed"}]

\* The strategy has counted what it carries and what has failed in this run,
\* each step once; while no verdict is given nothing has ended the run.
FailInv ==
  /\ failing \in [strategy : Strategies, count : Nat, carried : Nat, run : FailedRuns, runs : Nat]
  /\ failing.count = failing.carried + Cardinality(FailedRun.failed)
  /\ \A s \in FailedRun.failed : s < Step
  /\ FailedRun.verdict = "none" => FailedRun.why = "none"
  /\ FailuresJudged

LEMMA FailedSets ==
  ASSUME NEW F \in SUBSET (1 .. TriedSteps)
  PROVE  /\ Cardinality(F) \in Nat
         /\ \A s \in 1 .. TriedSteps : s \notin F => Cardinality(F \cup {s}) = Cardinality(F) + 1
         /\ Cardinality(F) = 0 <=> F = {}
<1>1. IsFiniteSet(F)
  <2>1. IsFiniteSet(1 .. TriedSteps)
    BY AutomationAssumption, FS_Interval
  <2> QED
    BY <2>1, FS_Subset
<1> QED
  BY <1>1, FS_CardinalityType, FS_AddElement, FS_EmptySet

LEMMA FreshRuns == FreshRun \in FailedRuns
  BY DEF FreshRun, FailedRuns

LEMMA StrategyFacts ==
  ASSUME NEW s \in Strategies
  PROVE  s.max \in Nat \ {0} /\ s.partial \in BOOLEAN
<1>1. NoFailureLimit \in Nat \ {0}
  BY AutomationAssumption DEF NoFailureLimit
<1> QED
  BY <1>1 DEF Strategies

LEMMA FailStarts == FailInit => FailInv
<1> SUFFICES ASSUME FailInit PROVE FailInv
  OBVIOUS
<1>1. PICK s \in Strategies :
        failing = [strategy |-> s, count |-> 0, carried |-> 0, run |-> FreshRun, runs |-> 1]
  BY DEF FailInit
<1>2. /\ FailedRun = FreshRun /\ FailedRun.failed = {} /\ FailedRun.why = "none" /\ FailedRun.verdict = "none"
      /\ Cardinality(FailedRun.failed) = 0
  BY <1>1, FS_EmptySet DEF FailedRun, FreshRun
<1>3. FailuresJudged
  BY <1>1, <1>2 DEF FailuresJudged
<1> QED
  BY <1>1, <1>2, <1>3, FreshRuns DEF FailInv

LEMMA FailSteps == FailInv /\ [FailNext]_failing => FailInv'
<1> SUFFICES ASSUME FailInv, [FailNext]_failing PROVE FailInv'
  OBVIOUS
<1> DEFINE now == FailedRun
           s == failing.strategy
           bad == Cardinality(now.failed)
<1>1. /\ failing \in [strategy : Strategies, count : Nat, carried : Nat, run : FailedRuns, runs : Nat]
      /\ now \in FailedRuns /\ s \in Strategies /\ bad \in Nat /\ s.max \in Nat \ {0}
      /\ now.completed \in Nat /\ now.skipped \in Nat /\ failing.count \in Nat /\ failing.carried \in Nat
      /\ failing.count = failing.carried + bad
      /\ Step = now.completed + bad + now.skipped + 1
      /\ now.failed \in SUBSET (1 .. TriedSteps)
  BY FailedSets, StrategyFacts DEF FailInv, FailedRun, FailedRuns, Step
<1>2. CASE StepFails
  <2> DEFINE why == EndsFor(s, Step, failing.count + 1)
             verdict == IF why = "none" THEN "none" ELSE AbortStatus(s, why, now.completed)
             skips == now.skips \/ s.type = "skipDependent"
             next == [now EXCEPT !.failed = @ \cup {Step}, !.why = why, !.skips = skips, !.verdict = verdict]
  <2>1. /\ now.verdict = "none" /\ Step \in 1 .. TriedSteps /\ now.why = "none"
        /\ failing' = [failing EXCEPT !.count = @ + 1, !.run = next]
    BY <1>1, <1>2, AutomationAssumption DEF StepFails, StepNext, FailInv, FailedRun
  <2>2. /\ why \in {"none", "critical", "max", "abort"}
        /\ Step \in s.critical <=> why = "critical"
        /\ why = "max" => failing.count + 1 > s.max
        /\ why = "none" => failing.count + 1 <= s.max
    BY <1>1 DEF EndsFor
  <2>3. /\ verdict \in {"none", "partial", "failed"}
        /\ verdict = "none" <=> why = "none"
        /\ why = "critical" => verdict = "failed"
        /\ verdict = "partial" => s.partial /\ now.completed > 0
    BY DEF AbortStatus
  <2>4. skips \in BOOLEAN
    BY Zenon
  <2>5. /\ next \in FailedRuns /\ next.failed = now.failed \cup {Step} /\ next.why = why
        /\ next.verdict = verdict /\ next.completed = now.completed /\ next.skipped = now.skipped
    <3> HIDE DEF why, verdict, skips
    <3> QED
      BY <1>1, <2>1, <2>2, <2>3, <2>4 DEF FailedRuns
  <2>6. Cardinality(next.failed) = bad + 1
    BY <1>1, <2>1, <2>5, FailedSets DEF FailInv
  <2> HIDE DEF why, verdict, skips, next
  <2>7. /\ failing' \in [strategy : Strategies, count : Nat, carried : Nat, run : FailedRuns, runs : Nat]
        /\ failing'.strategy = s /\ failing'.count = failing.count + 1 /\ failing'.carried = failing.carried
        /\ FailedRun' = next
    <3>1. failing.count + 1 \in Nat /\ next \in FailedRuns
      BY <1>1, <2>5
    <3>2. failing' \in [strategy : Strategies, count : Nat, carried : Nat, run : FailedRuns, runs : Nat]
      BY <1>1, <2>1, <3>1
    <3>3. /\ failing'.strategy = s /\ failing'.count = failing.count + 1 /\ failing'.carried = failing.carried
          /\ failing'.run = next
      BY <1>1, <2>1
    <3> QED
      BY <3>2, <3>3 DEF FailedRun
  <2>8. Step' = Step + 1 /\ \A t \in FailedRun'.failed : t < Step'
    <3>1. /\ FailedRun'.failed = now.failed \cup {Step} /\ FailedRun'.completed = now.completed
          /\ FailedRun'.skipped = now.skipped /\ Cardinality(FailedRun'.failed) = bad + 1
      BY <2>5, <2>6, <2>7
    <3>2. Step' = Step + 1
      BY <1>1, <3>1 DEF Step
    <3>3. \A t \in now.failed : t < Step /\ t \in Int /\ Step \in Int
      BY <1>1 DEF FailInv
    <3> QED
      BY <1>1, <3>1, <3>2, <3>3
  <2>9. now.failed \cap s.critical = {}
    BY <2>1 DEF FailInv, FailuresJudged
  <2>10. FailuresJudged'
    <3>1. /\ FailedRun'.failed = now.failed \cup {Step} /\ Cardinality(FailedRun'.failed) = bad + 1
          /\ FailedRun'.completed = now.completed /\ FailedRun'.why = why /\ FailedRun'.verdict = verdict
          /\ failing'.carried = failing.carried /\ failing'.strategy = s
      BY <2>5, <2>6, <2>7
    <3>2. /\ why = "max" => bad + 1 + failing.carried > s.max
          /\ why = "none" => bad + 1 + failing.carried <= s.max
      BY <1>1, <2>2
    <3>3. (now.failed \cup {Step}) \cap s.critical # {} => verdict = "failed"
      BY <2>2, <2>3, <2>9
    <3> QED
      BY <2>3, <3>1, <3>2, <3>3 DEF FailuresJudged
  <2>11. failing'.count = failing'.carried + Cardinality(FailedRun'.failed)
    BY <1>1, <2>6, <2>7
  <2>12. FailedRun'.verdict = "none" => FailedRun'.why = "none"
    BY <2>3, <2>5, <2>7
  <2> QED
    BY <2>7, <2>8, <2>10, <2>11, <2>12 DEF FailInv
<1>3. CASE StepCompletes
  <2>1. /\ now.verdict = "none" /\ now.why = "none"
        /\ failing' = [failing EXCEPT !.run = [now EXCEPT !.completed = @ + 1]]
    BY <1>1, <1>3 DEF StepCompletes, StepNext, FailInv, FailedRun
  <2>2. /\ failing' \in [strategy : Strategies, count : Nat, carried : Nat, run : FailedRuns, runs : Nat]
        /\ failing'.strategy = s /\ failing'.count = failing.count /\ failing'.carried = failing.carried
        /\ FailedRun' = [now EXCEPT !.completed = @ + 1]
    BY <1>1, <2>1 DEF FailedRun, FailedRuns
  <2>3. /\ FailedRun'.failed = now.failed /\ FailedRun'.verdict = "none" /\ FailedRun'.why = "none"
        /\ FailedRun'.completed = now.completed + 1 /\ FailedRun'.skipped = now.skipped
    BY <1>1, <2>1, <2>2 DEF FailedRuns
  <2>4. Step' = Step + 1 /\ \A t \in FailedRun'.failed : t < Step'
    BY <1>1, <2>3 DEF Step, FailInv
  <2>5. FailuresJudged'
    BY <2>1, <2>2, <2>3 DEF FailInv, FailuresJudged
  <2> QED
    BY <1>1, <2>2, <2>3, <2>4, <2>5 DEF FailInv
<1>4. CASE StepIsSkipped
  <2>1. /\ now.verdict = "none" /\ now.why = "none"
        /\ failing' = [failing EXCEPT !.run = [now EXCEPT !.skipped = @ + 1]]
    BY <1>1, <1>4 DEF StepIsSkipped, StepNext, FailInv, FailedRun
  <2>2. /\ failing' \in [strategy : Strategies, count : Nat, carried : Nat, run : FailedRuns, runs : Nat]
        /\ failing'.strategy = s /\ failing'.count = failing.count /\ failing'.carried = failing.carried
        /\ FailedRun' = [now EXCEPT !.skipped = @ + 1]
    BY <1>1, <2>1 DEF FailedRun, FailedRuns
  <2>3. /\ FailedRun'.failed = now.failed /\ FailedRun'.verdict = "none" /\ FailedRun'.why = "none"
        /\ FailedRun'.completed = now.completed /\ FailedRun'.skipped = now.skipped + 1
    BY <1>1, <2>1, <2>2 DEF FailedRuns
  <2>4. Step' = Step + 1 /\ \A t \in FailedRun'.failed : t < Step'
    BY <1>1, <2>3 DEF Step, FailInv
  <2>5. FailuresJudged'
    BY <2>1, <2>2, <2>3 DEF FailInv, FailuresJudged
  <2> QED
    BY <1>1, <2>2, <2>3, <2>4, <2>5 DEF FailInv
<1>5. CASE RunIsJudged
  <2> DEFINE verdict == DetermineFinalStatus(TriedSteps, now.completed, bad, s.partial)
  <2>1. /\ now.verdict = "none" /\ now.why = "none"
        /\ failing' = [failing EXCEPT !.run = [now EXCEPT !.verdict = verdict]]
    BY <1>1, <1>5 DEF RunIsJudged, FailInv, FailedRun
  <2>2. /\ verdict \in {"success", "partial", "failed"}
        /\ verdict = "success" => bad = 0
        /\ verdict = "partial" => s.partial /\ now.completed > 0 /\ now.completed > bad
    BY <1>1, AutomationAssumption DEF DetermineFinalStatus
  <2> HIDE DEF verdict
  <2>3. /\ failing' \in [strategy : Strategies, count : Nat, carried : Nat, run : FailedRuns, runs : Nat]
        /\ failing'.strategy = s /\ failing'.count = failing.count /\ failing'.carried = failing.carried
        /\ FailedRun' = [now EXCEPT !.verdict = verdict]
    BY <1>1, <2>1, <2>2 DEF FailedRun, FailedRuns
  <2>4. /\ FailedRun'.failed = now.failed /\ FailedRun'.verdict = verdict /\ FailedRun'.why = "none"
        /\ FailedRun'.completed = now.completed /\ FailedRun'.skipped = now.skipped
    BY <1>1, <2>1, <2>3 DEF FailedRuns
  <2>5. Step' = Step /\ \A t \in FailedRun'.failed : t < Step'
    BY <1>1, <2>4 DEF Step, FailInv
  <2>6. FailuresJudged'
    BY <1>1, <2>1, <2>2, <2>3, <2>4, FailedSets DEF FailInv, FailuresJudged
  <2> QED
    BY <1>1, <2>2, <2>3, <2>4, <2>5, <2>6 DEF FailInv
<1>6. CASE RunBegins
  <2>1. PICK c \in {0, failing.count} :
          failing' = [failing EXCEPT !.count = c, !.carried = c, !.run = FreshRun, !.runs = @ + 1]
    BY <1>6 DEF RunBegins
  <2>2. /\ failing' \in [strategy : Strategies, count : Nat, carried : Nat, run : FailedRuns, runs : Nat]
        /\ failing'.count = c /\ failing'.carried = c /\ FailedRun' = FreshRun
    <3>1. c \in Nat /\ FreshRun \in FailedRuns /\ failing.runs + 1 \in Nat
      BY <1>1, <2>1, FreshRuns
    <3>2. failing' \in [strategy : Strategies, count : Nat, carried : Nat, run : FailedRuns, runs : Nat]
      BY <1>1, <2>1, <3>1
    <3>3. failing'.count = c /\ failing'.carried = c /\ failing'.run = FreshRun
      BY <1>1, <2>1
    <3> QED
      BY <3>2, <3>3 DEF FailedRun
  <2>3. /\ FailedRun'.failed = {} /\ FailedRun'.why = "none" /\ FailedRun'.verdict = "none"
        /\ Cardinality(FailedRun'.failed) = 0
    BY <2>2, FS_EmptySet DEF FreshRun
  <2>4. FailuresJudged'
    BY <2>3 DEF FailuresJudged
  <2> QED
    BY <1>1, <2>1, <2>2, <2>3, <2>4 DEF FailInv
<1>7. CASE UNCHANGED failing
  BY <1>7 DEF FailInv, FailuresJudged, FailedRun, Step
<1> QED
  BY <1>2, <1>3, <1>4, <1>5, <1>6, <1>7 DEF FailNext

\* A failure strategy ends a run by its limit neither early nor late, whatever
\* it carries from other runs, calls no critical failure a success, and a
\* partial success has more successes than failures at the end of its steps,
\* for any number of steps and runs (FailureStrategy and FailureHandler).
THEOREM FailuresAreJudged == FailSpec => []FailuresJudged
<1>1. FailInv => FailuresJudged
  BY DEF FailInv
<1> QED
  BY FailStarts, FailSteps, <1>1, PTL DEF FailSpec

-----------------------------------------------------------------------------
(***************************************************************************)
(* The listeners of the engine: the handlers of the event bus and the      *)
(* hooks, which come and go while they are called.                         *)
(***************************************************************************)
BusTypes ==
  /\ typed \in Seq(Handler) /\ wild \in Seq(Handler) /\ subscribed \in 0 .. Handlers
  /\ toCall \in [Emission -> Seq(Handler)] /\ fired \in [Handler -> 0 .. 2]
  /\ onceOnly \subseteq Handler

\* Each subscription is in one list, once, and those to come are nowhere.
Subscriptions ==
  /\ Distinct(typed) /\ Distinct(wild) /\ ToSet(typed) \cap ToSet(wild) = {}
  /\ \A e \in Emission : Distinct(toCall[e])
  /\ \A h \in ToSet(typed) \cup ToSet(wild) \cup onceOnly \cup UNION {ToSet(toCall[e]) : e \in Emission} :
       h <= subscribed
  /\ \A h \in Handler : fired[h] > 0 => h <= subscribed

\* A handler of once that was called, with nothing to excuse another call, is in
\* no list any more.
IsOver(h) ==
  h \notin ToSet(typed) \cup ToSet(wild) /\ \A e \in Emission : h \notin ToSet(toCall[e])

BusInv ==
  /\ BusTypes /\ Subscriptions
  /\ \A h \in onceOnly \ excused : fired[h] <= 1 /\ (fired[h] = 1 => IsOver(h))

LEMMA BusStarts == ListenInit => BusInv
<1> SUFFICES ASSUME ListenInit PROVE BusInv
  OBVIOUS
<1>1. <<>> \in Seq(Handler) /\ ToSet(<<>>) = {} /\ Distinct(<<>>)
  BY EmptyDistinct
<1>2. 0 \in 0 .. Handlers
  BY ListenersAssumption
<1>3. BusTypes
  BY <1>1, <1>2 DEF ListenInit, BusTypes
<1>4. Subscriptions
  BY <1>1 DEF ListenInit, Subscriptions
<1> QED
  BY <1>3, <1>4 DEF ListenInit, BusInv

\* Handlers leave the lists, and nothing else changes.
LEMMA ListsShrink ==
  ASSUME BusInv, typed' \in Seq(Handler), wild' \in Seq(Handler), Distinct(typed'), Distinct(wild'),
         ToSet(typed') \subseteq ToSet(typed), ToSet(wild') \subseteq ToSet(wild),
         UNCHANGED <<subscribed, onceOnly, toCall, fired, excused>>
  PROVE  BusInv'
<1>1. BusTypes'
  BY DEF BusInv, BusTypes
<1>2. Subscriptions'
  BY DEF BusInv, Subscriptions
<1>3. \A h : IsOver(h) => IsOver(h)'
  BY DEF IsOver
<1> QED
  BY <1>1, <1>2, <1>3 DEF BusInv

LEMMA Subscribed ==
  ASSUME BusInv, NEW once \in BOOLEAN, NEW all \in BOOLEAN, Subscribes(once, all) PROVE BusInv'
<1> DEFINE n == subscribed + 1
<1>1. /\ subscribed \in Nat /\ n \in Handler /\ n \in Nat /\ n \in 0 .. Handlers /\ subscribed' = n
      /\ onceOnly' \subseteq onceOnly \cup {n} /\ onceOnly \subseteq onceOnly'
      /\ toCall' = toCall /\ fired' = fired /\ excused' = excused
      /\ \/ wild' = Append(wild, n) /\ typed' = typed
         \/ typed' = Append(typed, n) /\ wild' = wild
  BY ListenersAssumption DEF Subscribes, BusInv, BusTypes, Handler
<1>2. \A h \in Handler : h \in Nat /\ (h <= subscribed => h <= n /\ h # n)
  BY <1>1 DEF Handler
<1>3. /\ typed \in Seq(Handler) /\ wild \in Seq(Handler) /\ ToSet(typed) \subseteq Handler /\ ToSet(wild) \subseteq Handler
      /\ \A e \in Emission : toCall[e] \in Seq(Handler) /\ ToSet(toCall[e]) \subseteq Handler
  BY RangeIn DEF BusInv, BusTypes
<1>4. /\ n \notin ToSet(typed) \cup ToSet(wild) /\ (\A e \in Emission : n \notin ToSet(toCall[e]))
      /\ Distinct(typed) /\ Distinct(wild) /\ ToSet(typed) \cap ToSet(wild) = {}
  BY <1>1, <1>2, <1>3 DEF BusInv, Subscriptions
<1> HIDE DEF n
<1>5. /\ Append(typed, n) \in Seq(Handler) /\ Distinct(Append(typed, n))
      /\ ToSet(Append(typed, n)) = ToSet(typed) \cup {n}
      /\ Append(wild, n) \in Seq(Handler) /\ Distinct(Append(wild, n))
      /\ ToSet(Append(wild, n)) = ToSet(wild) \cup {n}
  BY <1>1, <1>3, <1>4, AppendDistinct
<1>6. /\ typed' \in Seq(Handler) /\ wild' \in Seq(Handler) /\ Distinct(typed') /\ Distinct(wild')
      /\ ToSet(typed') \cap ToSet(wild') = {}
      /\ ToSet(typed') \cup ToSet(wild') = ToSet(typed) \cup ToSet(wild) \cup {n}
  BY <1>1, <1>3, <1>4, <1>5
<1>7. BusTypes'
  BY <1>1, <1>6 DEF BusInv, BusTypes
<1>8. Subscriptions'
  <2>1. \A h \in Handler : h <= subscribed => h <= n
    BY <1>2
  <2>2. /\ onceOnly \subseteq Handler
        /\ \A h \in onceOnly \cup ToSet(typed) \cup ToSet(wild) : h <= subscribed
        /\ \A e \in Emission : \A h \in ToSet(toCall[e]) : h <= subscribed
    BY DEF BusInv, BusTypes, Subscriptions
  <2>3. /\ \A h \in onceOnly' \cup ToSet(typed') \cup ToSet(wild') : h <= n
        /\ \A e \in Emission : \A h \in ToSet(toCall[e]) : h <= n
    <3>1. n <= n
      BY <1>1
    <3>2. \A h \in onceOnly \cup ToSet(typed) \cup ToSet(wild) : h <= n
      BY <1>3, <2>1, <2>2
    <3>3. onceOnly' \cup ToSet(typed') \cup ToSet(wild') \subseteq onceOnly \cup ToSet(typed) \cup ToSet(wild) \cup {n}
      BY <1>1, <1>6
    <3>4. \A e \in Emission : \A h \in ToSet(toCall[e]) : h <= n
      BY <1>3, <2>1, <2>2
    <3> QED
      BY <3>1, <3>2, <3>3, <3>4
  <2>4. \A h \in Handler : fired[h] > 0 => h <= n
    BY <1>2 DEF BusInv, Subscriptions
  <2>5. \A e \in Emission : Distinct(toCall[e])
    BY DEF BusInv, Subscriptions
  <2> QED
    BY <1>1, <1>6, <2>3, <2>4, <2>5 DEF Subscriptions
<1>9. ASSUME NEW h \in onceOnly' \ excused'
      PROVE  fired'[h] <= 1 /\ (fired'[h] = 1 => IsOver(h)')
  <2>1. CASE h = n
    <3>1. ~(n <= subscribed)
      BY <1>1 DEF n
    <3>2. fired[n] = 0
      BY <1>1, <3>1 DEF BusInv, BusTypes, Subscriptions
    <3> QED
      BY <1>1, <2>1, <3>2
  <2>2. CASE h # n
    BY <1>1, <1>6, <1>9, <2>2 DEF BusInv, IsOver
  <2> QED
    BY <2>1, <2>2
<1> QED
  BY <1>7, <1>8, <1>9 DEF BusInv

LEMMA Emitted ==
  ASSUME BusInv, NEW e \in Emission, Emits(e) PROVE BusInv'
<1>1. /\ toCall' = [toCall EXCEPT ![e] = typed \o wild]
      /\ UNCHANGED <<typed, wild, subscribed, onceOnly, fired, excused>>
  BY DEF Emits
<1>2. /\ typed \o wild \in Seq(Handler) /\ ToSet(typed \o wild) = ToSet(typed) \cup ToSet(wild)
      /\ Distinct(typed \o wild)
  BY ConcatDistinct DEF BusInv, BusTypes, Subscriptions
<1>3. /\ toCall' \in [Emission -> Seq(Handler)] /\ toCall'[e] = typed \o wild
      /\ \A f \in Emission \ {e} : toCall'[f] = toCall[f]
  BY <1>1, <1>2 DEF BusInv, BusTypes
<1>4. BusTypes'
  BY <1>1, <1>3 DEF BusInv, BusTypes
<1>5. Subscriptions'
  BY <1>1, <1>2, <1>3 DEF BusInv, Subscriptions
<1>6. \A h : IsOver(h) => IsOver(h)'
  BY <1>1, <1>2, <1>3 DEF IsOver
<1> QED
  BY <1>1, <1>4, <1>5, <1>6 DEF BusInv

LEMMA CalledHandler ==
  ASSUME BusInv, NEW e \in Emission, NEW threw \in BOOLEAN, CallsHandler(e, threw) PROVE BusInv'
<1> DEFINE h == Head(toCall[e])
<1>1. /\ toCall[e] # <<>> /\ toCall' = [toCall EXCEPT ![e] = Tail(toCall[e])]
      /\ fired' = [fired EXCEPT ![h] = IF fired[h] < 2 THEN fired[h] + 1 ELSE fired[h]]
      /\ excused' = IF threw \/ \E f \in Emission \ {e} : h \in ToSet(toCall[f]) THEN excused \cup {h} ELSE excused
      /\ Unwraps(h, threw) /\ subscribed' = subscribed /\ onceOnly' = onceOnly
  BY DEF CallsHandler, BusInv, BusTypes
<1>2. /\ toCall[e] \in Seq(Handler) /\ Distinct(toCall[e]) /\ typed \in Seq(Handler) /\ wild \in Seq(Handler)
      /\ Distinct(typed) /\ Distinct(wild)
  BY DEF BusInv, BusTypes, Subscriptions
<1>3. /\ h \in Handler /\ h \in ToSet(toCall[e]) /\ Tail(toCall[e]) \in Seq(Handler)
      /\ ToSet(Tail(toCall[e])) = ToSet(toCall[e]) \ {h} /\ Distinct(Tail(toCall[e]))
  BY <1>1, <1>2, TailDistinct
<1> HIDE DEF h
<1>4. /\ toCall' \in [Emission -> Seq(Handler)] /\ toCall'[e] = Tail(toCall[e])
      /\ \A f \in Emission \ {e} : toCall'[f] = toCall[f]
  BY <1>1, <1>3 DEF BusInv, BusTypes
<1>5. /\ fired' \in [Handler -> 0 .. 2] /\ fired'[h] = (IF fired[h] < 2 THEN fired[h] + 1 ELSE fired[h])
      /\ \A g \in Handler \ {h} : fired'[g] = fired[g]
  <2>1. fired[h] \in 0 .. 2
    BY <1>3 DEF BusInv, BusTypes
  <2>2. (IF fired[h] < 2 THEN fired[h] + 1 ELSE fired[h]) \in 0 .. 2
    BY <2>1
  <2> QED
    BY <1>1, <1>3, <2>2 DEF BusInv, BusTypes
<1>6. /\ RemoveFirst(typed, h) \in Seq(Handler) /\ ToSet(RemoveFirst(typed, h)) = ToSet(typed) \ {h}
      /\ Distinct(RemoveFirst(typed, h))
      /\ RemoveFirst(wild, h) \in Seq(Handler) /\ ToSet(RemoveFirst(wild, h)) = ToSet(wild) \ {h}
      /\ Distinct(RemoveFirst(wild, h))
  BY <1>2, RemoveDistinct
<1>7. /\ typed' \in Seq(Handler) /\ wild' \in Seq(Handler) /\ Distinct(typed') /\ Distinct(wild')
      /\ ToSet(typed') \subseteq ToSet(typed) /\ ToSet(wild') \subseteq ToSet(wild)
      /\ h \in onceOnly /\ ~threw => h \notin ToSet(typed') \cup ToSet(wild')
  BY <1>1, <1>2, <1>6 DEF Unwraps, Without
<1>8. BusTypes'
  BY <1>1, <1>4, <1>5, <1>7 DEF BusInv, BusTypes
<1>9. Subscriptions'
  <2>1. h <= subscribed
    BY <1>3 DEF BusInv, Subscriptions
  <2>2. \A g \in Handler : fired'[g] > 0 => g <= subscribed
    BY <1>5, <2>1 DEF BusInv, Subscriptions
  <2>3. /\ ToSet(typed') \cap ToSet(wild') = {}
        /\ \A f \in Emission : ToSet(toCall'[f]) \subseteq ToSet(toCall[f]) /\ Distinct(toCall'[f])
    BY <1>3, <1>4, <1>7 DEF BusInv, Subscriptions
  <2> QED
    BY <1>1, <1>7, <2>2, <2>3 DEF BusInv, Subscriptions
<1>10. ASSUME NEW g \in onceOnly' \ excused'
       PROVE  fired'[g] <= 1 /\ (fired'[g] = 1 => IsOver(g)')
  <2>1. g \in onceOnly \ excused /\ g \in Handler /\ fired[g] <= 1 /\ (fired[g] = 1 => IsOver(g)) /\ fired[g] \in 0 .. 2
    BY <1>1, <1>10 DEF BusInv, BusTypes
  <2>2. CASE g # h
    <3>1. IsOver(g) => IsOver(g)'
      BY <1>3, <1>4, <1>7 DEF IsOver
    <3> QED
      BY <1>5, <1>10, <2>1, <2>2, <3>1
  <2>3. CASE g = h
    <3>1. ~threw /\ (\A f \in Emission \ {e} : h \notin ToSet(toCall[f])) /\ fired[h] = 0
      BY <1>1, <1>3, <1>10, <2>1, <2>3 DEF IsOver
    <3>2. IsOver(g)'
      BY <1>3, <1>4, <1>7, <2>1, <2>3, <3>1 DEF IsOver
    <3> QED
      BY <1>5, <2>3, <3>1, <3>2
  <2> QED
    BY <2>2, <2>3
<1> QED
  BY <1>8, <1>9, <1>10 DEF BusInv

LEMMA BusSteps == BusInv /\ BusNext => BusInv'
<1> SUFFICES ASSUME BusInv, BusNext PROVE BusInv'
  OBVIOUS
<1>1. ASSUME NEW h \in Handler, Unsubscribes(h) PROVE BusInv'
  <2>1. /\ typed' = RemoveFirst(typed, h) /\ wild' = RemoveFirst(wild, h)
        /\ UNCHANGED <<subscribed, onceOnly, toCall, fired, excused>>
    BY <1>1 DEF Unsubscribes, Without
  <2>2. typed \in Seq(Handler) /\ wild \in Seq(Handler) /\ Distinct(typed) /\ Distinct(wild)
    BY DEF BusInv, BusTypes, Subscriptions
  <2>3. /\ typed' \in Seq(Handler) /\ wild' \in Seq(Handler) /\ Distinct(typed') /\ Distinct(wild')
        /\ ToSet(typed') \subseteq ToSet(typed) /\ ToSet(wild') \subseteq ToSet(wild)
    BY <2>1, <2>2, RemoveDistinct
  <2> QED
    BY <2>1, <2>3, ListsShrink
<1>2. ASSUME NEW all \in BOOLEAN, Off(all) PROVE BusInv'
  <2>1. /\ typed' = <<>> /\ wild' \in {<<>>, wild}
        /\ UNCHANGED <<subscribed, onceOnly, toCall, fired, excused>>
    BY <1>2 DEF Off
  <2>2. /\ <<>> \in Seq(Handler) /\ ToSet(<<>>) = {} /\ Distinct(<<>>)
        /\ wild \in Seq(Handler) /\ Distinct(wild)
    BY EmptyDistinct DEF BusInv, BusTypes, Subscriptions
  <2> QED
    BY <2>1, <2>2, ListsShrink
<1> QED
  BY <1>1, <1>2, Subscribed, Emitted, CalledHandler DEF BusNext

-----------------------------------------------------------------------------
HookRuns == [on : BOOLEAN, live : BOOLEAN, list : Seq(Hook), at : Nat, called : SUBSET Hook, owed : SUBSET Hook]

\* A run with list s is still to come to what it owes, and to nothing it has called.
Walking(k, s) ==
  /\ \A h \in k.owed \ k.called : \E j \in DOMAIN s : j > k.at /\ s[j] = h
  /\ \A j \in DOMAIN s : j > k.at => s[j] \notin k.called

HookInv ==
  /\ hooks \in Seq(Hook) /\ Distinct(hooks) /\ registered \in 0 .. Hooks
  /\ \A h \in ToSet(hooks) : h <= registered
  /\ hookRun \in [HookRun -> HookRuns]
  /\ \A r \in HookRun :
       /\ Distinct(hookRun[r].list)
       /\ \A h \in hookRun[r].called : h <= registered
       /\ \A j \in DOMAIN hookRun[r].list : hookRun[r].list[j] <= registered
       /\ hookRun[r].on => Walking(hookRun[r], Walked(r))

LEMMA HookStarts == ListenInit => HookInv
<1> SUFFICES ASSUME ListenInit PROVE HookInv
  OBVIOUS
<1>1. <<>> \in Seq(Hook) /\ ToSet(<<>>) = {} /\ Distinct(<<>>) /\ DOMAIN <<>> = {}
  BY EmptyDistinct
<1>2. 0 \in 0 .. Hooks
  BY ListenersAssumption
<1>3. NoRun \in HookRuns /\ NoRun.list = <<>> /\ NoRun.called = {} /\ NoRun.on = FALSE
  BY <1>1 DEF NoRun, HookRuns
<1>4. hookRun \in [HookRun -> HookRuns] /\ \A r \in HookRun : hookRun[r] = NoRun
  BY <1>3 DEF ListenInit
<1> QED
  BY <1>1, <1>2, <1>3, <1>4 DEF ListenInit, HookInv

LEMMA HookFacts ==
  ASSUME HookInv
  PROVE  /\ registered \in Nat /\ \A h \in Hook : h \in Nat
         /\ Len(hooks) \in Nat /\ DOMAIN hooks = 1 .. Len(hooks) /\ ToSet(hooks) = {hooks[j] : j \in DOMAIN hooks}
         /\ \A j \in DOMAIN hooks : hooks[j] \in Hook
<1>1. hooks \in Seq(Hook) /\ registered \in 0 .. Hooks
  BY DEF HookInv
<1>2. Len(hooks) \in Nat /\ DOMAIN hooks = 1 .. Len(hooks)
  BY <1>1, LenProperties
<1>3. \A j \in DOMAIN hooks : hooks[j] \in Hook
  BY <1>1, <1>2, ElementOfSeq
<1> QED
  BY <1>1, <1>2, <1>3 DEF Hook, ToSet

LEMMA RegisteredHook ==
  ASSUME HookInv, Registers PROVE HookInv'
<1> DEFINE n == registered + 1
           s == Append(hooks, n)
<1>1. /\ n \in Hook /\ n \in Nat /\ registered' = n /\ n \in 0 .. Hooks /\ hooks' = s /\ hookRun' = hookRun
  BY ListenersAssumption DEF Registers, HookInv, Hook
<1>2. \A h \in Hook : h \in Nat /\ (h <= registered => h <= n /\ h # n)
  BY <1>1, HookFacts
<1>3. n \notin ToSet(hooks) /\ ToSet(hooks) \subseteq Hook
  BY <1>2, RangeIn DEF HookInv
<1>4. s \in Seq(Hook) /\ ToSet(s) = ToSet(hooks) \cup {n} /\ Distinct(s)
  BY <1>1, <1>3, AppendDistinct DEF HookInv
<1>5. /\ DOMAIN s = 1 .. Len(hooks) + 1 /\ s[Len(hooks) + 1] = n
      /\ \A j \in 1 .. Len(hooks) : s[j] = hooks[j]
  BY <1>1, AppendProperties DEF HookInv
<1>6. \A h \in ToSet(s) : h <= n
  BY <1>1, <1>2, <1>3, <1>4 DEF HookInv
<1> HIDE DEF n, s
<1>7. ASSUME NEW r \in HookRun
      PROVE  /\ \A h \in hookRun[r].called : h <= n
             /\ \A j \in DOMAIN hookRun[r].list : hookRun[r].list[j] <= n
             /\ hookRun[r].on => Walking(hookRun[r], Walked(r)')
  <2>1. hookRun[r] \in HookRuns /\ hookRun[r].called \subseteq Hook /\ hookRun[r].at \in Nat
    BY DEF HookInv, HookRuns
  <2>2. n \notin hookRun[r].called
    BY <1>1, <1>2, <2>1 DEF HookInv
  <2>3. \A j \in DOMAIN hookRun[r].list : hookRun[r].list[j] \in Hook
    <3>1. hookRun[r].list \in Seq(Hook)
      BY <2>1 DEF HookRuns
    <3> QED
      BY <3>1, LenProperties, ElementOfSeq
  <2>4. ASSUME hookRun[r].on, hookRun[r].live PROVE Walking(hookRun[r], s)
    <3>1. Walking(hookRun[r], hooks)
      BY <2>4 DEF HookInv, Walked
    <3>2. DOMAIN hooks = 1 .. Len(hooks) /\ DOMAIN hooks \subseteq DOMAIN s
      BY <1>5, HookFacts
    <3>3. \A j \in DOMAIN s : j \in DOMAIN hooks \/ s[j] = n
      BY <1>5, HookFacts
    <3> QED
      BY <1>5, <2>2, <3>1, <3>2, <3>3 DEF Walking
  <2>5. hookRun[r].on => Walking(hookRun[r], Walked(r)')
    <3>1. CASE hookRun[r].live
      BY <1>1, <2>4, <3>1 DEF Walked
    <3>2. CASE ~hookRun[r].live
      BY <1>1, <3>2 DEF Walked, HookInv
    <3> QED
      BY <3>1, <3>2
  <2> QED
    BY <1>2, <2>1, <2>3, <2>5 DEF HookInv
<1> QED
  BY <1>1, <1>4, <1>6, <1>7 DEF HookInv

\* What RemoveAt leaves, and where.
LEMMA RemovedAt ==
  ASSUME NEW T, NEW s \in Seq(T), NEW i \in 1 .. Len(s), Distinct(s)
  PROVE  LET t == RemoveAt(s, i)
         IN /\ t \in Seq(T) /\ Len(t) = Len(s) - 1 /\ Distinct(t)
            /\ \A j \in 1 .. Len(t) : t[j] = IF j < i THEN s[j] ELSE s[j + 1]
<1> DEFINE a == SubSeq(s, 1, i - 1)
           b == SubSeq(s, i + 1, Len(s))
           t == RemoveAt(s, i)
<1>1. Len(s) \in Nat /\ DOMAIN s = 1 .. Len(s) /\ i \in Nat
  BY LenProperties
<1>2. /\ 1 \in 1 .. Len(s) + 1 /\ i - 1 \in 0 .. Len(s) /\ i + 1 \in 1 .. Len(s) + 1 /\ Len(s) \in 0 .. Len(s)
      /\ 1 <= (i - 1) + 1 /\ i + 1 <= Len(s) + 1
      /\ (i - 1) - 1 + 1 = i - 1 /\ Len(s) - (i + 1) + 1 = Len(s) - i
  BY <1>1
<1>3. a \in Seq(T) /\ Len(a) = i - 1 /\ b \in Seq(T) /\ Len(b) = Len(s) - i
  BY <1>2, SliceDistinct
<1>4. /\ \A j \in 1 .. i - 1 : a[j] = s[j]
      /\ \A j \in 1 .. Len(s) - i : b[j] = s[i + j]
  <2>1. /\ \A j \in 1 .. i - 1 : s[j] \in T
        /\ \A j \in i + 1 .. Len(s) : s[j] \in T
    BY <1>1, ElementOfSeq
  <2>2. /\ \A j \in 1 .. (i - 1) - 1 + 1 : a[j] = s[1 + j - 1]
        /\ \A j \in 1 .. Len(s) - (i + 1) + 1 : b[j] = s[i + 1 + j - 1]
    BY <1>1, <2>1, SubSeqProperties
  <2> HIDE DEF a, b
  <2>3. ASSUME NEW j \in 1 .. i - 1 PROVE a[j] = s[j]
    BY <1>1, <1>2, <2>2
  <2>4. ASSUME NEW j \in 1 .. Len(s) - i PROVE b[j] = s[i + j]
    BY <1>1, <1>2, <2>2
  <2> QED
    BY <2>3, <2>4
<1>5. t = a \o b
  BY DEF RemoveAt
<1> HIDE DEF a, b, t
<1>6. /\ t \in Seq(T) /\ Len(t) = (i - 1) + (Len(s) - i)
      /\ \A j \in 1 .. Len(t) : t[j] = IF j <= i - 1 THEN a[j] ELSE b[j - (i - 1)]
  <2>1. /\ a \o b \in Seq(T) /\ Len(a \o b) = Len(a) + Len(b)
        /\ \A j \in 1 .. Len(a) + Len(b) : (a \o b)[j] = IF j <= Len(a) THEN a[j] ELSE b[j - Len(a)]
    BY <1>3, ConcatProperties
  <2> QED
    BY <1>3, <1>5, <2>1
<1>7. Len(t) = Len(s) - 1 /\ Len(t) \in Nat
  BY <1>1, <1>6
<1>8. ASSUME NEW j \in 1 .. Len(t) PROVE t[j] = IF j < i THEN s[j] ELSE s[j + 1]
  <2>1. CASE j < i
    <3>1. j \in 1 .. i - 1 /\ j <= i - 1
      BY <1>1, <1>7, <2>1
    <3> QED
      BY <1>4, <1>6, <2>1, <3>1
  <2>2. CASE ~(j < i)
    <3>1. ~(j <= i - 1) /\ j - (i - 1) \in 1 .. Len(s) - i /\ i + (j - (i - 1)) = j + 1
      BY <1>1, <1>7, <2>2
    <3> QED
      BY <1>4, <1>6, <2>2, <3>1
  <2> QED
    BY <2>1, <2>2
<1>9. Distinct(t)
  <2>1. DOMAIN t = 1 .. Len(t)
    BY <1>6, LenProperties
  <2> SUFFICES ASSUME NEW j \in 1 .. Len(t), NEW k \in 1 .. Len(t), t[j] = t[k] PROVE j = k
    BY <2>1 DEF Distinct
  <2>2. PICK p, u \in 1 .. Len(s) : /\ p = (IF j < i THEN j ELSE j + 1) /\ t[j] = s[p]
                                   /\ u = (IF k < i THEN k ELSE k + 1) /\ t[k] = s[u]
    BY <1>1, <1>7, <1>8
  <2>3. p = u
    BY <1>1, <2>2 DEF Distinct
  <2> QED
    BY <1>1, <1>7, <2>2, <2>3
<1> QED
  BY <1>6, <1>7, <1>8, <1>9 DEF t

LEMMA UnregisteredHook ==
  ASSUME HookInv, NEW i \in Hook, Unregisters(i) PROVE HookInv'
<1> DEFINE s == RemoveAt(hooks, i)
           gone(r) == {hooks[i]} \cup Overlooked(r, i)
<1>1. /\ i \in DOMAIN hooks /\ hooks' = s /\ registered' = registered
      /\ hookRun' = [r \in HookRun |-> [hookRun[r] EXCEPT !.owed = hookRun[r].owed \ gone(r)]]
  BY DEF Unregisters
<1>2. /\ Len(hooks) \in Nat /\ DOMAIN hooks = 1 .. Len(hooks) /\ i \in 1 .. Len(hooks)
      /\ hooks \in Seq(Hook) /\ Distinct(hooks) /\ ToSet(hooks) = {hooks[j] : j \in DOMAIN hooks}
  BY <1>1, HookFacts DEF HookInv
<1>3. /\ s \in Seq(Hook) /\ Len(s) = Len(hooks) - 1 /\ Distinct(s)
      /\ \A j \in 1 .. Len(s) : s[j] = IF j < i THEN hooks[j] ELSE hooks[j + 1]
  BY <1>2, RemovedAt
<1>4. DOMAIN s = 1 .. Len(s) /\ Len(s) \in Nat
  BY <1>3, LenProperties
<1> HIDE DEF s
<1>5. ToSet(s) \subseteq ToSet(hooks)
  <2>1. \A j \in 1 .. Len(s) : j \in 1 .. Len(hooks) /\ j + 1 \in 1 .. Len(hooks)
    BY <1>2, <1>3
  <2> QED
    BY <1>2, <1>3, <1>4, <2>1 DEF ToSet
<1>6. ASSUME NEW r \in HookRun
      PROVE  /\ hookRun'[r] \in HookRuns /\ Distinct(hookRun'[r].list)
             /\ \A h \in hookRun'[r].called : h <= registered
             /\ \A j \in DOMAIN hookRun'[r].list : hookRun'[r].list[j] <= registered
             /\ hookRun'[r].on => Walking(hookRun'[r], Walked(r)')
  <2> DEFINE k == hookRun[r]
             l == hookRun'[r]
  <2>1. k \in HookRuns
    BY DEF HookInv
  <2>2. l = [k EXCEPT !.owed = k.owed \ gone(r)]
    BY <1>1
  <2>3. /\ l \in HookRuns /\ l.on = k.on /\ l.live = k.live /\ l.list = k.list /\ l.at = k.at
        /\ l.called = k.called /\ l.owed = k.owed \ gone(r)
    BY <2>1, <2>2 DEF HookRuns
  <2>4. k.at \in Nat
    BY <2>1 DEF HookRuns
  <2>5. k.on => Walking(k, Walked(r))
    BY DEF HookInv
  <2>6. Walked(r) = (IF k.live THEN hooks ELSE k.list) /\ Walked(r)' = (IF l.live THEN s ELSE l.list)
    BY <1>1 DEF Walked
  <2>7. gone(r) = {hooks[i]} \cup {hooks[j] : j \in {j \in DOMAIN hooks : i <= k.at /\ j = k.at + 1}}
    BY DEF Overlooked
  <2> HIDE DEF k, l, gone
  <2>8. ASSUME k.on, k.live PROVE Walking(l, Walked(r)')
    <3>1. ASSUME NEW h \in l.owed \ l.called PROVE \E j \in DOMAIN s : j > l.at /\ s[j] = h
      <4>1. PICK j \in DOMAIN hooks : j > k.at /\ hooks[j] = h
        BY <2>3, <2>5, <2>6, <2>8, <3>1 DEF Walking
      <4>2. j # i /\ ~(i <= k.at /\ j = k.at + 1)
        BY <2>3, <2>7, <3>1, <4>1
      <4>3. CASE j < i
        <5>1. j \in DOMAIN s /\ s[j] = h
          BY <1>2, <1>3, <1>4, <4>1, <4>3
        <5> QED
          BY <2>3, <4>1, <5>1
      <4>4. CASE j > i
        <5>1. j - 1 \in DOMAIN s /\ ~(j - 1 < i) /\ (j - 1) + 1 = j /\ j - 1 > k.at
          BY <1>2, <1>3, <1>4, <2>4, <4>1, <4>2, <4>4
        <5>2. s[j - 1] = h
          BY <1>3, <1>4, <4>1, <5>1
        <5> QED
          BY <2>3, <5>1, <5>2
      <4> QED
        BY <1>2, <4>2, <4>3, <4>4
    <3>2. ASSUME NEW j \in DOMAIN s, j > l.at PROVE s[j] \notin l.called
      <4>1. PICK p \in DOMAIN hooks : s[j] = hooks[p] /\ p > k.at
        <5>1. j \in DOMAIN hooks /\ j + 1 \in DOMAIN hooks /\ j + 1 > k.at /\ j > k.at
          BY <1>2, <1>3, <1>4, <2>3, <2>4, <3>2
        <5> QED
          BY <1>3, <1>4, <5>1
      <4> QED
        BY <2>3, <2>5, <2>6, <2>8, <4>1 DEF Walking
    <3> QED
      BY <2>3, <2>6, <2>8, <3>1, <3>2 DEF Walking
  <2>9. ASSUME k.on, ~k.live PROVE Walking(l, Walked(r)')
    BY <2>3, <2>5, <2>6, <2>9 DEF Walking
  <2>10. /\ Distinct(l.list) /\ (\A h \in l.called : h <= registered)
         /\ \A j \in DOMAIN l.list : l.list[j] <= registered
    BY <2>3 DEF HookInv, k
  <2>11. l.on => Walking(l, Walked(r)')
    BY <2>3, <2>8, <2>9
  <2> QED
    BY <2>3, <2>10, <2>11 DEF l
<1>7. hookRun' \in [HookRun -> HookRuns]
  BY <1>1, <1>6
<1> QED
  BY <1>1, <1>3, <1>5, <1>6, <1>7 DEF HookInv

LEMMA ClearedHooks ==
  ASSUME HookInv, ClearsHooks PROVE HookInv'
<1>1. /\ hooks' = <<>> /\ registered' = registered
      /\ hookRun' = [r \in HookRun |-> IF hookRun[r].on /\ hookRun[r].live
                                       THEN [hookRun[r] EXCEPT !.live = FALSE, !.list = hooks] ELSE hookRun[r]]
  BY DEF ClearsHooks
<1>2. <<>> \in Seq(Hook) /\ ToSet(<<>>) = {} /\ Distinct(<<>>)
  BY EmptyDistinct
<1>3. \A j \in DOMAIN hooks : hooks[j] <= registered
  BY HookFacts DEF HookInv
<1>4. ASSUME NEW r \in HookRun
      PROVE  /\ hookRun'[r] \in HookRuns /\ Distinct(hookRun'[r].list)
             /\ \A h \in hookRun'[r].called : h <= registered
             /\ \A j \in DOMAIN hookRun'[r].list : hookRun'[r].list[j] <= registered
             /\ hookRun'[r].on => Walking(hookRun'[r], Walked(r)')
  <2> DEFINE k == hookRun[r]
             l == hookRun'[r]
  <2>1. /\ k \in HookRuns /\ Distinct(k.list) /\ (\A h \in k.called : h <= registered)
        /\ (\A j \in DOMAIN k.list : k.list[j] <= registered) /\ (k.on => Walking(k, Walked(r)))
    BY DEF HookInv
  <2>2. CASE k.on /\ k.live
    <3>1. l = [k EXCEPT !.live = FALSE, !.list = hooks]
      BY <1>1, <2>2
    <3>2. /\ l \in HookRuns /\ l.live = FALSE /\ l.list = hooks /\ l.on = k.on /\ l.at = k.at
          /\ l.called = k.called /\ l.owed = k.owed
      BY <2>1, <3>1 DEF HookRuns, HookInv
    <3>3. Walked(r) = hooks /\ Walked(r)' = l.list
      BY <2>2, <3>2 DEF Walked
    <3> HIDE DEF k, l
    <3>4. Walking(l, Walked(r)')
      BY <2>1, <2>2, <3>2, <3>3 DEF Walking
    <3> QED
      BY <1>3, <2>1, <3>2, <3>4 DEF l, HookInv
  <2>3. CASE ~(k.on /\ k.live)
    <3>1. l = k
      BY <1>1, <2>3
    <3>2. k.on => Walked(r)' = Walked(r)
      BY <2>3, <3>1 DEF Walked
    <3> QED
      BY <2>1, <3>1, <3>2
  <2> QED
    BY <2>2, <2>3
<1>5. hookRun' \in [HookRun -> HookRuns]
  BY <1>1, <1>4
<1> QED
  BY <1>1, <1>2, <1>4, <1>5 DEF HookInv

\* Only run r goes on.
LEMMA OneRunGoesOn ==
  ASSUME HookInv, hooks' = hooks, registered' = registered, NEW r \in HookRun, NEW l \in HookRuns,
         hookRun' = [hookRun EXCEPT ![r] = l],
         Distinct(l.list), \A h \in l.called : h <= registered, \A j \in DOMAIN l.list : l.list[j] <= registered,
         l.on => Walking(l, IF l.live THEN hooks ELSE l.list)
  PROVE  HookInv'
<1>1. /\ hookRun' \in [HookRun -> HookRuns] /\ hookRun'[r] = l
      /\ \A u \in HookRun \ {r} : hookRun'[u] = hookRun[u]
  BY DEF HookInv
<1>2. /\ Walked(r)' = IF l.live THEN hooks ELSE l.list
      /\ \A u \in HookRun \ {r} : Walked(u)' = Walked(u)
  BY <1>1 DEF Walked
<1> QED
  BY <1>1, <1>2 DEF HookInv

LEMMA NoRunFacts ==
  /\ NoRun \in HookRuns /\ NoRun.list = <<>> /\ NoRun.called = {} /\ NoRun.on = FALSE /\ NoRun.live = TRUE
  /\ Distinct(<<>>) /\ DOMAIN <<>> = {}
<1>1. <<>> \in Seq(Hook) /\ Distinct(<<>>) /\ DOMAIN <<>> = {}
  BY EmptyDistinct
<1> QED
  BY <1>1 DEF NoRun, HookRuns

LEMMA StartedHooks ==
  ASSUME HookInv, NEW r \in HookRun, HooksStart(r) PROVE HookInv'
<1> DEFINE l == [NoRun EXCEPT !.on = TRUE, !.at = 1, !.called = {hooks[1]}, !.owed = ToSet(hooks)]
<1>1. /\ hooks # <<>> /\ hookRun' = [hookRun EXCEPT ![r] = l] /\ hooks' = hooks /\ registered' = registered
  BY DEF HooksStart
<1>2. /\ Len(hooks) \in Nat /\ DOMAIN hooks = 1 .. Len(hooks) /\ ToSet(hooks) = {hooks[j] : j \in DOMAIN hooks}
      /\ hooks \in Seq(Hook) /\ Distinct(hooks) /\ ToSet(hooks) \subseteq Hook
  BY HookFacts, RangeIn DEF HookInv
<1>3. 1 \in DOMAIN hooks
  BY <1>1, <1>2, EmptySeq
<1>4. /\ l \in HookRuns /\ l.list = <<>> /\ l.called = {hooks[1]} /\ l.owed = ToSet(hooks) /\ l.at = 1
      /\ l.on = TRUE /\ l.live = TRUE
  BY <1>2, <1>3, NoRunFacts DEF HookRuns
<1> HIDE DEF l
<1>5. Walking(l, hooks)
  <2>1. ASSUME NEW h \in ToSet(hooks) \ {hooks[1]} PROVE \E j \in DOMAIN hooks : j > 1 /\ hooks[j] = h
    BY <1>2
  <2>2. ASSUME NEW j \in DOMAIN hooks, j > 1 PROVE hooks[j] # hooks[1]
    BY <1>2, <1>3, <2>2 DEF Distinct
  <2> QED
    BY <1>4, <2>1, <2>2 DEF Walking
<1>6. hooks[1] <= registered
  BY <1>2, <1>3 DEF HookInv
<1> QED
  BY <1>1, <1>4, <1>5, <1>6, NoRunFacts, OneRunGoesOn

LEMMA CalledHook ==
  ASSUME HookInv, NEW r \in HookRun, CallsHook(r) PROVE HookInv'
<1> DEFINE k == hookRun[r]
           s == Walked(r)
           l == [hookRun[r] EXCEPT !.at = k.at + 1, !.called = k.called \cup {s[k.at + 1]}]
<1>1. /\ k.on /\ k.at < Len(s) /\ hooks' = hooks /\ registered' = registered
      /\ hookRun' = [hookRun EXCEPT ![r] = l]
  BY DEF CallsHook, HookInv
<1>2. k \in HookRuns /\ Distinct(k.list) /\ Walking(k, s) /\ k.list \in Seq(Hook) /\ k.at \in Nat
  BY <1>1 DEF HookInv, HookRuns
<1>3. /\ s \in Seq(Hook) /\ Distinct(s) /\ s = IF k.live THEN hooks ELSE k.list
      /\ \A j \in DOMAIN s : s[j] <= registered
  BY <1>2, HookFacts DEF HookInv, Walked
<1>4. Len(s) \in Nat /\ DOMAIN s = 1 .. Len(s) /\ k.at + 1 \in DOMAIN s /\ s[k.at + 1] \in Hook
  <2>1. Len(s) \in Nat /\ DOMAIN s = 1 .. Len(s)
    BY <1>3, LenProperties
  <2>2. k.at + 1 \in 1 .. Len(s)
    BY <1>1, <1>2, <2>1
  <2> QED
    BY <1>3, <2>1, <2>2, ElementOfSeq
<1> HIDE DEF s
<1>5. /\ l \in HookRuns /\ l.on = k.on /\ l.live = k.live /\ l.list = k.list /\ l.at = k.at + 1
      /\ l.called = k.called \cup {s[k.at + 1]} /\ l.owed = k.owed
  <2>1. k.at + 1 \in Nat /\ k.called \cup {s[k.at + 1]} \in SUBSET Hook
    BY <1>2, <1>4 DEF HookRuns
  <2>2. l = [k EXCEPT !.at = k.at + 1, !.called = k.called \cup {s[k.at + 1]}]
    OBVIOUS
  <2> HIDE DEF k
  <2> QED
    BY <1>2, <2>1, <2>2 DEF HookRuns
<1> HIDE DEF k, l
<1>6. Walking(l, s)
  <2>1. ASSUME NEW h \in l.owed \ l.called PROVE \E j \in DOMAIN s : j > l.at /\ s[j] = h
    <3>1. PICK j \in DOMAIN s : j > k.at /\ s[j] = h
      BY <1>2, <1>5, <2>1 DEF Walking
    <3>2. j # k.at + 1
      BY <1>5, <2>1, <3>1
    <3> QED
      BY <1>2, <1>4, <1>5, <3>1, <3>2
  <2>2. ASSUME NEW j \in DOMAIN s, j > l.at PROVE s[j] \notin l.called
    <3>1. j > k.at /\ j # k.at + 1
      BY <1>2, <1>4, <1>5, <2>2
    <3>2. s[j] \notin k.called
      BY <1>2, <3>1 DEF Walking
    <3>3. s[j] # s[k.at + 1]
      BY <1>3, <1>4, <3>1 DEF Distinct
    <3> QED
      BY <1>5, <3>2, <3>3
  <2> QED
    BY <2>1, <2>2 DEF Walking
<1>7. (\A h \in l.called : h <= registered) /\ \A j \in DOMAIN l.list : l.list[j] <= registered
  BY <1>3, <1>4, <1>5 DEF HookInv, k
<1> QED
  BY <1>1, <1>2, <1>3, <1>5, <1>6, <1>7, OneRunGoesOn

LEMMA HookSteps == HookInv /\ HookNext => HookInv'
<1> SUFFICES ASSUME HookInv, HookNext PROVE HookInv'
  OBVIOUS
<1>1. ASSUME NEW r \in HookRun, HooksEnd(r) PROVE HookInv'
  <2>1. hookRun' = [hookRun EXCEPT ![r] = NoRun] /\ hooks' = hooks /\ registered' = registered
    BY <1>1 DEF HooksEnd
  <2> QED
    BY <2>1, NoRunFacts, OneRunGoesOn
<1> QED
  BY <1>1, RegisteredHook, ClearedHooks, UnregisteredHook, StartedHooks, CalledHook DEF HookNext

ListenInv == BusInv /\ HookInv

LEMMA ListenSteps == ListenInv /\ [ListenNext]_listenVars => ListenInv'
<1> SUFFICES ASSUME ListenInv, [ListenNext]_listenVars PROVE ListenInv'
  OBVIOUS
<1>1. CASE UNCHANGED listenVars
  BY <1>1 DEF ListenInv, listenVars, busVars, hookVars, BusInv, BusTypes, Subscriptions, IsOver, HookInv, Walked
<1>2. CASE BusNext
  <2>1. UNCHANGED hookVars
    BY <1>2 DEF BusNext, Subscribes, Unsubscribes, Off, Emits, CallsHandler
  <2>2. HookInv'
    BY <2>1 DEF ListenInv, hookVars, HookInv, Walked
  <2> QED
    BY <1>2, <2>2, BusSteps DEF ListenInv
<1>3. CASE HookNext
  <2>1. UNCHANGED busVars
    BY <1>3 DEF HookNext, Registers, ClearsHooks, Unregisters, HooksStart, CallsHook, HooksEnd
  <2>2. BusInv'
    BY <2>1 DEF ListenInv, busVars, BusInv, BusTypes, Subscriptions, IsOver
  <2> QED
    BY <1>3, <2>2, HookSteps DEF ListenInv
<1> QED
  BY <1>1, <1>2, <1>3 DEF ListenNext

\* A handler of once is called once unless it threw or another emission had copied
\* the list, and a run of hooks calls what it owes and nothing twice, whatever
\* subscriptions and hooks come and go while handlers are awaited (EventBus and
\* HookManager).
THEOREM ListenersAreSafe == ListenSpec => []ListenersSafe
<1>1. ListenInv => ListenersSafe
  <2> SUFFICES ASSUME ListenInv PROVE ListenersSafe
    OBVIOUS
  <2>1. OnceIsOnce
    <3> SUFFICES ASSUME NEW h \in onceOnly, h \notin excused, fired[h] > 1 PROVE FALSE
      BY DEF OnceIsOnce
    <3>1. fired[h] \in 0 .. 2 /\ fired[h] <= 1
      BY DEF ListenInv, BusInv, BusTypes
    <3> QED
      BY <3>1
  <2>2. HooksAreCalled
    <3> SUFFICES ASSUME NEW r \in HookRun, hookRun[r].on
                 PROVE  /\ hookRun[r].at >= Len(Walked(r)) => hookRun[r].owed \subseteq hookRun[r].called
                        /\ \A j \in DOMAIN Walked(r) : j > hookRun[r].at => Walked(r)[j] \notin hookRun[r].called
      BY DEF HooksAreCalled
    <3>1. Walking(hookRun[r], Walked(r)) /\ hookRun[r].at \in Nat /\ Walked(r) \in Seq(Hook)
      BY DEF ListenInv, HookInv, HookRuns, Walked
    <3>2. Len(Walked(r)) \in Nat /\ DOMAIN Walked(r) = 1 .. Len(Walked(r))
      BY <3>1, LenProperties
    <3> QED
      BY <3>1, <3>2 DEF Walking
  <2> QED
    BY <2>1, <2>2 DEF ListenersSafe
<1>2. ListenInit => ListenInv
  BY BusStarts, HookStarts DEF ListenInv
<1> QED
  BY <1>1, <1>2, ListenSteps, PTL DEF ListenSpec

-----------------------------------------------------------------------------
(***************************************************************************)
(* An operation raced with a timer.  While nothing is decided the timer is *)
(* armed or cleans up, and it cleans up only where a cleanup is given: so  *)
(* an operation that ends finds either itself first or the decision made.  *)
(***************************************************************************)
RaceInv ==
  /\ TimedTypeOK /\ RaceIsFair
  /\ timed.timer = "armed" <=> timed.op = "running" /\ timed.outcome = "pending" /\ timed.timer # "cleaning"
  /\ timed.timer = "cleaning" => timed.cleans

LEMMA RaceStarts == TimedInit => RaceInv
  BY DEF TimedInit, RaceInv, TimedTypeOK, TimedCalls, RaceIsFair, Endings

LEMMA RaceSteps == RaceInv /\ [TimedNext]_timed => RaceInv'
<1> SUFFICES ASSUME RaceInv, [TimedNext]_timed PROVE RaceInv'
  OBVIOUS
<1>0. timed \in TimedCalls
  BY DEF RaceInv, TimedTypeOK
<1>1. ASSUME NEW end \in Endings, OperationEnds(end) PROVE RaceInv'
  <2>1. OutcomeOf(end) \in {"result", "timedOut", "error"} /\ (OutcomeOf(end) = "timedOut" => end = "threwTimeout")
    BY DEF OutcomeOf, Endings
  <2>2. timed' \in TimedCalls
    BY <1>0, <1>1, <2>1 DEF OperationEnds, TimedCalls
  <2>3. /\ timed'.op = end /\ timed'.cleans = timed.cleans /\ timed'.overdue = timed.overdue
        /\ timed'.outcome = (IF timed.outcome = "pending" THEN OutcomeOf(end) ELSE timed.outcome)
        /\ timed'.timer = (IF timed.timer = "armed" THEN "cleared" ELSE timed.timer)
        /\ timed.op = "running" /\ end # "running"
    BY <1>0, <1>1 DEF OperationEnds, TimedCalls, Endings
  <2> QED
    BY <1>0, <2>1, <2>2, <2>3 DEF RaceInv, TimedTypeOK, RaceIsFair, TimedCalls, Endings
<1>2. CASE TimeIsUp
  <2>1. timed' \in TimedCalls
    BY <1>0, <1>2 DEF TimeIsUp, TimedCalls
  <2>2. CASE timed.cleans
    <3>1. /\ timed'.op = timed.op /\ timed'.cleans /\ timed'.overdue = timed.overdue
          /\ timed'.outcome = timed.outcome /\ timed'.timer = "cleaning"
      BY <1>0, <1>2, <2>2 DEF TimeIsUp, TimedCalls
    <3> QED
      BY <1>0, <1>2, <2>1, <3>1 DEF TimeIsUp, RaceInv, TimedTypeOK, RaceIsFair, TimedCalls, Endings
  <2>3. CASE ~timed.cleans
    <3>1. /\ timed'.op = timed.op /\ timed'.cleans = timed.cleans /\ timed'.overdue = (timed.op = "running")
          /\ timed'.outcome = "timedOut" /\ timed'.timer = "fired"
      BY <1>0, <1>2, <2>3 DEF TimeIsUp, TimedCalls
    <3> QED
      BY <1>0, <1>2, <2>1, <3>1 DEF TimeIsUp, RaceInv, TimedTypeOK, RaceIsFair, TimedCalls, Endings
  <2> QED
    BY <1>0, <2>2, <2>3 DEF TimedCalls
<1>3. CASE CleanupEnds
  <2>1. timed' \in TimedCalls
    BY <1>0, <1>3 DEF CleanupEnds, TimedCalls
  <2>2. /\ timed'.op = timed.op /\ timed'.cleans = timed.cleans /\ timed.timer = "cleaning"
        /\ timed'.outcome = (IF timed.outcome = "pending" THEN "timedOut" ELSE timed.outcome)
        /\ timed'.timer = "fired" /\ timed'.overdue = (timed.overdue \/ timed.op = "running")
    BY <1>0, <1>3 DEF CleanupEnds, TimedCalls
  <2> QED
    BY <1>0, <2>1, <2>2 DEF RaceInv, TimedTypeOK, RaceIsFair, TimedCalls, Endings
<1>4. CASE UNCHANGED timed
  BY <1>4 DEF RaceInv, TimedTypeOK, RaceIsFair
<1> QED
  BY <1>1, <1>2, <1>3, <1>4 DEF TimedNext

\* A call raced with its timer ends as what came first says, in every
\* interleaving of operation, timer and cleanup.
THEOREM RacesAreFair == TimedSpec => []RaceIsFair
<1>1. RaceInv => RaceIsFair
  BY DEF RaceInv
<1> QED
  BY <1>1, RaceStarts, RaceSteps, PTL DEF TimedSpec

-----------------------------------------------------------------------------
(***************************************************************************)
(* The delay between attempts: it grows up to the cap, and a wait that has *)
(* begun has not been cancelled.                                           *)
(***************************************************************************)
\* The powers of m that the delays of four attempts take.
PowersOf(m, power) ==
  /\ power[0] = 1 /\ power[1] = m /\ power[2] = m * m /\ power[3] = m * (m * m)

LEMMA PowersAreDefined ==
  ASSUME NEW m \in Nat,
         NEW power, power = CHOOSE p : p = [k \in 0 .. 3 |-> IF k = 0 THEN 1 ELSE m * p[k - 1]]
  PROVE  PowersOf(m, power)
<1> DEFINE Body(p) == [k \in 0 .. 3 |-> IF k = 0 THEN 1 ELSE m * p[k - 1]]
           pw == [k \in 0 .. 3 |-> IF k = 0 THEN 1 ELSE IF k = 1 THEN m ELSE IF k = 2 THEN m * m ELSE m * (m * m)]
<1>1. pw = Body(pw)
  <2>1. \A k \in 0 .. 3 : pw[k] = (IF k = 0 THEN 1 ELSE m * pw[k - 1])
    <3>1. pw[0] = 1 /\ pw[1] = m /\ pw[2] = m * m /\ pw[3] = m * (m * m)
      OBVIOUS
    <3>2. \A k \in 0 .. 3 : k = 0 \/ (k = 1 /\ k - 1 = 0) \/ (k = 2 /\ k - 1 = 1) \/ (k = 3 /\ k - 1 = 2)
      OBVIOUS
    <3>3. m * 1 = m
      OBVIOUS
    <3> HIDE DEF pw
    <3> QED BY <3>1, <3>2, <3>3
  <2>2. pw = [k \in 0 .. 3 |-> pw[k]]
    OBVIOUS
  <2> HIDE DEF pw
  <2> QED BY <2>1, <2>2
<1>2. power = Body(power)
  <2> HIDE DEF pw
  <2> QED BY <1>1
<1>3. /\ power[0] = 1 /\ power[1] = m * power[0] /\ power[2] = m * power[1] /\ power[3] = m * power[2]
  <2>1. \A k \in 0 .. 3 : Body(power)[k] = IF k = 0 THEN 1 ELSE m * power[k - 1]
    OBVIOUS
  <2>2. \A k \in 0 .. 3 : power[k] = IF k = 0 THEN 1 ELSE m * power[k - 1]
    <3> HIDE DEF Body
    <3> QED BY <1>2, <2>1
  <2>3. /\ power[0] = (IF 0 = 0 THEN 1 ELSE m * power[0 - 1]) /\ power[1] = (IF 1 = 0 THEN 1 ELSE m * power[1 - 1])
        /\ power[2] = (IF 2 = 0 THEN 1 ELSE m * power[2 - 1]) /\ power[3] = (IF 3 = 0 THEN 1 ELSE m * power[3 - 1])
    BY <2>2
  <2> QED BY <2>3
<1> QED
  BY <1>3 DEF PowersOf

LEMMA DelaysGrow ==
  ASSUME NEW c \in BackoffConfigs, NEW n \in 1 .. 3
  PROVE  /\ UncappedDelay(c, n) \in Nat /\ UncappedDelay(c, n + 1) \in Nat
         /\ UncappedDelay(c, n) <= UncappedDelay(c, n + 1)
<1>1. /\ c.type \in {"fixed", "linear", "exponential"} /\ c.base \in Nat /\ c.multiplier \in {1, 2}
  BY AutomationAssumption DEF BackoffConfigs
<1>2. CASE c.type = "fixed"
  BY <1>1, <1>2 DEF UncappedDelay
<1>3. CASE c.type = "linear"
  <2>1. UncappedDelay(c, n) = c.base * n /\ UncappedDelay(c, n + 1) = c.base * (n + 1)
    BY <1>3 DEF UncappedDelay
  <2>2. /\ c.base * n \in Nat /\ c.base * (n + 1) \in Nat /\ c.base * (n + 1) = c.base * n + c.base
    <3>1. n = 1 \/ n = 2 \/ n = 3
      OBVIOUS
    <3> QED BY <1>1, <3>1
  <2> QED BY <1>1, <2>1, <2>2
<1>4. CASE c.type = "exponential"
  <2> DEFINE power == CHOOSE p : p = [k \in 0 .. 3 |-> IF k = 0 THEN 1 ELSE c.multiplier * p[k - 1]]
  <2>1. \A a : UncappedDelay(c, a) = c.base * power[a - 1]
    BY <1>4 DEF UncappedDelay
  <2>2. PowersOf(c.multiplier, power)
    BY <1>1, PowersAreDefined
  <2> HIDE DEF power
  <2>3. power[0] = 1 /\ power[1] \in Nat /\ power[2] \in Nat /\ power[3] \in Nat /\ power[0] <= power[1]
        /\ power[1] <= power[2] /\ power[2] <= power[3] /\ power[1] \in 1 .. 8 /\ power[2] \in 1 .. 8 /\ power[3] \in 1 .. 8
    BY <1>1, <2>2 DEF PowersOf
  <2>4. /\ UncappedDelay(c, 1) = c.base * power[0] /\ UncappedDelay(c, 2) = c.base * power[1]
        /\ UncappedDelay(c, 3) = c.base * power[2] /\ UncappedDelay(c, 4) = c.base * power[3]
    <3>1. /\ UncappedDelay(c, 1) = c.base * power[1 - 1] /\ UncappedDelay(c, 2) = c.base * power[2 - 1]
          /\ UncappedDelay(c, 3) = c.base * power[3 - 1] /\ UncappedDelay(c, 4) = c.base * power[4 - 1]
      BY <2>1
    <3> QED BY <3>1
  <2>5. ASSUME NEW p \in 1 .. 8, NEW pw \in 1 .. 8, p <= pw
        PROVE  c.base * p \in Nat /\ c.base * pw \in Nat /\ c.base * p <= c.base * pw
    BY <1>1, <2>5
  <2>6. /\ UncappedDelay(c, 1) \in Nat /\ UncappedDelay(c, 2) \in Nat /\ UncappedDelay(c, 3) \in Nat
        /\ UncappedDelay(c, 4) \in Nat
        /\ UncappedDelay(c, 1) <= UncappedDelay(c, 2) /\ UncappedDelay(c, 2) <= UncappedDelay(c, 3)
        /\ UncappedDelay(c, 3) <= UncappedDelay(c, 4)
    BY <2>3, <2>4, <2>5
  <2>7. (n = 1 /\ n + 1 = 2) \/ (n = 2 /\ n + 1 = 3) \/ (n = 3 /\ n + 1 = 4)
    OBVIOUS
  <2> QED BY <2>6, <2>7
<1> QED
  BY <1>1, <1>2, <1>3, <1>4

LEMMA CappedDelaysGrow ==
  ASSUME NEW c \in BackoffConfigs, NEW n \in 1 .. 3
  PROVE  /\ CappedDelay(c, n) \in Nat /\ CappedDelay(c, n) <= c.max
         /\ CappedDelay(c, n) <= CappedDelay(c, n + 1)
<1>1. c.max \in Nat
  BY DEF BackoffConfigs
<1> QED
  BY <1>1, DelaysGrow DEF CappedDelay, Least

LEMMA JitterIsSmall ==
  ASSUME NEW c \in BackoffConfigs, NEW n \in 1 .. 3, NEW d \in CalculateDelays(c, n)
  PROVE  d \in Nat /\ 10 * d <= (10 + c.jitter) * 10 * c.max
<1> DEFINE u == CappedDelay(c, n)
<1>1. u \in Nat /\ u <= c.max /\ c.max \in {3, 6} /\ c.jitter \in {0, 1}
  BY CappedDelaysGrow DEF BackoffConfigs
<1>2. d \in {10 * u - u * c.jitter, 10 * u, 10 * u + u * c.jitter}
  BY DEF CalculateDelays
<1> HIDE DEF u
<1>3. CASE c.jitter = 0
  BY <1>1, <1>2, <1>3
<1>4. CASE c.jitter = 1
  BY <1>1, <1>2, <1>4
<1> QED
  BY <1>1, <1>3, <1>4

BackoffInv ==
  /\ backoff \in [config : BackoffConfigs, attempt : 1 .. 3, at : {"called", "waiting", "waited", "cancelled", "refused"},
                  delay : Nat, aborted : BOOLEAN]
  /\ 10 * backoff.delay <= (10 + backoff.config.jitter) * 10 * backoff.config.max
  /\ backoff.at = "waiting" => ~backoff.aborted /\ backoff.delay > 0
  /\ backoff.at = "cancelled" => backoff.aborted

LEMMA BackoffStarts == BackoffInit => BackoffInv
<1> SUFFICES ASSUME NEW c \in BackoffConfigs, NEW n \in 1 .. 3,
                    backoff = [config |-> c, attempt |-> n, at |-> "called", delay |-> 0, aborted |-> FALSE]
             PROVE  BackoffInv
  BY DEF BackoffInit
<1>1. c.max \in {3, 6} /\ c.jitter \in {0, 1}
  BY DEF BackoffConfigs
<1>2. 0 <= (10 + c.jitter) * 10 * c.max
  BY <1>1
<1> QED
  BY <1>2 DEF BackoffInv

LEMMA BackoffSteps == BackoffInv /\ [BackoffNext]_backoff => BackoffInv'
<1> SUFFICES ASSUME BackoffInv, [BackoffNext]_backoff PROVE BackoffInv'
  OBVIOUS
<1> DEFINE c == backoff.config
<1>0. /\ c \in BackoffConfigs /\ backoff.attempt \in 1 .. 3 /\ backoff.aborted \in BOOLEAN /\ backoff.delay \in Nat
  BY DEF BackoffInv
<1>1. CASE WaitBegins
  <2>1. CASE BackoffRefused(c)
    BY <1>1, <2>1 DEF WaitBegins, BackoffInv
  <2>2. CASE ~BackoffRefused(c)
    <3> PICK d \in CalculateDelays(c, backoff.attempt) :
          backoff' = [backoff EXCEPT !.delay = d, !.at = CASE d = 0 -> "waited"
                                                           [] d # 0 /\ backoff.aborted -> "cancelled"
                                                           [] OTHER -> "waiting"]
      BY <1>1, <2>2 DEF WaitBegins
    <3>1. d \in Nat /\ 10 * d <= (10 + c.jitter) * 10 * c.max
      BY <1>0, JitterIsSmall
    <3> DEFINE at == CASE d = 0 -> "waited" [] d # 0 /\ backoff.aborted -> "cancelled" [] OTHER -> "waiting"
    <3>2. /\ at \in {"waited", "cancelled", "waiting"}
          /\ at = "waiting" => ~backoff.aborted /\ d > 0
          /\ at = "cancelled" => backoff.aborted
      BY <3>1
    <3> HIDE DEF at
    <3>3. backoff' = [backoff EXCEPT !.delay = d, !.at = at]
      BY DEF at
    <3>4. /\ backoff'.config = c /\ backoff'.attempt = backoff.attempt /\ backoff'.at = at /\ backoff'.delay = d
          /\ backoff'.aborted = backoff.aborted
      BY <3>3 DEF BackoffInv
    <3>5. backoff' \in [config : BackoffConfigs, attempt : 1 .. 3,
                        at : {"called", "waiting", "waited", "cancelled", "refused"}, delay : Nat, aborted : BOOLEAN]
      BY <3>1, <3>2, <3>3 DEF BackoffInv
    <3> HIDE DEF c
    <3> QED BY <3>1, <3>2, <3>4, <3>5 DEF BackoffInv
  <2> QED BY <2>1, <2>2
<1>2. CASE WaitEnds
  BY <1>2 DEF WaitEnds, BackoffInv
<1>3. CASE SignalAborts
  BY <1>3 DEF SignalAborts, BackoffInv
<1>4. CASE UNCHANGED backoff
  BY <1>4 DEF BackoffInv
<1> QED
  BY <1>1, <1>2, <1>3, <1>4 DEF BackoffNext

LEMMA BackoffInvSound == BackoffInv => BackoffSound
<1> SUFFICES ASSUME BackoffInv PROVE BackoffSound
  OBVIOUS
<1> DEFINE c == backoff.config
           n == backoff.attempt
<1>1. c \in BackoffConfigs /\ n \in 1 .. 3 /\ backoff.delay \in Nat
  BY DEF BackoffInv
<1>2. CappedDelay(c, n) <= CappedDelay(c, n + 1) /\ CappedDelay(c, n) <= c.max
  BY <1>1, CappedDelaysGrow
<1>3. StepAttempts(n - 1, backoff.delay) >= n - 1 /\ StepAttempts(n - 1, backoff.delay) >= 1
  <2> HIDE DEF n
  <2> QED BY <1>1 DEF StepAttempts
<1>4. ~BackoffRefused(StepBackoff(c.type, c.base, 3)) => ~BackoffRefused(StepBackoff(c.type, c.base, 6))
  <2>1. c.base \in Nat
    BY <1>1, AutomationAssumption DEF BackoffConfigs
  <2> QED BY <2>1 DEF BackoffRefused, StepBackoff
<1> QED
  BY <1>2, <1>3, <1>4 DEF BackoffInv, BackoffSound

\* Whatever the strategy, and whenever the signal comes: delays grow up to the
\* cap and pass it by the jitter only, a wait that is cancelled does not go on,
\* and the retries of a step are its own at the least (BackoffStrategy,
\* BackoffTimer, StepExecutor).
THEOREM BackoffsAreSound == BackoffSpec => []BackoffSound
<1>1. BackoffSpec => []BackoffInv
  BY BackoffStarts, BackoffSteps, PTL DEF BackoffSpec
<1> QED
  BY <1>1, BackoffInvSound, PTL
=============================================================================
