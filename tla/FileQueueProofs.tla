-------------------------- MODULE FileQueueProofs --------------------------
(***************************************************************************)
(* What holds of the files that processes share. The queue file, for any   *)
(* number of processes, jobs and crashes: whatever calls overlap, each     *)
(* document is a queue; and as long as no two calls have overlapped, the   *)
(* file is the abstract job ledger. The usage spool, for any processes,    *)
(* events and crashes: none is lost, or charged twice without a reason.    *)
(* The stores of schedules and workflows with the triggers that the        *)
(* schedules are for, the index of diagrams, the cache of parsed files and *)
(* the files of the log, for any processes, each in a section of its own.  *)
(***************************************************************************)
EXTENDS FileQueue, UsageSpool, Schedules, DiagramIndex, FileCache, EngineLog,
        StepQueueProofs, DistinctSequences

JobsOf(r) == ToSet(r.queued) \cup Leased(r) \cup r.completed \cup r.failed

Sane(r) == Well(r, JobsOf(r))

\* The job a call of p is pushing.
Pushing(p) == IF call[p].kind = "push" THEN {call[p].job} ELSE {}

\* Every document, on disk or about to be written, is a queue of jobs that were
\* pushed: so a push, which is of a fresh job, never finds its job there.
Queues ==
  /\ Sane(file) /\ JobsOf(file) \subseteq pushed
  /\ \A p \in Worker :
       /\ Sane(base[p]) /\ Sane(after[p])
       /\ JobsOf(after[p]) \subseteq pushed \cup Pushing(p) /\ Pushing(p) \subseteq Job

\* From phases ph and attempts n, queue r2 has at most one job moved, as the
\* ledger lets it.
MovesOne(ph, n, r2) ==
  \/ PhaseIn(r2) = ph /\ r2.attempts = n
  \/ \E j \in Job :
       \/ /\ ph[j] = "new" /\ PhaseIn(r2) = [ph EXCEPT ![j] = "queued"]
          /\ r2.attempts = [n EXCEPT ![j] = 0]
       \/ /\ ph[j] = "queued" /\ PhaseIn(r2) = [ph EXCEPT ![j] = "leased"]
          /\ r2.attempts = n
       \/ /\ ph[j] = "leased" /\ PhaseIn(r2) = [ph EXCEPT ![j] = "done"]
          /\ r2.attempts = n
       \/ /\ ph[j] = "leased" /\ PhaseIn(r2) = [ph EXCEPT ![j] = "queued"]
          /\ n[j] + 1 < Limit(j) /\ r2.attempts = [n EXCEPT ![j] = @ + 1]
       \/ /\ ph[j] = "leased" /\ PhaseIn(r2) = [ph EXCEPT ![j] = "dead"]
          /\ r2.attempts = [n EXCEPT ![j] = @ + 1]

\* Queue r2 answers r: some leases are revoked, then at most one job moves.
RevokedIn(r, R) == [j \in Job |-> IF j \in R THEN "queued" ELSE PhaseIn(r)[j]]
Answers(r, r2) == \E R \in SUBSET Leased(r) : MovesOne(RevokedIn(r, R), r.attempts, r2)

\* As long as calls do not overlap: one call at a time, whose document is the
\* answer to the file it read.
Calm ==
  ~overlap =>
    /\ \A p, v \in Busy : p = v
    /\ crossed = {}
    /\ ~made => file = EmptyQueue /\ \A p \in Worker : stage[p] \in {"closed", "creating"}
    /\ \A p \in Worker : stage[p] = "read" => base[p] = file
    /\ \A p \in Busy : Answers(base[p], after[p])

\* Each lease of queue r is one of a process that has the job in hand.
InHand(r) == \A j \in Leased(r) : holds[r.owner[j]] = j

Tended ==
  ~overlap /\ crashes = 0 =>
    /\ Busy = {} => InHand(file)
    /\ \A p \in Busy :
         /\ InHand(after[p])
         /\ \A j \in Leased(base[p]) : base[p].owner[j] = p \/ holds[base[p].owner[j]] = j

IInv == TypeOK /\ Queues /\ Calm /\ Tended

-----------------------------------------------------------------------------
(***************************************************************************)
(* Documents                                                               *)
(***************************************************************************)
LEMMA SaneIf ==
  ASSUME NEW P, NEW r, Well(r, P)
  PROVE  Sane(r) /\ JobsOf(r) = P /\ r \in QueueState
BY DEF Sane, Well, Placed, JobsOf

LEMMA EmptySane == Sane(EmptyQueue) /\ JobsOf(EmptyQueue) = {} /\ EmptyQueue \in QueueState
  BY EmptyQueueWell, SaneIf

LEMMA RequeuedSane ==
  ASSUME NEW r, Sane(r), NEW r2 \in RequeueExpired(r)
  PROVE  Sane(r2) /\ JobsOf(r2) = JobsOf(r) /\ r2 \in QueueState
<1>1. Well(r2, JobsOf(r))
  BY RequeueExpiredWell DEF Sane
<1> QED
  BY <1>1, SaneIf

LEMMA AgedSane ==
  ASSUME NEW r, Sane(r)
  PROVE  /\ Sane(Age(r)) /\ JobsOf(Age(r)) = JobsOf(r)
         /\ Age(r).queued = r.queued /\ Age(r).owner = r.owner
         /\ Age(r).completed = r.completed /\ Age(r).failed = r.failed
         /\ Age(r).attempts = r.attempts
         /\ Leased(Age(r)) = Leased(r) /\ PhaseIn(Age(r)) = PhaseIn(r)
<1>1. /\ Well(Age(r), JobsOf(r))
      /\ Age(r).queued = r.queued /\ Age(r).owner = r.owner
      /\ Age(r).completed = r.completed /\ Age(r).failed = r.failed
      /\ Age(r).attempts = r.attempts
  BY AgeWell DEF Sane
<1>2. Sane(Age(r)) /\ JobsOf(Age(r)) = JobsOf(r)
  BY <1>1, SaneIf
<1>3. Leased(Age(r)) = Leased(r)
  BY <1>1 DEF Leased
<1>4. PhaseIn(Age(r)) = PhaseIn(r)
  BY <1>1, <1>3 DEF PhaseIn
<1> QED
  BY <1>1, <1>2, <1>3, <1>4

\* What a process may ask for.
LEMMA CallsFacts ==
  ASSUME TypeOK, NEW p \in Worker, NEW c \in Calls(p)
  PROVE  /\ c \in [kind : Kinds, job : Job \cup {NoJob}]
         /\ c.kind \in {"push", "pull", "ack", "nack", "fail", "extend", "stats"}
         /\ c.kind = "push" => c.job \in Job \ pushed /\ \A w \in Worker : call[w].job # c.job
         /\ c.kind = "pull" => holds[p] = NoJob
         /\ c.kind \in {"ack", "nack", "fail", "extend"} => c.job \in Job /\ c.job = holds[p]
BY FileQueueAssumption DEF Calls, Kinds, TypeOK

LEMMA EffectCases ==
  ASSUME NEW r, NEW p, NEW c
  PROVE  /\ c.kind = "push" => Effect(r, p, c) = Enqueue(r, c.job)
         /\ c.kind = "pull" => Effect(r, p, c) = IF r.queued = <<>> THEN r ELSE Lease(r, p)
         /\ c.kind = "ack" => Effect(r, p, c) = Ack(r, c.job)
         /\ c.kind = "nack" => Effect(r, p, c) = Nack(r, c.job, TRUE)
         /\ c.kind = "fail" => Effect(r, p, c) = Nack(r, c.job, FALSE)
         /\ c.kind = "extend" => Effect(r, p, c) = ExtendLease(r, c.job, p)
         /\ c.kind = "stats" => Effect(r, p, c) = r
<1>1. c.kind = "push" => Effect(r, p, c) = Enqueue(r, c.job)
  BY DEF Effect
<1>2. c.kind = "pull" => Effect(r, p, c) = IF r.queued = <<>> THEN r ELSE Lease(r, p)
  BY DEF Effect
<1>3. c.kind = "ack" => Effect(r, p, c) = Ack(r, c.job)
  BY DEF Effect
<1>4. c.kind = "nack" => Effect(r, p, c) = Nack(r, c.job, TRUE)
  BY DEF Effect
<1>5. c.kind = "fail" => Effect(r, p, c) = Nack(r, c.job, FALSE)
  BY DEF Effect
<1>6. c.kind = "extend" => Effect(r, p, c) = ExtendLease(r, c.job, p)
  BY DEF Effect
<1>7. c.kind = "stats" => Effect(r, p, c) = r
  BY DEF Effect
<1> QED
  BY <1>1, <1>2, <1>3, <1>4, <1>5, <1>6, <1>7

\* What a call writes is a queue when what it read is one.
LEMMA EffectSane ==
  ASSUME TypeOK, NEW p \in Worker, NEW c \in Calls(p),
         NEW r, Sane(r), JobsOf(r) \subseteq pushed
  PROVE  /\ Sane(Effect(r, p, c)) /\ Effect(r, p, c) \in QueueState
         /\ JobsOf(Effect(r, p, c)) \subseteq
              pushed \cup (IF c.kind = "push" THEN {c.job} ELSE {})
         /\ HoldsAfter(r, p, c) \in Job \cup {NoJob}
<1> DEFINE P == JobsOf(r)
           r2 == Effect(r, p, c)
<1>1. /\ c.kind \in {"push", "pull", "ack", "nack", "fail", "extend", "stats"}
      /\ c.kind = "push" => c.job \in Job \ pushed
      /\ c.kind \in {"ack", "nack", "fail", "extend"} => c.job \in Job
  BY CallsFacts
<1>2. Well(r, P) /\ r \in QueueState
  BY DEF Sane, Well
<1>7. /\ c.kind = "push" => r2 = Enqueue(r, c.job)
      /\ c.kind = "pull" => r2 = IF r.queued = <<>> THEN r ELSE Lease(r, p)
      /\ c.kind = "ack" => r2 = Ack(r, c.job)
      /\ c.kind = "nack" => r2 = Nack(r, c.job, TRUE)
      /\ c.kind = "fail" => r2 = Nack(r, c.job, FALSE)
      /\ c.kind = "extend" => r2 = ExtendLease(r, c.job, p)
      /\ c.kind = "stats" => r2 = r
  BY EffectCases
<1>8. P \subseteq pushed
  OBVIOUS
<1> HIDE DEF P, r2
<1>3. CASE c.kind = "push"
  <2>1. c.job \in Job \ P /\ r2 = Enqueue(r, c.job)
    BY <1>1, <1>3, <1>7, <1>8
  <2>2. Well(r2, P \cup {c.job})
    BY <1>2, <2>1, EnqueueWell
  <2>3. HoldsAfter(r, p, c) \in Job \cup {NoJob}
    BY <1>3 DEF HoldsAfter, TypeOK
  <2> QED
    BY <1>3, <1>8, <2>2, <2>3, SaneIf DEF r2
<1>4. ASSUME c.kind # "push" PROVE Well(r2, P)
  <2>1. CASE c.kind = "pull"
    BY <1>2, <1>7, <2>1, LeaseWell
  <2>2. CASE c.kind = "ack"
    <3>1. r2 = Ack(r, c.job)
      BY <1>7, <2>2
    <3>2. Well(Ack(r, c.job), P)
      BY <1>2, AckWell, StaleCalls
    <3> QED
      BY <3>1, <3>2
  <2>3. CASE c.kind \in {"nack", "fail"}
    <3>1. r2 = Nack(r, c.job, TRUE) \/ r2 = Nack(r, c.job, FALSE)
      BY <1>7, <2>3
    <3>2. \A requeue \in BOOLEAN : Well(Nack(r, c.job, requeue), P)
      BY <1>2, NackWell, StaleCalls
    <3> QED
      BY <3>1, <3>2
  <2>4. CASE c.kind = "extend"
    <3>1. r2 = ExtendLease(r, c.job, p) /\ c.job \in Job
      BY <1>1, <1>7, <2>4
    <3>2. Well(ExtendLease(r, c.job, p), P)
      BY <1>2, <3>1, ExtendLeaseWell
    <3> QED
      BY <3>1, <3>2
  <2>5. CASE c.kind = "stats"
    BY <1>2, <1>7, <2>5
  <2> QED
    BY <1>1, <1>4, <2>1, <2>2, <2>3, <2>4, <2>5
<1>5. ASSUME c.kind # "push"
      PROVE  Sane(r2) /\ r2 \in QueueState /\ JobsOf(r2) = P
  BY <1>4, <1>5, SaneIf
<1>6. HoldsAfter(r, p, c) \in Job \cup {NoJob}
  <2>1. CASE c.kind = "pull"
    <3>1. r.queued # <<>> => Head(r.queued) \in Job
      BY <1>2, LeaseEffect
    <3> QED
      BY <2>1, <3>1 DEF HoldsAfter
  <2>2. CASE c.kind # "pull"
    BY <2>2 DEF HoldsAfter, TypeOK
  <2> QED
    BY <2>1, <2>2
<1> QED
  BY <1>3, <1>5, <1>6, <1>8 DEF r2

-----------------------------------------------------------------------------
(***************************************************************************)
(* Phases: the answer to a call                                            *)
(***************************************************************************)
LEMMA PhaseFacts ==
  ASSUME NEW r, Sane(r), NEW j \in Job
  PROVE  /\ j \in Leased(r) => PhaseIn(r)[j] = "leased"
         /\ j \in r.completed => PhaseIn(r)[j] = "done"
         /\ j \in r.failed => PhaseIn(r)[j] = "dead"
         /\ j \in ToSet(r.queued) => PhaseIn(r)[j] = "queued"
         /\ j \notin JobsOf(r) => PhaseIn(r)[j] = "new"
<1>1. /\ ToSet(r.queued) \cap (Leased(r) \cup r.completed \cup r.failed) = {}
      /\ Leased(r) \cap (r.completed \cup r.failed) = {}
      /\ r.completed \cap r.failed = {}
  BY DEF Sane, Well, Placed
<1>2. j \in Leased(r) => PhaseIn(r)[j] = "leased"
  BY <1>1 DEF PhaseIn
<1>3. j \in r.completed => PhaseIn(r)[j] = "done"
  BY <1>1 DEF PhaseIn
<1>4. j \in r.failed => PhaseIn(r)[j] = "dead"
  BY <1>1 DEF PhaseIn
<1>5. j \in ToSet(r.queued) => PhaseIn(r)[j] = "queued"
  BY <1>1 DEF PhaseIn
<1>6. j \notin JobsOf(r) => PhaseIn(r)[j] = "new"
  BY <1>1 DEF PhaseIn, JobsOf
<1> QED
  BY <1>2, <1>3, <1>4, <1>5, <1>6

\* Queues r and r2 have every job but those of S in the same place.
AgreeOff(r, r2, S) ==
  \A k \in Job \ S :
    /\ k \in r2.completed <=> k \in r.completed
    /\ k \in r2.failed <=> k \in r.failed
    /\ k \in Leased(r2) <=> k \in Leased(r)
    /\ k \in ToSet(r2.queued) <=> k \in ToSet(r.queued)

LEMMA SamePhases ==
  ASSUME NEW r, NEW r2, NEW S, AgreeOff(r, r2, S)
  PROVE  /\ \A k \in Job \ S : PhaseIn(r2)[k] = PhaseIn(r)[k]
         /\ PhaseIn(r) = [k \in Job |-> PhaseIn(r)[k]]
         /\ PhaseIn(r2) = [k \in Job |-> PhaseIn(r2)[k]]
<1>1. \A k \in Job \ S : PhaseIn(r2)[k] = PhaseIn(r)[k]
  BY DEF AgreeOff, PhaseIn
<1>2. PhaseIn(r) = [k \in Job |-> PhaseIn(r)[k]] /\ PhaseIn(r2) = [k \in Job |-> PhaseIn(r2)[k]]
  BY DEF PhaseIn
<1> QED
  BY <1>1, <1>2

LEMMA OneMoved ==
  ASSUME NEW r, NEW r2, NEW j \in Job, AgreeOff(r, r2, {j})
  PROVE  PhaseIn(r2) = [PhaseIn(r) EXCEPT ![j] = PhaseIn(r2)[j]]
<1> DEFINE f == PhaseIn(r)
           g == PhaseIn(r2)
<1>1. /\ \A k \in Job \ {j} : g[k] = f[k]
      /\ f = [k \in Job |-> f[k]] /\ g = [k \in Job |-> g[k]]
  BY SamePhases
<1> HIDE DEF f, g
<1>2. g = [f EXCEPT ![j] = g[j]]
  BY <1>1
<1> QED
  BY <1>2 DEF f, g

\* requeueExpired revokes the leases that lapsed.
LEMMA Revocation ==
  ASSUME NEW r, Sane(r), NEW r2 \in RequeueExpired(r)
  PROVE  /\ Lapsed(r) \in SUBSET Leased(r)
         /\ PhaseIn(r2) = RevokedIn(r, Lapsed(r)) /\ r2.attempts = r.attempts
<1>1. /\ ToSet(r2.queued) = ToSet(r.queued) \cup Lapsed(r)
      /\ Leased(r2) = Leased(r) \ Lapsed(r)
      /\ r2.completed = r.completed /\ r2.failed = r.failed /\ r2.attempts = r.attempts
  BY RequeueExpiredWell DEF Sane
<1>2. Sane(r2)
  BY RequeuedSane
<1>3. Lapsed(r) \in SUBSET Leased(r) /\ Leased(r) \subseteq Job
  BY DEF Lapsed, Leased
<1>4. AgreeOff(r, r2, Lapsed(r))
  BY <1>1 DEF AgreeOff
<1>5. \A k \in Lapsed(r) : PhaseIn(r2)[k] = "queued"
  BY <1>1, <1>2, <1>3, PhaseFacts
<1> DEFINE f == PhaseIn(r)
           g == PhaseIn(r2)
<1>6. /\ \A k \in Job \ Lapsed(r) : g[k] = f[k]
      /\ g = [k \in Job |-> g[k]]
  BY <1>4, SamePhases
<1>7. \A k \in Lapsed(r) : g[k] = "queued"
  BY <1>5
<1> HIDE DEF f, g
<1>8. g = [j \in Job |-> IF j \in Lapsed(r) THEN "queued" ELSE f[j]]
  BY <1>6, <1>7
<1> QED
  BY <1>1, <1>3, <1>8 DEF f, g, RevokedIn

\* One call moves one job, or none.
LEMMA PushMoves ==
  ASSUME NEW r, Sane(r), NEW j \in Job \ JobsOf(r)
  PROVE  MovesOne(PhaseIn(r), r.attempts, Enqueue(r, j))
<1> DEFINE r2 == Enqueue(r, j)
<1>1. Well(r, JobsOf(r)) /\ r \in QueueState
  BY DEF Sane, Well
<1>2. Sane(r2)
  BY <1>1, EnqueueWell, SaneIf
<1>3. r.queued \in Seq(Job) /\ Distinct(r.queued) /\ j \notin ToSet(r.queued)
  BY <1>1 DEF QueueState, Well, Placed, JobsOf
<1>4. ToSet(Append(r.queued, j)) = ToSet(r.queued) \cup {j}
  BY <1>3, AppendDistinct
<1>5. /\ ToSet(r2.queued) = ToSet(r.queued) \cup {j}
      /\ r2.owner = r.owner /\ r2.completed = r.completed /\ r2.failed = r.failed
      /\ r2.attempts = [r.attempts EXCEPT ![j] = 0]
  BY <1>1, <1>4 DEF Enqueue, QueueState
<1> HIDE DEF r2
<1>6. AgreeOff(r, r2, {j})
  BY <1>5 DEF AgreeOff, Leased
<1>9. PhaseIn(r)[j] = "new"
  BY PhaseFacts
<1>10. PhaseIn(r2)[j] = "queued"
  BY <1>2, <1>5, PhaseFacts
<1>7. PhaseIn(r)[j] = "new" /\ PhaseIn(r2)[j] = "queued"
  BY <1>9, <1>10
<1>11. PhaseIn(r2) = [PhaseIn(r) EXCEPT ![j] = PhaseIn(r2)[j]]
  BY <1>6, OneMoved, ZenonT(30)
<1>8. PhaseIn(r2) = [PhaseIn(r) EXCEPT ![j] = "queued"]
  BY <1>7, <1>11
<1> QED
  BY <1>5, <1>7, <1>8 DEF MovesOne, r2

LEMMA PullMoves ==
  ASSUME NEW r, Sane(r), NEW p \in Worker, r.queued # <<>>
  PROVE  MovesOne(PhaseIn(r), r.attempts, Lease(r, p))
<1> DEFINE r2 == Lease(r, p)
           h == Head(r.queued)
<1>1. Well(r, JobsOf(r)) /\ r \in QueueState /\ Distinct(r.queued)
  BY DEF Sane, Well, Placed
<1>2. /\ h \in Job /\ h \in ToSet(r.queued)
      /\ ToSet(r2.queued) = ToSet(r.queued) \ {h}
      /\ Leased(r2) = Leased(r) \cup {h}
      /\ r2.completed = r.completed /\ r2.failed = r.failed
      /\ r2.attempts = r.attempts
  BY <1>1, LeaseEffect
<1>3. Sane(r2)
  BY <1>1, LeaseWell, SaneIf
<1> HIDE DEF r2, h
<1>4. AgreeOff(r, r2, {h})
  BY <1>2 DEF AgreeOff
<1>5. PhaseIn(r)[h] = "queued" /\ PhaseIn(r2)[h] = "leased"
  BY <1>2, <1>3, PhaseFacts
<1>7. h \in Job
  BY <1>2
<1>8. PhaseIn(r2) = [PhaseIn(r) EXCEPT ![h] = PhaseIn(r2)[h]]
  BY <1>4, <1>7, OneMoved, ZenonT(30)
<1>6. PhaseIn(r2) = [PhaseIn(r) EXCEPT ![h] = "leased"]
  BY <1>5, <1>8
<1> QED
  BY <1>2, <1>5, <1>6 DEF MovesOne, r2

LEMMA SameMoves == \A r : MovesOne(PhaseIn(r), r.attempts, r)
  BY DEF MovesOne

LEMMA AckMoves ==
  ASSUME NEW r, Sane(r), NEW j \in Job
  PROVE  MovesOne(PhaseIn(r), r.attempts, Ack(r, j))
<1> DEFINE r2 == Ack(r, j)
<1>1. CASE j \notin Leased(r)
  BY <1>1, StaleCalls, SameMoves
<1>2. CASE j \in Leased(r)
  <2>1. Well(r, JobsOf(r))
    BY DEF Sane
  <2>2. Sane(r2)
    BY <1>2, <2>1, AckWell, SaneIf
  <2>3. /\ r2.queued = r.queued /\ Leased(r2) = Leased(r) \ {j}
        /\ r2.completed = r.completed \cup {j} /\ r2.failed = r.failed
        /\ r2.attempts = r.attempts
    BY <1>2, <2>1, AckEffect
  <2> HIDE DEF r2
  <2>4. AgreeOff(r, r2, {j})
    BY <2>3 DEF AgreeOff
  <2>5. PhaseIn(r)[j] = "leased" /\ PhaseIn(r2)[j] = "done"
    BY <1>2, <2>2, <2>3, PhaseFacts
  <2>7. PhaseIn(r2) = [PhaseIn(r) EXCEPT ![j] = PhaseIn(r2)[j]]
    BY <2>4, OneMoved, ZenonT(30)
  <2>6. PhaseIn(r2) = [PhaseIn(r) EXCEPT ![j] = "done"]
    BY <2>5, <2>7
  <2> QED
    BY <2>3, <2>5, <2>6 DEF MovesOne, r2
<1> QED
  BY <1>1, <1>2

LEMMA NackMoves ==
  ASSUME NEW r, Sane(r), NEW j \in Job, NEW requeue \in BOOLEAN
  PROVE  MovesOne(PhaseIn(r), r.attempts, Nack(r, j, requeue))
<1> DEFINE r2 == Nack(r, j, requeue)
<1>1. CASE j \notin Leased(r)
  BY <1>1, StaleCalls, SameMoves
<1>2. CASE j \in Leased(r)
  <2>1. Well(r, JobsOf(r))
    BY DEF Sane
  <2>2. Sane(r2)
    BY <1>2, <2>1, NackWell, SaneIf
  <2>3. Charged(r, r2, j, requeue)
    BY <1>2, <2>1, NackEffect
  <2> HIDE DEF r2
  <2>4. AgreeOff(r, r2, {j})
    BY <2>3 DEF AgreeOff, Charged
  <2>5. PhaseIn(r)[j] = "leased" /\ r2.attempts = [r.attempts EXCEPT ![j] = @ + 1]
    BY <1>2, <2>3, PhaseFacts DEF Charged
  <2>6. ASSUME r.attempts[j] + 1 < Limit(j), ToSet(r2.queued) = ToSet(r.queued) \cup {j}
        PROVE  MovesOne(PhaseIn(r), r.attempts, r2)
    <3>1. PhaseIn(r2)[j] = "queued"
      BY <2>2, <2>6, PhaseFacts
    <3>3. PhaseIn(r2) = [PhaseIn(r) EXCEPT ![j] = PhaseIn(r2)[j]]
      BY <2>4, OneMoved, ZenonT(30)
    <3>2. PhaseIn(r2) = [PhaseIn(r) EXCEPT ![j] = "queued"]
      BY <3>1, <3>3
    <3> QED
      BY <2>5, <2>6, <3>2 DEF MovesOne
  <2>7. ASSUME r2.failed = r.failed \cup {j}
        PROVE  MovesOne(PhaseIn(r), r.attempts, r2)
    <3>1. PhaseIn(r2)[j] = "dead"
      BY <2>2, <2>7, PhaseFacts
    <3>3. PhaseIn(r2) = [PhaseIn(r) EXCEPT ![j] = PhaseIn(r2)[j]]
      BY <2>4, OneMoved, ZenonT(30)
    <3>2. PhaseIn(r2) = [PhaseIn(r) EXCEPT ![j] = "dead"]
      BY <3>1, <3>3
    <3> QED
      BY <2>5, <3>2 DEF MovesOne
  <2>8. MovesOne(PhaseIn(r), r.attempts, r2)
    BY <2>3, <2>6, <2>7 DEF Charged
  <2> QED
    BY <2>8 DEF r2
<1> QED
  BY <1>1, <1>2

LEMMA ExtendMoves ==
  ASSUME NEW r, Sane(r), NEW j \in Job, NEW p \in Worker
  PROVE  MovesOne(PhaseIn(r), r.attempts, ExtendLease(r, j, p))
<1> DEFINE r2 == ExtendLease(r, j, p)
<1>1. /\ r2.queued = r.queued /\ r2.owner = r.owner /\ r2.completed = r.completed
      /\ r2.failed = r.failed /\ r2.attempts = r.attempts
  BY ExtendLeaseWell DEF Sane
<1> HIDE DEF r2
<1>2. PhaseIn(r2) = PhaseIn(r)
  BY <1>1 DEF PhaseIn, Leased
<1> QED
  BY <1>1, <1>2 DEF MovesOne, r2

\* What a call is to write answers what it has read.
LEMMA EffectAnswers ==
  ASSUME TypeOK, Queues, NEW p \in Worker, NEW c \in Calls(p), NEW r \in RequeueExpired(file)
  PROVE  Answers(file, Effect(r, p, c))
<1> DEFINE r2 == Effect(r, p, c)
<1>1. /\ c.kind \in {"push", "pull", "ack", "nack", "fail", "extend", "stats"}
      /\ c.kind = "push" => c.job \in Job \ pushed
      /\ c.kind \in {"ack", "nack", "fail", "extend"} => c.job \in Job
  BY CallsFacts
<1>2. Sane(file) /\ JobsOf(file) \subseteq pushed
  BY DEF Queues
<1>3. Sane(r) /\ JobsOf(r) \subseteq pushed
  BY <1>2, RequeuedSane
<1>4. /\ c.kind = "push" => r2 = Enqueue(r, c.job)
      /\ c.kind = "pull" => r2 = IF r.queued = <<>> THEN r ELSE Lease(r, p)
      /\ c.kind = "ack" => r2 = Ack(r, c.job)
      /\ c.kind = "nack" => r2 = Nack(r, c.job, TRUE)
      /\ c.kind = "fail" => r2 = Nack(r, c.job, FALSE)
      /\ c.kind = "extend" => r2 = ExtendLease(r, c.job, p)
      /\ c.kind = "stats" => r2 = r
  BY EffectCases
<1> HIDE DEF r2
<1>5. MovesOne(PhaseIn(r), r.attempts, r2)
  <2>1. CASE c.kind = "push"
    BY <1>1, <1>3, <1>4, <2>1, PushMoves
  <2>2. CASE c.kind = "pull"
    BY <1>3, <1>4, <2>2, PullMoves, SameMoves
  <2>3. CASE c.kind = "ack"
    BY <1>1, <1>3, <1>4, <2>3, AckMoves
  <2>4. CASE c.kind = "nack"
    BY <1>1, <1>3, <1>4, <2>4, NackMoves
  <2>5. CASE c.kind = "fail"
    BY <1>1, <1>3, <1>4, <2>5, NackMoves
  <2>6. CASE c.kind = "extend"
    BY <1>1, <1>3, <1>4, <2>6, ExtendMoves
  <2>7. CASE c.kind = "stats"
    BY <1>4, <2>7, SameMoves
  <2> QED
    BY <1>1, <2>1, <2>2, <2>3, <2>4, <2>5, <2>6, <2>7
<1>6. /\ Lapsed(file) \in SUBSET Leased(file)
      /\ PhaseIn(r) = RevokedIn(file, Lapsed(file)) /\ r.attempts = file.attempts
  BY <1>2, Revocation
<1> QED
  BY <1>5, <1>6 DEF Answers, r2

-----------------------------------------------------------------------------
(***************************************************************************)
(* The steps                                                               *)
(***************************************************************************)
LEMMA InitIInv == Init => IInv
<1> SUFFICES ASSUME Init PROVE IInv
  OBVIOUS
<1>1. Sane(EmptyQueue) /\ JobsOf(EmptyQueue) = {} /\ EmptyQueue \in QueueState
  BY EmptySane
<1>7. NoCall \in [kind : Kinds, job : Job \cup {NoJob}] /\ 0 \in 0 .. MaxCrashes
  BY FileQueueAssumption DEF NoCall, Kinds
<1>2. TypeOK
  BY <1>1, <1>7 DEF Init, TypeOK
<1>8. \A p \in Worker : Pushing(p) = {}
  BY DEF Init, Pushing, NoCall
<1>3. Queues
  BY <1>1, <1>8 DEF Init, Queues
<1>4. Busy = {} /\ Leased(EmptyQueue) = {}
  BY DEF Init, Busy, Leased, EmptyQueue
<1>5. Calm
  BY <1>4 DEF Init, Calm
<1>6. Tended
  BY <1>4 DEF Init, Tended, InHand
<1> QED
  BY <1>2, <1>3, <1>5, <1>6 DEF IInv

\* Leases in hand survive requeueExpired.
LEMMA RequeuedInHand ==
  ASSUME NEW r, Sane(r), NEW r2 \in RequeueExpired(r)
  PROVE  Leased(r2) \subseteq Leased(r) /\ \A j \in Leased(r2) : r2.owner[j] = r.owner[j]
<1>1. /\ \A j \in Job : r2.owner[j] = IF j \in Lapsed(r) THEN NoWorker ELSE r.owner[j]
      /\ Leased(r2) = Leased(r) \ Lapsed(r)
  BY RequeueExpiredWell DEF Sane
<1>2. Leased(r) \subseteq Job
  BY DEF Leased
<1> QED
  BY <1>1, <1>2

\* The leases in what a call writes are those it read, but for the job the
\* process pulls, or settles.
LEMMA EffectLeases ==
  ASSUME TypeOK, NEW p \in Worker, NEW c \in Calls(p), NEW r, Sane(r), InHand(r)
  PROVE  \A j \in Leased(Effect(r, p, c)) :
           [holds EXCEPT ![p] = HoldsAfter(r, p, c)][Effect(r, p, c).owner[j]] = j
<1> DEFINE r2 == Effect(r, p, c)
           x == HoldsAfter(r, p, c)
<1>1. /\ c.kind \in {"push", "pull", "ack", "nack", "fail", "extend", "stats"}
      /\ c.kind = "pull" => holds[p] = NoJob
      /\ c.kind \in {"ack", "nack", "fail", "extend"} => c.job \in Job /\ c.job = holds[p]
  BY CallsFacts
<1>2. /\ c.kind = "push" => r2 = Enqueue(r, c.job)
      /\ c.kind = "pull" => r2 = IF r.queued = <<>> THEN r ELSE Lease(r, p)
      /\ c.kind = "ack" => r2 = Ack(r, c.job)
      /\ c.kind = "nack" => r2 = Nack(r, c.job, TRUE)
      /\ c.kind = "fail" => r2 = Nack(r, c.job, FALSE)
      /\ c.kind = "extend" => r2 = ExtendLease(r, c.job, p)
      /\ c.kind = "stats" => r2 = r
  BY EffectCases
<1>3. /\ c.kind = "pull" => x = IF r.queued = <<>> THEN NoJob ELSE Head(r.queued)
      /\ c.kind \in {"ack", "nack", "fail"} => x = NoJob
      /\ c.kind \in {"push", "extend", "stats"} => x = holds[p]
  BY DEF HoldsAfter
<1>4. Well(r, JobsOf(r)) /\ r \in QueueState
  BY DEF Sane, Well
<1>5. /\ r.owner \in [Job -> Worker \cup {NoWorker}] /\ Leased(r) \subseteq Job
      /\ \A j \in Leased(r) : r.owner[j] \in Worker /\ holds[r.owner[j]] = j
  BY <1>4 DEF QueueState, Leased, InHand
<1>6. holds \in [Worker -> Job \cup {NoJob}] /\ NoJob \notin Job
  BY FileQueueAssumption DEF TypeOK
<1> HIDE DEF r2, x
<1> SUFFICES ASSUME NEW j \in Leased(r2) PROVE [holds EXCEPT ![p] = x][r2.owner[j]] = j
  BY DEF r2, x
<1>7. CASE c.kind \in {"push", "extend", "stats"}
  <2>1. r2.owner = r.owner
    <3>1. CASE c.kind = "push"
      BY <1>2, <1>4, <3>1 DEF Enqueue, QueueState
    <3>2. CASE c.kind = "extend"
      <4>1. c.job \in Job /\ r2 = ExtendLease(r, c.job, p)
        BY <1>1, <1>2, <3>2
      <4>2. ExtendLease(r, c.job, p).owner = r.owner
        BY <1>4, <4>1, ExtendLeaseWell
      <4> QED
        BY <4>1, <4>2
    <3>3. CASE c.kind = "stats"
      BY <1>2, <3>3
    <3> QED
      BY <1>7, <3>1, <3>2, <3>3
  <2>2. Leased(r2) = Leased(r) /\ x = holds[p]
    BY <1>3, <1>7, <2>1 DEF Leased
  <2> QED
    BY <1>5, <1>6, <2>1, <2>2
<1>8. CASE c.kind = "pull"
  <2>1. CASE r.queued = <<>>
    <3>1. r2 = r /\ x = holds[p]
      BY <1>1, <1>2, <1>3, <1>8, <2>1
    <3> QED
      BY <1>5, <1>6, <3>1
  <2>2. CASE r.queued # <<>>
    <3>1. r2 = Lease(r, p) /\ x = Head(r.queued)
      BY <1>2, <1>3, <1>8, <2>2
    <3>2. /\ x \in Job /\ r2.owner = [r.owner EXCEPT ![x] = p]
          /\ Leased(r2) = Leased(r) \cup {x}
      BY <1>4, <2>2, <3>1, LeaseEffect
    <3>3. CASE j = x
      BY <1>5, <1>6, <3>2, <3>3
    <3>4. CASE j # x
      <4>1. j \in Leased(r) /\ r2.owner[j] = r.owner[j] /\ r.owner[j] # p
        BY <1>1, <1>5, <1>6, <1>8, <3>2, <3>4
      <4> QED
        BY <1>5, <1>6, <4>1
    <3> QED
      BY <3>3, <3>4
  <2> QED
    BY <2>1, <2>2
<1>10. ASSUME NEW k \in Leased(r)
       PROVE  /\ Ack(r, k).owner = [r.owner EXCEPT ![k] = NoWorker]
              /\ \A requeue \in BOOLEAN :
                   Nack(r, k, requeue).owner = [r.owner EXCEPT ![k] = NoWorker]
  <2>1. Ack(r, k).owner = [r.owner EXCEPT ![k] = NoWorker]
    BY <1>4, AckEffect
  <2>2. ASSUME NEW requeue \in BOOLEAN
        PROVE  Nack(r, k, requeue).owner = [r.owner EXCEPT ![k] = NoWorker]
    <3>1. Charged(r, Nack(r, k, requeue), k, requeue)
      BY <1>4, NackEffect
    <3> QED
      BY <3>1 DEF Charged
  <2> QED
    BY <2>1, <2>2
<1>9. CASE c.kind \in {"ack", "nack", "fail"}
  <2> DEFINE h == holds[p]
  <2>1. h \in Job /\ x = NoJob
        /\ (r2 = Ack(r, h) \/ r2 = Nack(r, h, TRUE) \/ r2 = Nack(r, h, FALSE))
    BY <1>1, <1>2, <1>3, <1>9
  <2>2. h \in Leased(r) => r2.owner = [r.owner EXCEPT ![h] = NoWorker]
    <3> SUFFICES ASSUME h \in Leased(r) PROVE r2.owner = [r.owner EXCEPT ![h] = NoWorker]
      OBVIOUS
    <3>1. Ack(r, h).owner = [r.owner EXCEPT ![h] = NoWorker]
      BY <1>10
    <3>2. \A requeue \in BOOLEAN : Nack(r, h, requeue).owner = [r.owner EXCEPT ![h] = NoWorker]
      BY <1>10
    <3> QED
      BY <2>1, <3>1, <3>2
  <2>3. h \notin Leased(r) => r2 = r
    <3> SUFFICES ASSUME h \notin Leased(r) PROVE r2 = r
      OBVIOUS
    <3>1. Ack(r, h) = r
      BY StaleCalls
    <3>2. Nack(r, h, TRUE) = r
      BY StaleCalls
    <3>3. Nack(r, h, FALSE) = r
      BY StaleCalls
    <3> QED
      BY <2>1, <3>1, <3>2, <3>3
  <2>4. j \in Leased(r) /\ r2.owner[j] = r.owner[j] /\ j # h
    BY <1>5, <2>1, <2>2, <2>3 DEF Leased
  <2>5. r.owner[j] # p
    BY <1>5, <2>4
  <2> QED
    BY <1>5, <1>6, <2>4, <2>5
<1> QED
  BY <1>1, <1>7, <1>8, <1>9

LEMMA ReadKeeps == ASSUME IInv, NEW p \in Worker, Read(p) PROVE IInv'
<1>1. PICK c \in Calls(p), r \in RequeueExpired(file) :
        /\ call' = [call EXCEPT ![p] = c]
        /\ after' = [after EXCEPT ![p] = Effect(r, p, c)]
        /\ holds' = [holds EXCEPT ![p] = HoldsAfter(r, p, c)]
  BY DEF Read
<1> DEFINE r2 == Effect(r, p, c)
           x == HoldsAfter(r, p, c)
<1>2. TypeOK /\ Queues /\ Calm /\ Tended /\ Sane(file) /\ file \in QueueState
  BY DEF IInv, TypeOK, Queues
<1>3. Sane(r) /\ JobsOf(r) \subseteq pushed
  BY <1>2, RequeuedSane DEF Queues
<1>4. /\ Sane(r2) /\ r2 \in QueueState
      /\ JobsOf(r2) \subseteq pushed \cup (IF c.kind = "push" THEN {c.job} ELSE {})
      /\ x \in Job \cup {NoJob}
  BY <1>2, <1>3, EffectSane
<1>5. Answers(file, r2)
  BY <1>2, EffectAnswers
<1>6. InHand(r) => \A j \in Leased(r2) : [holds EXCEPT ![p] = x][r2.owner[j]] = j
  BY <1>2, <1>3, EffectLeases
<1>7. c \in [kind : Kinds, job : Job \cup {NoJob}]
  BY <1>2, CallsFacts
<1> HIDE DEF r2, x
<1>8. /\ stage[p] = "idle" /\ stage' = [stage EXCEPT ![p] = "read"]
      /\ call' = [call EXCEPT ![p] = c] /\ after' = [after EXCEPT ![p] = r2]
      /\ holds' = [holds EXCEPT ![p] = x]
      /\ overlap' = (overlap \/ Busy # {})
      /\ base' = IF overlap' THEN Forgotten ELSE [base EXCEPT ![p] = file]
      /\ UNCHANGED <<file, made, crossed, pushed, crashes>>
  BY <1>1 DEF Read, r2, x
<1>9. Busy' = Busy \cup {p} /\ p \notin Busy
  BY <1>2, <1>8 DEF Busy, TypeOK
<1>10. \A v \in Worker : base'[v] \in QueueState /\ Sane(base'[v])
  BY <1>2, <1>8, EmptySane DEF Forgotten, TypeOK, Queues
<1>11. TypeOK'
  <2>1. base' \in [Worker -> QueueState]
    BY <1>2, <1>8, EmptySane DEF Forgotten, TypeOK
  <2>2. overlap' \in BOOLEAN /\ crossed' \subseteq Busy'
    BY <1>2, <1>8, <1>9 DEF TypeOK
  <2>3. stage' \in [Worker -> {"closed", "creating", "idle", "read", "truncated"}]
    BY <1>2, <1>8 DEF TypeOK
  <2>4. /\ call' \in [Worker -> [kind : Kinds, job : Job \cup {NoJob}]]
        /\ after' \in [Worker -> QueueState] /\ holds' \in [Worker -> Job \cup {NoJob}]
    BY <1>2, <1>4, <1>7, <1>8 DEF TypeOK
  <2> QED
    BY <1>2, <1>8, <2>1, <2>2, <2>3, <2>4 DEF TypeOK
<1>12. Queues'
  <2>1. ASSUME NEW v \in Worker
        PROVE  /\ Sane(after'[v]) /\ JobsOf(after'[v]) \subseteq pushed' \cup Pushing(v)'
               /\ Pushing(v)' \subseteq Job
    <3>1. CASE v = p
      <4>1. c.kind = "push" => c.job \in Job
        BY <1>2, CallsFacts
      <4> QED
        BY <1>2, <1>4, <1>8, <3>1, <4>1 DEF TypeOK, Pushing
    <3>2. CASE v # p
      BY <1>2, <1>8, <3>2 DEF TypeOK, Queues, Pushing
    <3> QED
      BY <3>1, <3>2
  <2> QED
    BY <1>2, <1>8, <1>10, <2>1 DEF Queues
<1>13. CASE overlap'
  BY <1>11, <1>12, <1>13 DEF IInv, Calm, Tended
<1>14. CASE ~overlap'
  <2>1. ~overlap /\ Busy = {} /\ Busy' = {p} /\ base' = [base EXCEPT ![p] = file]
    BY <1>8, <1>9, <1>14
  <2>2. /\ base'[p] = file' /\ after'[p] = r2 /\ Answers(base'[p], after'[p])
        /\ \A v \in Worker : stage'[v] = "read" => v = p
        /\ stage[p] \notin {"closed", "creating"}
    BY <1>2, <1>5, <1>8, <2>1 DEF TypeOK, Busy
  <2>3. Calm'
    BY <1>2, <1>8, <2>1, <2>2 DEF Calm
  <2>4. ASSUME crashes' = 0
        PROVE  /\ InHand(after[p])'
               /\ \A j \in Leased(base'[p]) :
                    base'[p].owner[j] = p \/ holds'[base'[p].owner[j]] = j
    <3>1. InHand(file)
      BY <1>2, <1>8, <2>1, <2>4 DEF Tended
    <3>2. InHand(r)
      BY <1>2, <3>1, RequeuedInHand DEF InHand
    <3>3. InHand(after[p])'
      BY <1>6, <1>8, <2>2, <3>2 DEF InHand
    <3>4. ASSUME NEW j \in Leased(file)
          PROVE  file.owner[j] = p \/ holds'[file.owner[j]] = j
      <4>1. file.owner[j] \in Worker
        BY <1>2, <3>4 DEF Leased, QueueState
      <4> QED
        BY <1>2, <1>8, <3>1, <3>4, <4>1 DEF InHand, TypeOK
    <3> QED
      BY <1>8, <2>2, <3>3, <3>4
  <2>5. Tended'
    BY <2>1, <2>4 DEF Tended
  <2> QED
    BY <1>11, <1>12, <2>3, <2>5 DEF IInv
<1> QED
  BY <1>13, <1>14

LEMMA TruncateKeeps == ASSUME IInv, NEW p \in Worker, Truncate(p) PROVE IInv'
<1>1. /\ stage[p] = "read" /\ stage' = [stage EXCEPT ![p] = "truncated"] /\ file' = EmptyQueue
      /\ UNCHANGED <<made, call, base, after, crossed, holds, pushed, overlap, crashes>>
  BY DEF Truncate
<1>2. TypeOK /\ Queues /\ Calm /\ Tended
  BY DEF IInv
<1>3. Busy' = Busy /\ p \in Busy
  BY <1>1, <1>2 DEF Busy, TypeOK
<1>4. TypeOK'
  <2>1. stage' \in [Worker -> {"closed", "creating", "idle", "read", "truncated"}]
    BY <1>1, <1>2 DEF TypeOK
  <2> QED
    BY <1>1, <1>2, <1>3, <2>1, EmptySane DEF TypeOK
<1>5. Queues'
  BY <1>1, <1>2, EmptySane DEF Queues, Pushing
<1>6. Calm'
  <2> SUFFICES ASSUME ~overlap PROVE Calm'
    BY <1>1 DEF Calm
  <2>1. made /\ \A v \in Busy : v = p
    BY <1>1, <1>2, <1>3 DEF Calm
  <2>2. \A v \in Worker : stage'[v] # "read"
    BY <1>1, <1>2, <2>1 DEF Busy, TypeOK
  <2> QED
    BY <1>1, <1>2, <1>3, <2>1, <2>2 DEF Calm
<1>7. Tended'
  BY <1>1, <1>2, <1>3 DEF Tended, InHand
<1> QED
  BY <1>4, <1>5, <1>6, <1>7 DEF IInv

LEMMA FillKeeps == ASSUME IInv, NEW p \in Worker, Fill(p) PROVE IInv'
<1>1. /\ stage[p] = "truncated" /\ stage' = [stage EXCEPT ![p] = "idle"]
      /\ file' = after[p] \/ (p \in crossed /\ file' = EmptyQueue)
      /\ pushed' = pushed \cup Pushing(p)
      /\ call' = [call EXCEPT ![p] = NoCall]
      /\ crossed' = {w \in Busy \ {p} : stage[w] = "truncated"}
      /\ base' = [base EXCEPT ![p] = EmptyQueue] /\ after' = [after EXCEPT ![p] = EmptyQueue]
      /\ UNCHANGED <<made, holds, overlap, crashes>>
  BY DEF Fill, Pushing
<1>2. TypeOK /\ Queues /\ Calm /\ Tended
  BY DEF IInv
<1>3. Busy' = Busy \ {p} /\ p \in Busy
  BY <1>1, <1>2 DEF Busy, TypeOK
<1>4. /\ Sane(after[p]) /\ after[p] \in QueueState
      /\ JobsOf(after[p]) \subseteq pushed \cup Pushing(p)
  BY <1>2 DEF Queues, TypeOK
<1>5. NoCall \in [kind : Kinds, job : Job \cup {NoJob}] /\ NoCall.kind # "push"
  BY DEF NoCall, Kinds
<1>6. TypeOK'
  <2>1. stage' \in [Worker -> {"closed", "creating", "idle", "read", "truncated"}]
    BY <1>1, <1>2 DEF TypeOK
  <2>2. call' \in [Worker -> [kind : Kinds, job : Job \cup {NoJob}]]
    BY <1>1, <1>2, <1>5 DEF TypeOK
  <2>3. base' \in [Worker -> QueueState] /\ after' \in [Worker -> QueueState]
    BY <1>1, <1>2, EmptySane DEF TypeOK
  <2>4. file' \in QueueState /\ crossed' \subseteq Busy'
    BY <1>1, <1>3, <1>4, EmptySane
  <2>5. pushed' \subseteq Job
    BY <1>1, <1>2 DEF TypeOK, Queues
  <2> QED
    BY <1>1, <1>2, <2>1, <2>2, <2>3, <2>4, <2>5 DEF TypeOK
<1>7. Queues'
  <2>1. Sane(file') /\ JobsOf(file') \subseteq pushed'
    BY <1>1, <1>4, EmptySane
  <2>2. ASSUME NEW v \in Worker
        PROVE  /\ Sane(base'[v]) /\ Sane(after'[v])
               /\ JobsOf(after'[v]) \subseteq pushed' \cup Pushing(v)'
               /\ Pushing(v)' \subseteq Job
    <3>1. CASE v = p
      <4>1. /\ base'[v] = EmptyQueue /\ after'[v] = EmptyQueue
            /\ Pushing(v)' = {}
        BY <1>1, <1>2, <3>1, <1>5 DEF TypeOK, Pushing
      <4> QED
        BY <4>1, EmptySane
    <3>2. CASE v # p
      BY <1>1, <1>2, <3>2 DEF TypeOK, Queues, Pushing
    <3> QED
      BY <3>1, <3>2
  <2> QED
    BY <2>1, <2>2 DEF Queues
<1>8. CASE overlap
  BY <1>1, <1>6, <1>7, <1>8 DEF IInv, Calm, Tended
<1>9. CASE ~overlap
  <2>1. /\ made /\ \A v \in Busy : v = p
        /\ file' = after[p]
    BY <1>1, <1>2, <1>3, <1>9 DEF Calm
  <2>2. Busy' = {} /\ crossed' = {}
    BY <1>1, <1>3, <2>1
  <2>3. Calm'
    BY <1>1, <2>1, <2>2 DEF Calm, Busy
  <2>4. Tended'
    BY <1>1, <1>2, <1>3, <1>9, <2>1, <2>2 DEF Tended, InHand
  <2> QED
    BY <1>6, <1>7, <2>3, <2>4 DEF IInv
<1> QED
  BY <1>8, <1>9

LEMMA OpenKeeps == ASSUME IInv, NEW p \in Worker, Open(p) \/ Create(p) PROVE IInv'
<1>1. /\ stage[p] \in {"closed", "creating"}
      /\ stage' = [stage EXCEPT ![p] = "idle"] \/ stage' = [stage EXCEPT ![p] = "creating"]
      /\ UNCHANGED <<call, base, after, crossed, holds, pushed, crashes>>
      /\ file' \in {file, EmptyQueue} /\ made' \in BOOLEAN /\ overlap' \in BOOLEAN
  BY DEF Open, Create, IInv, TypeOK
<1>2. TypeOK /\ Queues /\ Calm /\ Tended
  BY DEF IInv
<1>3. Busy' = Busy /\ p \notin Busy
  BY <1>1, <1>2 DEF Busy, TypeOK
<1>4. TypeOK'
  <2>1. stage' \in [Worker -> {"closed", "creating", "idle", "read", "truncated"}]
    BY <1>1, <1>2 DEF TypeOK
  <2> QED
    BY <1>1, <1>2, <1>3, <2>1, EmptySane DEF TypeOK
<1>5. Queues'
  BY <1>1, <1>2, EmptySane DEF Queues, Pushing
<1>6. CASE overlap'
  BY <1>4, <1>5, <1>6 DEF IInv, Calm, Tended
<1>7. CASE ~overlap'
  <2>1. /\ ~overlap /\ file' = file
        /\ made' = made \/ (made' /\ \A v \in Worker : stage[v] \in {"closed", "creating"})
        /\ ~made' => stage'[p] = "creating"
    BY <1>2, <1>7 DEF Open, Create, Calm, TypeOK
  <2>2. \A v \in Worker : stage'[v] = "read" => stage[v] = "read"
    BY <1>1, <1>2 DEF TypeOK
  <2>3. ~made' => \A v \in Worker : stage'[v] \in {"closed", "creating"}
    BY <1>1, <1>2, <2>1 DEF Calm, TypeOK
  <2>4. Calm'
    BY <1>1, <1>2, <1>3, <2>1, <2>2, <2>3 DEF Calm
  <2>5. Tended'
    BY <1>1, <1>2, <1>3, <2>1 DEF Tended, InHand
  <2> QED
    BY <1>4, <1>5, <2>4, <2>5 DEF IInv
<1> QED
  BY <1>6, <1>7

LEMMA CrashKeeps == ASSUME IInv, NEW p \in Worker, Crash(p) PROVE IInv'
<1>1. /\ crashes < MaxCrashes /\ crashes' = crashes + 1
      /\ stage' = [stage EXCEPT ![p] = "closed"]
      /\ call' = [call EXCEPT ![p] = NoCall]
      /\ base' = [base EXCEPT ![p] = EmptyQueue] /\ after' = [after EXCEPT ![p] = EmptyQueue]
      /\ crossed' = crossed \ {p} /\ holds' = [holds EXCEPT ![p] = NoJob]
      /\ pushed' = pushed \cup Pushing(p)
      /\ overlap' = (overlap \/ stage[p] = "truncated")
      /\ UNCHANGED <<file, made>>
  BY DEF Crash, Pushing
<1>2. TypeOK /\ Queues /\ Calm
  BY DEF IInv
<1>3. Busy' = Busy \ {p}
  BY <1>1, <1>2 DEF Busy, TypeOK
<1>4. NoCall \in [kind : Kinds, job : Job \cup {NoJob}] /\ NoCall.kind # "push"
  BY DEF NoCall, Kinds
<1>5. crashes' \in 0 .. MaxCrashes /\ crashes' # 0
  BY <1>1, <1>2, FileQueueAssumption DEF TypeOK
<1>6. TypeOK'
  <2>1. stage' \in [Worker -> {"closed", "creating", "idle", "read", "truncated"}]
    BY <1>1, <1>2 DEF TypeOK
  <2>2. call' \in [Worker -> [kind : Kinds, job : Job \cup {NoJob}]]
    BY <1>1, <1>2, <1>4 DEF TypeOK
  <2>3. base' \in [Worker -> QueueState] /\ after' \in [Worker -> QueueState]
    BY <1>1, <1>2, EmptySane DEF TypeOK
  <2>4. crossed' \subseteq Busy' /\ overlap' \in BOOLEAN /\ holds' \in [Worker -> Job \cup {NoJob}]
    BY <1>1, <1>2, <1>3 DEF TypeOK
  <2>5. pushed' \subseteq Job
    BY <1>1, <1>2 DEF TypeOK, Queues
  <2> QED
    BY <1>1, <1>2, <1>5, <2>1, <2>2, <2>3, <2>4, <2>5 DEF TypeOK
<1>7. Queues'
  <2>1. ASSUME NEW v \in Worker
        PROVE  /\ Sane(base'[v]) /\ Sane(after'[v])
               /\ JobsOf(after'[v]) \subseteq pushed' \cup Pushing(v)'
               /\ Pushing(v)' \subseteq Job
    <3>1. CASE v = p
      <4>1. /\ base'[v] = EmptyQueue /\ after'[v] = EmptyQueue
            /\ Pushing(v)' = {}
        BY <1>1, <1>2, <3>1, <1>4 DEF TypeOK, Pushing
      <4> QED
        BY <4>1, EmptySane
    <3>2. CASE v # p
      BY <1>1, <1>2, <3>2 DEF TypeOK, Queues, Pushing
    <3> QED
      BY <3>1, <3>2
  <2> QED
    BY <1>1, <1>2, <2>1 DEF Queues
<1>8. Calm'
  <2> SUFFICES ASSUME ~overlap' PROVE Calm'
    BY DEF Calm
  <2>1. ~overlap /\ crossed' = {}
    BY <1>1, <1>2 DEF Calm
  <2>2. ASSUME NEW v \in Worker, v # p
        PROVE  stage'[v] = stage[v] /\ base'[v] = base[v] /\ after'[v] = after[v]
    BY <1>1, <1>2, <2>2 DEF TypeOK
  <2>3. stage'[p] = "closed"
    BY <1>1, <1>2 DEF TypeOK
  <2>4. \A v \in Worker : stage'[v] = "read" => base'[v] = file'
    BY <1>1, <1>2, <2>1, <2>2, <2>3 DEF Calm
  <2>5. ~made' => file' = EmptyQueue /\ \A v \in Worker : stage'[v] \in {"closed", "creating"}
    BY <1>1, <1>2, <2>1, <2>2, <2>3 DEF Calm
  <2>6. \A v \in Busy' : Answers(base'[v], after'[v])
    BY <1>2, <1>3, <2>1, <2>2 DEF Calm, Busy
  <2>7. \A v, w \in Busy' : v = w
    BY <1>2, <1>3, <2>1 DEF Calm
  <2> QED
    BY <2>1, <2>4, <2>5, <2>6, <2>7 DEF Calm
<1>9. Tended'
  BY <1>5 DEF Tended
<1> QED
  BY <1>6, <1>7, <1>8, <1>9 DEF IInv

LEMMA AgedEmpty == Age(EmptyQueue) = EmptyQueue
<1>1. Leased(EmptyQueue) = {}
  BY DEF Leased, EmptyQueue
<1>2. EmptyQueue.age = [j \in Job |-> EmptyQueue.age[j]]
  BY DEF EmptyQueue
<1> QED
  BY <1>1, <1>2 DEF Age, EmptyQueue

LEMMA AgedAnswers ==
  ASSUME NEW r, Sane(r), NEW r2, Sane(r2), Answers(r, r2)
  PROVE  Answers(Age(r), Age(r2))
<1>1. /\ Leased(Age(r)) = Leased(r) /\ PhaseIn(Age(r)) = PhaseIn(r)
      /\ Age(r).attempts = r.attempts
  BY AgedSane
<1>2. PhaseIn(Age(r2)) = PhaseIn(r2) /\ Age(r2).attempts = r2.attempts
  BY AgedSane
<1>3. PICK R \in SUBSET Leased(r) : MovesOne(RevokedIn(r, R), r.attempts, r2)
  BY DEF Answers
<1>4. RevokedIn(Age(r), R) = RevokedIn(r, R)
  BY <1>1 DEF RevokedIn
<1> DEFINE ph == RevokedIn(r, R)
<1>5. MovesOne(ph, r.attempts, r2)
  BY <1>3
<1> HIDE DEF ph
<1>6. MovesOne(ph, r.attempts, Age(r2))
  BY <1>2, <1>5 DEF MovesOne
<1> QED
  BY <1>1, <1>4, <1>6 DEF Answers, ph

LEMMA TickKeeps == ASSUME IInv, Tick PROVE IInv'
<1>1. /\ file' = Age(file) /\ base' = [p \in Worker |-> Age(base[p])]
      /\ after' = [p \in Worker |-> Age(after[p])]
      /\ UNCHANGED <<made, stage, call, crossed, holds, pushed, overlap, crashes>>
  BY DEF Tick
<1>2. TypeOK /\ Queues /\ Calm /\ Tended
  BY DEF IInv
<1>3. /\ Sane(file') /\ file' \in QueueState /\ JobsOf(file') = JobsOf(file)
      /\ Leased(file') = Leased(file) /\ file'.owner = file.owner
  <2>1. Sane(file)
    BY <1>2 DEF Queues
  <2>2. Sane(Age(file))
    BY <2>1, AgedSane
  <2> QED
    BY <1>1, <2>1, <2>2, AgedSane DEF Sane, Well
<1>4. ASSUME NEW p \in Worker
      PROVE  /\ Sane(base'[p]) /\ base'[p] \in QueueState
             /\ Leased(base'[p]) = Leased(base[p]) /\ base'[p].owner = base[p].owner
             /\ base'[p] = Age(base[p])
  <2>1. Sane(base[p]) /\ base'[p] = Age(base[p])
    BY <1>1, <1>2 DEF Queues
  <2>2. Sane(Age(base[p]))
    BY <2>1, AgedSane
  <2> QED
    BY <2>1, <2>2, AgedSane DEF Sane, Well
<1>5. ASSUME NEW p \in Worker
      PROVE  /\ Sane(after'[p]) /\ after'[p] \in QueueState /\ JobsOf(after'[p]) = JobsOf(after[p])
             /\ Leased(after'[p]) = Leased(after[p]) /\ after'[p].owner = after[p].owner
             /\ after'[p] = Age(after[p])
  <2>1. Sane(after[p]) /\ after'[p] = Age(after[p])
    BY <1>1, <1>2 DEF Queues
  <2>2. Sane(Age(after[p]))
    BY <2>1, AgedSane
  <2> QED
    BY <2>1, <2>2, AgedSane DEF Sane, Well
<1>6. Busy' = Busy
  BY <1>1 DEF Busy
<1>7. TypeOK'
  <2>1. base' \in [Worker -> QueueState] /\ after' \in [Worker -> QueueState]
    BY <1>1, <1>4, <1>5
  <2> QED
    BY <1>1, <1>2, <1>3, <1>6, <2>1 DEF TypeOK
<1>8. Queues'
  BY <1>1, <1>2, <1>3, <1>4, <1>5 DEF Queues, Pushing
<1>9. Calm'
  <2> SUFFICES ASSUME ~overlap PROVE Calm'
    BY <1>1 DEF Calm
  <2>1. \A p \in Busy : Answers(base'[p], after'[p])
    <3> SUFFICES ASSUME NEW p \in Busy PROVE Answers(base'[p], after'[p])
      OBVIOUS
    <3>1. p \in Worker /\ Sane(base[p]) /\ Sane(after[p]) /\ Answers(base[p], after[p])
      BY <1>2 DEF Calm, Queues, Busy
    <3>2. Answers(Age(base[p]), Age(after[p]))
      BY <3>1, AgedAnswers
    <3> QED
      BY <1>1, <3>1, <3>2
  <2>2. ~made => file' = EmptyQueue
    BY <1>1, <1>2, AgedEmpty DEF Calm
  <2>3. \A p \in Worker : stage[p] = "read" => base'[p] = file'
    BY <1>1, <1>2 DEF Calm
  <2> QED
    BY <1>1, <1>2, <1>6, <2>1, <2>2, <2>3 DEF Calm
<1>10. Tended'
  BY <1>1, <1>2, <1>3, <1>4, <1>5, <1>6 DEF Tended, InHand, Busy
<1> QED
  BY <1>7, <1>8, <1>9, <1>10 DEF IInv

LEMMA NextKeeps == IInv /\ [Next]_vars => IInv'
<1> SUFFICES ASSUME IInv, [Next]_vars PROVE IInv'
  OBVIOUS
<1>1. ASSUME NEW p \in Worker, Open(p) \/ Create(p) PROVE IInv'
  BY <1>1, OpenKeeps
<1>2. ASSUME NEW p \in Worker, Read(p) PROVE IInv'
  BY <1>2, ReadKeeps
<1>3. ASSUME NEW p \in Worker, Truncate(p) PROVE IInv'
  BY <1>3, TruncateKeeps
<1>4. ASSUME NEW p \in Worker, Fill(p) PROVE IInv'
  BY <1>4, FillKeeps
<1>5. ASSUME NEW p \in Worker, Crash(p) PROVE IInv'
  BY <1>5, CrashKeeps
<1>6. CASE Tick
  BY <1>6, TickKeeps
<1>7. CASE UNCHANGED vars
  BY <1>7 DEF vars, IInv, TypeOK, Queues, Calm, Tended, InHand, Busy, Pushing
<1> QED
  BY <1>1, <1>2, <1>3, <1>4, <1>5, <1>6, <1>7 DEF Next

-----------------------------------------------------------------------------
(***************************************************************************)
(* Theorems                                                                *)
(***************************************************************************)
\* Whatever the number of processes, jobs and crashes, every document is a
\* queue, and until calls overlap the file answers one call at a time.
THEOREM Invariance == Spec => []IInv
<1>1. Init => IInv
  BY InitIInv
<1>2. IInv /\ [Next]_vars => IInv'
  BY NextKeeps
<1> QED
  BY <1>1, <1>2, PTL DEF Spec

\* The state of the queue file and of its processes has its type.
THEOREM TypeCorrect == Spec => []TypeOK
<1>1. IInv => TypeOK
  BY DEF IInv
<1> QED
  BY <1>1, Invariance, PTL

\* A queue lists a job once, and lets none wait or run that is out of attempts.
LEMMA SaneLists ==
  ASSUME NEW r, Sane(r), NEW j \in Job
  PROVE  /\ Lists(r, j) <= 1
         /\ j \in Leased(r) \cup ToSet(r.queued) => r.attempts[j] < Limit(j)
<1> DEFINE A == {i \in DOMAIN r.queued : r.queued[i] = j}
           places == <<Leased(r), r.completed, r.failed>>
           B == {S \in {1, 2, 3} : j \in places[S]}
<1>1. /\ Distinct(r.queued)
      /\ j \in ToSet(r.queued) => j \notin places[1] \cup places[2] \cup places[3]
      /\ j \in places[1] => j \notin places[2] \cup places[3]
      /\ ~(j \in places[2] /\ j \in places[3])
  BY DEF Sane, Well, Placed
<1>2. A = {} \/ \E i : A = {i}
  <2>1. \A i, k \in A : i = k
    BY <1>1 DEF Distinct
  <2> HIDE DEF A
  <2> QED
    BY <2>1
<1>3. A # {} => j \in ToSet(r.queued)
  BY DEF ToSet
<1> HIDE DEF places
<1>4. B = {} \/ \E S : B = {S}
  BY <1>1
<1>5. A # {} => B = {}
  <2>1. A # {} => j \notin places[1] /\ j \notin places[2] /\ j \notin places[3]
    BY <1>1, <1>3
  <2>2. B # {} => j \in places[1] \/ j \in places[2] \/ j \in places[3]
    OBVIOUS
  <2> HIDE DEF A, B
  <2> QED
    BY <2>1, <2>2
<1> HIDE DEF A, B
<1>6. Cardinality({}) = 0 /\ \A S : Cardinality({S}) = 1
  BY FS_EmptySet, FS_Singleton
<1>9. /\ A = {} => Cardinality(A) = 0
      /\ A # {} => Cardinality(A) = 1
      /\ B = {} => Cardinality(B) = 0
      /\ B # {} => Cardinality(B) = 1
  BY <1>2, <1>4, <1>6, Zenon
<1>7. Cardinality(A) + Cardinality(B) <= 1
  BY <1>5, <1>9
<1>8. j \in Leased(r) \cup ToSet(r.queued) => r.attempts[j] < Limit(j)
  BY DEF Sane, Well, Counted
<1> QED
  BY <1>7, <1>8 DEF Lists, A, B, places

\* However the calls of any number of processes overlap or are cut, the file is
\* read as a queue: no job twice in it, none waiting or running out of attempts.
THEOREM ReadsAreQueues == Spec => []EveryReadIsAQueue
<1>1. IInv => EveryReadIsAQueue
  BY SaneLists DEF IInv, Queues, EveryReadIsAQueue
<1> QED
  BY <1>1, Invariance, PTL

LEMMA TruncatedIs ==
  ASSUME NEW st, NEW p \in Worker, st[p] = "truncated",
         \A v \in Worker : st[v] = "truncated" => v = p
  PROVE  (CHOOSE v \in Worker : st[v] = "truncated") = p
OBVIOUS

LEMMA StandingIs ==
  ASSUME Calm, ~overlap
  PROVE  /\ \A p \in Worker : stage[p] = "truncated" => Standing = base[p]
         /\ (\A p \in Worker : stage[p] # "truncated") => Standing = file
<1>1. ASSUME NEW p \in Worker, stage[p] = "truncated" PROVE Standing = base[p]
  <2>1. \A v \in Worker : stage[v] = "truncated" => v = p
    BY <1>1 DEF Calm, Busy
  <2>2. (CHOOSE v \in Worker : stage[v] = "truncated") = p
    BY <1>1, <2>1, TruncatedIs
  <2> QED
    BY <1>1, <2>2 DEF Standing
<1>2. (\A p \in Worker : stage[p] # "truncated") => Standing = file
  BY DEF Standing
<1> QED
  BY <1>1, <1>2

\* As long as calls do not overlap and no process dies, the lease of a job is
\* one of the process that has it in hand, or that is in the middle of a call.
THEOREM LeasesAreHeld == Spec => []LeaseHasRunner
<1>1. ASSUME IInv PROVE LeaseHasRunner
  <2> SUFFICES ASSUME NEW j \in Leased(Standing), ~overlap, crashes = 0
               PROVE  holds[Standing.owner[j]] = j \/ Standing.owner[j] \in Busy
    BY <1>1, FileQueueAssumption DEF IInv, TypeOK, LeaseHasRunner
  <2>1. TypeOK /\ Calm /\ Tended
    BY <1>1 DEF IInv
  <2>2. CASE Busy = {}
    <3>1. InHand(file) /\ \A p \in Worker : stage[p] # "truncated"
      BY <2>1, <2>2 DEF Tended, Busy
    <3>2. Standing = file
      BY <2>1, <3>1, StandingIs
    <3> QED
      BY <3>1, <3>2 DEF InHand
  <2>3. ASSUME NEW p \in Busy PROVE holds[Standing.owner[j]] = j \/ Standing.owner[j] \in Busy
    <3>1. Standing = base[p]
      BY <2>1, <2>3, StandingIs DEF Calm, Busy
    <3>2. \A k \in Leased(base[p]) : base[p].owner[k] = p \/ holds[base[p].owner[k]] = k
      BY <2>1 DEF Tended
    <3> QED
      BY <3>1, <3>2
  <2> QED
    BY <2>2, <2>3
<1> QED
  BY <1>1, Invariance, PTL

\* An answer is a step of the ledger.
LEMMA AnswerIsLedgerStep ==
  ASSUME Sane(Standing), Answers(Standing, Standing')
  PROVE  L!Next
<1> DEFINE ph == PhaseIn(Standing)
           n == Standing.attempts
<1>1. PICK R \in SUBSET Leased(Standing) :
        MovesOne(RevokedIn(Standing, R), n, Standing')
  BY DEF Answers
<1>2. R \in SUBSET {j \in Job : ph[j] = "leased"}
  BY <1>1, PhaseFacts DEF Leased
<1>3. L!Revoked(R) = RevokedIn(Standing, R)
  BY DEF L!Revoked, RevokedIn
<1> DEFINE pr == RevokedIn(Standing, R)
<1>4. MovesOne(pr, n, Standing')
  BY <1>1
<1> HIDE DEF pr
<1>5. L!Call(pr)
  BY <1>4 DEF MovesOne, L!Call, L!Submit, L!Deliver, L!Finish, L!SendBack, L!Bury
<1> QED
  BY <1>2, <1>3, <1>5 DEF L!Next, pr

\* Until two calls overlap or a crash cuts a write, every step of the processes
\* leaves the standing queue alone or is one step of the abstract job ledger.
THEOREM LedgerKept == Spec => LedgerUntilOverlap
<1>1. ASSUME IInv, IInv', [Next]_vars
      PROVE  [overlap' \/ L!Next]_<<L!ledgerVars, overlap>>
  <2> SUFFICES ASSUME ~overlap'
               PROVE  L!Next \/ UNCHANGED <<L!ledgerVars, overlap>>
    OBVIOUS
  <2>1. TypeOK /\ Queues /\ Calm /\ overlap \in BOOLEAN /\ overlap' \in BOOLEAN
    BY <1>1 DEF IInv, TypeOK
  <2>2. ~overlap
    BY <1>1, <2>1 DEF Next, vars, Open, Create, Read, Truncate, Fill, Crash, Tick
  <2>3. ASSUME PhaseIn(Standing') = PhaseIn(Standing), Standing'.attempts = Standing.attempts
        PROVE  UNCHANGED <<L!ledgerVars, overlap>>
    <3>1. PhaseIn(Standing)' = PhaseIn(Standing)
      BY <2>3 DEF PhaseIn, Leased
    <3>2. overlap' = overlap
      BY <2>1, <2>2
    <3> QED
      BY <2>3, <3>1, <3>2 DEF L!ledgerVars
  <2>4. ASSUME NEW p \in Worker, Open(p) \/ Read(p) \/ Crash(p) \/ Create(p) PROVE Standing' = Standing
    <3>1. /\ \A v \in Worker : stage'[v] = "truncated" <=> stage[v] = "truncated"
          /\ \A v \in Worker : stage[v] = "truncated" => base'[v] = base[v]
      BY <2>1, <2>2, <2>4 DEF Open, Read, Crash, Create, TypeOK
    <3>2. file' = file
      BY <2>1, <2>2, <2>4 DEF Open, Read, Crash, Create, Calm
    <3>3. CASE \A v \in Worker : stage[v] # "truncated"
      BY <3>1, <3>2, <3>3 DEF Standing
    <3>4. ASSUME NEW w \in Worker, stage[w] = "truncated" PROVE Standing' = Standing
      <4>1. \A v \in Worker : stage[v] = "truncated" => v = w
        BY <2>1, <2>2, <3>4 DEF Calm, Busy
      <4>2. (CHOOSE v \in Worker : stage'[v] = "truncated") = w
        BY <3>1, <3>4, <4>1, TruncatedIs
      <4>3. Standing' = base'[w]
        BY <3>1, <3>4, <4>2 DEF Standing
      <4> QED
        BY <2>1, <2>2, <3>1, <3>4, <4>3, StandingIs
    <3> QED
      BY <3>3, <3>4
  <2>5. ASSUME NEW p \in Worker, Truncate(p) PROVE Standing' = Standing
    <3>1. /\ stage[p] = "read" /\ stage' = [stage EXCEPT ![p] = "truncated"]
          /\ base' = base /\ p \in Busy
      BY <2>5 DEF Truncate, Busy
    <3>2. /\ \A v \in Worker : stage[v] # "truncated"
          /\ \A v \in Worker : stage'[v] = "truncated" <=> v = p
      BY <2>1, <2>2, <3>1 DEF Calm, Busy, TypeOK
    <3>3. (CHOOSE v \in Worker : stage'[v] = "truncated") = p
      BY <3>2, TruncatedIs
    <3>4. Standing' = base[p]
      BY <3>1, <3>2, <3>3 DEF Standing
    <3> QED
      BY <2>1, <2>2, <3>1, <3>2, <3>4, StandingIs DEF Calm
  <2>6. ASSUME NEW p \in Worker, Fill(p) PROVE L!Next
    <3>1. /\ stage[p] = "truncated" /\ stage' = [stage EXCEPT ![p] = "idle"]
          /\ file' = after[p] /\ p \in Busy
      BY <2>1, <2>2, <2>6 DEF Fill, Calm, Busy
    <3>2. \A v \in Worker : stage'[v] # "truncated"
      BY <2>1, <2>2, <3>1 DEF Calm, Busy, TypeOK
    <3>3. Standing' = after[p] /\ Standing = base[p]
      BY <2>1, <2>2, <3>1, <3>2, StandingIs DEF Standing
    <3>4. Sane(Standing) /\ Answers(Standing, Standing')
      BY <2>1, <2>2, <3>1, <3>3 DEF Calm, Queues
    <3> QED
      BY <3>4, AnswerIsLedgerStep
  <2>7. ASSUME Tick
        PROVE  PhaseIn(Standing') = PhaseIn(Standing) /\ Standing'.attempts = Standing.attempts
    <3>1. /\ stage' = stage /\ file' = Age(file)
          /\ \A v \in Worker : base'[v] = Age(base[v])
      BY <2>7 DEF Tick
    <3>2. Standing' = Age(Standing)
      <4>1. CASE \A v \in Worker : stage[v] # "truncated"
        BY <3>1, <4>1 DEF Standing
      <4>2. ASSUME NEW w \in Worker, stage[w] = "truncated" PROVE Standing' = Age(Standing)
        <5>1. (CHOOSE v \in Worker : stage[v] = "truncated") \in Worker
          BY <4>2
        <5> QED
          BY <3>1, <4>2, <5>1 DEF Standing
      <4> QED
        BY <4>1, <4>2
    <3>3. Sane(Standing)
      <4>1. CASE \A v \in Worker : stage[v] # "truncated"
        BY <2>1, <2>2, <4>1, StandingIs DEF Queues
      <4>2. ASSUME NEW w \in Worker, stage[w] = "truncated" PROVE Sane(Standing)
        BY <2>1, <2>2, <4>2, StandingIs DEF Queues
      <4> QED
        BY <4>1, <4>2
    <3> QED
      BY <3>2, <3>3, AgedSane
  <2>8. CASE UNCHANGED vars
    BY <2>8, <2>3 DEF vars, Standing
  <2> QED
    BY <1>1, <2>3, <2>4, <2>5, <2>6, <2>7, <2>8 DEF Next
<1> QED
  BY <1>1, Invariance, PTL DEF Spec, LedgerUntilOverlap

-----------------------------------------------------------------------------
(***************************************************************************)
(* The usage spool                                                         *)
(***************************************************************************)
SpoolTypes ==
  /\ pendingDir \in Envelopes /\ envelopes \in [Process -> Envelopes]
  /\ delivered \in [Event -> 0 .. 2] /\ recorded \cup torn \subseteq Event
  /\ spoolCrashes \in Nat

\* An event with which nothing went wrong is sent by one process at most, and
\* when it is delivered no process and no directory has it to send any more.
Sound ==
  \A e \in Event \ doubtful :
    /\ \A p, r \in Process : e \in In(envelopes[p]) \cap In(envelopes[r]) => p = r
    /\ delivered[e] > 0 => /\ e \in recorded /\ e \notin In(pendingDir)
                           /\ \A p \in Process : e \notin In(envelopes[p])

\* Only recorded events are there to be sent.
SpoolListed == In(pendingDir) \subseteq recorded /\ \A p \in Process : In(envelopes[p]) \subseteq recorded

SpoolInv == SpoolTypes /\ Sound /\ SpoolListed /\ SpoolSafe

LEMMA LimitsOfEnvelopes ==
  /\ Torn \in 0 .. Gone /\ Gone \in 0 .. Gone /\ Torn # Gone /\ 0 \in 0 .. Gone /\ 0 # Gone
  /\ 0 # Torn
  /\ \A n \in 0 .. Gone : n + 1 < MaxRetryAttempts => n + 1 \in 0 .. Gone \ {Torn, Gone}
  /\ NoEnvelopes \in Envelopes /\ In(NoEnvelopes) = {}
<1>1. MaxRetryAttempts \in Nat \ {0}
  BY UsageSpoolAssumption
<1>2. /\ Torn \in 0 .. Gone /\ Gone \in 0 .. Gone /\ Torn # Gone /\ 0 \in 0 .. Gone /\ 0 # Gone
      /\ 0 # Torn
      /\ \A n \in 0 .. Gone : n + 1 < MaxRetryAttempts => n + 1 \in 0 .. Gone \ {Torn, Gone}
  BY <1>1 DEF Torn, Gone
<1> QED
  BY <1>2 DEF NoEnvelopes, Envelopes, In

LEMMA SpoolInitInv == SpoolInit => SpoolInv
<1> SUFFICES ASSUME SpoolInit PROVE SpoolInv
  OBVIOUS
<1>1. SpoolTypes
  BY LimitsOfEnvelopes DEF SpoolInit, SpoolTypes
<1>2. Sound /\ SpoolListed /\ SpoolSafe
  BY LimitsOfEnvelopes, FS_EmptySet DEF SpoolInit, Sound, SpoolListed, SpoolSafe, EventsKept, Lost, ChargedOnce
<1> QED
  BY <1>1, <1>2 DEF SpoolInv

\* The billing service gets what process p sends: each event once more, up to
\* the bound of the count.
LEMMA ReceivedFacts ==
  ASSUME SpoolTypes, NEW p \in Process, NEW doubt
  PROVE  /\ Received(p, doubt) \in [Event -> 0 .. 2]
         /\ \A e \in Event :
              /\ delivered[e] > 0 => Received(p, doubt)[e] > 0
              /\ e \in In(envelopes[p]) => Received(p, doubt)[e] > 0
              /\ e \notin In(envelopes[p]) => Received(p, doubt)[e] = delivered[e]
              /\ delivered[e] = 0 => Received(p, doubt)[e] <= 1
BY DEF Received, SpoolTypes

\* The files that the catch block of p writes for the events of S: what was
\* there to be sent is so still or is exhausted, and other files are left alone.
LEMMA BatchFilesFacts ==
  ASSUME SpoolTypes, NEW p \in Process, NEW dir \in Envelopes, NEW S \in SUBSET In(envelopes[p])
  PROVE  /\ BatchFiles(p, S, dir) \in Envelopes
         /\ \A e \in Readable(dir) : e \in Readable(BatchFiles(p, S, dir)) \cup (S \cap Exhausted(p))
         /\ \A e \in Event \ S : BatchFiles(p, S, dir)[e] = dir[e]
<1> DEFINE new == BatchFiles(p, S, dir)
<1>1. \A e \in S \ Exhausted(p) : envelopes[p][e] + 1 \in 0 .. Gone \ {Torn, Gone}
  <2> SUFFICES ASSUME NEW e \in S \ Exhausted(p)
               PROVE  envelopes[p][e] + 1 \in 0 .. Gone \ {Torn, Gone}
    OBVIOUS
  <2>1. e \in Event /\ envelopes[p][e] \in 0 .. Gone
    BY DEF SpoolTypes, Envelopes, In
  <2>2. envelopes[p][e] + 1 < MaxRetryAttempts
    BY <2>1, UsageSpoolAssumption DEF Exhausted, Gone
  <2> QED
    BY <2>1, <2>2, LimitsOfEnvelopes
<1>2. \A e \in Event : new[e] = CASE e \in S \cap Exhausted(p) -> Gone
                                  [] e \in S \ Exhausted(p)    -> envelopes[p][e] + 1
                                  [] OTHER                     -> dir[e]
  BY DEF BatchFiles
<1>3. \A e \in Event : /\ e \in S \cap Exhausted(p) => new[e] = Gone
                       /\ e \in S \ Exhausted(p) => new[e] = envelopes[p][e] + 1
                       /\ e \notin S => new[e] = dir[e]
  BY <1>2
<1>4. new \in Envelopes
  <2>1. \A e \in Event : new[e] \in 0 .. Gone
    BY <1>1, <1>3, LimitsOfEnvelopes DEF Envelopes
  <2>2. new = [e \in Event |-> new[e]]
    BY DEF BatchFiles
  <2> QED
    BY <2>1, <2>2 DEF Envelopes
<1> HIDE DEF new
<1>5. \A e \in Readable(dir) : e \in Readable(new) \cup (S \cap Exhausted(p))
  BY <1>1, <1>3 DEF Readable
<1> QED
  BY <1>3, <1>4, <1>5 DEF new

\* The end of a batch that failed or that a crash ended: the events of moved are
\* in sent/, the service may have got all of the batch or, when none was moved,
\* nothing, and what was there to be sent is kept but for what the crash tore.
LEMMA FailureKeeps ==
  ASSUME SpoolInv, NEW p \in Process, NEW moved \in SUBSET In(envelopes[p]),
         NEW dir, dir = [e \in Event |-> IF e \in moved THEN Gone ELSE pendingDir[e]],
         pendingDir' \in Envelopes, failedDir \subseteq failedDir',
         \A e \in Readable(dir) : e \in Readable(pendingDir') \cup failedDir' \cup torn',
         \A e \in Event \ In(envelopes[p]) : pendingDir'[e] = dir[e],
         torn \subseteq torn', torn' \subseteq Event, spoolCrashes' \in Nat,
         Cardinality(torn') <= spoolCrashes',
         Arrived(p) \/ (UNCHANGED <<delivered, doubtful>> /\ moved = {}),
         envelopes' = [envelopes EXCEPT ![p] = NoEnvelopes],
         UNCHANGED <<recorded, pruned>>
  PROVE  SpoolInv'
<1>1. SpoolTypes /\ Sound /\ SpoolListed /\ EventsKept /\ ChargedOnce
  BY DEF SpoolInv, SpoolSafe
<1>2. /\ \A e \in Event \ moved : dir[e] = pendingDir[e]
      /\ Readable(pendingDir) \subseteq Readable(dir) \cup moved
  BY DEF Readable
<1>4. \A e \in Event \ In(envelopes[p]) : pendingDir'[e] = pendingDir[e]
  BY <1>2
<1>5. /\ delivered' \in [Event -> 0 .. 2]
      /\ \A e \in Event : delivered[e] > 0 => delivered'[e] > 0
      /\ \A e \in Event \ In(envelopes[p]) : delivered'[e] = delivered[e]
      /\ \A e \in moved : delivered'[e] > 0
      /\ \A e \in Event \ doubtful' : delivered'[e] = delivered[e]
      /\ doubtful \subseteq doubtful'
  <2>1. CASE Arrived(p)
    <3>1. /\ Received(p, doubtful') \in [Event -> 0 .. 2]
          /\ \A e \in Event :
               /\ delivered[e] > 0 => Received(p, doubtful')[e] > 0
               /\ e \in In(envelopes[p]) => Received(p, doubtful')[e] > 0
               /\ e \notin In(envelopes[p]) => Received(p, doubtful')[e] = delivered[e]
      BY <1>1, ReceivedFacts
    <3>2. moved \subseteq Event
      BY DEF In
    <3> QED
      BY <2>1, <3>1, <3>2 DEF Arrived
  <2>2. CASE UNCHANGED <<delivered, doubtful>> /\ moved = {}
    BY <1>1, <2>2 DEF SpoolTypes
  <2> QED
    BY <2>1, <2>2
<1>6. \A e \in Event, r \in Process : e \in In(envelopes'[r]) => r # p /\ e \in In(envelopes[r])
  BY <1>1, LimitsOfEnvelopes DEF SpoolTypes, In
<1>7. SpoolTypes'
  BY <1>1, <1>4, <1>5, LimitsOfEnvelopes DEF SpoolTypes
<1>8. Sound'
  <2> SUFFICES ASSUME NEW e \in Event \ doubtful'
               PROVE  /\ \A v, r \in Process : e \in In(envelopes'[v]) \cap In(envelopes'[r]) => v = r
                      /\ delivered'[e] > 0 => /\ e \in recorded /\ e \notin In(pendingDir')
                                              /\ \A v \in Process : e \notin In(envelopes'[v])
    BY DEF Sound
  <2>1. /\ \A v, r \in Process : e \in In(envelopes[v]) \cap In(envelopes[r]) => v = r
        /\ delivered[e] > 0 => /\ e \in recorded /\ e \notin In(pendingDir)
                               /\ \A v \in Process : e \notin In(envelopes[v])
        /\ delivered'[e] = delivered[e]
    BY <1>1, <1>5 DEF Sound
  <2>2. delivered[e] > 0 => e \notin In(pendingDir')
    BY <1>4, <2>1 DEF In
  <2> QED
    BY <1>6, <2>1, <2>2
<1>9. EventsKept'
  <2> SUFFICES ASSUME NEW e \in recorded, delivered'[e] = 0, e \notin torn'
               PROVE  e \in Readable(pendingDir') \cup failedDir' \cup pruned
    BY DEF EventsKept, Lost
  <2>1. e \in Event /\ delivered[e] = 0 /\ e \notin moved
    BY <1>1, <1>5 DEF SpoolTypes
  <2>2. e \in Readable(pendingDir) \cup failedDir \cup pruned
    BY <1>1, <2>1 DEF EventsKept, Lost
  <2> QED
    BY <1>2, <2>1, <2>2
<1>10. ChargedOnce'
  BY <1>1, <1>5 DEF ChargedOnce
<1>11. SpoolListed'
  BY <1>1, <1>4, <1>6, <1>7 DEF SpoolListed, SpoolTypes, In
<1> QED
  BY <1>7, <1>8, <1>9, <1>10, <1>11 DEF SpoolInv, SpoolSafe

\* A process sends its batch, and the events of some of it, S, move to sent/.
LEMMA DeliveryKeeps ==
  ASSUME SpoolInv, NEW p \in Process, NEW S \in SUBSET In(envelopes[p]),
         doubtful \subseteq doubtful',
         S = In(envelopes[p]) \/ doubtful' = doubtful \cup In(envelopes[p]),
         delivered' = Received(p, doubtful'),
         pendingDir' = [e \in Event |-> IF e \in S THEN Gone ELSE pendingDir[e]],
         envelopes' = [envelopes EXCEPT ![p] = NoEnvelopes],
         spoolCrashes' \in Nat, spoolCrashes <= spoolCrashes',
         UNCHANGED <<recorded, failedDir, pruned, torn>>
  PROVE  SpoolInv'
<1>1. SpoolTypes /\ Sound /\ SpoolListed /\ EventsKept /\ ChargedOnce
  BY DEF SpoolInv, SpoolSafe
<1>2. /\ delivered' \in [Event -> 0 .. 2]
      /\ \A e \in Event :
           /\ delivered[e] > 0 => delivered'[e] > 0
           /\ e \in In(envelopes[p]) => delivered'[e] > 0
           /\ e \notin In(envelopes[p]) => delivered'[e] = delivered[e]
           /\ delivered[e] = 0 => delivered'[e] <= 1
  BY <1>1, ReceivedFacts
<1>3. /\ pendingDir' \in Envelopes /\ S \subseteq Event
      /\ \A e \in Event : e \in In(pendingDir') <=> e \in In(pendingDir) /\ e \notin S
      /\ \A e \in Event : e \in Readable(pendingDir) => e \in Readable(pendingDir') \/ e \in S
  BY <1>1, LimitsOfEnvelopes DEF SpoolTypes, Envelopes, In, Readable
<1>4. \A e \in Event, r \in Process : e \in In(envelopes'[r]) => r # p /\ e \in In(envelopes[r])
  BY <1>1, LimitsOfEnvelopes DEF SpoolTypes, In
<1>5. SpoolTypes'
  BY <1>1, <1>2, <1>3, LimitsOfEnvelopes DEF SpoolTypes
<1>6. \A e \in In(envelopes[p]) \ doubtful' :
        /\ e \in Event /\ e \notin In(pendingDir') /\ delivered[e] = 0
        /\ \A v \in Process : e \notin In(envelopes'[v])
        /\ e \in S /\ e \in recorded
  BY <1>1, <1>3, <1>4 DEF Sound, SpoolListed, SpoolTypes, In
<1>7. Sound'
  <2> SUFFICES ASSUME NEW e \in Event \ doubtful'
               PROVE  /\ \A v, r \in Process : e \in In(envelopes'[v]) \cap In(envelopes'[r]) => v = r
                      /\ delivered'[e] > 0 => /\ e \in recorded /\ e \notin In(pendingDir')
                                              /\ \A v \in Process : e \notin In(envelopes'[v])
    BY DEF Sound
  <2>1. /\ \A v, r \in Process : e \in In(envelopes[v]) \cap In(envelopes[r]) => v = r
        /\ delivered[e] > 0 => /\ e \in recorded /\ e \notin In(pendingDir)
                               /\ \A v \in Process : e \notin In(envelopes[v])
    BY <1>1 DEF Sound
  <2> QED
    BY <1>2, <1>3, <1>4, <1>6, <2>1
<1>8. EventsKept'
  <2>1. Cardinality(torn) <= spoolCrashes /\ Cardinality(torn) \in Nat
    BY <1>1, UsageSpoolAssumption, FS_Subset, FS_CardinalityType DEF EventsKept, SpoolTypes
  <2>2. Cardinality(torn') <= spoolCrashes'
    BY <1>1, <2>1 DEF SpoolTypes
  <2>3. Lost' \subseteq torn'
    <3> SUFFICES ASSUME NEW e \in recorded, delivered'[e] = 0, e \notin torn
                 PROVE  e \in Readable(pendingDir') \cup failedDir \cup pruned
      BY DEF Lost
    <3>1. e \in Event /\ delivered[e] = 0 /\ e \notin S
      BY <1>1, <1>2 DEF SpoolTypes
    <3> QED
      BY <1>1, <1>3, <3>1 DEF EventsKept, Lost
  <2> QED
    BY <2>2, <2>3 DEF EventsKept
<1>9. ChargedOnce'
  <2> SUFFICES ASSUME NEW e \in Event, delivered'[e] > 1 PROVE e \in doubtful'
    BY DEF ChargedOnce
  <2>1. CASE e \in In(envelopes[p]) \ doubtful'
    BY <1>2, <1>6, <2>1
  <2>2. CASE e \notin In(envelopes[p])
    BY <1>1, <1>2, <2>2 DEF ChargedOnce
  <2> QED
    BY <2>1, <2>2
<1>10. SpoolListed'
  BY <1>1, <1>3, <1>4, <1>5 DEF SpoolListed, SpoolTypes, In
<1> QED
  BY <1>5, <1>7, <1>8, <1>9, <1>10 DEF SpoolInv, SpoolSafe

\* The next chunk: what is there of it is sent as it is on disk.
LEMMA ChunkKeeps ==
  ASSUME SpoolInv, NEW p \in Process, ReadsChunk(p)
  PROVE  SpoolInv'
<1> DEFINE n == IF Len(rest[p]) < batchSize THEN Len(rest[p]) ELSE batchSize
           chunk == ToSet(SubSeq(rest[p], 1, n)) \cap Readable(pendingDir)
<1>1. /\ chunk \subseteq Readable(pendingDir)
      /\ envelopes' = [envelopes EXCEPT ![p] =
                         [e \in Event |-> IF e \in chunk THEN pendingDir[e] ELSE Gone]]
      /\ doubtful' = doubtful \cup UNION {chunk \cap In(envelopes[r]) : r \in Process}
      /\ UNCHANGED <<pendingDir, failedDir, recorded, delivered, pruned, torn, spoolCrashes>>
  BY Zenon DEF ReadsChunk
<1> HIDE DEF chunk
<1>2. SpoolTypes /\ Sound /\ SpoolListed /\ EventsKept /\ ChargedOnce
  BY DEF SpoolInv, SpoolSafe
<1>3. /\ chunk \subseteq In(pendingDir) /\ chunk \subseteq Event
      /\ \A e \in Event : e \in In(envelopes'[p]) <=> e \in chunk
      /\ \A r \in Process \ {p} : envelopes'[r] = envelopes[r]
  BY <1>1, <1>2 DEF Readable, In, SpoolTypes
<1>4. SpoolTypes'
  <2>1. [e \in Event |-> IF e \in chunk THEN pendingDir[e] ELSE Gone] \in Envelopes
    BY <1>2, LimitsOfEnvelopes DEF SpoolTypes, Envelopes
  <2> QED
    BY <1>1, <1>2, <2>1 DEF SpoolTypes
<1>5. Sound'
  <2> SUFFICES ASSUME NEW e \in Event \ doubtful'
               PROVE  /\ \A v, r \in Process : e \in In(envelopes'[v]) \cap In(envelopes'[r]) => v = r
                      /\ delivered'[e] > 0 => /\ e \in recorded' /\ e \notin In(pendingDir')
                                              /\ \A v \in Process : e \notin In(envelopes'[v])
    BY DEF Sound
  <2>1. /\ \A v, r \in Process : e \in In(envelopes[v]) \cap In(envelopes[r]) => v = r
        /\ delivered[e] > 0 => /\ e \in recorded /\ e \notin In(pendingDir)
                               /\ \A v \in Process : e \notin In(envelopes[v])
    BY <1>1, <1>2 DEF Sound
  <2>2. e \in chunk => \A r \in Process : e \notin In(envelopes[r])
    BY <1>1
  <2> QED
    BY <1>1, <1>3, <2>1, <2>2
<1>6. SpoolListed'
  BY <1>1, <1>2, <1>3 DEF SpoolListed, In
<1>7. EventsKept' /\ ChargedOnce'
  BY <1>1, <1>2 DEF EventsKept, Lost, Readable, ChargedOnce
<1> QED
  BY <1>4, <1>5, <1>6, <1>7 DEF SpoolInv, SpoolSafe

LEMMA SpoolNextKeeps == SpoolInv /\ [SpoolNext]_spoolVars => SpoolInv'
<1> SUFFICES ASSUME SpoolInv, [SpoolNext]_spoolVars PROVE SpoolInv'
  OBVIOUS
<1>1. SpoolTypes /\ Sound /\ SpoolListed /\ EventsKept /\ ChargedOnce
  BY DEF SpoolInv, SpoolSafe
<1>2. ASSUME NEW e \in Event, RecordEvent(e) PROVE SpoolInv'
  <2>1. /\ e \notin recorded /\ recorded' = recorded \cup {e}
        /\ pendingDir' = [pendingDir EXCEPT ![e] = 0]
        /\ UNCHANGED <<failedDir, envelopes, delivered, pruned, doubtful, torn, spoolCrashes>>
    BY <1>2 DEF RecordEvent
  <2>2. /\ SpoolTypes' /\ e \in In(pendingDir') /\ e \in Readable(pendingDir')
        /\ \A d \in Event \ {e} : /\ d \in In(pendingDir') <=> d \in In(pendingDir)
                                  /\ d \in Readable(pendingDir) => d \in Readable(pendingDir')
    BY <1>1, <2>1, LimitsOfEnvelopes DEF SpoolTypes, Envelopes, In, Readable
  <2>3. Sound'
    BY <1>1, <2>1, <2>2 DEF Sound
  <2>4. SpoolListed'
    BY <1>1, <2>1, <2>2 DEF SpoolListed, In
  <2>5. EventsKept' /\ ChargedOnce'
    BY <1>1, <2>1, <2>2 DEF EventsKept, Lost, ChargedOnce, SpoolTypes
  <2> QED
    BY <2>2, <2>3, <2>4, <2>5 DEF SpoolInv, SpoolSafe
<1>3. ASSUME NEW e \in Event, Prunes(e) PROVE SpoolInv'
  <2>1. /\ failedDir' = failedDir \ {e}
        /\ pruned' = IF delivered[e] = 0 THEN pruned \cup {e} ELSE pruned
        /\ UNCHANGED <<pendingDir, envelopes, recorded, delivered, doubtful, torn, spoolCrashes>>
    BY <1>3 DEF Prunes
  <2> QED
    BY <1>1, <2>1 DEF SpoolInv, SpoolSafe, SpoolTypes, Sound, SpoolListed, EventsKept, Lost, Readable, ChargedOnce
<1>4. ASSUME NEW p \in Process, FlushStarts(p) \/ FlushEnds(p) \/ UNCHANGED spoolVars
      PROVE  SpoolInv'
  <2>1. UNCHANGED <<pendingDir, failedDir, envelopes, recorded, delivered, pruned, doubtful, torn,
                    spoolCrashes>>
    BY <1>4 DEF FlushStarts, FlushEnds, spoolVars
  <2> QED
    BY <1>1, <2>1 DEF SpoolInv, SpoolSafe, SpoolTypes, Sound, SpoolListed, EventsKept, Lost, Readable, ChargedOnce
<1>5. ASSUME NEW p \in Process, Delivers(p) PROVE SpoolInv'
  <2>1. /\ delivered' = Received(p, doubtful')
        /\ pendingDir' = [e \in Event |-> IF e \in In(envelopes[p]) THEN Gone ELSE pendingDir[e]]
        /\ envelopes' = [envelopes EXCEPT ![p] = NoEnvelopes]
        /\ UNCHANGED <<recorded, failedDir, pruned, doubtful, torn, spoolCrashes>>
    BY <1>5 DEF Delivers, Moves
  <2> QED
    <3>1. spoolCrashes' \in Nat /\ spoolCrashes <= spoolCrashes' /\ doubtful \subseteq doubtful'
      BY <1>1, <2>1 DEF SpoolTypes
    <3>2. In(envelopes[p]) \in SUBSET In(envelopes[p])
      OBVIOUS
    <3> QED
      BY <2>1, <3>1, <3>2, DeliveryKeeps
<1>6. ASSUME NEW p \in Process, NEW moved \in SUBSET In(envelopes[p]),
             Charges(p, [e \in Event |-> IF e \in moved THEN Gone ELSE pendingDir[e]]),
             Arrived(p) \/ (UNCHANGED <<delivered, doubtful>> /\ moved = {}),
             FlushGivesUp(p), UNCHANGED <<torn, spoolCrashes>>
      PROVE  SpoolInv'
  <2> DEFINE dir == [e \in Event |-> IF e \in moved THEN Gone ELSE pendingDir[e]]
  <2>1. dir \in Envelopes
    BY <1>1, LimitsOfEnvelopes DEF SpoolTypes, Envelopes
  <2>2. PICK S \in SUBSET In(envelopes[p]) :
          failedDir' = failedDir \cup (S \cap Exhausted(p)) /\ pendingDir' = BatchFiles(p, S, dir)
    BY <1>6 DEF Charges, UpTo
  <2> HIDE DEF dir
  <2>3. /\ pendingDir' \in Envelopes /\ failedDir \subseteq failedDir'
        /\ \A e \in Readable(dir) : e \in Readable(pendingDir') \cup failedDir' \cup torn'
        /\ \A e \in Event \ In(envelopes[p]) : pendingDir'[e] = dir[e]
    BY <1>1, <2>1, <2>2, BatchFilesFacts
  <2>4. /\ envelopes' = [envelopes EXCEPT ![p] = NoEnvelopes]
        /\ UNCHANGED <<recorded, pruned, torn, spoolCrashes>>
        /\ spoolCrashes' \in Nat /\ torn' \subseteq Event
    BY <1>1, <1>6 DEF FlushGivesUp, SpoolTypes
  <2>5. Cardinality(torn') <= spoolCrashes'
    BY <1>1, <2>4 DEF EventsKept
  <2>6. torn \subseteq torn'
    BY <2>4
  <2>7. dir = [e \in Event |-> IF e \in moved THEN Gone ELSE pendingDir[e]]
    BY DEF dir
  <2> QED
    BY <1>6, <2>3, <2>4, <2>5, <2>6, <2>7, FailureKeeps
<1>7. ASSUME NEW p \in Process, SendFails(p) \/ RenameFails(p) PROVE SpoolInv'
  <2>1. CASE SendFails(p)
    <3>1. [e \in Event |-> IF e \in {} THEN Gone ELSE pendingDir[e]] = pendingDir
      BY <1>1 DEF SpoolTypes, Envelopes
    <3>2. /\ Charges(p, pendingDir) /\ FlushGivesUp(p) /\ UNCHANGED <<torn, spoolCrashes>>
          /\ Arrived(p) \/ UNCHANGED <<delivered, doubtful>>
      BY <2>1 DEF SendFails, MayHaveArrived
    <3>3. Charges(p, [e \in Event |-> IF e \in {} THEN Gone ELSE pendingDir[e]])
      BY <3>1, <3>2
    <3>4. {} \in SUBSET In(envelopes[p])
      OBVIOUS
    <3> QED
      BY <1>6, <3>2, <3>3, <3>4
  <2>2. CASE RenameFails(p)
    <3>1. PICK moved \in SUBSET In(envelopes[p]) :
            Charges(p, [e \in Event |-> IF e \in moved THEN Gone ELSE pendingDir[e]])
      BY <2>2 DEF RenameFails
    <3>2. Arrived(p) /\ FlushGivesUp(p) /\ UNCHANGED <<torn, spoolCrashes>>
      BY <2>2 DEF RenameFails
    <3> QED
      BY <1>6, <3>1, <3>2
  <2> QED
    BY <1>7, <2>1, <2>2
<1>8. ASSUME NEW p \in Process, DiesSending(p) PROVE SpoolInv'
  <2>1. /\ envelopes' = [envelopes EXCEPT ![p] = NoEnvelopes]
        /\ UNCHANGED <<recorded, failedDir, pruned, torn>>
        /\ spoolCrashes' = spoolCrashes + 1
    BY <1>8 DEF DiesSending, ProcessDies
  <2>2. /\ spoolCrashes' \in Nat /\ spoolCrashes <= spoolCrashes' /\ torn \subseteq Event
        /\ torn' \subseteq Event
    BY <1>1, <2>1 DEF SpoolTypes
  <2>3. Cardinality(torn) \in Nat /\ Cardinality(torn) <= spoolCrashes
    BY <1>1, <2>2, UsageSpoolAssumption, FS_Subset, FS_CardinalityType DEF EventsKept
  <2>4. Cardinality(torn') <= spoolCrashes'
    BY <1>1, <2>1, <2>3 DEF SpoolTypes
  <2>5. CASE MayHaveArrived(p) /\ UNCHANGED <<pendingDir, sentDir>>
    <3>1. pendingDir = [e \in Event |-> IF e \in {} THEN Gone ELSE pendingDir[e]]
      BY <1>1 DEF SpoolTypes, Envelopes
    <3>2. pendingDir' \in Envelopes /\ pendingDir' = pendingDir
      BY <1>1, <2>5 DEF SpoolTypes
    <3>3. {} \in SUBSET In(envelopes[p])
      OBVIOUS
    <3>4. Arrived(p) \/ (UNCHANGED <<delivered, doubtful>> /\ {} = {})
      BY <2>5 DEF MayHaveArrived
    <3>5. /\ failedDir \subseteq failedDir' /\ torn \subseteq torn' /\ UNCHANGED <<recorded, pruned>>
          /\ \A e \in Readable(pendingDir) : e \in Readable(pendingDir') \cup failedDir' \cup torn'
          /\ \A e \in Event \ In(envelopes[p]) : pendingDir'[e] = pendingDir[e]
      BY <2>1, <3>2
    <3> QED
      BY <2>1, <2>2, <2>4, <3>1, <3>2, <3>3, <3>4, <3>5, FailureKeeps
  <2>6. ASSUME ~(MayHaveArrived(p) /\ UNCHANGED <<pendingDir, sentDir>>) PROVE SpoolInv'
    <3>1. PICK S \in SUBSET In(envelopes[p]) :
            /\ doubtful' = doubtful \cup In(envelopes[p])
            /\ delivered' = Received(p, doubtful')
            /\ pendingDir' = [e \in Event |-> IF e \in S THEN Gone ELSE pendingDir[e]]
      BY <1>8, <2>6 DEF DiesSending, Moves, UpTo, Arrived
    <3> QED
      BY <2>1, <2>2, <3>1, DeliveryKeeps
  <2> QED
    BY <2>5, <2>6
<1>9. ASSUME NEW p \in Process, NEW e \in Event, DiesRecording(p, e) \/ DiesCharging(p, e)
      PROVE  SpoolInv'
  <2>1. /\ envelopes' = [envelopes EXCEPT ![p] = NoEnvelopes] /\ UNCHANGED pruned
        /\ spoolCrashes' = spoolCrashes + 1 /\ torn' \in {torn, torn \cup {e}}
    BY <1>9 DEF DiesRecording, DiesCharging, ProcessDies
  <2>2. /\ spoolCrashes' \in Nat /\ torn' \subseteq Event /\ torn \subseteq torn'
        /\ Cardinality(torn') <= spoolCrashes'
    <3>1. IsFiniteSet(torn) /\ torn \subseteq Event /\ Cardinality(torn) <= spoolCrashes
      BY <1>1, UsageSpoolAssumption, FS_Subset DEF EventsKept, SpoolTypes
    <3>2. Cardinality(torn) \in Nat /\ Cardinality(torn \cup {e}) <= Cardinality(torn) + 1
      <4>1. Cardinality(torn) \in Nat
        BY <3>1, FS_CardinalityType
      <4>2. Cardinality(torn \cup {e}) = IF e \in torn THEN Cardinality(torn) ELSE Cardinality(torn) + 1
        BY <3>1, FS_AddElement
      <4> QED
        BY <4>1, <4>2
    <3>3. Cardinality(torn \cup {e}) \in Nat
      BY <3>1, FS_AddElement, FS_CardinalityType
    <3> QED
      BY <1>1, <2>1, <3>1, <3>2, <3>3 DEF SpoolTypes
  <2>3. CASE DiesCharging(p, e)
    <3>1. PICK moved \in SUBSET In(envelopes[p]) :
            /\ Arrived(p) \/ (UNCHANGED <<delivered, doubtful>> /\ moved = {})
            /\ LET dir == [d \in Event |-> IF d \in moved THEN Gone ELSE pendingDir[d]]
                   before == UpTo(p, e) \ {e}
               IN pendingDir' = IF e \in Exhausted(p) THEN BatchFiles(p, before, dir)
                                ELSE [BatchFiles(p, before, dir) EXCEPT ![e] = Torn]
      <4>1. PICK moved \in {{}} \cup (LET missing == In(envelopes[p]) \ In(pendingDir)
                                      IN  IF missing = {} THEN {}
                                          ELSE {{d \in In(envelopes[p]) : d < Min(missing)}}) :
              /\ IF moved = {} THEN MayHaveArrived(p) ELSE Arrived(p)
              /\ LET dir == [d \in Event |-> IF d \in moved THEN Gone ELSE pendingDir[d]]
                     before == UpTo(p, e) \ {e}
                 IN pendingDir' = IF e \in Exhausted(p) THEN BatchFiles(p, before, dir)
                                  ELSE [BatchFiles(p, before, dir) EXCEPT ![e] = Torn]
        BY <2>3, Zenon DEF DiesCharging
      <4>2. moved \in SUBSET In(envelopes[p])
        BY <4>1
      <4>3. Arrived(p) \/ (UNCHANGED <<delivered, doubtful>> /\ moved = {})
        BY <4>1 DEF MayHaveArrived
      <4> QED
        BY <4>1, <4>2, <4>3
    <3> DEFINE dir == [d \in Event |-> IF d \in moved THEN Gone ELSE pendingDir[d]]
               before == UpTo(p, e) \ {e}
               new == BatchFiles(p, before, dir)
    <3>2. dir \in Envelopes /\ before \in SUBSET In(envelopes[p])
      BY <1>1, LimitsOfEnvelopes DEF SpoolTypes, Envelopes, UpTo
    <3>3. /\ e \in In(envelopes[p]) /\ UNCHANGED recorded
          /\ torn' = torn \cup ({e} \ Exhausted(p))
          /\ failedDir \cup (before \cap Exhausted(p)) \subseteq failedDir'
      BY <2>3 DEF DiesCharging
    <3>4. pendingDir' = IF e \in Exhausted(p) THEN new ELSE [new EXCEPT ![e] = Torn]
      BY <3>1
    <3>5. dir = [d \in Event |-> IF d \in moved THEN Gone ELSE pendingDir[d]]
      OBVIOUS
    <3> HIDE DEF dir
    <3>6. /\ new \in Envelopes
          /\ \A d \in Readable(dir) : d \in Readable(new) \cup (before \cap Exhausted(p))
          /\ \A d \in Event \ before : new[d] = dir[d]
      BY <1>1, <3>2, BatchFilesFacts
    <3> HIDE DEF before, new
    <3>7. pendingDir' \in Envelopes
      BY <3>4, <3>6, LimitsOfEnvelopes DEF Envelopes
    <3>8. \A d \in Readable(dir) : d \in Readable(pendingDir') \cup failedDir' \cup torn'
      BY <3>3, <3>4, <3>6 DEF Readable, Envelopes
    <3>9. \A d \in Event \ In(envelopes[p]) : pendingDir'[d] = dir[d]
      BY <3>2, <3>3, <3>4, <3>6 DEF Envelopes
    <3>10. failedDir \subseteq failedDir'
      BY <3>3
    <3> QED
      BY <2>1, <2>2, <3>1, <3>3, <3>5, <3>7, <3>8, <3>9, <3>10, FailureKeeps
  <2>4. CASE DiesRecording(p, e)
    <3>1. /\ e \notin recorded /\ recorded' = recorded \cup {e} /\ torn' = torn \cup {e}
          /\ pendingDir' = [pendingDir EXCEPT ![e] = Torn]
          /\ Arrived(p) \/ UNCHANGED <<delivered, doubtful>>
          /\ UNCHANGED failedDir
      BY <2>4 DEF DiesRecording, MayHaveArrived
    <3>2. /\ pendingDir' \in Envelopes
          /\ \A d \in Event \ {e} : /\ d \in In(pendingDir') <=> d \in In(pendingDir)
                                    /\ d \in Readable(pendingDir) => d \in Readable(pendingDir')
      BY <1>1, <3>1, LimitsOfEnvelopes DEF SpoolTypes, Envelopes, In, Readable
    <3>3. \A d \in Event, r \in Process : d \in In(envelopes'[r]) => r # p /\ d \in In(envelopes[r])
      BY <1>1, <2>1, LimitsOfEnvelopes DEF SpoolTypes, In
    <3>4. /\ delivered' \in [Event -> 0 .. 2] /\ doubtful \subseteq doubtful'
          /\ \A d \in Event : delivered[d] > 0 => delivered'[d] > 0
          /\ \A d \in Event \ doubtful' : delivered'[d] = delivered[d]
          /\ \A d \in Event \ In(envelopes[p]) : delivered'[d] = delivered[d]
      BY <1>1, <3>1, ReceivedFacts DEF Arrived, SpoolTypes
    <3>5. SpoolTypes'
      BY <1>1, <2>1, <2>2, <3>1, <3>2, <3>4, LimitsOfEnvelopes DEF SpoolTypes
    <3>6. Sound'
      <4> SUFFICES ASSUME NEW d \in Event \ doubtful'
                   PROVE  /\ \A v, r \in Process : d \in In(envelopes'[v]) \cap In(envelopes'[r]) => v = r
                          /\ delivered'[d] > 0 => /\ d \in recorded' /\ d \notin In(pendingDir')
                                                  /\ \A v \in Process : d \notin In(envelopes'[v])
        BY DEF Sound
      <4>1. /\ \A v, r \in Process : d \in In(envelopes[v]) \cap In(envelopes[r]) => v = r
            /\ delivered[d] > 0 => /\ d \in recorded /\ d \notin In(pendingDir)
                                   /\ \A v \in Process : d \notin In(envelopes[v])
        BY <1>1, <3>4 DEF Sound
      <4> QED
        BY <3>1, <3>2, <3>3, <3>4, <4>1
    <3>7. SpoolListed'
      BY <1>1, <3>1, <3>2, <3>3 DEF SpoolListed, In
    <3>8. EventsKept'
      <4> SUFFICES ASSUME NEW d \in recorded, delivered'[d] = 0, d # e, d \notin torn
                   PROVE  d \in Readable(pendingDir') \cup failedDir \cup pruned
        BY <2>1, <2>2, <3>1 DEF EventsKept, Lost
      <4>1. d \in Event /\ delivered[d] = 0
        BY <1>1, <3>4 DEF SpoolTypes
      <4> QED
        BY <1>1, <3>2, <4>1 DEF EventsKept, Lost
    <3>9. ChargedOnce'
      BY <1>1, <3>4 DEF ChargedOnce
    <3> QED
      BY <3>5, <3>6, <3>7, <3>8, <3>9 DEF SpoolInv, SpoolSafe
  <2> QED
    BY <1>9, <2>3, <2>4
<1>10. CASE UNCHANGED spoolVars
  BY <1>1, <1>10 DEF spoolVars, SpoolInv, SpoolSafe, SpoolTypes, Sound, SpoolListed, EventsKept, Lost, Readable, ChargedOnce
<1> QED
  BY <1>2, <1>3, <1>4, <1>5, <1>7, <1>8, <1>9, <1>10, ChunkKeeps DEF SpoolNext, FlushStep

\* A crash loses the one event at most whose file it tears, nothing else loses
\* any, and none is charged twice without a failure, whatever processes flush,
\* fail, prune and die over one directory.
THEOREM SpoolIsSafe == SpoolSpec => []SpoolSafe
<1>1. SpoolInv => SpoolSafe
  BY DEF SpoolInv
<1> QED
  BY <1>1, SpoolInitInv, SpoolNextKeeps, PTL DEF SpoolSpec

-----------------------------------------------------------------------------
(***************************************************************************)
(* The records of schedules and of workflows.  A record counts what has    *)
(* run, and a process that has missed no write has in its cache what the   *)
(* file says.  Until a process that was behind saves, one that is not      *)
(* knows a version that no whole one is after, and saves under a number    *)
(* that is free of them.                                                   *)
(***************************************************************************)
Records == [status : {"none", "active", "paused"}, runs : Nat, errors : Nat,
            last : {"none", "completed", "failed"}]

\* What a record counts.
Tallied(r) == r \in Records /\ r.errors <= r.runs /\ (r.last = "completed" => r.errors = 0)

ScheduleStoreInv ==
  /\ Tallied(scheduleFile)
  /\ scheduleCache \in [StoreProcess -> Records] /\ \A p \in StoreProcess : Tallied(scheduleCache[p])
  /\ \A p \in StoreProcess \ unaware : scheduleCache[p] \in {NoRecord, scheduleFile}

Saves == [at : {"idle", "numbered", "open", "adrift"}, n : Nat]

VersionsTyped ==
  /\ versionFile \in [Versions -> {"none", "torn", "whole"}]
  /\ latest \in [StoreProcess -> Nat] /\ saving \in [StoreProcess -> Saves]
  /\ \A p \in StoreProcess : /\ saving[p] = NotSaving \/ saving[p].n \in Versions
                             /\ saving[p].at = "adrift" => p \in behind

\* The versions that are there, whole or not, with l the latest that is known and
\* k the number that is saved.
Knows(l, k, there, whole) ==
  /\ l = 0 \/ (l \in there /\ \A m \in whole : m <= l)
  /\ k = 0 \/ \A m \in whole : m < k

WorkflowStoreInv ==
  /\ VersionsTyped
  /\ ~careless => /\ ~replaced
                  /\ \A p \in StoreProcess \ behind : Knows(latest[p], saving[p].n, Existing, WholeVersions)

StoresInv == ScheduleStoreInv /\ WorkflowStoreInv

LEMMA GreatestVersion ==
  ASSUME NEW S \in SUBSET Versions, S # {}
  PROVE  /\ Max(S) \in S /\ \A m \in S : m <= Max(S)
         /\ \A n \in S : (\A m \in S : m <= n) => n = Max(S)
<1> DEFINE D == {MaxVersions - n : n \in S}
<1>1. MaxVersions \in Nat /\ \A n \in S : n \in Nat /\ n <= MaxVersions
  BY SchedulesAssumption DEF Versions
<1>2. D \in SUBSET Nat /\ D # {}
  BY <1>1
<1>3. PICK d \in D : \A e \in D : d <= e
  BY <1>2, LeastExists
<1>4. PICK n \in S : d = MaxVersions - n
  OBVIOUS
<1>5. \A m \in S : n >= m
  BY <1>1, <1>3, <1>4
<1>6. Max(S) \in S /\ \A m \in S : Max(S) >= m
  BY <1>5 DEF Max
<1> QED
  BY <1>1, <1>6

LEMMA VersionsAreThere ==
  ASSUME VersionsTyped
  PROVE  /\ WholeVersions \in SUBSET Existing /\ Existing \in SUBSET Versions /\ \A n \in Existing : n \in Nat \ {0}
         /\ Existing # {} => Max(Existing) \in Existing /\ \A m \in Existing : m <= Max(Existing)
         /\ WholeVersions # {} => Max(WholeVersions) \in WholeVersions /\ \A m \in WholeVersions : m <= Max(WholeVersions)
<1>1. WholeVersions \in SUBSET Existing /\ Existing \in SUBSET Versions
  BY DEF WholeVersions, Existing
<1>2. \A n \in Existing : n \in Nat \ {0}
  BY <1>1 DEF Versions
<1> QED
  BY <1>1, <1>2, GreatestVersion

LEMMA NoRecordTallied == Tallied(NoRecord)
  BY DEF Tallied, Records, NoRecord

\* A record that is written, or fails to be, is in the cache of its writer, and in
\* the file unless the writer has missed that.
LEMMA RecordWritten ==
  ASSUME ScheduleStoreInv, NEW p \in StoreProcess, NEW r, Tallied(r), WritesRecord(p, r)
  PROVE  ScheduleStoreInv'
<1>1. PICK written \in {r, scheduleFile, NoRecord} :
        /\ scheduleFile' = written
        /\ unaware' = (IF written = r THEN unaware \ {p} ELSE unaware \cup {p}) \cup FallBehind(p, written)
  BY DEF WritesRecord
<1>2. scheduleCache' = [scheduleCache EXCEPT ![p] = r]
  BY DEF WritesRecord
<1>3. r \in Records /\ Tallied(written)
  BY <1>1, NoRecordTallied DEF Tallied, ScheduleStoreInv
<1>4. /\ scheduleCache' \in [StoreProcess -> Records] /\ scheduleCache'[p] = r
      /\ \A o \in Others(p) : scheduleCache'[o] = scheduleCache[o]
  BY <1>2, <1>3 DEF ScheduleStoreInv, Others
<1>5. \A o \in StoreProcess : Tallied(scheduleCache'[o])
  BY <1>4 DEF ScheduleStoreInv, Others
<1>6. \A o \in StoreProcess \ unaware' : scheduleCache'[o] \in {NoRecord, scheduleFile'}
  BY <1>1, <1>4 DEF Others, FallBehind, ScheduleStoreInv
<1> QED
  BY <1>1, <1>3, <1>4, <1>5, <1>6 DEF ScheduleStoreInv

LEMMA RunTallied ==
  ASSUME NEW r, Tallied(r), NEW status \in {"completed", "failed"}
  PROVE  Tallied(AfterRun(r, status))
<1>1. PICK e \in Nat : e = IF status = "completed" THEN 0 ELSE r.errors + 1
  BY DEF Tallied, Records
<1>2. r.runs + 1 \in Nat /\ e <= r.runs + 1 /\ (status = "completed" => e = 0)
  BY <1>1 DEF Tallied, Records
<1>3. AfterRun(r, status) = [r EXCEPT !.runs = r.runs + 1, !.last = status, !.errors = e]
  BY <1>1 DEF AfterRun, Tallied, Records
<1>4. AfterRun(r, status) = [status |-> r.status, runs |-> r.runs + 1, errors |-> e, last |-> status]
  BY <1>3 DEF Tallied, Records
<1> QED
  BY <1>2, <1>4 DEF Tallied, Records

LEMMA StatusTallied ==
  ASSUME NEW r, Tallied(r), NEW status \in {"active", "paused"}
  PROVE  Tallied([r EXCEPT !.status = status])
  BY DEF Tallied, Records

LEMMA ScheduleCalls ==
  ASSUME ScheduleStoreInv, NEW p \in StoreProcess, ScheduleCall(p) PROVE ScheduleStoreInv'
<1>0. Tallied(scheduleCache[p])
  BY DEF ScheduleStoreInv
<1>1. CASE SaveSchedule(p)
  <2>1. Tallied([status |-> "active", runs |-> 0, errors |-> 0, last |-> "none"])
    BY DEF Tallied, Records
  <2> QED
    BY <1>1, <2>1, RecordWritten DEF SaveSchedule
<1>2. CASE LoadsRecord(p)
  <2>1. /\ scheduleCache' = [scheduleCache EXCEPT ![p] = scheduleFile]
        /\ scheduleFile' = scheduleFile /\ unaware' = unaware \ {p}
    BY <1>2 DEF LoadsRecord
  <2>2. /\ scheduleCache' \in [StoreProcess -> Records] /\ scheduleCache'[p] = scheduleFile
        /\ \A o \in StoreProcess \ {p} : scheduleCache'[o] = scheduleCache[o]
    BY <2>1 DEF ScheduleStoreInv, Tallied
  <2> QED
    BY <2>1, <2>2 DEF ScheduleStoreInv, Tallied
<1>3. CASE UpdateLastRun(p)
  BY <1>0, <1>3, RunTallied, RecordWritten DEF UpdateLastRun
<1>4. CASE SetStatus(p)
  BY <1>0, <1>4, StatusTallied, RecordWritten DEF SetStatus
<1>5. CASE DeleteSchedule(p)
  <2>1. PICK written \in {NoRecord, scheduleFile} :
          scheduleFile' = written /\ unaware' = (unaware \ {p}) \cup FallBehind(p, written)
    BY <1>5 DEF DeleteSchedule
  <2>2. scheduleCache' = [scheduleCache EXCEPT ![p] = NoRecord] /\ Tallied(written) /\ NoRecord \in Records
    BY <1>5, NoRecordTallied DEF DeleteSchedule, ScheduleStoreInv, Tallied
  <2>3. /\ scheduleCache' \in [StoreProcess -> Records] /\ scheduleCache'[p] = NoRecord
        /\ \A o \in Others(p) : scheduleCache'[o] = scheduleCache[o]
    BY <2>2 DEF ScheduleStoreInv, Others
  <2>4. \A o \in StoreProcess : Tallied(scheduleCache'[o])
    BY <2>3, NoRecordTallied DEF ScheduleStoreInv, Others
  <2>5. \A o \in StoreProcess \ unaware' : scheduleCache'[o] \in {NoRecord, scheduleFile'}
    BY <2>1, <2>3 DEF Others, FallBehind, ScheduleStoreInv
  <2> QED
    BY <2>1, <2>2, <2>3, <2>4, <2>5 DEF ScheduleStoreInv
<1> QED
  BY <1>1, <1>2, <1>3, <1>4, <1>5 DEF ScheduleCall

\* A number that is chosen is after every whole version, if nothing was missed.
LEMMA NumberedVersion ==
  ASSUME WorkflowStoreInv, NEW p \in StoreProcess, NumberVersion(p) PROVE WorkflowStoreInv'
<1>1. /\ NextVersion(p) \in Versions
      /\ saving' = [saving EXCEPT ![p] = [at |-> "numbered", n |-> NextVersion(p)]]
      /\ UNCHANGED <<versionFile, latest, behind, replaced, careless>>
  BY DEF NumberVersion
<1>2. VersionsTyped /\ VersionsTyped' /\ Existing' = Existing /\ WholeVersions' = WholeVersions
  BY <1>1 DEF WorkflowStoreInv, VersionsTyped, Saves, Versions, Existing, WholeVersions
<1>3. ASSUME ~careless, p \notin behind PROVE \A m \in WholeVersions : m < NextVersion(p)
  <2>1. Knows(latest[p], saving[p].n, Existing, WholeVersions) /\ latest[p] \in Nat
    BY <1>3 DEF WorkflowStoreInv, VersionsTyped
  <2> QED
    BY <1>2, <2>1, VersionsAreThere DEF Knows, NextVersion
<1>4. /\ saving'[p].n = NextVersion(p) /\ \A o \in StoreProcess \ {p} : saving'[o] = saving[o]
  BY <1>1 DEF WorkflowStoreInv, VersionsTyped
<1> QED
  BY <1>1, <1>2, <1>3, <1>4 DEF WorkflowStoreInv, Knows

LEMMA OpenedVersion ==
  ASSUME WorkflowStoreInv, NEW p \in StoreProcess, OpenVersion(p) PROVE WorkflowStoreInv'
<1> DEFINE n == saving[p].n
<1>1. /\ saving[p].at = "numbered" /\ saving' = [saving EXCEPT ![p].at = "open"]
      /\ versionFile' = [versionFile EXCEPT ![n] = "torn"]
      /\ replaced' = (replaced \/ versionFile[n] = "whole") /\ careless' = (careless \/ p \in behind)
      /\ latest' = latest /\ behind' = behind
  BY DEF OpenVersion, Overwrites
<1>2. n \in Versions
  BY <1>1 DEF WorkflowStoreInv, VersionsTyped, NotSaving
<1>3. VersionsTyped' /\ \A o \in StoreProcess : saving'[o].n = saving[o].n
  BY <1>1, <1>2 DEF WorkflowStoreInv, VersionsTyped, Saves, NotSaving
<1>4. Existing' = Existing \cup {n} /\ WholeVersions' = WholeVersions \ {n}
  BY <1>1, <1>2 DEF WorkflowStoreInv, VersionsTyped, Existing, WholeVersions
<1>5. ASSUME ~careless' PROVE ~careless /\ n \notin WholeVersions
  <2>1. ~careless /\ p \notin behind
    BY <1>1, <1>5
  <2> QED
    BY <1>2, <2>1 DEF WorkflowStoreInv, Knows, Versions
<1> QED
  BY <1>1, <1>2, <1>3, <1>4, <1>5 DEF WorkflowStoreInv, Knows, WholeVersions

LEMMA WrittenVersion ==
  ASSUME WorkflowStoreInv, NEW p \in StoreProcess, WriteVersion(p) PROVE WorkflowStoreInv'
<1> DEFINE n == saving[p].n
<1>1. /\ saving[p].at = "open" /\ saving' = [saving EXCEPT ![p] = NotSaving]
      /\ replaced' = (replaced \/ versionFile[n] = "whole") /\ careless' = (careless \/ p \in behind)
      /\ latest' = [latest EXCEPT ![p] = n]
      /\ behind' = behind \cup {r \in Others(p) : latest[r] # 0 \/ saving[r].n \in 1 .. n}
  BY DEF WriteVersion, Overwrites
<1>2. PICK content \in {"whole", "torn"} : /\ versionFile' = [versionFile EXCEPT ![n] = content]
                                           /\ content = "torn" => n \in WholeVersions
  BY DEF WriteVersion
<1>3. n \in Versions /\ n \in Nat \ {0}
  BY <1>1 DEF WorkflowStoreInv, VersionsTyped, NotSaving, Versions
<1>4. /\ saving' \in [StoreProcess -> Saves] /\ saving'[p] = NotSaving
      /\ latest' \in [StoreProcess -> Nat] /\ latest'[p] = n
      /\ \A o \in Others(p) : saving'[o] = saving[o] /\ latest'[o] = latest[o]
  BY <1>1, <1>3 DEF WorkflowStoreInv, VersionsTyped, Saves, NotSaving, Others
<1>5. VersionsTyped'
  <2>1. \A o \in StoreProcess : /\ saving'[o] = NotSaving \/ saving'[o].n \in Versions
                                /\ saving'[o].at = "adrift" => o \in behind'
    BY <1>1, <1>4 DEF WorkflowStoreInv, VersionsTyped, NotSaving, Others
  <2>2. versionFile' \in [Versions -> {"none", "torn", "whole"}]
    BY <1>2, <1>3 DEF WorkflowStoreInv, VersionsTyped
  <2> QED
    BY <1>4, <2>1, <2>2 DEF VersionsTyped
<1>6. Existing' = Existing \cup {n} /\ WholeVersions' \in SUBSET (WholeVersions \cup {n})
  BY <1>2, <1>3 DEF WorkflowStoreInv, VersionsTyped, Existing, WholeVersions
<1>7. ASSUME ~careless' PROVE /\ ~careless /\ ~replaced' /\ \A m \in WholeVersions : m < n
  <2>1. ~careless /\ p \notin behind
    BY <1>1, <1>7
  <2>2. \A m \in WholeVersions : m < n
    BY <1>3, <2>1 DEF WorkflowStoreInv, Knows
  <2>3. versionFile[n] # "whole"
    BY <1>3, <2>2 DEF WholeVersions
  <2> QED
    BY <1>1, <2>1, <2>2, <2>3 DEF WorkflowStoreInv
<1>8. \A m \in WholeVersions : m \in Nat
  BY DEF WholeVersions, Versions
<1> HIDE DEF n
<1>9. ASSUME ~careless' PROVE Knows(latest'[p], saving'[p].n, Existing', WholeVersions')
  BY <1>3, <1>4, <1>6, <1>7, <1>8, <1>9 DEF Knows, NotSaving
<1>10. ASSUME ~careless', NEW o \in Others(p), o \notin behind'
       PROVE  Knows(latest'[o], saving'[o].n, Existing', WholeVersions')
  <2>1. /\ latest[o] = 0 /\ ~(saving[o].n \in 1 .. n) /\ saving[o].n \in Nat
        /\ Knows(latest[o], saving[o].n, Existing, WholeVersions)
    BY <1>1, <1>7, <1>10 DEF WorkflowStoreInv, Others, VersionsTyped, Saves
  <2>2. saving[o].n = 0 \/ n < saving[o].n
    BY <1>3, <2>1
  <2> QED
    BY <1>4, <1>6, <1>10, <2>1, <2>2 DEF Knows
<1> QED
  BY <1>5, <1>7, <1>9, <1>10 DEF WorkflowStoreInv, Others

LEMMA EndedSave ==
  ASSUME WorkflowStoreInv, NEW p \in StoreProcess, WriteIsLost(p) \/ SaveFails(p)
  PROVE  WorkflowStoreInv'
<1>1. /\ saving' = [saving EXCEPT ![p] = NotSaving] /\ versionFile' = versionFile /\ behind' = behind
      /\ replaced' = replaced /\ careless' = careless
      /\ latest' = latest \/ (latest' = [latest EXCEPT ![p] = saving[p].n] /\ p \in behind)
  BY DEF WriteIsLost, SaveFails, WorkflowStoreInv, VersionsTyped
<1>2. /\ saving' \in [StoreProcess -> Saves] /\ saving'[p] = NotSaving
      /\ \A o \in StoreProcess \ {p} : saving'[o] = saving[o] /\ latest'[o] = latest[o]
      /\ latest' \in [StoreProcess -> Nat] /\ (p \notin behind => latest'[p] = latest[p])
  BY <1>1 DEF WorkflowStoreInv, VersionsTyped, Saves, NotSaving
<1>3. Existing' = Existing /\ WholeVersions' = WholeVersions
  BY <1>1 DEF Existing, WholeVersions
<1>4. \A o \in StoreProcess : /\ saving'[o] = NotSaving \/ saving'[o].n \in Versions
                              /\ saving'[o].at = "adrift" => o \in behind'
  BY <1>1, <1>2 DEF WorkflowStoreInv, VersionsTyped, NotSaving
<1>5. VersionsTyped'
  <2>1. versionFile' \in [Versions -> {"none", "torn", "whole"}]
    BY <1>1 DEF WorkflowStoreInv, VersionsTyped
  <2> QED
    BY <1>2, <1>4, <2>1 DEF VersionsTyped
<1> QED
  BY <1>1, <1>2, <1>3, <1>5 DEF WorkflowStoreInv, Knows, NotSaving

LEMMA LatestIsGreatest ==
  ASSUME WorkflowStoreInv, ~careless, NEW p \in StoreProcess \ behind
  PROVE  IF LatestOf(p) \in WholeVersions THEN LatestOf(p) = Max(WholeVersions)
                                  ELSE WholeVersions = {} \/ Max(Existing) \notin WholeVersions
<1>1. /\ Knows(latest[p], saving[p].n, Existing, WholeVersions) /\ latest[p] \in Nat
      /\ WholeVersions \in SUBSET Existing /\ \A n \in Existing : n \in Nat \ {0}
      /\ Existing # {} => Max(Existing) \in Existing /\ \A m \in Existing : m <= Max(Existing)
      /\ WholeVersions # {} => Max(WholeVersions) \in WholeVersions /\ \A m \in WholeVersions : m <= Max(WholeVersions)
  BY VersionsAreThere DEF WorkflowStoreInv, VersionsTyped
<1>2. CASE latest[p] \in WholeVersions
  BY <1>1, <1>2 DEF LatestOf, Knows
<1>3. CASE latest[p] \notin WholeVersions /\ Existing = {}
  BY <1>1, <1>3 DEF LatestOf
<1>4. CASE latest[p] \notin WholeVersions /\ Existing # {}
  BY <1>1, <1>4 DEF LatestOf
<1> QED
  BY <1>2, <1>3, <1>4

LEMMA LoadedLatest ==
  ASSUME WorkflowStoreInv, NEW p \in StoreProcess, saving[p] = NotSaving, LoadLatest(p)
  PROVE  WorkflowStoreInv'
<1>1. /\ Existing # {} /\ latest' = [latest EXCEPT ![p] = LatestOf(p)]
      /\ behind' = IF LatestOf(p) = Max(Existing) THEN behind \ {p} ELSE behind
      /\ versionFile' = versionFile /\ saving' = saving /\ replaced' = replaced /\ careless' = careless
  BY DEF LoadLatest
<1>2. /\ WholeVersions \in SUBSET Existing /\ Max(Existing) \in Existing /\ Existing' = Existing /\ WholeVersions' = WholeVersions
      /\ \A n \in Existing : n \in Nat \ {0} /\ n <= Max(Existing)
  BY <1>1, VersionsAreThere DEF Existing, WholeVersions, WorkflowStoreInv
<1>3. LatestOf(p) \in Existing
  BY <1>1, <1>2 DEF LatestOf
<1>4. /\ latest' \in [StoreProcess -> Nat] /\ latest'[p] = LatestOf(p)
      /\ \A o \in StoreProcess \ {p} : latest'[o] = latest[o]
  BY <1>1, <1>2, <1>3 DEF WorkflowStoreInv, VersionsTyped
<1>5. VersionsTyped'
  BY <1>1, <1>4 DEF WorkflowStoreInv, VersionsTyped, NotSaving
<1>6. ASSUME ~careless, p \notin behind' PROVE \A m \in WholeVersions : m <= LatestOf(p)
  <2>1. CASE LatestOf(p) = Max(Existing)
    BY <1>2, <2>1
  <2>2. CASE LatestOf(p) # Max(Existing)
    <3>1. latest[p] \in WholeVersions /\ LatestOf(p) = latest[p] /\ latest[p] # 0
      BY <1>1, <1>2, <2>2 DEF LatestOf
    <3>2. Knows(latest[p], saving[p].n, Existing, WholeVersions)
      BY <1>1, <1>6, <2>2 DEF WorkflowStoreInv
    <3> QED
      BY <3>1, <3>2 DEF Knows
  <2> QED
    BY <2>1, <2>2
<1>7. ASSUME ~careless, p \notin behind' PROVE Knows(latest'[p], saving'[p].n, Existing', WholeVersions')
  BY <1>1, <1>2, <1>3, <1>4, <1>6, <1>7 DEF Knows, NotSaving
<1> QED
  BY <1>1, <1>2, <1>4, <1>5, <1>7 DEF WorkflowStoreInv

LEMMA DeletedVersions ==
  ASSUME WorkflowStoreInv, NEW p \in StoreProcess, DeleteVersions(p) PROVE WorkflowStoreInv'
<1>1. PICK asked \in {{n} : n \in Versions} \cup {Versions} : \E gone \in SUBSET (asked \cap Existing) :
        /\ versionFile' = [n \in Versions |-> IF n \in gone THEN "none" ELSE versionFile[n]]
        /\ saving' = [r \in StoreProcess |-> IF saving[r].at = "open" /\ saving[r].n \in gone
                                             THEN [saving[r] EXCEPT !.at = "adrift"] ELSE saving[r]]
        /\ latest' = [latest EXCEPT ![p] = IF gone = asked \cap Existing /\ @ \in asked THEN 0 ELSE @]
        /\ behind' = {r \in behind \cup {o \in StoreProcess : latest[o] \in gone \/ saving[o].n \in gone} :
                        latest'[r] # 0 \/ saving[r].n # 0}
        /\ replaced' = replaced /\ careless' = careless
  BY DEF DeleteVersions
<1>2. PICK gone \in SUBSET (asked \cap Existing) :
        /\ versionFile' = [n \in Versions |-> IF n \in gone THEN "none" ELSE versionFile[n]]
        /\ saving' = [r \in StoreProcess |-> IF saving[r].at = "open" /\ saving[r].n \in gone
                                             THEN [saving[r] EXCEPT !.at = "adrift"] ELSE saving[r]]
        /\ latest' = [latest EXCEPT ![p] = IF gone = asked \cap Existing /\ @ \in asked THEN 0 ELSE @]
        /\ behind' = {r \in behind \cup {o \in StoreProcess : latest[o] \in gone \/ saving[o].n \in gone} :
                        latest'[r] # 0 \/ saving[r].n # 0}
        /\ replaced' = replaced /\ careless' = careless
  BY <1>1
<1>3. Existing' = Existing \ gone /\ WholeVersions' = WholeVersions \ gone /\ versionFile' \in [Versions -> {"none", "torn", "whole"}]
  BY <1>2 DEF WorkflowStoreInv, VersionsTyped, Existing, WholeVersions
<1>4. /\ latest' \in [StoreProcess -> Nat] /\ \A o \in StoreProcess : latest'[o] \in {0, latest[o]}
  BY <1>2 DEF WorkflowStoreInv, VersionsTyped
<1>5. /\ saving' \in [StoreProcess -> Saves] /\ \A o \in StoreProcess : saving'[o].n = saving[o].n
      /\ \A o \in StoreProcess : saving'[o] = saving[o] \/ (saving'[o].at = "adrift" /\ saving[o].n \in gone)
  BY <1>2 DEF WorkflowStoreInv, VersionsTyped, Saves
<1>6. \A o \in StoreProcess : saving[o] = NotSaving \/ (saving[o].n \in Versions /\ saving[o].n # 0)
  BY DEF WorkflowStoreInv, VersionsTyped, Versions
<1>7. VersionsTyped'
  <2>1. \A o \in StoreProcess : saving'[o] = NotSaving \/ saving'[o].n \in Versions
    BY <1>2, <1>5, <1>6
  <2>2. ASSUME NEW o \in StoreProcess, saving'[o].at = "adrift" PROVE o \in behind'
    BY <1>2, <1>5, <1>6, <2>2 DEF WorkflowStoreInv, VersionsTyped, NotSaving
  <2> QED
    BY <1>3, <1>4, <1>5, <2>1, <2>2 DEF VersionsTyped
<1>8. ASSUME ~careless, NEW o \in StoreProcess \ behind'
      PROVE  Knows(latest'[o], saving'[o].n, Existing', WholeVersions')
  <2>1. CASE o \notin behind /\ latest[o] \notin gone
    BY <1>3, <1>4, <1>5, <1>8, <2>1 DEF WorkflowStoreInv, Knows
  <2>2. CASE o \in behind \/ latest[o] \in gone
    <3>1. latest'[o] = 0 /\ saving[o].n = 0
      BY <1>2, <1>8, <2>2
    <3> QED
      BY <1>5, <3>1 DEF Knows
  <2> QED
    BY <2>1, <2>2
<1> QED
  BY <1>2, <1>7, <1>8 DEF WorkflowStoreInv

LEMMA StoresStart == StoresInit => StoresInv
<1> SUFFICES ASSUME StoresInit PROVE StoresInv
  OBVIOUS
<1>1. ScheduleStoreInv
  BY NoRecordTallied DEF StoresInit, ScheduleStoreInv, Tallied
<1>2. VersionsTyped
  BY DEF StoresInit, VersionsTyped, Saves, NotSaving
<1>3. \A p \in StoreProcess : Knows(latest[p], saving[p].n, Existing, WholeVersions)
  BY DEF StoresInit, Knows, NotSaving
<1> QED
  BY <1>1, <1>2, <1>3 DEF StoresInit, StoresInv, WorkflowStoreInv

LEMMA ScheduleStoreStands ==
  ASSUME ScheduleStoreInv, UNCHANGED scheduleStoreVars PROVE ScheduleStoreInv'
  BY DEF ScheduleStoreInv, scheduleStoreVars, Tallied

LEMMA WorkflowStoreStands ==
  ASSUME WorkflowStoreInv, UNCHANGED workflowStoreVars PROVE WorkflowStoreInv'
  BY DEF WorkflowStoreInv, workflowStoreVars, VersionsTyped, Existing, WholeVersions

LEMMA StoresSteps == StoresInv /\ [StoresNext]_storeVars => StoresInv'
<1> SUFFICES ASSUME StoresInv, [StoresNext]_storeVars PROVE StoresInv'
  OBVIOUS
<1>1. CASE UNCHANGED storeVars
  BY <1>1, ScheduleStoreStands, WorkflowStoreStands DEF StoresInv, storeVars
<1>2. ASSUME NEW p \in StoreProcess, ScheduleCall(p), UNCHANGED workflowStoreVars PROVE StoresInv'
  BY <1>2, ScheduleCalls, WorkflowStoreStands DEF StoresInv
<1>3. ASSUME NEW p \in StoreProcess, WorkflowCall(p), UNCHANGED scheduleStoreVars PROVE StoresInv'
  BY <1>3, NumberedVersion, LoadedLatest, DeletedVersions, ScheduleStoreStands DEF StoresInv, WorkflowCall
<1>4. ASSUME NEW p \in StoreProcess, SaveStep(p), UNCHANGED scheduleStoreVars PROVE StoresInv'
  BY <1>4, OpenedVersion, WrittenVersion, EndedSave, ScheduleStoreStands DEF StoresInv, SaveStep
<1>5. ASSUME NEW p \in StoreProcess, ProcessRestarts(p) PROVE StoresInv'
  <2>1. /\ scheduleCache' = [scheduleCache EXCEPT ![p] = NoRecord] /\ latest' = [latest EXCEPT ![p] = 0]
        /\ saving' = [saving EXCEPT ![p] = NotSaving]
        /\ unaware' = unaware \ {p} /\ behind' = behind \ {p}
        /\ scheduleFile' = scheduleFile /\ versionFile' = versionFile
        /\ replaced' = replaced /\ careless' = careless
    BY <1>5 DEF ProcessRestarts
  <2>2. ScheduleStoreInv'
    BY <2>1, NoRecordTallied DEF StoresInv, ScheduleStoreInv, Tallied
  <2>3. VersionsTyped' /\ Existing' = Existing /\ WholeVersions' = WholeVersions
    BY <2>1 DEF StoresInv, WorkflowStoreInv, VersionsTyped, Saves, NotSaving, Existing, WholeVersions
  <2>4. /\ latest'[p] = 0 /\ saving'[p].n = 0
        /\ \A o \in StoreProcess \ {p} : latest'[o] = latest[o] /\ saving'[o] = saving[o]
    BY <2>1 DEF StoresInv, WorkflowStoreInv, VersionsTyped, NotSaving
  <2>5. WorkflowStoreInv'
    BY <2>1, <2>3, <2>4 DEF StoresInv, WorkflowStoreInv, Knows
  <2> QED
    BY <2>2, <2>5 DEF StoresInv
<1> QED
  BY <1>1, <1>2, <1>3, <1>4, <1>5 DEF StoresNext

\* A whole version is overwritten only after a save of a process that was behind,
\* and a process that has missed no write, its own failed ones included, knows the
\* file: whatever processes save, fail, crash, run, delete, list and restart over
\* one directory (ScheduleStore and WorkflowStore).
THEOREM StoresAreSafe == StoresSpec => []StoresSafe
<1>1. StoresInv => StoresSafe
  BY LatestIsGreatest DEF StoresInv, StoresSafe, ScheduleStoreInv, WorkflowStoreInv, Tallied
<1> QED
  BY <1>1, StoresStart, StoresSteps, PTL DEF StoresSpec

-----------------------------------------------------------------------------
(***************************************************************************)
(* The triggers of the schedules: the Set of those an event is routed to,  *)
(* and the calls that walk it while schedules are paused, removed and      *)
(* added. What a call still owes a schedule is ahead of it in the Set;     *)
(* what it got is its own call's data unless another call came in          *)
(* between.                                                                *)
(***************************************************************************)
Registrations ==
  [status : {"new", "active", "paused", "removed"},
   event : TriggerCall \cup {NoTrigger}, manual : TriggerCall \cup {NoTrigger}]

TriggerCalls ==
  [at : {"idle", "loop", "running", "done", "threw"}, kind : {"event", "manual"}, gen : Nat,
   seen : SUBSET ScheduleId, ran : Seq(ScheduleId), stable : SUBSET ScheduleId,
   now : ScheduleId \cup {NoSchedule}, got : TriggerCall \cup {NoTrigger}, overtaken : BOOLEAN]

Routed(reg, rt) ==
  /\ reg \in [ScheduleId -> Registrations]
  /\ rt \in [ids : Seq(ScheduleId), gen : Nat] /\ Distinct(rt.ids)
  /\ ToSet(rt.ids) = {s \in ScheduleId : reg[s].status \in {"active", "paused"}}

\* What a call owes its stable schedules is in the Set it walks, and it has run
\* what it has seen of them; the data it set is there for its handler, unless
\* another call came.
Walks(k, reg, rt) ==
  /\ k.gen <= rt.gen
  /\ \A s \in k.stable : reg[s].status = "active"
  /\ k.gen = rt.gen \/ k.stable = {}
  /\ k.at = "idle" => k.ran = <<>> /\ k.seen = {} /\ k.stable = {} /\ k.kind = "event"
  /\ k.at = "loop" => k.kind = "event"
  /\ k.at \in {"loop", "running"} /\ k.kind = "event" =>
       ToSet(k.ran) \subseteq k.seen /\ k.seen \cap k.stable \subseteq ToSet(k.ran)
  /\ k.at = "done" /\ k.kind = "event" => k.stable \subseteq ToSet(k.ran)
  /\ Distinct(k.ran)

Hands(c, k, reg) ==
  /\ k.at = "running" => k.now \in ScheduleId /\ (reg[k.now][k.kind] = c \/ k.overtaken)
  /\ k.got \notin {NoTrigger, c} => k.overtaken

TriggerInv ==
  /\ Routed(registry, routes) /\ calls \in [TriggerCall -> TriggerCalls]
  /\ \A c \in TriggerCall : Walks(calls[c], registry, routes) /\ Hands(c, calls[c], registry)

LEMMA TriggersStart == TriggerInit => TriggerInv
<1> SUFFICES ASSUME TriggerInit PROVE TriggerInv
  OBVIOUS
<1>1. <<>> \in Seq(ScheduleId) /\ ToSet(<<>>) = {} /\ Distinct(<<>>)
  BY EmptyDistinct
<1>2. Routed(registry, routes)
  BY <1>1 DEF TriggerInit, Routed, Registrations
<1>3. calls \in [TriggerCall -> TriggerCalls]
  BY <1>1 DEF TriggerInit, TriggerCalls
<1>4. ASSUME NEW c \in TriggerCall
      PROVE  Walks(calls[c], registry, routes) /\ Hands(c, calls[c], registry)
  <2>1. /\ calls[c].at = "idle" /\ calls[c].kind = "event" /\ calls[c].gen = 0 /\ calls[c].seen = {}
        /\ calls[c].ran = <<>> /\ calls[c].stable = {} /\ calls[c].got = NoTrigger /\ routes.gen = 1
    BY DEF TriggerInit
  <2> QED
    BY <1>1, <2>1 DEF Walks, Hands
<1> QED
  BY <1>2, <1>3, <1>4 DEF TriggerInv

\* A schedule with another status hands on the same data.
LEMMA StatusChanges ==
  ASSUME TriggerInv, NEW s \in ScheduleId, NEW status \in {"active", "paused", "removed"}
  PROVE  LET reg == [registry EXCEPT ![s].status = status]
         IN /\ reg \in [ScheduleId -> Registrations] /\ reg[s].status = status
            /\ \A t \in ScheduleId \ {s} : reg[t] = registry[t]
            /\ \A t \in ScheduleId : reg[t].event = registry[t].event /\ reg[t].manual = registry[t].manual
            /\ \A c \in TriggerCall, k \in TriggerCalls : Hands(c, k, registry) => Hands(c, k, reg)
<1> DEFINE reg == [registry EXCEPT ![s].status = status]
<1>1. registry \in [ScheduleId -> Registrations]
  BY DEF TriggerInv, Routed
<1>2. reg = [registry EXCEPT ![s] = [registry[s] EXCEPT !.status = status]]
  BY <1>1
<1>3. [registry[s] EXCEPT !.status = status] \in Registrations
  BY <1>1 DEF Registrations
<1>4. /\ reg \in [ScheduleId -> Registrations] /\ reg[s] = [registry[s] EXCEPT !.status = status]
      /\ \A t \in ScheduleId \ {s} : reg[t] = registry[t]
  BY <1>1, <1>2, <1>3
<1>5. /\ reg[s].status = status
      /\ \A t \in ScheduleId : reg[t].event = registry[t].event /\ reg[t].manual = registry[t].manual
  BY <1>1, <1>4 DEF Registrations
<1> HIDE DEF reg
<1>6. ASSUME NEW c \in TriggerCall, NEW k \in TriggerCalls, Hands(c, k, registry) PROVE Hands(c, k, reg)
  <2>1. k.kind = "event" \/ k.kind = "manual"
    BY DEF TriggerCalls
  <2>2. k.now \in ScheduleId => reg[k.now][k.kind] = registry[k.now][k.kind]
    BY <1>5, <2>1
  <2> QED
    BY <1>6, <2>2 DEF Hands
<1> QED
  BY <1>4, <1>5, <1>6 DEF reg

LEMMA AddedSchedule ==
  ASSUME TriggerInv, NEW s \in ScheduleId, AddsSchedule(s) PROVE TriggerInv'
<1>1. /\ registry[s].status = "new" /\ registry' = [registry EXCEPT ![s].status = "active"]
      /\ routes' = [routes EXCEPT !.ids = Append(routes.ids, s)] /\ calls' = calls
  BY DEF AddsSchedule
<1>2. /\ registry' \in [ScheduleId -> Registrations] /\ registry'[s].status = "active"
      /\ \A t \in ScheduleId \ {s} : registry'[t] = registry[t]
      /\ \A c \in TriggerCall, k \in TriggerCalls : Hands(c, k, registry) => Hands(c, k, registry')
  BY <1>1, StatusChanges
<1>3. /\ routes.ids \in Seq(ScheduleId) /\ Distinct(routes.ids) /\ s \notin ToSet(routes.ids)
      /\ routes.gen \in Nat /\ routes \in [ids : Seq(ScheduleId), gen : Nat]
  BY <1>1 DEF TriggerInv, Routed
<1>4. /\ Append(routes.ids, s) \in Seq(ScheduleId) /\ Distinct(Append(routes.ids, s))
      /\ ToSet(Append(routes.ids, s)) = ToSet(routes.ids) \cup {s}
  BY <1>3, AppendDistinct
<1>5. routes' \in [ids : Seq(ScheduleId), gen : Nat] /\ routes'.ids = Append(routes.ids, s) /\ routes'.gen = routes.gen
  BY <1>1, <1>3, <1>4
<1>6. Routed(registry', routes')
  BY <1>1, <1>2, <1>4, <1>5 DEF TriggerInv, Routed
<1>7. ASSUME NEW c \in TriggerCall PROVE Walks(calls[c], registry', routes')
  <2>1. Walks(calls[c], registry, routes) /\ calls[c] \in TriggerCalls
    BY DEF TriggerInv
  <2>2. \A t \in calls[c].stable : t \in ScheduleId /\ registry'[t].status = "active"
    BY <1>1, <1>2, <2>1 DEF Walks, TriggerCalls
  <2> QED
    BY <1>5, <2>1, <2>2 DEF Walks
<1> QED
  BY <1>1, <1>2, <1>6, <1>7 DEF TriggerInv

\* A schedule that is paused or removed is owed to no call.
LEMMA NotOwed ==
  ASSUME TriggerInv, NEW s \in ScheduleId,
         calls' = [c \in TriggerCall |-> [calls[c] EXCEPT !.stable = @ \ {s}]],
         NEW status \in {"paused", "removed"}, registry' = [registry EXCEPT ![s].status = status],
         routes' \in [ids : Seq(ScheduleId), gen : Nat], routes'.gen >= routes.gen,
         routes'.gen = routes.gen \/ ToSet(routes.ids) \subseteq {s}
  PROVE  /\ calls' \in [TriggerCall -> TriggerCalls]
         /\ \A c \in TriggerCall : Walks(calls'[c], registry', routes') /\ Hands(c, calls'[c], registry')
<1>1. /\ registry' \in [ScheduleId -> Registrations] /\ registry'[s].status = status
      /\ \A t \in ScheduleId \ {s} : registry'[t] = registry[t]
      /\ \A c \in TriggerCall, k \in TriggerCalls : Hands(c, k, registry) => Hands(c, k, registry')
  BY StatusChanges
<1>2. routes.gen \in Nat /\ routes'.gen \in Nat
  BY DEF TriggerInv, Routed
<1>3. ASSUME NEW c \in TriggerCall
      PROVE  /\ calls'[c] \in TriggerCalls /\ Walks(calls'[c], registry', routes')
             /\ Hands(c, calls'[c], registry')
  <2> DEFINE k == calls[c]
             l == calls'[c]
  <2>1. Walks(k, registry, routes) /\ Hands(c, k, registry) /\ k \in TriggerCalls
    BY DEF TriggerInv
  <2>2. l = [k EXCEPT !.stable = k.stable \ {s}]
    OBVIOUS
  <2>3. /\ l \in TriggerCalls /\ l.stable = k.stable \ {s} /\ l.at = k.at /\ l.kind = k.kind /\ l.gen = k.gen
        /\ l.seen = k.seen /\ l.ran = k.ran /\ l.now = k.now /\ l.got = k.got /\ l.overtaken = k.overtaken
    BY <2>1, <2>2 DEF TriggerCalls
  <2>4. k.gen \in Nat /\ k.stable \subseteq ScheduleId
    BY <2>1 DEF TriggerCalls
  <2> HIDE DEF k, l
  <2>5. \A t \in l.stable : registry'[t].status = "active"
    BY <1>1, <2>1, <2>3, <2>4 DEF Walks
  <2>6. k.stable \subseteq ToSet(routes.ids)
    BY <2>1, <2>4 DEF TriggerInv, Routed, Walks
  <2>7. l.gen <= routes'.gen /\ (l.gen = routes'.gen \/ l.stable = {})
    BY <1>2, <2>1, <2>3, <2>4, <2>6 DEF Walks
  <2>8. Walks(l, registry', routes')
    BY <2>1, <2>3, <2>5, <2>7 DEF Walks
  <2>9. Hands(c, l, registry)
    BY <2>1, <2>3 DEF Hands
  <2> QED
    BY <1>1, <2>3, <2>8, <2>9 DEF l
<1>4. calls' \in [TriggerCall -> TriggerCalls]
  BY <1>3
<1> QED
  BY <1>3, <1>4

LEMMA RemovedSchedule ==
  ASSUME TriggerInv, NEW s \in ScheduleId, RemovesSchedule(s) PROVE TriggerInv'
<1> DEFINE left == RemoveFirst(routes.ids, s)
<1>1. /\ registry' = [registry EXCEPT ![s].status = "removed"]
      /\ routes' = [ids |-> left, gen |-> IF left = <<>> THEN routes.gen + 1 ELSE routes.gen]
      /\ calls' = [c \in TriggerCall |-> [calls[c] EXCEPT !.stable = @ \ {s}]]
  BY DEF RemovesSchedule
<1>2. routes.ids \in Seq(ScheduleId) /\ Distinct(routes.ids) /\ routes.gen \in Nat
  BY DEF TriggerInv, Routed
<1>3. left \in Seq(ScheduleId) /\ ToSet(left) = ToSet(routes.ids) \ {s} /\ Distinct(left)
  BY <1>2, RemoveDistinct
<1> HIDE DEF left
<1>4. routes' \in [ids : Seq(ScheduleId), gen : Nat] /\ routes'.ids = left
  BY <1>1, <1>2, <1>3
<1>5. routes'.gen >= routes.gen /\ (routes'.gen = routes.gen \/ ToSet(routes.ids) \subseteq {s})
  BY <1>1, <1>2, <1>3, EmptyDistinct
<1>6. /\ calls' \in [TriggerCall -> TriggerCalls]
      /\ \A c \in TriggerCall : Walks(calls'[c], registry', routes') /\ Hands(c, calls'[c], registry')
  BY <1>1, <1>4, <1>5, NotOwed
<1>7. Routed(registry', routes')
  <2>1. /\ registry' \in [ScheduleId -> Registrations] /\ registry'[s].status = "removed"
        /\ \A t \in ScheduleId \ {s} : registry'[t] = registry[t]
    BY <1>1, StatusChanges
  <2> QED
    BY <1>3, <1>4, <2>1 DEF TriggerInv, Routed
<1> QED
  BY <1>6, <1>7 DEF TriggerInv

LEMMA PausedSchedule ==
  ASSUME TriggerInv, NEW s \in ScheduleId, PauseSchedule(s) PROVE TriggerInv'
<1>1. /\ registry[s].status = "active" /\ registry' = [registry EXCEPT ![s].status = "paused"]
      /\ calls' = [c \in TriggerCall |-> [calls[c] EXCEPT !.stable = @ \ {s}]] /\ routes' = routes
  BY DEF PauseSchedule
<1>2. routes \in [ids : Seq(ScheduleId), gen : Nat] /\ routes.gen \in Nat
  BY DEF TriggerInv, Routed
<1>3. /\ calls' \in [TriggerCall -> TriggerCalls]
      /\ \A c \in TriggerCall : Walks(calls'[c], registry', routes') /\ Hands(c, calls'[c], registry')
  <2>1. routes' \in [ids : Seq(ScheduleId), gen : Nat] /\ routes'.gen >= routes.gen /\ routes'.gen = routes.gen
    BY <1>1, <1>2
  <2> QED
    BY <1>1, <2>1, NotOwed
<1>4. Routed(registry', routes')
  <2>1. /\ registry' \in [ScheduleId -> Registrations] /\ registry'[s].status = "paused"
        /\ \A t \in ScheduleId \ {s} : registry'[t] = registry[t]
    BY <1>1, StatusChanges
  <2> QED
    BY <1>1, <2>1 DEF TriggerInv, Routed
<1> QED
  BY <1>3, <1>4 DEF TriggerInv

\* Only call c moves, and no schedule changes.
LEMMA OneCallMoves ==
  ASSUME TriggerInv, registry' = registry, routes' = routes, NEW c \in TriggerCall, NEW k \in TriggerCalls,
         calls' = [calls EXCEPT ![c] = k], Walks(k, registry, routes), Hands(c, k, registry)
  PROVE  TriggerInv'
<1>1. calls' \in [TriggerCall -> TriggerCalls] /\ calls'[c] = k /\ \A d \in TriggerCall \ {c} : calls'[d] = calls[d]
  BY DEF TriggerInv
<1> QED
  BY <1>1 DEF TriggerInv

LEMMA TriggeredEvent ==
  ASSUME TriggerInv, NEW c \in TriggerCall, TriggerEvent(c) PROVE TriggerInv'
<1> DEFINE k == calls[c]
           S == {s \in ToSet(routes.ids) : registry[s].status = "active"}
           a == IF routes.ids = <<>> THEN "done" ELSE "loop"
           l == [calls[c] EXCEPT !.at = a, !.gen = routes.gen, !.stable = S]
<1>1. k.at = "idle" /\ calls' = [calls EXCEPT ![c] = l] /\ registry' = registry /\ routes' = routes
  BY DEF TriggerEvent
<1>2. k \in TriggerCalls /\ Walks(k, registry, routes) /\ Hands(c, k, registry)
  BY DEF TriggerInv
<1>3. S \subseteq ToSet(routes.ids) /\ S \subseteq ScheduleId /\ routes.gen \in Nat /\ a \in {"done", "loop"}
  BY DEF TriggerInv, Routed
<1>4. a = "done" => S = {}
  BY <1>3, EmptyDistinct
<1>5. \A s \in S : registry[s].status = "active"
  OBVIOUS
<1> HIDE DEF k, S, a
<1>6. /\ l \in TriggerCalls /\ l.at = a /\ l.gen = routes.gen /\ l.stable = S /\ l.kind = k.kind
      /\ l.seen = k.seen /\ l.ran = k.ran /\ l.now = k.now /\ l.got = k.got /\ l.overtaken = k.overtaken
  BY <1>2, <1>3 DEF TriggerCalls, k
<1> HIDE DEF l
<1>7. k.ran = <<>> /\ k.seen = {} /\ k.kind = "event"
  BY <1>1, <1>2 DEF Walks
<1>8. Walks(l, registry, routes)
  BY <1>2, <1>3, <1>4, <1>5, <1>6, <1>7, EmptyDistinct DEF Walks
<1>9. Hands(c, l, registry)
  BY <1>2, <1>3, <1>6 DEF Hands
<1> QED
  BY <1>1, <1>6, <1>8, <1>9, OneCallMoves

LEMMA RanSchedule ==
  ASSUME TriggerInv, NEW c \in TriggerCall, NEW s \in ScheduleId, NEW part \in {"event", "manual"},
         RunSchedule(c, s, part), s \notin ToSet(calls[c].ran),
         \/ calls[c].at = "idle" /\ part = "manual"
         \/ calls[c].at = "loop" /\ part = "event"
  PROVE  TriggerInv'
<1> DEFINE k == calls[c]
           l == [calls[c] EXCEPT !.at = "running", !.kind = part, !.seen = calls[c].seen \cup {s},
                   !.ran = Append(calls[c].ran, s), !.now = s, !.got = NoTrigger, !.overtaken = FALSE]
           met(d) == [calls[d] EXCEPT !.overtaken = TRUE]
<1>1. /\ registry' = [registry EXCEPT ![s][part] = c] /\ routes' = routes
      /\ calls' = [d \in TriggerCall |->
           CASE d = c -> l
             [] d # c /\ calls[d].now = s /\ calls[d].kind = part -> met(d)
             [] OTHER -> calls[d]]
  BY DEF RunSchedule
<1>2. registry \in [ScheduleId -> Registrations]
  BY DEF TriggerInv, Routed
<1>3. registry' = [registry EXCEPT ![s] = [registry[s] EXCEPT ![part] = c]]
  BY <1>1, <1>2
<1>4. PICK g : /\ g = [registry[s] EXCEPT ![part] = c]
               /\ g \in Registrations /\ g.status = registry[s].status /\ g[part] = c
               /\ \A other \in {"event", "manual"} \ {part} : g[other] = registry[s][other]
  <2>1. CASE part = "event"
    <3> DEFINE e == [registry[s] EXCEPT !.event = c]
    <3>1. e = [registry[s] EXCEPT ![part] = c]
      BY <2>1
    <3>2. e \in Registrations /\ e.status = registry[s].status /\ e.event = c /\ e.manual = registry[s].manual
      BY <1>2 DEF Registrations
    <3> HIDE DEF e
    <3> QED
      BY <2>1, <3>1, <3>2
  <2>2. CASE part = "manual"
    <3> DEFINE e == [registry[s] EXCEPT !.manual = c]
    <3>1. e = [registry[s] EXCEPT ![part] = c]
      BY <2>2
    <3>2. e \in Registrations /\ e.status = registry[s].status /\ e.manual = c /\ e.event = registry[s].event
      BY <1>2 DEF Registrations
    <3> HIDE DEF e
    <3> QED
      BY <2>2, <3>1, <3>2
  <2> QED
    BY <2>1, <2>2
<1>5. /\ registry' \in [ScheduleId -> Registrations] /\ registry'[s] = g
      /\ \A t \in ScheduleId \ {s} : registry'[t] = registry[t]
  BY <1>2, <1>3, <1>4
<1>6. \A t \in ScheduleId : registry'[t].status = registry[t].status
  BY <1>4, <1>5
<1>7. Routed(registry', routes')
  BY <1>1, <1>5, <1>6 DEF TriggerInv, Routed
<1>8. k \in TriggerCalls /\ Walks(k, registry, routes)
  BY DEF TriggerInv
<1>9. /\ Append(k.ran, s) \in Seq(ScheduleId) /\ Distinct(Append(k.ran, s))
      /\ ToSet(Append(k.ran, s)) = ToSet(k.ran) \cup {s}
  BY <1>8, AppendDistinct DEF TriggerCalls, Walks
<1>10. calls'[c] = l
  BY <1>1
<1>11. /\ l \in TriggerCalls /\ l.at = "running" /\ l.kind = part /\ l.seen = k.seen \cup {s}
       /\ l.ran = Append(k.ran, s) /\ l.now = s /\ l.got = NoTrigger /\ l.overtaken = FALSE
       /\ l.gen = k.gen /\ l.stable = k.stable
  BY <1>8, <1>9 DEF TriggerCalls
<1> HIDE DEF k, l
<1>12. Walks(l, registry', routes') /\ Hands(c, l, registry')
  <2>1. k.stable \subseteq ScheduleId
    BY <1>8 DEF TriggerCalls
  <2>2. part = "event" => k.at = "loop"
    BY DEF k
  <2>3. part = "event" => ToSet(l.ran) \subseteq l.seen /\ l.seen \cap l.stable \subseteq ToSet(l.ran)
    BY <1>8, <1>9, <1>11, <2>2 DEF Walks
  <2>4. Walks(l, registry', routes')
    BY <1>1, <1>6, <1>8, <1>9, <1>11, <2>1, <2>3 DEF Walks
  <2> QED
    BY <1>4, <1>5, <1>11, <2>4 DEF Hands
<1>13. ASSUME NEW d \in TriggerCall \ {c}
       PROVE  /\ calls'[d] \in TriggerCalls /\ Walks(calls'[d], registry', routes')
              /\ Hands(d, calls'[d], registry')
  <2> DEFINE m == calls[d]
             n == calls'[d]
  <2>1. m \in TriggerCalls /\ Walks(m, registry, routes) /\ Hands(d, m, registry)
    BY DEF TriggerInv
  <2>2. n = IF m.now = s /\ m.kind = part THEN met(d) ELSE m
    BY <1>1
  <2>3. /\ n \in TriggerCalls /\ n.stable = m.stable /\ n.at = m.at /\ n.kind = m.kind /\ n.gen = m.gen
        /\ n.seen = m.seen /\ n.ran = m.ran /\ n.now = m.now /\ n.got = m.got
        /\ n.overtaken = (m.overtaken \/ (m.now = s /\ m.kind = part))
    BY <2>1, <2>2 DEF TriggerCalls
  <2>4. m.stable \subseteq ScheduleId /\ m.kind \in {"event", "manual"}
    BY <2>1 DEF TriggerCalls
  <2> HIDE DEF m, n
  <2>5. Walks(n, registry', routes')
    BY <1>1, <1>6, <2>1, <2>3, <2>4 DEF Walks
  <2>6. ASSUME m.now \in ScheduleId, ~(m.now = s /\ m.kind = part)
        PROVE  registry'[m.now][m.kind] = registry[m.now][m.kind]
    <3>1. CASE m.now = s
      <4>1. m.kind \in {"event", "manual"} \ {part}
        BY <2>4, <2>6, <3>1
      <4> QED
        BY <1>4, <1>5, <3>1, <4>1
    <3>2. CASE m.now # s
      BY <1>5, <2>6, <3>2
    <3> QED
      BY <3>1, <3>2
  <2>7. Hands(d, n, registry')
    BY <2>1, <2>3, <2>6 DEF Hands
  <2> QED
    BY <2>3, <2>5, <2>7 DEF n
<1>14. calls' \in [TriggerCall -> TriggerCalls]
  <2>1. \A d \in TriggerCall : calls'[d] \in TriggerCalls
    BY <1>10, <1>11, <1>13
  <2> QED
    BY <1>1, <2>1
<1> QED
  BY <1>7, <1>10, <1>12, <1>13, <1>14 DEF TriggerInv

LEMMA WentToNext ==
  ASSUME TriggerInv, NEW c \in TriggerCall, NextSchedule(c) PROVE TriggerInv'
<1> DEFINE k == calls[c]
<1>1. k \in TriggerCalls /\ Walks(k, registry, routes) /\ Hands(c, k, registry) /\ k.at = "loop"
  BY DEF TriggerInv, NextSchedule
<1>2. /\ k.kind = "event" /\ ToSet(k.ran) \subseteq k.seen /\ k.seen \cap k.stable \subseteq ToSet(k.ran)
  BY <1>1 DEF Walks
<1>3. /\ k.stable \subseteq ToSet(routes.ids) /\ routes.ids \in Seq(ScheduleId)
      /\ DOMAIN routes.ids = 1 .. Len(routes.ids) /\ ToSet(routes.ids) = {routes.ids[i] : i \in DOMAIN routes.ids}
  BY <1>1, LenProperties DEF TriggerInv, Routed, Walks, TriggerCalls, ToSet
<1>4. CASE Unvisited(c) = {}
  <2> DEFINE l == [calls[c] EXCEPT !.at = "done", !.seen = {}]
  <2>1. registry' = registry /\ routes' = routes /\ calls' = [calls EXCEPT ![c] = l]
    BY <1>4 DEF NextSchedule, TriggerInv
  <2>2. k.stable \subseteq k.seen
    BY <1>1, <1>3, <1>4 DEF Unvisited, Walks
  <2>3. /\ l \in TriggerCalls /\ l.at = "done" /\ l.seen = {} /\ l.kind = k.kind /\ l.gen = k.gen
        /\ l.ran = k.ran /\ l.stable = k.stable /\ l.now = k.now /\ l.got = k.got /\ l.overtaken = k.overtaken
    BY <1>1 DEF TriggerCalls
  <2> HIDE DEF k, l
  <2>4. Walks(l, registry, routes) /\ Hands(c, l, registry)
    BY <1>1, <1>2, <2>2, <2>3 DEF Walks, Hands
  <2> QED
    BY <2>1, <2>3, <2>4, OneCallMoves
<1>5. CASE Unvisited(c) # {}
  <2> DEFINE i == Min(Unvisited(c))
             s == routes.ids[i]
  <2>1. Unvisited(c) \in SUBSET Nat
    BY <1>3 DEF Unvisited
  <2>2. i \in DOMAIN routes.ids /\ s \notin k.seen /\ s \in ScheduleId
    BY <1>3, <1>5, <2>1, MinFacts, ElementOfSeq DEF Unvisited
  <2>3. CASE registry[s].status = "active"
    <3>1. RunSchedule(c, s, "event")
      BY <1>5, <2>3 DEF NextSchedule
    <3>2. s \notin ToSet(calls[c].ran)
      BY <1>2, <2>2
    <3> HIDE DEF s
    <3> QED
      BY <1>1, <2>2, <3>1, <3>2, RanSchedule
  <2>4. CASE registry[s].status # "active"
    <3> DEFINE l == [calls[c] EXCEPT !.seen = calls[c].seen \cup {s}]
    <3>1. registry' = registry /\ routes' = routes /\ calls' = [calls EXCEPT ![c] = l]
      BY <1>5, <2>4 DEF NextSchedule, TriggerInv
    <3> HIDE DEF s
    <3>2. /\ l \in TriggerCalls /\ l.at = k.at /\ l.seen = k.seen \cup {s} /\ l.kind = k.kind /\ l.gen = k.gen
          /\ l.ran = k.ran /\ l.stable = k.stable /\ l.now = k.now /\ l.got = k.got /\ l.overtaken = k.overtaken
      BY <1>1, <2>2 DEF TriggerCalls
    <3> HIDE DEF k, l
    <3>3. Walks(l, registry, routes) /\ Hands(c, l, registry)
      BY <1>1, <1>2, <2>4, <3>2 DEF Walks, Hands
    <3> QED
      BY <3>1, <3>2, <3>3, OneCallMoves
  <2> QED
    BY <2>3, <2>4
<1> QED
  BY <1>4, <1>5

LEMMA EndedHandler ==
  ASSUME TriggerInv, NEW c \in TriggerCall, HandlerEnds(c) PROVE TriggerInv'
<1> DEFINE k == calls[c]
<1>1. k.at = "running" /\ k \in TriggerCalls /\ Walks(k, registry, routes) /\ Hands(c, k, registry)
  BY DEF HandlerEnds, TriggerInv
<1>2. PICK end \in {"threw", IF k.kind = "manual" THEN "done" ELSE "loop"} :
        /\ registry' = registry /\ routes' = routes
        /\ calls' = [calls EXCEPT ![c].at = end, ![c].now = NoSchedule, ![c].got = registry[k.now][k.kind]]
  BY DEF HandlerEnds
<1> DEFINE l == [calls[c] EXCEPT !.at = end, !.now = NoSchedule, !.got = registry[k.now][k.kind]]
<1>3. calls' = [calls EXCEPT ![c] = l]
  BY <1>2 DEF TriggerInv
<1>4. registry[k.now][k.kind] \in TriggerCall \cup {NoTrigger}
  <2>1. registry[k.now] \in Registrations /\ k.kind \in {"event", "manual"}
    BY <1>1 DEF TriggerInv, Routed, Hands, TriggerCalls
  <2> QED
    BY <2>1 DEF Registrations
<1>5. end \in {"threw", "done", "loop"} /\ (end = "done" => k.kind = "manual") /\ (end = "loop" => k.kind = "event")
  BY <1>1, <1>2 DEF TriggerCalls
<1>6. /\ l \in TriggerCalls /\ l.at = end /\ l.seen = k.seen /\ l.kind = k.kind /\ l.gen = k.gen
      /\ l.ran = k.ran /\ l.stable = k.stable /\ l.now = NoSchedule /\ l.got = registry[k.now][k.kind]
      /\ l.overtaken = k.overtaken
  BY <1>1, <1>4, <1>5 DEF TriggerCalls
<1> HIDE DEF k, l
<1>7. Walks(l, registry, routes)
  BY <1>1, <1>5, <1>6 DEF Walks
<1>8. Hands(c, l, registry)
  BY <1>1, <1>5, <1>6 DEF Hands
<1> QED
  BY <1>2, <1>3, <1>6, <1>7, <1>8, OneCallMoves

LEMMA TriggerSteps == TriggerInv /\ [TriggerNext]_triggerVars => TriggerInv'
<1> SUFFICES ASSUME TriggerInv, [TriggerNext]_triggerVars PROVE TriggerInv'
  OBVIOUS
<1>1. CASE UNCHANGED triggerVars
  BY <1>1 DEF TriggerInv, triggerVars
<1>2. ASSUME NEW c \in TriggerCall, NEW s \in ScheduleId, TriggerManual(c, s) PROVE TriggerInv'
  <2>1. calls[c].at = "idle" /\ RunSchedule(c, s, "manual")
    BY <1>2 DEF TriggerManual
  <2>2. s \notin ToSet(calls[c].ran)
    BY <2>1, EmptyDistinct DEF TriggerInv, Walks
  <2> QED
    BY <2>1, <2>2, RanSchedule
<1> QED
  BY <1>1, <1>2, AddedSchedule, RemovedSchedule, PausedSchedule, TriggeredEvent, WentToNext, EndedHandler
     DEF TriggerNext

-----------------------------------------------------------------------------
(***************************************************************************)
(* The parts of a field of a cron expression.                              *)
(***************************************************************************)
LEMMA StepsAreCounted ==
  ASSUME NEW from \in 0 .. 3, NEW v \in 0 .. 3, v >= from, NEW n \in 1 .. 2
  PROVE  (v - from) % n = 0 <=> \E k \in 0 .. 3 : v = from + k * n
<1>1. CASE n = 1
  <2>1. (v - from) % 1 = 0
    OBVIOUS
  <2>2. v - from \in 0 .. 3 /\ v = from + (v - from) * 1
    OBVIOUS
  <2> QED BY <1>1, <2>1, <2>2
<1>2. CASE n = 2
  <2>1. \A k \in 0 .. 3 : k * n = 2 * k
    BY <1>2
  <2>2. (v - from) % 2 = 0 <=> v - from = 0 \/ v - from = 2
    OBVIOUS
  <2>3. ASSUME NEW k \in 0 .. 3, v = from + 2 * k PROVE v - from = 0 \/ v - from = 2
    BY <2>3
  <2>4. v - from = 0 => v = from + 2 * 0
    OBVIOUS
  <2>5. v - from = 2 => v = from + 2 * 1
    OBVIOUS
  <2> QED BY <1>2, <2>1, <2>2, <2>3, <2>4, <2>5
<1> QED
  BY <1>1, <1>2

\* But for a value with a step, a field of a cron expression matches what a
\* crontab means by it (ScheduleParser.matchesField).
LEMMA FieldsAreMatched == FieldsMatchAsMeant
<1> SUFFICES ASSUME NEW piece \in FieldParts, NEW min \in {0, 1}, piece.form # "valueStep"
             PROVE  {v \in min .. 3 : MatchesField(v, {piece}, min)} = Meant(piece, min, 3)
  BY DEF FieldsMatchAsMeant
<1>0. /\ piece.form \in {"all", "range", "value", "allStep", "rangeStep"} /\ piece.a \in 0 .. 3 /\ piece.b \in 0 .. 3
      /\ piece.n \in 1 .. 2
  BY DEF FieldParts
<1>1. \A v : MatchesField(v, {piece}, min) <=> MatchesPart(v, piece, min)
  BY DEF MatchesField
<1>2. SUFFICES ASSUME NEW v PROVE v \in min .. 3 /\ MatchesPart(v, piece, min) <=> v \in Meant(piece, min, 3)
  BY <1>1
<1>3. CASE piece.form = "all"
  BY <1>3 DEF MatchesPart, Meant
<1>4. CASE piece.form = "range"
  BY <1>0, <1>4 DEF MatchesPart, Meant
<1>5. CASE piece.form = "value"
  BY <1>0, <1>5 DEF MatchesPart, Meant
<1>6. CASE piece.form = "allStep"
  <2>1. v \in Meant(piece, min, 3) <=> v \in min .. 3 /\ \E k \in 0 .. 3 : v = min + k * piece.n
    BY <1>6 DEF Meant
  <2>2. MatchesPart(v, piece, min) <=> (v - min) % piece.n = 0
    BY <1>6 DEF MatchesPart
  <2>3. ASSUME v \in min .. 3 PROVE min \in 0 .. 3 /\ v \in 0 .. 3 /\ v >= min
    BY <2>3
  <2> QED BY <1>0, <2>1, <2>2, <2>3, StepsAreCounted
<1>7. CASE piece.form = "rangeStep"
  <2>1. v \in Meant(piece, min, 3) <=>
          /\ v \in piece.a .. piece.b /\ \E k \in 0 .. piece.b : v = piece.a + k * piece.n
          /\ v \in min .. 3
    BY <1>7 DEF Meant
  <2>2. MatchesPart(v, piece, min) <=> v \in piece.a .. piece.b /\ (v - piece.a) % piece.n = 0
    BY <1>7 DEF MatchesPart
  <2>3. ASSUME v \in piece.a .. piece.b PROVE v \in 0 .. 3 /\ v >= piece.a /\ piece.b \in 0 .. 3
    BY <1>0, <2>3
  <2>4. ASSUME v \in piece.a .. piece.b
        PROVE  (\E k \in 0 .. piece.b : v = piece.a + k * piece.n) <=> (\E k \in 0 .. 3 : v = piece.a + k * piece.n)
    <3>1. ASSUME NEW k \in 0 .. 3, v = piece.a + k * piece.n PROVE k \in 0 .. piece.b
      <4>1. k * piece.n >= k
        BY <1>0
      <4>2. k * piece.n \in Nat
        BY <1>0
      <4> QED BY <1>0, <2>3, <2>4, <3>1, <4>1, <4>2
    <3>2. 0 .. piece.b \subseteq 0 .. 3
      BY <1>0
    <3> QED BY <3>1, <3>2
  <2> QED BY <1>0, <2>1, <2>2, <2>3, <2>4, StepsAreCounted
<1> QED
  BY <1>0, <1>3, <1>4, <1>5, <1>6, <1>7

-----------------------------------------------------------------------------
\* A trigger that ends well has run every schedule that was there all along, none
\* twice, and with its own data, whatever schedules and triggers come and go
\* while its handlers are awaited (Scheduler.triggerEvent and triggerManual); and
\* but for a value with a step a field matches what a crontab means by it.
THEOREM TriggersAreSafe == TriggerSpec => []TriggersSafe
<1>1. TriggerInv => TriggersSafe
  <2> SUFFICES ASSUME TriggerInv PROVE TriggersSafe
    OBVIOUS
  <2>1. ToSet(routes.ids) = {s \in ScheduleId : Listening(s)}
    BY DEF TriggerInv, Routed, Listening
  <2>2. ASSUME NEW c \in TriggerCall
        PROVE  /\ calls[c].at = "done" /\ calls[c].kind = "event" => calls[c].stable \subseteq ToSet(calls[c].ran)
               /\ IsInjective(calls[c].ran)
               /\ calls[c].got \notin {NoTrigger, c} => calls[c].overtaken
    BY InjectiveIsDistinct DEF TriggerInv, Walks, Hands
  <2> QED
    BY <2>1, <2>2, FieldsAreMatched DEF TriggersSafe
<1> QED
  BY <1>1, TriggersStart, TriggerSteps, PTL DEF TriggerSpec

-----------------------------------------------------------------------------
(***************************************************************************)
(* The index of diagrams: histories are in the order of their records, no  *)
(* longer than is kept, and every file on disk is in one of them or is at  *)
(* work.                                                                   *)
(***************************************************************************)
Ascending(h) == \A i, j \in DOMAIN h : i < j => h[i] < h[j]

\* The last n of a history, or all of it: where they begin.
From(h, n) == IF Len(h) <= n THEN 1 ELSE Len(h) - n + 1

LEMMA HistoryFacts ==
  ASSUME NEW h \in Seq(Record)
  PROVE  /\ Len(h) \in Nat /\ DOMAIN h = 1 .. Len(h) /\ \A i \in 1 .. Len(h) : h[i] \in Record /\ h[i] \in Nat
         /\ ToSet(h) = {h[i] : i \in 1 .. Len(h)}
<1>1. Len(h) \in Nat /\ DOMAIN h = 1 .. Len(h)
  BY LenProperties
<1>2. \A i \in 1 .. Len(h) : h[i] \in Record
  BY ElementOfSeq
<1>3. ToSet(h) = {h[i] : i \in 1 .. Len(h)}
  BY <1>1 DEF ToSet
<1> QED
  BY <1>1, <1>2, <1>3 DEF Record

LEMMA LastOfHistory ==
  ASSUME NEW h \in Seq(Record), NEW n \in Nat, Ascending(h)
  PROVE  /\ LastOf(h, n) \in Seq(Record) /\ Ascending(LastOf(h, n)) /\ Len(LastOf(h, n)) <= n
         /\ ToSet(LastOf(h, n)) = {h[k] : k \in From(h, n) .. Len(h)}
         /\ ToSet(LastOf(h, n)) \subseteq ToSet(h)
<1>1. /\ Len(h) \in Nat /\ DOMAIN h = 1 .. Len(h) /\ \A i \in 1 .. Len(h) : h[i] \in Record /\ h[i] \in Nat
      /\ ToSet(h) = {h[i] : i \in 1 .. Len(h)}
  BY HistoryFacts
<1>2. CASE Len(h) <= n
  BY <1>1, <1>2 DEF LastOf, From
<1>3. CASE Len(h) > n
  <2> DEFINE m == Len(h) - n + 1
             t == SubSeq(h, m, Len(h))
  <2>1. m \in 1 .. Len(h) + 1 /\ Len(h) \in 0 .. Len(h) /\ m <= Len(h) + 1 /\ m \in Nat /\ Len(h) - m + 1 = n
    BY <1>1, <1>3
  <2>2. LastOf(h, n) = t /\ From(h, n) = m
    BY <1>1, <1>3 DEF LastOf, From
  <2> HIDE DEF m
  <2>3. /\ t \in Seq(Record) /\ Len(t) = n /\ ToSet(t) = {h[k] : k \in m .. Len(h)}
    BY <2>1, SliceDistinct
  <2>4. \A i \in 1 .. n : t[i] = h[m + i - 1] /\ m + i - 1 \in 1 .. Len(h)
    BY <1>1, <2>1
  <2>5. Ascending(t)
    <3> SUFFICES ASSUME NEW i \in 1 .. n, NEW j \in 1 .. n, i < j PROVE t[i] < t[j]
      BY <2>3, HistoryFacts DEF Ascending
    <3>1. m + i - 1 < m + j - 1
      BY <2>1
    <3> QED
      BY <1>1, <2>4, <3>1 DEF Ascending
  <2>6. ToSet(t) \subseteq ToSet(h)
    BY <1>1, <2>1, <2>3
  <2> QED
    BY <2>2, <2>3, <2>5, <2>6
<1> QED
  BY <1>1, <1>2, <1>3

\* The n greatest records of a finite set are n at most, and n = 0 has none.
Greatest(S, n) == {r \in S : Cardinality({q \in S : q > r}) < n}

LEMMA GreatestAreFew ==
  ASSUME NEW S \in SUBSET Record, NEW n \in Nat
  PROVE  /\ IsFiniteSet(S) /\ Greatest(S, n) \subseteq S /\ Cardinality(Greatest(S, n)) <= n
         /\ \A r \in Greatest(S, n) : \A q \in S : q > r => q \in Greatest(S, n)
         /\ \A r \in S : n > 0 /\ (\A q \in S : q <= r) => r \in Greatest(S, n)
<1> DEFINE K == Greatest(S, n)
           above(r) == {q \in S : q > r}
<1>1. IsFiniteSet(S) /\ \A r \in S : r \in Nat
  <2>1. IsFiniteSet(1 .. MaxRecords)
    BY DiagramIndexAssumption, FS_Interval
  <2>2. IsFiniteSet(Record) /\ \A r \in Record : r \in Nat
    BY <2>1 DEF Record
  <2> QED
    BY <2>2, FS_Subset
<1>2. \A r \in S : IsFiniteSet(above(r)) /\ Cardinality(above(r)) \in Nat
  BY <1>1, FS_Subset, FS_CardinalityType
<1>3. K \subseteq S /\ IsFiniteSet(K)
  BY <1>1, FS_Subset DEF Greatest
<1>4. ASSUME NEW r \in K, NEW q \in S, q > r PROVE q \in K
  <2>1. above(q) \subseteq above(r) /\ r \in S
    BY <1>1, <1>3, <1>4
  <2>2. Cardinality(above(q)) <= Cardinality(above(r))
    BY <1>2, <2>1, FS_Subset
  <2>3. Cardinality(above(r)) < n
    BY DEF Greatest
  <2>4. Cardinality(above(q)) < n
    <3>1. Cardinality(above(q)) \in Nat /\ Cardinality(above(r)) \in Nat
      BY <1>2, <2>1
    <3> HIDE DEF above
    <3> QED
      BY <2>2, <2>3, <3>1
  <2> QED
    BY <2>4 DEF Greatest
<1>5. ASSUME NEW r \in S, n > 0, \A q \in S : q <= r PROVE r \in K
  <2>1. above(r) = {}
    BY <1>1, <1>5
  <2> QED
    BY <1>5, <2>1, FS_EmptySet DEF Greatest
<1>6. Cardinality(K) <= n
  <2>1. CASE K = {}
    BY <2>1, FS_EmptySet
  <2>2. CASE K # {}
    <3> DEFINE m == Min(K)
    <3>1. m \in K /\ \A r \in K : m <= r
      BY <1>1, <1>3, <2>2, MinFacts
    <3>2. m \in S /\ m \in Nat /\ K \ {m} \subseteq above(m)
      BY <1>1, <1>3, <3>1
    <3>3. Cardinality(K \ {m}) <= Cardinality(above(m))
      BY <1>2, <3>2, FS_Subset
    <3>4. Cardinality(K \ {m}) = Cardinality(K) - 1 /\ Cardinality(K) \in Nat
      BY <1>3, <3>1, FS_RemoveElement, FS_CardinalityType
    <3>5. Cardinality(above(m)) < n /\ Cardinality(above(m)) \in Nat
      BY <1>2, <3>1, <3>2 DEF Greatest
    <3> QED
      BY <3>3, <3>4, <3>5
  <2> QED
    BY <2>1, <2>2
<1> QED
  BY <1>1, <1>3, <1>4, <1>5, <1>6

\* Of an ascending history, what belongs to the greatest are the last ones.
LEMMA GreatestAreLast ==
  ASSUME NEW h \in Seq(Record), Ascending(h), NEW K,
         \A r \in K \cap ToSet(h) : \A q \in ToSet(h) : q > r => q \in K
  PROVE  LET t == LastOf(h, Cardinality(ToSet(h) \cap K))
         IN t \in Seq(Record) /\ Ascending(t) /\ ToSet(t) = ToSet(h) \cap K /\ Len(t) <= Len(h)
<1> DEFINE Size == Len(h)
           A == ToSet(h) \cap K
           I == {i \in 1 .. Size : h[i] \in K}
           n == Cardinality(A)
<1>1. /\ Size \in Nat /\ DOMAIN h = 1 .. Size /\ \A i \in 1 .. Size : h[i] \in Record /\ h[i] \in Nat
      /\ ToSet(h) = {h[i] : i \in 1 .. Size}
  BY HistoryFacts
<1>2. \A i, j \in 1 .. Size : i # j => h[i] # h[j]
  BY <1>1 DEF Ascending
<1>3. IsFiniteSet(1 .. Size) /\ Cardinality(1 .. Size) = Size
  <2>1. IsFiniteSet(1 .. Size) /\ Cardinality(1 .. Size) = IF 1 > Size THEN 0 ELSE Size - 1 + 1
    BY <1>1, FS_Interval
  <2> HIDE DEF Size
  <2> QED
    BY <1>1, <2>1
<1>4. IsFiniteSet(I) /\ Cardinality(I) <= Size
  BY <1>1, <1>3, FS_Subset
<1>5. IsFiniteSet(A) /\ n = Cardinality(I)
  <2> DEFINE f == [i \in I |-> h[i]]
  <2>1. f \in [I -> A]
    BY <1>1
  <2>2. \A i, j \in I : f[i] = f[j] => i = j
    BY <1>2
  <2>3. \A a \in A : \E i \in I : f[i] = a
    BY <1>1
  <2>4. f \in Bijection(I, A)
    BY <2>1, <2>2, <2>3, Fun_IsBij
  <2> QED
    BY <1>4, <2>4, FS_Bijection DEF ExistsBijection
<1>6. n \in Nat /\ n <= Size
  BY <1>4, <1>5, FS_CardinalityType
<1>7. I = From(h, n) .. Size
  <2>1. CASE I = {}
    <3>1. n = 0
      BY <1>5, <2>1, FS_EmptySet
    <3>2. From(h, n) = Size + 1
      BY <1>1, <3>1 DEF From
    <3>3. From(h, n) .. Size = {}
      <4>1. (Size + 1) .. Size = {}
        BY <1>1
      <4> QED
        BY <3>2, <4>1
    <3> QED
      BY <2>1, <3>3
  <2>2. CASE I # {}
    <3> DEFINE m == Min(I)
    <3>1. m \in I /\ \A i \in I : m <= i
      <4>1. I \in SUBSET Nat
        OBVIOUS
      <4> QED
        BY <2>2, <4>1, MinFacts
    <3>2. m \in 1 .. Size /\ h[m] \in K \cap ToSet(h)
      BY <1>1, <3>1
    <3> HIDE DEF m
    <3>3. ASSUME NEW i \in 1 .. Size, i > m PROVE i \in I
      <4>1. h[i] > h[m] /\ h[i] \in ToSet(h)
        BY <1>1, <3>2, <3>3 DEF Ascending
      <4> QED
        BY <3>2, <4>1
    <3>4. I = m .. Size
      BY <3>1, <3>2, <3>3
    <3>5. n = Size - m + 1
      <4>1. Cardinality(m .. Size) = IF m > Size THEN 0 ELSE Size - m + 1
        BY <1>1, <3>2, FS_Interval
      <4>2. n = Cardinality(m .. Size)
        <5> HIDE DEF I, Size, n
        <5> QED
          BY <1>5, <3>4
      <4>3. ~(m > Size)
        BY <1>1, <3>2
      <4> QED
        BY <4>1, <4>2, <4>3
    <3>6. From(h, n) = m
      BY <1>1, <3>2, <3>5 DEF From
    <3> QED
      BY <3>4, <3>6
  <2> QED
    BY <2>1, <2>2
<1> HIDE DEF n
<1>8. /\ LastOf(h, n) \in Seq(Record) /\ Ascending(LastOf(h, n)) /\ Len(LastOf(h, n)) <= n
      /\ ToSet(LastOf(h, n)) = {h[k] : k \in From(h, n) .. Size}
  BY <1>6, LastOfHistory
<1>9. {h[k] : k \in I} = A
  BY <1>1
<1> HIDE DEF I, A
<1>10. ToSet(LastOf(h, n)) = A /\ Len(LastOf(h, n)) <= Size
  BY <1>1, <1>6, <1>7, <1>8, <1>9, HistoryFacts
<1> QED
  BY <1>8, <1>10 DEF n, A

-----------------------------------------------------------------------------
\* What every index is like, on disk or about to be written.
Orderly(index) ==
  /\ index \in Histories
  /\ \A o \in Source : Ascending(index[o]) /\ Len(index[o]) <= MaxHistory
  /\ Cardinality(Listed(index)) <= MaxArtifacts
  /\ \A r \in Listed(index) : r <= recordCount

\* While no process has met another, one at most is at work, and the files are
\* those of the index that is, or is about to be.
FilesListed ==
  /\ \A p, q \in Engine : indexing[p].on /\ indexing[q].on => p = q
  /\ \A p \in Engine : indexing[p].on => recordFiles = Listed(indexing[p].index)
  /\ (\A p \in Engine : ~indexing[p].on) => recordFiles = Listed(indexFile)

DiagramInv ==
  /\ recordCount \in 0 .. MaxRecords
  /\ indexing \in [Engine -> [on : BOOLEAN, index : Histories]]
  /\ Orderly(indexFile) /\ \A p \in Engine : indexing[p].on => Orderly(indexing[p].index)
  /\ raced \in BOOLEAN /\ (~raced => FilesListed)

LEMMA ListedRecords ==
  ASSUME NEW index \in Histories
  PROVE  Listed(index) \in SUBSET Record /\ \A o \in Source : ToSet(index[o]) \subseteq Listed(index)
  BY RangeIn DEF Histories, Listed

LEMMA NoHistoryOrderly == NoHistory \in Histories /\ Listed(NoHistory) = {} /\ Orderly(NoHistory)
<1>1. <<>> \in Seq(Record) /\ ToSet(<<>>) = {} /\ Len(<<>>) = 0 /\ DOMAIN <<>> = {}
  BY EmptyDistinct
<1>2. NoHistory \in Histories /\ \A o \in Source : NoHistory[o] = <<>>
  BY <1>1 DEF NoHistory, Histories
<1>3. Listed(NoHistory) = {}
  BY <1>1, <1>2 DEF Listed
<1>4. Cardinality({}) = 0 /\ MaxHistory >= 0 /\ MaxArtifacts >= 0
  BY FS_EmptySet, DiagramIndexAssumption
<1>5. \A o \in Source : Ascending(NoHistory[o])
  BY <1>1, <1>2 DEF Ascending
<1> QED
  BY <1>1, <1>2, <1>3, <1>4, <1>5 DEF Orderly

\* A record later than all in the index is in it, and those that remain were there.
LEMMA UpdatedIndex ==
  ASSUME recordCount \in Nat, recordCount < MaxRecords, Orderly(indexFile), NEW o \in Source
  PROVE  LET J == Updated(indexFile, o, NewRecord)
         IN /\ J \in Histories
            /\ \A s \in Source : Ascending(J[s]) /\ Len(J[s]) <= MaxHistory
            /\ Cardinality(Listed(J)) <= MaxArtifacts
            /\ NewRecord \in Listed(J) /\ Listed(J) \subseteq Listed(indexFile) \cup {NewRecord}
<1> DEFINE N == NewRecord
           h == indexFile[o]
           a == Append(h, N)
           G == [indexFile EXCEPT ![o] = LastOf(a, MaxHistory)]
           K == Greatest(Listed(G), MaxArtifacts)
           J == Updated(indexFile, o, N)
<1>1. /\ N = recordCount + 1 /\ N \in Record /\ N \in Nat
      /\ MaxHistory \in Nat \ {0} /\ MaxArtifacts \in Nat \ {0}
  BY DiagramIndexAssumption DEF NewRecord, Record
<1>2. /\ indexFile \in Histories /\ h \in Seq(Record) /\ Ascending(h)
      /\ \A r \in Listed(indexFile) : r \in Nat /\ r < N
      /\ ToSet(h) \subseteq Listed(indexFile)
  BY <1>1, ListedRecords DEF Orderly, Histories, Record
<1>3. /\ Len(h) \in Nat /\ DOMAIN h = 1 .. Len(h) /\ \A i \in 1 .. Len(h) : h[i] \in Record /\ h[i] \in Nat
      /\ ToSet(h) = {h[i] : i \in 1 .. Len(h)}
  BY <1>2, HistoryFacts
<1>4. /\ a \in Seq(Record) /\ Len(a) = Len(h) + 1 /\ a[Len(h) + 1] = N
      /\ \A i \in 1 .. Len(h) : a[i] = h[i]
  BY <1>1, <1>2, <1>3, AppendProperties
<1>5. DOMAIN a = 1 .. Len(h) + 1 /\ ToSet(a) = ToSet(h) \cup {N}
  <2>1. DOMAIN a = 1 .. Len(h) + 1 /\ ToSet(a) = {a[i] : i \in 1 .. Len(h) + 1}
    BY <1>4, HistoryFacts
  <2>2. 1 .. Len(h) + 1 = (1 .. Len(h)) \cup {Len(h) + 1}
    BY <1>3
  <2> HIDE DEF h, a, N
  <2> QED
    BY <1>3, <1>4, <2>1, <2>2
<1> HIDE DEF N, a
<1>6. Ascending(a)
  <2> SUFFICES ASSUME NEW i \in 1 .. Len(h) + 1, NEW j \in 1 .. Len(h) + 1, i < j PROVE a[i] < a[j]
    BY <1>5 DEF Ascending
  <2>1. i \in 1 .. Len(h) /\ h[i] \in ToSet(h)
    BY <1>3
  <2>2. CASE j \in 1 .. Len(h)
    BY <1>2, <1>3, <1>4, <2>1, <2>2 DEF Ascending
  <2>3. CASE j = Len(h) + 1
    BY <1>2, <1>4, <2>1, <2>3
  <2> QED
    BY <1>3, <2>2, <2>3
<1> DEFINE t == LastOf(a, MaxHistory)
<1>7. /\ t \in Seq(Record) /\ Ascending(t) /\ Len(t) <= MaxHistory /\ ToSet(t) \subseteq ToSet(a) /\ N \in ToSet(t)
  <2>1. /\ t \in Seq(Record) /\ Ascending(t) /\ Len(t) <= MaxHistory /\ ToSet(t) \subseteq ToSet(a)
        /\ ToSet(t) = {a[k] : k \in From(a, MaxHistory) .. Len(a)}
    BY <1>1, <1>4, <1>6, LastOfHistory
  <2>2. Len(h) + 1 \in From(a, MaxHistory) .. Len(a)
    BY <1>1, <1>3, <1>4 DEF From
  <2> QED
    BY <1>4, <2>1, <2>2
<1> HIDE DEF t
<1>8. G = [indexFile EXCEPT ![o] = t]
  BY DEF t
<1>9. /\ G \in Histories /\ G[o] = t /\ \A s \in Source \ {o} : G[s] = indexFile[s]
  BY <1>2, <1>7, <1>8 DEF Histories
<1> HIDE DEF G
<1>10. /\ \A s \in Source : G[s] \in Seq(Record) /\ Ascending(G[s]) /\ Len(G[s]) <= MaxHistory
  BY <1>7, <1>9 DEF Orderly, Histories
<1>11. Listed(G) \in SUBSET Record /\ N \in Listed(G) /\ Listed(G) \subseteq Listed(indexFile) \cup {N}
  <2>1. \A s \in Source : ToSet(G[s]) \subseteq Listed(indexFile) \cup {N}
    BY <1>2, <1>5, <1>7, <1>9, ListedRecords
  <2> QED
    BY <1>7, <1>9, <2>1, ListedRecords DEF Listed
<1>12. /\ IsFiniteSet(Listed(G)) /\ K \subseteq Listed(G) /\ Cardinality(K) <= MaxArtifacts
       /\ \A r \in K : \A q \in Listed(G) : q > r => q \in K
       /\ N \in K
  <2>1. \A q \in Listed(G) : q <= N
    BY <1>1, <1>2, <1>11
  <2>2. MaxArtifacts \in Nat /\ MaxArtifacts > 0
    BY <1>1
  <2> QED
    BY <1>11, <2>1, <2>2, GreatestAreFew
<1>13. J = [s \in Source |-> LastOf(G[s], Cardinality(ToSet(G[s]) \cap K))]
  BY DEF Updated, Newest, Greatest, G, t, a, N
<1> HIDE DEF K, J
<1>14. ASSUME NEW s \in Source
       PROVE  J[s] \in Seq(Record) /\ Ascending(J[s]) /\ ToSet(J[s]) = ToSet(G[s]) \cap K /\ Len(J[s]) <= Len(G[s])
  <2>1. ToSet(G[s]) \subseteq Listed(G)
    BY <1>9, ListedRecords
  <2>2. \A r \in K \cap ToSet(G[s]) : \A q \in ToSet(G[s]) : q > r => q \in K
    BY <1>12, <2>1
  <2> QED
    BY <1>10, <1>13, <2>2, GreatestAreLast
<1>15. J \in Histories
  BY <1>13, <1>14 DEF Histories
<1>16. Listed(J) = Listed(G) \cap K
  BY <1>14 DEF Listed
<1>17. Cardinality(Listed(J)) <= MaxArtifacts /\ N \in Listed(J) /\ Listed(J) \subseteq Listed(indexFile) \cup {N}
  <2>1. Listed(J) = K
    BY <1>12, <1>16
  <2> QED
    BY <1>11, <1>12, <2>1
<1>18. \A s \in Source : Ascending(J[s]) /\ Len(J[s]) <= MaxHistory
  <2> SUFFICES ASSUME NEW s \in Source PROVE Ascending(J[s]) /\ Len(J[s]) <= MaxHistory
    OBVIOUS
  <2>1. Len(J[s]) \in Nat /\ Len(G[s]) \in Nat
    BY <1>10, <1>14, HistoryFacts
  <2> QED
    BY <1>1, <1>10, <1>14, <2>1
<1> QED
  BY <1>15, <1>17, <1>18 DEF J, N

LEMMA DiagramStarts == DiagramInit => DiagramInv
<1> SUFFICES ASSUME DiagramInit PROVE DiagramInv
  OBVIOUS
<1>1. indexing \in [Engine -> [on : BOOLEAN, index : Histories]] /\ \A p \in Engine : ~indexing[p].on
  BY NoHistoryOrderly DEF DiagramInit, NotIndexing
<1>2. recordCount \in 0 .. MaxRecords /\ raced = FALSE /\ indexFile = NoHistory /\ recordFiles = {}
  BY DiagramIndexAssumption DEF DiagramInit
<1>3. Orderly(indexFile) /\ Listed(indexFile) = {}
  BY <1>2, NoHistoryOrderly
<1>4. FilesListed
  BY <1>1, <1>2, <1>3 DEF FilesListed
<1> QED
  BY <1>1, <1>2, <1>3, <1>4 DEF DiagramInv

\* The count of records only grows.
LEMMA OrderlyLater ==
  ASSUME recordCount \in Nat, recordCount' \in Nat, recordCount' >= recordCount,
         NEW index, Orderly(index), indexFile' = index
  PROVE  Orderly(indexFile)'
<1>1. Listed(index) \in SUBSET Record /\ \A r \in Listed(index) : r \in Nat /\ r <= recordCount
  BY ListedRecords DEF Orderly, Record
<1>2. \A r \in Listed(index) : r <= recordCount'
  BY <1>1
<1> QED
  BY <1>2 DEF Orderly, Histories, Listed, Ascending

LEMMA AtWorkLater ==
  ASSUME recordCount \in Nat, recordCount' \in Nat, recordCount' >= recordCount,
         NEW p \in Engine, Orderly(indexing[p].index), indexing'[p] = indexing[p]
  PROVE  Orderly(indexing[p].index)'
<1>1. /\ Listed(indexing[p].index) \in SUBSET Record
      /\ \A r \in Listed(indexing[p].index) : r \in Nat /\ r <= recordCount
  BY ListedRecords DEF Orderly, Record
<1>2. \A r \in Listed(indexing[p].index) : r <= recordCount'
  BY <1>1
<1> QED
  BY <1>2 DEF Orderly, Histories, Listed, Ascending

LEMMA Persisted ==
  ASSUME DiagramInv, NEW p \in Engine, NEW o \in Source, Persists(p, o)
  PROVE  DiagramInv'
<1> DEFINE J == Updated(indexFile, o, NewRecord)
           w == [on |-> TRUE, index |-> J]
<1>1. /\ ~indexing[p].on /\ recordCount < MaxRecords /\ recordCount' = recordCount + 1
      /\ recordFiles' = (recordFiles \cup {NewRecord}) \ (Listed(indexFile) \ Listed(J))
      /\ indexing' = [indexing EXCEPT ![p] = w]
      /\ raced' = (raced \/ \E q \in Engine : indexing[q].on)
      /\ indexFile' = indexFile
  BY DEF Persists, NewRecord
<1>2. recordCount \in Nat /\ recordCount' \in 0 .. MaxRecords /\ recordCount' \in Nat /\ recordCount' >= recordCount
  BY <1>1, DiagramIndexAssumption DEF DiagramInv
<1>3. /\ J \in Histories
      /\ \A s \in Source : Ascending(J[s]) /\ Len(J[s]) <= MaxHistory
      /\ Cardinality(Listed(J)) <= MaxArtifacts
      /\ NewRecord \in Listed(J) /\ Listed(J) \subseteq Listed(indexFile) \cup {NewRecord}
  BY <1>1, <1>2, UpdatedIndex DEF DiagramInv
<1> HIDE DEF J
<1>4. w \in [on : BOOLEAN, index : Histories]
  BY <1>3
<1>5. /\ indexing' \in [Engine -> [on : BOOLEAN, index : Histories]] /\ indexing'[p] = w
      /\ \A q \in Engine \ {p} : indexing'[q] = indexing[q]
  BY <1>1, <1>4 DEF DiagramInv
<1>6. \A r \in Listed(indexFile) : r \in Nat /\ r <= recordCount
  BY ListedRecords DEF DiagramInv, Orderly, Record
<1>7. Orderly(indexing[p].index)'
  <2>1. indexing'[p].index = J
    BY <1>5
  <2>2. \A r \in Listed(J) : r <= recordCount'
    BY <1>1, <1>2, <1>3, <1>6 DEF NewRecord
  <2> QED
    BY <1>3, <2>1, <2>2 DEF Orderly, Histories, Listed, Ascending
<1>8. \A q \in Engine : indexing'[q].on => Orderly(indexing[q].index)'
  BY <1>2, <1>5, <1>7, AtWorkLater DEF DiagramInv
<1>9. Orderly(indexFile)'
  BY <1>1, <1>2, OrderlyLater DEF DiagramInv
<1>10. ASSUME ~raced' PROVE FilesListed'
  <2>1. ~raced /\ (\A q \in Engine : ~indexing[q].on) /\ recordFiles = Listed(indexFile)
    BY <1>1, <1>10 DEF DiagramInv, FilesListed
  <2>2. recordFiles' = Listed(J)
    BY <1>1, <1>3, <2>1
  <2>3. /\ indexing'[p].on /\ Listed(indexing'[p].index) = Listed(J)
        /\ \A q \in Engine \ {p} : ~indexing'[q].on
    BY <1>5, <2>1
  <2>4. /\ \A q, z \in Engine : indexing'[q].on /\ indexing'[z].on => q = z
        /\ \A q \in Engine : indexing'[q].on => recordFiles' = Listed(indexing'[q].index)
    BY <2>2, <2>3
  <2> QED
    BY <2>3, <2>4 DEF FilesListed, Listed
<1> QED
  BY <1>1, <1>2, <1>5, <1>8, <1>9, <1>10 DEF DiagramInv

LEMMA WroteIndex ==
  ASSUME DiagramInv, NEW p \in Engine, WritesIndex(p)
  PROVE  DiagramInv'
<1>1. /\ indexing[p].on /\ indexFile' = indexing[p].index /\ indexing' = [indexing EXCEPT ![p] = NotIndexing]
      /\ recordFiles' = recordFiles /\ recordCount' = recordCount /\ raced' = raced
  BY DEF WritesIndex
<1>2. recordCount \in Nat /\ recordCount' \in Nat /\ recordCount' >= recordCount
  BY <1>1, DiagramIndexAssumption DEF DiagramInv
<1>3. /\ indexing' \in [Engine -> [on : BOOLEAN, index : Histories]] /\ ~indexing'[p].on
      /\ \A q \in Engine \ {p} : indexing'[q] = indexing[q]
  BY <1>1, NoHistoryOrderly DEF DiagramInv, NotIndexing
<1>4. Orderly(indexFile)'
  BY <1>1, <1>2, OrderlyLater DEF DiagramInv
<1>5. \A q \in Engine : indexing'[q].on => Orderly(indexing[q].index)'
  BY <1>2, <1>3, AtWorkLater DEF DiagramInv
<1>6. ASSUME ~raced' PROVE FilesListed'
  <2>1. /\ recordFiles' = Listed(indexFile') /\ \A q \in Engine : ~indexing'[q].on
    BY <1>1, <1>3, <1>6 DEF DiagramInv, FilesListed
  <2> QED
    BY <2>1 DEF FilesListed, Listed
<1> QED
  BY <1>1, <1>3, <1>4, <1>5, <1>6 DEF DiagramInv

LEMMA DiedIndexing ==
  ASSUME DiagramInv, NEW p \in Engine, EngineDies(p)
  PROVE  DiagramInv'
<1>1. raced' = TRUE /\ recordCount \in Nat
  BY DiagramIndexAssumption DEF EngineDies, DiagramInv
<1>2. CASE recordCount < MaxRecords /\ recordCount' = NewRecord /\ UNCHANGED <<indexFile, indexing>>
  <2>1. recordCount' \in 0 .. MaxRecords /\ recordCount' \in Nat /\ recordCount' >= recordCount
    BY <1>1, <1>2, DiagramIndexAssumption DEF NewRecord
  <2>2. Orderly(indexFile)' /\ \A q \in Engine : indexing'[q].on => Orderly(indexing[q].index)'
    BY <1>1, <1>2, <2>1, OrderlyLater, AtWorkLater DEF DiagramInv
  <2> QED
    BY <1>1, <1>2, <2>1, <2>2 DEF DiagramInv
<1>3. CASE /\ indexing' = [indexing EXCEPT ![p] = NotIndexing] /\ indexFile' \in {indexFile, NoHistory}
           /\ recordCount' = recordCount
  <2>1. /\ indexing' \in [Engine -> [on : BOOLEAN, index : Histories]] /\ ~indexing'[p].on
        /\ \A q \in Engine \ {p} : indexing'[q] = indexing[q]
    BY <1>3, NoHistoryOrderly DEF DiagramInv, NotIndexing
  <2>2. Orderly(indexFile)'
    BY <1>1, <1>3, NoHistoryOrderly, OrderlyLater DEF DiagramInv
  <2>3. \A q \in Engine : indexing'[q].on => Orderly(indexing[q].index)'
    BY <1>1, <1>3, <2>1, AtWorkLater DEF DiagramInv
  <2> QED
    BY <1>1, <1>3, <2>1, <2>2, <2>3 DEF DiagramInv
<1>4. \/ recordCount < MaxRecords /\ recordCount' = NewRecord /\ UNCHANGED <<indexFile, indexing>>
      \/ /\ indexing' = [indexing EXCEPT ![p] = NotIndexing] /\ indexFile' \in {indexFile, NoHistory}
         /\ recordCount' = recordCount
  BY DEF EngineDies
<1> QED
  BY <1>2, <1>3, <1>4

LEMMA DiagramSteps == DiagramInv /\ [DiagramNext]_diagramVars => DiagramInv'
<1> SUFFICES ASSUME DiagramInv, [DiagramNext]_diagramVars PROVE DiagramInv'
  OBVIOUS
<1>1. CASE UNCHANGED diagramVars
  <2>1. UNCHANGED <<recordFiles, indexFile, indexing, recordCount, raced>>
    BY <1>1 DEF diagramVars
  <2>2. Orderly(indexFile)' /\ FilesListed' = FilesListed
    BY <2>1 DEF DiagramInv, Orderly, FilesListed
  <2>3. \A p \in Engine : indexing'[p].on => Orderly(indexing[p].index)'
    BY <2>1 DEF DiagramInv, Orderly
  <2> QED
    BY <2>1, <2>2, <2>3 DEF DiagramInv
<1>2. CASE DiagramNext
  <2>1. PICK p \in Engine : (\E o \in Source : Persists(p, o)) \/ WritesIndex(p) \/ EngineDies(p)
    BY <1>2 DEF DiagramNext
  <2>2. ASSUME NEW o \in Source, Persists(p, o) PROVE DiagramInv'
    BY <2>2, Persisted
  <2>3. CASE WritesIndex(p)
    BY <2>3, WroteIndex
  <2>4. CASE EngineDies(p)
    BY <2>4, DiedIndexing
  <2> QED
    BY <2>1, <2>2, <2>3, <2>4
<1> QED
  BY <1>1, <1>2

\* The index keeps its limits and each history its order, whatever processes write
\* it and die, and while one at a time is at work the files are those it lists
\* (OrbytEngine.updateWorkflowDiagramIndex).
THEOREM DiagramsAreSafe == DiagramSpec => []DiagramSafe
<1>1. DiagramInv => DiagramSafe
  BY DEF DiagramInv, Orderly, FilesListed, Ascending,
         DiagramSafe, IndexIsBounded, HistoriesAreOrdered, IndexIsTrue
<1> QED
  BY <1>1, DiagramStarts, DiagramSteps, PTL DEF DiagramSpec

-----------------------------------------------------------------------------
(***************************************************************************)
(* The cache of parsed files: a file that can be read holds the record of  *)
(* its own key, so that what is answered is what was asked for.            *)
(***************************************************************************)
\* A file that can be read is the record of its own key.
CacheInv ==
  /\ cacheFile \in [CacheKeys -> CacheKeys \cup {Missing, TornFile}]
  /\ \A k \in CacheKeys : Whole(k) => cacheFile[k] = k
  /\ lookup.given = lookup.asked

LEMMA CacheStarts == CacheInit => CacheInv
  BY DEF CacheInit, CacheInv, Whole

LEMMA CacheSteps == CacheInv /\ [CacheNext]_cacheVars => CacheInv'
<1> SUFFICES ASSUME CacheInv, [CacheNext]_cacheVars PROVE CacheInv'
  OBVIOUS
<1>1. ASSUME NEW k \in CacheKeys, NEW c \in {k, Missing, TornFile},
             cacheFile' = [cacheFile EXCEPT ![k] = c], lookup'.given = lookup'.asked
      PROVE  CacheInv'
  BY <1>1 DEF CacheInv, Whole
<1>2. ASSUME NEW source \in CacheSource, NEW content \in Content
      PROVE  CacheKey(source, content) \in CacheKeys /\ CacheKey(source, content) = <<source, content>>
  BY DEF CacheKey, CacheKeys
<1>3. ASSUME NEW source \in CacheSource, NEW content \in Content, Hit(source, content) PROVE CacheInv'
  BY <1>2, <1>3 DEF Hit, CacheInv, Whole
<1>4. ASSUME NEW source \in CacheSource, NEW content \in Content, NEW saved \in BOOLEAN,
             Miss(source, content, saved)
      PROVE  CacheInv'
  <2>1. lookup'.given = lookup'.asked
    BY <1>4 DEF Miss
  <2>2. \/ cacheFile' = cacheFile
        \/ cacheFile' = [cacheFile EXCEPT ![CacheKey(source, content)] = CacheKey(source, content)]
    BY <1>2, <1>4 DEF Miss
  <2>3. CASE cacheFile' = cacheFile
    BY <2>1, <2>3 DEF CacheInv, Whole
  <2> QED
    BY <1>1, <1>2, <2>1, <2>2, <2>3
<1>5. ASSUME NEW source \in CacheSource, NEW content \in Content,
             DiesSaving(source, content) \/ Delete(source, content)
      PROVE  CacheInv'
  <2>1. lookup' = lookup /\ lookup'.given = lookup'.asked
    BY <1>5 DEF DiesSaving, Delete, CacheInv
  <2>2. \/ cacheFile' = [cacheFile EXCEPT ![CacheKey(source, content)] = TornFile]
        \/ cacheFile' = [cacheFile EXCEPT ![CacheKey(source, content)] = Missing]
    BY <1>5 DEF DiesSaving, Delete
  <2> QED
    BY <1>1, <1>2, <2>1, <2>2
<1>6. CASE Clear
  BY <1>6 DEF Clear, CacheInv, Whole
<1>7. CASE UNCHANGED cacheVars
  BY <1>7 DEF cacheVars, CacheInv, Whole
<1> QED
  BY <1>3, <1>4, <1>5, <1>6, <1>7 DEF CacheNext

\* What a cache gives is what the content parses to, whatever processes share its
\* directory, delete and die while they write (WorkflowParseCache and
\* AdapterMetadataCache).
THEOREM CachesAreSafe == CacheSpec => []CacheSafe
<1>1. CacheInv => CacheSafe
  <2> SUFFICES ASSUME CacheInv PROVE CacheSafe
    OBVIOUS
  <2>1. \A k \in CacheKeys : CacheKey(k[1], k[2]) = k
    BY DEF CacheKey, CacheKeys
  <2>2. \A r \in ListedKeys : cacheFile[CacheKey(r[1], r[2])] = r
    BY <2>1 DEF ListedKeys, CacheInv
  <2>3. \A k, l \in CacheKeys : Whole(k) /\ Whole(l) /\ k # l => cacheFile[k] # cacheFile[l]
    BY DEF CacheInv
  <2> QED
    BY <2>2, <2>3 DEF CacheSafe, CacheInv
<1> QED
  BY <1>1, CacheStarts, CacheSteps, PTL DEF CacheSpec

-----------------------------------------------------------------------------
(***************************************************************************)
(* The log: whichever operations share the logger, the file of a run is    *)
(* its own and grows by the latest event, and until another process writes *)
(* the shared file every event is in one of the files.                     *)
(***************************************************************************)
LogEntries == [task : Task, context : Task \cup {NoContext}, call : LogCalls]

LogTyped ==
  /\ shared \in Task \cup {NoContext}
  /\ phase \in [Task -> {"idle", "loaded", "scoped", "over"}]
  /\ logged \in Seq(LogEntries) /\ recent \in Seq(Nat)
  /\ files \in [Task \cup {EngineFile} -> Seq(Nat)] /\ foreign \in Seq(Nat)
  /\ overwritten \in BOOLEAN

\* File g of a run, out of what is logged.
OwnFile(t, g, all) ==
  /\ \A k \in 1 .. Len(g) : g[k] \in 1 .. Len(all) /\ all[g[k]].task = t /\ all[g[k]].context = t
  /\ \A k, l \in 1 .. Len(g) : k < l => g[k] < g[l]

EndOfLog(r, n) ==
  /\ Len(r) <= n /\ \A k \in 1 .. Len(r) : r[k] = n - Len(r) + k
  /\ MaxLogHistory > 0 => Len(r) <= MaxLogHistory

LogInv ==
  /\ LogTyped
  /\ \A t \in Task : OwnFile(t, files[t], logged)
  /\ ~overwritten => \A i \in 1 .. Len(logged) : \E f \in Task \cup {EngineFile} : i \in ToSet(files[f])
  /\ EndOfLog(recent, Len(logged))

LEMMA LogStarts == LogInit => LogInv
<1> SUFFICES ASSUME LogInit PROVE LogInv
  OBVIOUS
<1>1. /\ <<>> \in Seq(LogEntries) /\ <<>> \in Seq(Nat) /\ Nothing \in Seq(Nat)
  BY EngineLogAssumption DEF Nothing
<1>2. files \in [Task \cup {EngineFile} -> Seq(Nat)] /\ \A t \in Task : files[t] = <<>>
  BY <1>1 DEF LogInit
<1>3. LogTyped
  BY <1>1, <1>2 DEF LogInit, LogTyped
<1> QED
  BY <1>2, <1>3, EngineLogAssumption DEF LogInit, LogInv, OwnFile, EndOfLog

\* One more event in the history.
LEMMA HistoryMoves ==
  ASSUME NEW r \in Seq(Nat), NEW n \in Nat, EndOfLog(r, n)
  PROVE  Trimmed(Append(r, n + 1)) \in Seq(Nat) /\ EndOfLog(Trimmed(Append(r, n + 1)), n + 1)
<1> DEFINE a == Append(r, n + 1)  z == Tail(a)
<1>1. /\ a \in Seq(Nat) /\ Len(r) \in Nat /\ Len(a) = Len(r) + 1
      /\ a[Len(r) + 1] = n + 1 /\ \A k \in 1 .. Len(r) : a[k] = r[k]
  OBVIOUS
<1> HIDE DEF a
<1>2. Len(a) <= n + 1 /\ \A k \in 1 .. Len(a) : a[k] = n + 1 - Len(a) + k
  <2>1. ASSUME NEW k \in 1 .. Len(a) PROVE a[k] = n + 1 - Len(a) + k
    <3>1. CASE k = Len(r) + 1
      BY <1>1, <3>1
    <3>2. CASE k # Len(r) + 1
      <4>1. k \in 1 .. Len(r) /\ r[k] = n - Len(r) + k
        BY <1>1, <3>2 DEF EndOfLog
      <4> QED
        BY <1>1, <4>1
    <3> QED
      BY <3>1, <3>2
  <2> QED
    BY <1>1, <2>1 DEF EndOfLog
<1>3. z \in Seq(Nat) /\ Len(z) = Len(r) /\ \A k \in 1 .. Len(z) : z[k] = a[k + 1]
  <2>1. a # <<>>
    BY <1>1
  <2> QED
    BY <1>1, <2>1
<1> HIDE DEF z
<1>4. ASSUME MaxLogHistory > 0, Len(a) > MaxLogHistory
      PROVE  Trimmed(a) \in Seq(Nat) /\ EndOfLog(Trimmed(a), n + 1)
  <2>1. Trimmed(a) = z
    BY <1>4 DEF Trimmed, z
  <2>2. \A k \in 1 .. Len(z) : z[k] = n + 1 - Len(z) + k
    BY <1>1, <1>2, <1>3
  <2> QED
    <3>1. Len(z) <= n + 1 /\ (MaxLogHistory > 0 => Len(z) <= MaxLogHistory)
      BY <1>1, <1>3, EngineLogAssumption DEF EndOfLog
    <3>2. EndOfLog(z, n + 1)
      BY <2>2, <3>1 DEF EndOfLog
    <3> QED
      BY <1>3, <2>1, <3>2
<1>5. ASSUME ~(MaxLogHistory > 0 /\ Len(a) > MaxLogHistory)
      PROVE  Trimmed(a) \in Seq(Nat) /\ EndOfLog(Trimmed(a), n + 1)
  <2>1. Trimmed(a) = a
    BY <1>5 DEF Trimmed
  <2> QED
    <3>1. MaxLogHistory > 0 => Len(a) <= MaxLogHistory
      BY <1>1, <1>5, EngineLogAssumption
    <3>2. EndOfLog(a, n + 1)
      BY <1>2, <3>1 DEF EndOfLog
    <3> QED
      BY <1>1, <2>1, <3>2
<1> QED
  BY <1>4, <1>5 DEF a

\* One more event in the log, and at the end of its own file.
LEMMA OwnFileGrows ==
  ASSUME NEW all \in Seq(LogEntries), NEW e \in LogEntries, NEW t, NEW g \in Seq(Nat), OwnFile(t, g, all)
  PROVE  /\ OwnFile(t, g, Append(all, e))
         /\ e.task = t /\ e.context = t => OwnFile(t, Append(g, Len(all) + 1), Append(all, e))
<1> DEFINE more == Append(all, e)  h == Append(g, Len(all) + 1)
<1>1. /\ more \in Seq(LogEntries) /\ Len(more) = Len(all) + 1 /\ Len(all) \in Nat
      /\ more[Len(all) + 1] = e /\ \A i \in 1 .. Len(all) : more[i] = all[i]
  OBVIOUS
<1>2. /\ Len(h) = Len(g) + 1 /\ Len(g) \in Nat /\ h[Len(g) + 1] = Len(all) + 1
      /\ \A k \in 1 .. Len(g) : h[k] = g[k] /\ g[k] \in Nat
  OBVIOUS
<1> HIDE DEF more, h
<1>3. OwnFile(t, g, more)
  BY <1>1, <1>2 DEF OwnFile
<1>4. ASSUME e.task = t, e.context = t
      PROVE  OwnFile(t, h, more)
  <2>1. ASSUME NEW k \in 1 .. Len(h)
        PROVE  h[k] \in 1 .. Len(more) /\ more[h[k]].task = t /\ more[h[k]].context = t
    <3>1. CASE k = Len(g) + 1
      BY <1>1, <1>2, <1>4, <3>1
    <3>2. CASE k # Len(g) + 1
      BY <1>1, <1>2, <3>2 DEF OwnFile
    <3> QED
      BY <3>1, <3>2
  <2>2. ASSUME NEW k \in 1 .. Len(h), NEW l \in 1 .. Len(h), k < l
        PROVE  h[k] < h[l]
    <3>1. k \in 1 .. Len(g) /\ h[k] = g[k] /\ g[k] \in 1 .. Len(all)
      BY <1>2, <2>2 DEF OwnFile
    <3>2. CASE l = Len(g) + 1
      BY <1>1, <1>2, <3>1, <3>2
    <3>3. CASE l # Len(g) + 1
      <4>1. l \in 1 .. Len(g) /\ h[l] = g[l]
        BY <1>2, <3>3
      <4> QED
        BY <2>2, <3>1, <4>1 DEF OwnFile
    <3> QED
      BY <3>2, <3>3
  <2> QED
    BY <2>1, <2>2 DEF OwnFile
<1> QED
  BY <1>3, <1>4 DEF more, h

LEMMA LoggedEvent ==
  ASSUME LogInv, NEW t \in Task, NEW c \in LogCalls, Logs(t, c)
  PROVE  LogInv'
<1> DEFINE n == Len(logged)  e == [task |-> t, context |-> ContextOf(t), call |-> c]  g == LogFileOf(t)
<1>1. /\ logged \in Seq(LogEntries) /\ n \in Nat /\ files \in [Task \cup {EngineFile} -> Seq(Nat)]
      /\ recent \in Seq(Nat) /\ EndOfLog(recent, n)
  BY DEF LogInv, LogTyped
<1>2. e \in LogEntries
  BY DEF LogEntries, ContextOf, LogInv, LogTyped
<1>3. /\ logged' = Append(logged, e) /\ Len(logged') = n + 1 /\ recent' = Trimmed(Append(recent, n + 1))
      /\ files' = [files EXCEPT ![g] = Append(@, n + 1)]
      /\ UNCHANGED <<shared, phase, foreign, overwritten>>
  BY <1>1, <1>2 DEF Logs
<1>4. /\ g \in Task \cup {EngineFile}
      /\ g \in Task => g = t /\ e.task = t /\ e.context = t
  BY EngineLogAssumption DEF LogFileOf, ContextOf, EngineFile
<1>5. files' \in [Task \cup {EngineFile} -> Seq(Nat)]
  BY <1>1, <1>3, <1>4
<1>6. /\ \A f \in Task \cup {EngineFile} : f # g => files'[f] = files[f]
      /\ files'[g] = Append(files[g], n + 1) /\ files[g] \in Seq(Nat)
  BY <1>1, <1>3, <1>4
<1>7. ASSUME NEW u \in Task PROVE OwnFile(u, files'[u], logged')
  <2>1. OwnFile(u, files[u], logged) /\ files[u] \in Seq(Nat)
    BY <1>1 DEF LogInv
  <2>2. CASE u = g
    BY <1>1, <1>2, <1>3, <1>4, <1>6, <2>1, <2>2, OwnFileGrows
  <2>3. CASE u # g
    BY <1>1, <1>2, <1>3, <1>6, <2>1, <2>3, OwnFileGrows
  <2> QED
    BY <2>2, <2>3
<1>8. ASSUME ~overwritten', NEW i \in 1 .. Len(logged')
      PROVE  \E f \in Task \cup {EngineFile} : i \in ToSet(files'[f])
  <2>1. ToSet(files'[g]) = ToSet(files[g]) \cup {n + 1}
    BY <1>6, AppendElements
  <2>2. CASE i = n + 1
    BY <1>4, <2>1, <2>2
  <2>3. CASE i # n + 1
    <3>1. i \in 1 .. n /\ ~overwritten
      BY <1>1, <1>3, <1>8, <2>3
    <3>2. PICK f \in Task \cup {EngineFile} : i \in ToSet(files[f])
      BY <3>1 DEF LogInv
    <3>3. i \in ToSet(files'[f])
      BY <1>6, <2>1, <3>2
    <3> QED
      BY <3>3
  <2> QED
    BY <2>2, <2>3
<1>9. recent' \in Seq(Nat) /\ EndOfLog(recent', Len(logged'))
  BY <1>1, <1>3, HistoryMoves
<1>10. logged' \in Seq(LogEntries)
  BY <1>1, <1>2, <1>3
<1>11. LogTyped'
  BY <1>3, <1>5, <1>9, <1>10 DEF LogInv, LogTyped
<1> QED
  BY <1>7, <1>8, <1>9, <1>11 DEF LogInv

LEMMA LogSteps == LogInv /\ [LogNext]_logVars => LogInv'
<1> SUFFICES ASSUME LogInv, [LogNext]_logVars PROVE LogInv'
  OBVIOUS
<1>1. CASE UNCHANGED <<logged, recent, files, foreign, overwritten>> /\ LogTyped'
  BY <1>1 DEF LogInv
<1>2. ASSUME NEW t \in Task, Loads(t) PROVE LogInv'
  BY <1>1, <1>2 DEF Loads, LogInv, LogTyped
<1>3. ASSUME NEW t \in Task, EntersScope(t) PROVE LogInv'
  BY <1>1, <1>3 DEF EntersScope, LogInv, LogTyped
<1>4. ASSUME NEW t \in Task, IsOver(t) PROVE LogInv'
  BY <1>1, <1>4 DEF IsOver, LogInv, LogTyped
<1>5. ASSUME NEW t \in Task, NEW c \in CallsOf(t), Logs(t, c) PROVE LogInv'
  <2>1. c \in LogCalls
    BY DEF CallsOf, LogCalls
  <2> QED
    BY <1>5, <2>1, LoggedEvent
<1>6. CASE ClearHistory
  BY <1>6, EngineLogAssumption DEF ClearHistory, LogInv, LogTyped, EndOfLog
<1>7. CASE OtherReads
  BY <1>7 DEF OtherReads, LogInv, LogTyped
<1>8. ASSUME NEW g \in Seq(Nat), files' = [files EXCEPT ![EngineFile] = g], foreign' = Nothing, overwritten',
             UNCHANGED <<shared, phase, logged, recent>>
      PROVE  LogInv'
  <2>1. /\ files' \in [Task \cup {EngineFile} -> Seq(Nat)]
        /\ \A t \in Task : files'[t] = files[t]
    BY <1>8, EngineLogAssumption DEF LogInv, LogTyped, EngineFile
  <2>2. foreign' \in Seq(Nat) /\ overwritten' \in BOOLEAN
    BY <1>8, EngineLogAssumption DEF Nothing
  <2> QED
    BY <1>8, <2>1, <2>2 DEF LogInv, LogTyped
<1>9. CASE OtherWrites
  <2>1. Append(foreign, Foreign) \in Seq(Nat)
    BY DEF LogInv, LogTyped, Foreign
  <2> QED
    BY <1>8, <1>9, <2>1 DEF OtherWrites
<1>10. CASE OtherTears
  <2>1. <<>> \in Seq(Nat)
    OBVIOUS
  <2> QED
    BY <1>8, <1>10, <2>1 DEF OtherTears
<1>11. CASE UNCHANGED logVars
  BY <1>11 DEF logVars, LogInv, LogTyped
<1> QED
  BY <1>2, <1>3, <1>4, <1>5, <1>6, <1>7, <1>9, <1>10, <1>11 DEF LogNext

\* Every event of the history is in one category.
LEMMA CategoriesAddUp ==
  ASSUME LogInv
  PROVE  /\ ByCategory.runtime + ByCategory.analysis + ByCategory.system = Len(recent)
         /\ \A k \in DOMAIN ByCategory : FilterHistory(k, "step.failed") # {} => k = "runtime"
<1> DEFINE A == FilterHistory("runtime", "any")
           B == FilterHistory("analysis", "any")
           C == FilterHistory("system", "any")
           callOf(k) == logged[recent[k]].call
<1>1. DOMAIN recent = 1 .. Len(recent) /\ Len(recent) \in Nat
  BY DEF LogInv, LogTyped
<1>2. ASSUME NEW k \in DOMAIN recent PROVE callOf(k) \in LogCalls
  <2>1. recent[k] \in 1 .. Len(logged)
    BY <1>1 DEF LogInv, LogTyped, EndOfLog
  <2> QED
    <3>1. logged[recent[k]] \in LogEntries
      BY <2>1 DEF LogInv, LogTyped
    <3> QED
      BY <3>1 DEF LogEntries
<1>3. \A c \in LogCalls : /\ CategoryOf(c) \in {"runtime", "analysis", "system"}
                          /\ EventTypeOf(c) = "step.failed" => CategoryOf(c) = "runtime"
  BY DEF LogCalls, CategoryOf, EventTypeOf, TypeOfLevel
<1>4. /\ A \cup B \cup C = 1 .. Len(recent) /\ A \cap B = {} /\ (A \cup B) \cap C = {}
      /\ A \subseteq 1 .. Len(recent) /\ B \subseteq 1 .. Len(recent) /\ C \subseteq 1 .. Len(recent)
  BY <1>1, <1>2, <1>3 DEF FilterHistory
<1>5. IsFiniteSet(1 .. Len(recent)) /\ Cardinality(1 .. Len(recent)) = Len(recent)
  <2>1. IsFiniteSet(1 .. Len(recent))
        /\ Cardinality(1 .. Len(recent)) = IF 1 > Len(recent) THEN 0 ELSE Len(recent) - 1 + 1
    BY <1>1, FS_Interval
  <2> QED
    BY <1>1, <2>1
<1>6. IsFiniteSet(A) /\ IsFiniteSet(B) /\ IsFiniteSet(C)
  BY <1>4, <1>5, FS_Subset
<1>7. IsFiniteSet(A \cup B) /\ Cardinality(A \cup B) = Cardinality(A) + Cardinality(B)
  BY <1>4, <1>6, ApartCardinality
<1>8. Cardinality(A \cup B \cup C) = Cardinality(A \cup B) + Cardinality(C)
  BY <1>4, <1>6, <1>7, ApartCardinality
<1>9. /\ ByCategory.runtime = Cardinality(A) /\ ByCategory.analysis = Cardinality(B)
      /\ ByCategory.system = Cardinality(C) /\ DOMAIN ByCategory = {"system", "analysis", "runtime", "security"}
  BY DEF ByCategory
<1>10. ASSUME NEW k \in DOMAIN ByCategory, FilterHistory(k, "step.failed") # {} PROVE k = "runtime"
  BY <1>2, <1>3, <1>9, <1>10 DEF FilterHistory
<1> QED
  BY <1>4, <1>5, <1>7, <1>8, <1>9, <1>10

LEMMA LevelsDoGrow == LevelsGrow
<1> SUFFICES ASSUME NEW d \in 0 .. 3, NEW w \in 0 .. 2, NEW e \in 0 .. 2
             PROVE  Severity[MeasuredLevel(d, w, e)] <= Severity[MeasuredLevel(d + 1, w, e)]
  BY DEF LevelsGrow
<1>1. Severity["info"] = 1 /\ Severity["warn"] = 2 /\ Severity["error"] = 3
  BY DEF Severity
<1>2. \A n \in Nat : MeasuredLevel(n, w, e) = IF e # 0 /\ n > e THEN "error"
                                              ELSE IF w # 0 /\ n > w THEN "warn" ELSE "info"
  BY DEF MeasuredLevel
<1> QED
  BY <1>1, <1>2

\* For any operations, any level and any limit of the history: the file of a run
\* holds its own events, in order; none is lost but by another process; and the
\* history is the end of the log.
THEOREM LogsAreSound == LogSpec => []LogSound
<1>1. LogInv => LogsAreKept
  <2> SUFFICES ASSUME LogInv PROVE LogsAreKept
    OBVIOUS
  <2>1. \A t \in Task : files[t] \in Seq(Nat) /\ DOMAIN files[t] = 1 .. Len(files[t])
    BY DEF LogInv, LogTyped
  <2>2. ASSUME NEW t \in Task, NEW i \in ToSet(files[t])
        PROVE  i \in 1 .. Len(logged) /\ logged[i].task = t /\ logged[i].context = t
    <3>1. PICK k \in 1 .. Len(files[t]) : i = files[t][k]
      BY <2>1 DEF ToSet
    <3> QED
      BY <3>1 DEF LogInv, OwnFile
  <2>3. \A t \in Task : \A k, l \in DOMAIN files[t] : k < l => files[t][k] < files[t][l]
    BY <2>1 DEF LogInv, OwnFile
  <2>4. DOMAIN logged = 1 .. Len(logged) /\ DOMAIN files = Task \cup {EngineFile} /\ overwritten \in BOOLEAN
    BY DEF LogInv, LogTyped
  <2>5. ASSUME NEW i \in DOMAIN logged
        PROVE  /\ logged[i].context # logged[i].task => i \notin UNION {ToSet(files[t]) : t \in Task}
               /\ \E f \in DOMAIN files : i \in ToSet(files[f]) \/ overwritten
    BY <2>2, <2>4 DEF LogInv
  <2>6. recent # <<>> => recent = [k \in 1 .. Len(recent) |-> Len(logged) - Len(recent) + k]
    <3>1. recent = [k \in 1 .. Len(recent) |-> recent[k]]
      BY DEF LogInv, LogTyped
    <3> QED
      BY <3>1 DEF LogInv, EndOfLog
  <2> QED
    BY <2>2, <2>3, <2>5, <2>6, CategoriesAddUp DEF LogsAreKept, LogInv, EndOfLog
<1>2. LogInv => LogSound
  BY <1>1, LevelsDoGrow DEF LogSound
<1> QED
  BY <1>2, LogStarts, LogSteps, PTL DEF LogSpec
=============================================================================
