------------------------------ MODULE FileQueue ------------------------------
(***************************************************************************)
(* FileDistributedJobQueue: the processes of one machine share a queue     *)
(* that is a JSON file, with no lock.  A call reads the file, changes what *)
(* it read and writes all of it back.  The write truncates the file first, *)
(* and a file that does not parse is read as an empty queue, so the model  *)
(* has three steps for a call (Read, Truncate, Fill) and keeps EmptyQueue  *)
(* in file as long as there is no whole document in it.                    *)
(*                                                                         *)
(* The operations on what was read are those of StepQueue: the code is     *)
(* that of the queue in memory, with arrays for the maps.  A process makes *)
(* its calls one at a time (the calls are synchronous code) and is the     *)
(* worker of that name.                                                    *)
(***************************************************************************)
EXTENDS StepQueue

CONSTANTS NoJob,       \* the job of a call about none
          MaxCrashes   \* bound: the crashes of processes

ASSUME FileQueueAssumption == NoJob \notin Job /\ MaxCrashes \in Nat

VARIABLES
  file,      \* what readState returns
  made,      \* the file exists
  stage,     \* stage[p]: where process p is in a call
  call,      \* call[p]: the call, [kind, job]
  base,      \* history: base[p] is what it read
  after,     \* after[p]: what it is to write
  crossed,   \* the processes inside a call whose file another one has written
  holds,     \* holds[p]: the job that p pulled and has not settled
  pushed,    \* the jobs whose push has ended
  overlap,   \* history: two calls have overlapped, or a crash has cut one
  crashes

vars == <<file, made, stage, call, base, after, crossed, holds, pushed, overlap, crashes>>

Busy == {p \in Worker : stage[p] \in {"read", "truncated"}}
NoCall == [kind |-> "none", job |-> NoJob]
Kinds == {"none", "push", "pull", "ack", "nack", "fail", "extend", "stats"}

\* What the fields hold; among it that no lease in the file, or in what a process
\* has read of it, ends later than leaseMs from now.
TypeOK ==
  /\ file \in QueueState /\ made \in BOOLEAN
  /\ stage \in [Worker -> {"closed", "creating", "idle", "read", "truncated"}]
  /\ call \in [Worker -> [kind : Kinds, job : Job \cup {NoJob}]]
  /\ base \in [Worker -> QueueState] /\ after \in [Worker -> QueueState]
  /\ crossed \subseteq Busy
  /\ holds \in [Worker -> Job \cup {NoJob}]
  /\ pushed \subseteq Job /\ overlap \in BOOLEAN /\ crashes \in 0 .. MaxCrashes

Init ==
  /\ file = EmptyQueue /\ made = FALSE
  /\ stage = [p \in Worker |-> "closed"]
  /\ call = [p \in Worker |-> NoCall]
  /\ base = [p \in Worker |-> EmptyQueue]
  /\ after = [p \in Worker |-> EmptyQueue]
  /\ crossed = {}
  /\ holds = [p \in Worker |-> NoJob]
  /\ pushed = {}
  /\ overlap = FALSE
  /\ crashes = 0

-----------------------------------------------------------------------------
\* What a call makes of a queue from which it has requeued the expired leases.
Effect(q, p, c) ==
  CASE c.kind = "push"   -> Enqueue(q, c.job)
    [] c.kind = "pull"   -> IF q.queued = <<>> THEN q ELSE Lease(q, p)
    [] c.kind = "ack"    -> Ack(q, c.job)
    [] c.kind = "nack"   -> Nack(q, c.job, TRUE)
    [] c.kind = "fail"   -> Nack(q, c.job, FALSE)
    [] c.kind = "extend" -> ExtendLease(q, c.job, p)
    [] c.kind = "stats"  -> q

\* The calls a process makes: it pushes jobs of its own run, pulls when it has
\* none in hand, extends and settles the one it has.
Calls(p) ==
  {[kind |-> "push", job |-> j] : j \in Job \ (pushed \cup {call[w].job : w \in Worker})}
    \cup {[kind |-> k, job |-> NoJob] : k \in {"stats"} \cup
            (IF holds[p] = NoJob THEN {"pull"} ELSE {})}
    \cup (IF holds[p] = NoJob THEN {}
          ELSE {[kind |-> k, job |-> holds[p]] : k \in {"ack", "nack", "fail", "extend"}})

\* What p holds once the call has returned.
HoldsAfter(q, p, c) ==
  CASE c.kind = "pull" -> IF q.queued = <<>> THEN NoJob ELSE Head(q.queued)
    [] c.kind \in {"ack", "nack", "fail"} -> NoJob
    [] OTHER -> holds[p]

\* base is history too: nothing is said of it once calls have overlapped.
Forgotten == [p \in Worker |-> EmptyQueue]

Read(p) ==
  /\ stage[p] = "idle"
  /\ stage' = [stage EXCEPT ![p] = "read"]
  /\ \E c \in Calls(p), q \in RequeueExpired(file) :
       /\ call' = [call EXCEPT ![p] = c]
       /\ after' = [after EXCEPT ![p] = Effect(q, p, c)]
       /\ holds' = [holds EXCEPT ![p] = HoldsAfter(q, p, c)]
  /\ overlap' = (overlap \/ Busy # {})
  /\ base' = IF overlap' THEN Forgotten ELSE [base EXCEPT ![p] = file]
  /\ UNCHANGED <<file, made, crossed, pushed, crashes>>

\* saveJson opens the file for writing.
Truncate(p) ==
  /\ stage[p] = "read"
  /\ stage' = [stage EXCEPT ![p] = "truncated"]
  /\ file' = EmptyQueue
  /\ UNCHANGED <<made, call, base, after, crossed, holds, pushed, overlap, crashes>>

\* It writes the document.  Over one that another process has written since
\* the truncation, the result may be a mix that does not parse.
Fill(p) ==
  /\ stage[p] = "truncated"
  /\ stage' = [stage EXCEPT ![p] = "idle"]
  /\ file' = after[p] \/ (p \in crossed /\ file' = EmptyQueue)
  /\ pushed' = IF call[p].kind = "push" THEN pushed \cup {call[p].job} ELSE pushed
  /\ call' = [call EXCEPT ![p] = NoCall]
  /\ crossed' = {w \in Busy \ {p} : stage[w] = "truncated"}
  /\ base' = [base EXCEPT ![p] = EmptyQueue] /\ after' = [after EXCEPT ![p] = EmptyQueue]
  /\ UNCHANGED <<made, holds, overlap, crashes>>

-----------------------------------------------------------------------------
\* The constructor: ensureState looks for the file and creates an empty one.
Open(p) ==
  /\ stage[p] = "closed"
  /\ stage' = [stage EXCEPT ![p] = IF made THEN "idle" ELSE "creating"]
  /\ UNCHANGED <<file, made, call, base, after, crossed, holds, pushed, overlap, crashes>>

Create(p) ==
  /\ stage[p] = "creating"
  /\ stage' = [stage EXCEPT ![p] = "idle"]
  /\ file' = EmptyQueue /\ made' = TRUE
  /\ overlap' = (overlap \/ made)
  /\ UNCHANGED <<call, base, after, crossed, holds, pushed, crashes>>

\* A process dies, wherever it is, and may be started again.
Crash(p) ==
  /\ crashes < MaxCrashes
  /\ stage[p] # "closed"
  /\ crashes' = crashes + 1
  /\ stage' = [stage EXCEPT ![p] = "closed"]
  /\ call' = [call EXCEPT ![p] = NoCall]
  /\ base' = [base EXCEPT ![p] = EmptyQueue] /\ after' = [after EXCEPT ![p] = EmptyQueue]
  /\ crossed' = crossed \ {p}
  /\ holds' = [holds EXCEPT ![p] = NoJob]
  /\ pushed' = IF call[p].kind = "push" THEN pushed \cup {call[p].job} ELSE pushed
  /\ overlap' = (overlap \/ stage[p] = "truncated")
  /\ UNCHANGED <<file, made>>

\* leaseExpiresAt is a time: leases age in the file and in what was read of it.
Tick ==
  /\ file' = Age(file)
  /\ base' = [p \in Worker |-> Age(base[p])]
  /\ after' = [p \in Worker |-> Age(after[p])]
  /\ <<file, base, after>>' # <<file, base, after>>
  /\ UNCHANGED <<made, stage, call, crossed, holds, pushed, overlap, crashes>>

Next ==
  \/ \E p \in Worker : Open(p) \/ Create(p) \/ Read(p) \/ Truncate(p) \/ Fill(p) \/ Crash(p)
  \/ Tick

Spec == Init /\ [][Next]_vars

-----------------------------------------------------------------------------
(***************************************************************************)
(* Properties                                                              *)
(***************************************************************************)
\* The queue as last written whole: a file in the middle of a call that has
\* not overlapped another still counts as what that call read.
Standing ==
  IF \E p \in Worker : stage[p] = "truncated"
  THEN base[CHOOSE p \in Worker : stage[p] = "truncated"] ELSE file

PhaseIn(q) ==
  [j \in Job |-> CASE j \in Leased(q)        -> "leased"
                   [] j \in q.completed      -> "done"
                   [] j \in q.failed         -> "dead"
                   [] j \in ToSet(q.queued)  -> "queued"
                   [] OTHER                  -> "new"]

L == INSTANCE JobLedger WITH phase <- PhaseIn(Standing), tries <- Standing.attempts,
                             AttemptLimit <- [j \in Job |-> Limit(j)]

\* As long as no two calls overlap and no crash cuts a write, the file is the
\* job ledger that the queue in memory implements, whatever the number of
\* processes and the leases that expire between their calls.
LedgerUntilOverlap == [][overlap' \/ L!Next]_<<L!ledgerVars, overlap>>

Lists(q, j) == Cardinality({i \in DOMAIN q.queued : q.queued[i] = j})
                 + Cardinality({S \in {1, 2, 3} : j \in <<Leased(q), q.completed, q.failed>>[S]})

\* However the calls overlap, what is read back is a queue: no job is twice in
\* it, and none waits or runs that has used up its attempts.
EveryReadIsAQueue ==
  \A j \in Job : /\ Lists(file, j) <= 1
                 /\ j \in Leased(file) \cup ToSet(file.queued) => file.attempts[j] < Limit(j)

\* As long as calls do not overlap, no job is left with a process that has
\* moved on, but one that died in the middle of it: the lease of that one ends.
LeaseHasRunner ==
  \A j \in Leased(Standing) :
    LET p == Standing.owner[j]
    IN overlap \/ holds[p] = j \/ p \in Busy \/ crashes > 0

\* A job whose push has returned is in the file until somebody rewrites it.
PushedIsKept == \A j \in pushed : Busy = {} => Lists(file, j) = 1
=============================================================================
