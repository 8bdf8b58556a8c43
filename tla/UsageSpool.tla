----------------------------- MODULE UsageSpool -----------------------------
(***************************************************************************)
(* FileSpoolUsageCollector: usage events are files in pending/ until a     *)
(* flush has delivered them in a batch and moved them to sent/, or has     *)
(* failed often enough and moved them to failed/.  The directory is shared *)
(* by all the processes of a user, and each has its own isFlushing flag.   *)
(*                                                                         *)
(* A process is interrupted where flush awaits sendBatch; the file work    *)
(* after it runs to its end but for a crash.  Events are numbers, in the   *)
(* order of their file names.                                              *)
(***************************************************************************)
EXTENDS Naturals, SequencesExt

CONSTANTS Event,            \* the usage events
          Process,          \* the processes with a collector
          BatchSizes,       \* the values of batchSize to look at
          MaxRetryAttempts, \* maxRetryAttempts
          MaxSpoolCrashes   \* bound: the crashes of processes

ASSUME UsageSpoolAssumption ==
  /\ Event \subseteq Nat /\ IsFiniteSet(Event)
  /\ BatchSizes \subseteq Nat \ {0} /\ MaxRetryAttempts \in Nat \ {0}
  /\ MaxSpoolCrashes \in Nat

VARIABLES
  batchSize,  \* never changes
  pendingDir, \* pendingDir[e]: the retries in the file, Torn when it does not
              \* parse, Gone when it is not there
  sentDir, failedDir,
  rest,       \* rest[p]: the files that p's flush has listed and not come to
  envelopes,  \* envelopes[p]: the envelopes it is sending, each with its retries
  flushing,   \* flushing[p]: isFlushing
  recorded,   \* the events whose record has run
  delivered,  \* history: delivered[e], how often the transport got e, up to 2
              \* and up to 1 for a doubtful event
  pruned,     \* history: the events that were deleted for age undelivered
  doubtful,   \* history: the events that something went wrong with
  torn,       \* history: the events whose pending file a crash tore
  spoolCrashes

spoolVars == <<batchSize, pendingDir, sentDir, failedDir, rest, envelopes, flushing, recorded, delivered,
               pruned, doubtful, torn, spoolCrashes>>

Torn == MaxRetryAttempts + 1
Gone == MaxRetryAttempts + 2
Envelopes == [Event -> 0 .. Gone]
NoEnvelopes == [e \in Event |-> Gone]

SpoolTypeOK ==
  /\ batchSize \in BatchSizes
  /\ pendingDir \in Envelopes
  /\ sentDir \subseteq Event /\ failedDir \subseteq Event
  /\ rest \in [Process -> Seq(Event)] /\ envelopes \in [Process -> Envelopes]
  /\ flushing \in [Process -> BOOLEAN]
  /\ recorded \subseteq Event /\ doubtful \cup pruned \cup torn \subseteq Event
  /\ delivered \in [Event -> 0 .. 2] /\ spoolCrashes \in 0 .. MaxSpoolCrashes

SpoolInit ==
  /\ batchSize \in BatchSizes
  /\ pendingDir = NoEnvelopes /\ sentDir = {} /\ failedDir = {}
  /\ rest = [p \in Process |-> <<>>]
  /\ envelopes = [p \in Process |-> NoEnvelopes]
  /\ flushing = [p \in Process |-> FALSE]
  /\ recorded = {} /\ doubtful = {} /\ pruned = {} /\ torn = {}
  /\ delivered = [e \in Event |-> 0]
  /\ spoolCrashes = 0

-----------------------------------------------------------------------------
In(env) == {e \in Event : env[e] # Gone}
Readable(env) == {e \in Event : env[e] \notin {Gone, Torn}}

\* record, which writes one file, and never fails for its caller.
RecordEvent(e) ==
  /\ e \notin recorded
  /\ recorded' = recorded \cup {e}
  /\ pendingDir' = [pendingDir EXCEPT ![e] = 0]
  /\ UNCHANGED <<batchSize, sentDir, failedDir, rest, envelopes, flushing, delivered, pruned,
                 doubtful, torn, spoolCrashes>>

\* flush, by the timer or by close, lists the files.
FlushStarts(p) ==
  /\ ~flushing[p]
  /\ In(pendingDir) # {}
  /\ flushing' = [flushing EXCEPT ![p] = TRUE]
  /\ rest' = [rest EXCEPT ![p] = SetToSortSeq(In(pendingDir), <)]
  /\ UNCHANGED <<batchSize, pendingDir, sentDir, failedDir, envelopes, recorded, delivered, pruned,
                 doubtful, torn, spoolCrashes>>

Sending(p) == In(envelopes[p]) # {}

\* It reads the next chunk, less what has gone or does not parse, and sends
\* what is left, if anything is.
ReadsChunk(p) ==
  LET n == IF Len(rest[p]) < batchSize THEN Len(rest[p]) ELSE batchSize
      chunk == ToSet(SubSeq(rest[p], 1, n)) \cap Readable(pendingDir)
  IN /\ flushing[p] /\ ~Sending(p) /\ rest[p] # <<>>
     /\ rest' = [rest EXCEPT ![p] = SubSeq(@, n + 1, Len(@))]
     /\ envelopes' = [envelopes EXCEPT ![p] =
                    [e \in Event |-> IF e \in chunk THEN pendingDir[e] ELSE Gone]]
     /\ doubtful' = doubtful \cup UNION {chunk \cap In(envelopes[r]) : r \in Process}
     /\ UNCHANGED <<batchSize, pendingDir, sentDir, failedDir, flushing, recorded, delivered, pruned,
                    torn, spoolCrashes>>

FlushEnds(p) ==
  /\ flushing[p] /\ ~Sending(p) /\ rest[p] = <<>>
  /\ flushing' = [flushing EXCEPT ![p] = FALSE]
  /\ UNCHANGED <<batchSize, pendingDir, sentDir, failedDir, rest, envelopes, recorded, delivered, pruned,
                 doubtful, torn, spoolCrashes>>

Received(p, doubt) ==
  [e \in Event |->
     IF e \in In(envelopes[p]) /\ delivered[e] < (IF e \in doubt THEN 1 ELSE 2)
     THEN delivered[e] + 1 ELSE delivered[e]]

\* The service has got the batch of p, or has it or not.
Arrived(p) ==
  /\ doubtful' = doubtful \cup In(envelopes[p])
  /\ delivered' = Received(p, doubtful')

MayHaveArrived(p) == Arrived(p) \/ UNCHANGED <<delivered, doubtful>>

\* The files of the batch before e, in its order, and e with them.
UpTo(p, e) == {d \in In(envelopes[p]) : d <= e}

\* Mutant: what has been sent stays where it is.
Moves_Copies(p, S) ==
  /\ sentDir' = sentDir \cup S
  /\ UNCHANGED pendingDir

\* The sent files of S move out of pending.
Moves(p, S) ==
  /\ sentDir' = sentDir \cup S
  /\ pendingDir' = [e \in Event |-> IF e \in S THEN Gone ELSE pendingDir[e]]

\* sendBatch resolves and every file is still there.
Delivers(p) ==
  /\ Sending(p) /\ In(envelopes[p]) \subseteq In(pendingDir)
  /\ delivered' = Received(p, doubtful)
  /\ Moves(p, In(envelopes[p]))
  /\ envelopes' = [envelopes EXCEPT ![p] = NoEnvelopes]
  /\ UNCHANGED <<batchSize, failedDir, rest, flushing, recorded, pruned, doubtful, torn, spoolCrashes>>

\* The catch block, entered with the files in dir: every envelope of the batch
\* is charged a retry and written, to pending/ whether or not it was still
\* there, or to failed/ with its file unlinked.  An unlink that finds no file
\* throws, and the rest of the batch stays as it is.
Exhausted(p) == {e \in In(envelopes[p]) : envelopes[p][e] + 1 >= MaxRetryAttempts}

Charges_Uncounted(p, dir) ==
  /\ pendingDir' = [e \in Event |-> IF e \in In(envelopes[p]) THEN envelopes[p][e] ELSE dir[e]]
  /\ UNCHANGED failedDir

BatchFiles(p, S, dir) ==
  [e \in Event |-> CASE e \in S \cap Exhausted(p) -> Gone
                    [] e \in S \ Exhausted(p)    -> envelopes[p][e] + 1
                    [] OTHER                     -> dir[e]]

Charges(p, dir) ==
  LET gone == Exhausted(p) \ In(dir)
      charged == IF gone = {} THEN In(envelopes[p]) ELSE UpTo(p, Min(gone))
  IN /\ failedDir' = failedDir \cup (charged \cap Exhausted(p))
     /\ pendingDir' = BatchFiles(p, charged, dir)

FlushGivesUp(p) ==
  /\ rest' = [rest EXCEPT ![p] = <<>>]
  /\ envelopes' = [envelopes EXCEPT ![p] = NoEnvelopes]
  /\ UNCHANGED <<batchSize, flushing, recorded, pruned>>

\* sendBatch rejects; the billing service may have got the events all the same.
SendFails(p) ==
  /\ Sending(p)
  /\ MayHaveArrived(p)
  /\ Charges(p, pendingDir)
  /\ FlushGivesUp(p)
  /\ UNCHANGED <<batchSize, sentDir, torn, spoolCrashes>>

\* It resolves, and a rename finds that another process has moved the file:
\* the catch block brings back those that were renamed before.
RenameFails(p) ==
  LET gone == In(envelopes[p]) \ In(pendingDir)
      moved == {e \in In(envelopes[p]) : e < Min(gone)}
  IN /\ Sending(p) /\ gone # {}
     /\ Arrived(p)
     /\ sentDir' = sentDir \cup moved
     /\ Charges(p, [e \in Event |-> IF e \in moved THEN Gone ELSE pendingDir[e]])
     /\ FlushGivesUp(p)
     /\ UNCHANGED <<batchSize, torn, spoolCrashes>>

\* The retention policy: a file in sent/ or failed/ is old enough.
Prunes(e) ==
  /\ e \in sentDir \cup failedDir
  /\ sentDir' = sentDir \ {e} /\ failedDir' = failedDir \ {e}
  /\ pruned' = IF delivered[e] = 0 THEN pruned \cup {e} ELSE pruned
  /\ UNCHANGED <<batchSize, pendingDir, rest, envelopes, flushing, recorded, delivered, doubtful,
                 torn, spoolCrashes>>

-----------------------------------------------------------------------------
\* A process dies, and is started again.
ProcessDies(p) ==
  /\ spoolCrashes < MaxSpoolCrashes
  /\ spoolCrashes' = spoolCrashes + 1
  /\ flushing' = [flushing EXCEPT ![p] = FALSE]
  /\ rest' = [rest EXCEPT ![p] = <<>>]
  /\ envelopes' = [envelopes EXCEPT ![p] = NoEnvelopes]
  /\ UNCHANGED <<batchSize, pruned>>

\* While it sends, or while it moves the files of a batch that was delivered.
DiesSending(p) ==
  /\ flushing[p] /\ ProcessDies(p)
  /\ \/ /\ MayHaveArrived(p)
        /\ UNCHANGED <<pendingDir, sentDir>>
     \/ \E e \in In(envelopes[p]) \cap In(pendingDir) :
          /\ UpTo(p, e) \subseteq In(pendingDir)
          /\ Arrived(p)
          /\ Moves(p, UpTo(p, e))
  /\ UNCHANGED <<failedDir, recorded, torn>>

\* While it records e: the file that it leaves does not parse.
DiesRecording(p, e) ==
  /\ e \notin recorded /\ ProcessDies(p)
  /\ MayHaveArrived(p)
  /\ recorded' = recorded \cup {e} /\ torn' = torn \cup {e}
  /\ pendingDir' = [pendingDir EXCEPT ![e] = Torn]
  /\ UNCHANGED <<sentDir, failedDir>>

\* While it charges e in the catch block, which it came to because sendBatch
\* rejected or because the rename of a file found it gone, the earlier ones
\* moved.  The files of the batch before e are written.  That of e is
\* overwritten in place, and does not parse then; a file in failed/ is a new
\* one, and the one in pending/ is there until it is.
DiesCharging(p, e) ==
  LET before == UpTo(p, e) \ {e}
      missing == In(envelopes[p]) \ In(pendingDir)
  IN /\ e \in In(envelopes[p]) /\ ProcessDies(p)
     /\ \E moved \in {{}} \cup (IF missing = {} THEN {} ELSE {{d \in In(envelopes[p]) : d < Min(missing)}}) :
          LET dir == [d \in Event |-> IF d \in moved THEN Gone ELSE pendingDir[d]]
          IN /\ IF moved = {} THEN MayHaveArrived(p) ELSE Arrived(p)
             /\ before \cap Exhausted(p) \subseteq In(dir)
             /\ sentDir' = sentDir \cup moved
             /\ pendingDir' = IF e \in Exhausted(p) THEN BatchFiles(p, before, dir)
                              ELSE [BatchFiles(p, before, dir) EXCEPT ![e] = Torn]
     /\ torn' = torn \cup ({e} \ Exhausted(p))
     /\ \E written \in SUBSET ({e} \cap Exhausted(p)) :
          failedDir' = failedDir \cup (before \cap Exhausted(p)) \cup written
     /\ UNCHANGED recorded

-----------------------------------------------------------------------------
FlushStep(p) == FlushStarts(p) \/ ReadsChunk(p) \/ FlushEnds(p)
                  \/ Delivers(p) \/ SendFails(p) \/ RenameFails(p)

SpoolNext ==
  \/ \E e \in Event : RecordEvent(e) \/ Prunes(e)
  \/ \E p \in Process : \/ FlushStep(p) \/ DiesSending(p)
                        \/ \E e \in Event : DiesRecording(p, e) \/ DiesCharging(p, e)

\* The flush timers fire, and requests end: they have a timeout.  One process
\* that goes on is enough.
SpoolFairness == WF_spoolVars(\E p \in Process : FlushStep(p))

SpoolSpec == SpoolInit /\ [][SpoolNext]_spoolVars /\ SpoolFairness

-----------------------------------------------------------------------------
(***************************************************************************)
(* Properties                                                              *)
(***************************************************************************)
\* The recorded events that the billing service has not got and nobody will send
\* or can replay: no file of theirs in pending/ parses, none is in failed/, and
\* the retention policy took none.
Lost ==
  {e \in recorded : delivered[e] = 0 /\ e \notin Readable(pendingDir) \cup failedDir \cup pruned}

\* A crash loses one event at most, the one whose file in pending/ was being
\* written, and nothing else loses any.
EventsKept == Lost \subseteq torn /\ Cardinality(torn) <= spoolCrashes

\* An event is charged twice only if something went wrong with its batch: a
\* crash, a rejected request that had arrived, or two processes sending it.
ChargedOnce == \A e \in Event : delivered[e] > 1 => e \in doubtful

\* No event is lost and none is charged twice without a reason: record, flush,
\* the retention policy and crashes, over one directory.
SpoolSafe == EventsKept /\ ChargedOnce

\* Again and again nothing is left to be sent: every event is delivered or
\* given up, even if the service is down for ever and files are brought back;
\* only files that do not parse stay in pending/.
EventsSettle == []<>(Readable(pendingDir) = {})
=============================================================================
