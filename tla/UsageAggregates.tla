--------------------------- MODULE UsageAggregates ---------------------------
(***************************************************************************)
(* OrbytEngine's usage aggregates: record appends every event to the       *)
(* archive file of its day, an aggregation counts the days from the        *)
(* watermark on into daily.json and moves the watermark, a rebuild counts  *)
(* chosen days again, the rollups add the days up into weekly.json and     *)
(* monthly.json, and the billing service fetches buckets behind a cursor.  *)
(* A bucket is a day and a key (workspace and product), with its count of  *)
(* events; the other counters go with it.                                  *)
(*                                                                         *)
(* Each call is synchronous, but no file is locked: other processes append *)
(* and make calls of their own in the middle of it, and it may die between *)
(* any two files or in one of them.                                        *)
(***************************************************************************)
EXTENDS Integers, SequencesExt

CONSTANTS LastDay,        \* the days are 1 .. LastDay
          Key,            \* the pairs of workspace and product, as numbers
          WeekLength,     \* the days of a week
          MonthLength,    \* and of a month
          FetchLimit,     \* a limit of the incremental fetch
          Aggregator,     \* the processes that may aggregate at once, as numbers
          MaxEvents,      \* bound: the events recorded
          MaxMishaps      \* bound: calls begun while another is at work, crashes, and
                          \* files that can not be read

ASSUME UsageAggregatesAssumption ==
  /\ LastDay \in Nat \ {0} /\ IsFiniteSet(Key) /\ Key \subseteq Nat
  /\ WeekLength \in Nat \ {0} /\ MonthLength \in Nat \ {0}
  /\ Aggregator \subseteq Nat /\ FetchLimit \in Nat \ {0} /\ MaxEvents \in Nat /\ MaxMishaps \in Nat

Day == 1 .. LastDay
Bucket == Day \X Key
Counts == [Bucket -> 0 .. MaxEvents]
Empty == [b \in Bucket |-> 0]
Period == {"weekly", "monthly"}

VARIABLES
  archive,     \* archive[<<d, k>>]: the events in the file of day d
  dailyFile,   \* daily.json; a bucket that is not there counts 0
  watermark,   \* watermark.json: its day, or 0 when there is none
  rollupFile,  \* rollupFile[w]: weekly.json and monthly.json
  aggregators, \* aggregators[p]: what the call of process p does next
  cursor,      \* the lastPeriodStart of the billing service
  billed,      \* history: what the billing service has been given
  lacking,     \* history: the buckets that miss events which came too late, or
               \* that a fault or a call which others had overtaken has cost
  rolledUp,    \* history: rollupFile[w] is of daily.json as it is
  mishaps

usageVars == <<archive, dailyFile, watermark, rollupFile, aggregators, cursor, billed,
               lacking, rolledUp, mishaps>>

\* A call reads daily.json, counts (or chooses days and counts them), and writes
\* daily.json and the watermark; or it writes the two rollups.  The counts are
\* what it has read, or will write; it is stale when another has written
\* daily.json since.
Doing(next, counts, mark, stale) == [next |-> next, daily |-> counts, mark |-> mark, stale |-> stale]
Idle == Doing("none", Empty, 0, FALSE)

UsageTypeOK ==
  /\ archive \in Counts /\ dailyFile \in Counts /\ watermark \in 0 .. LastDay
  /\ rollupFile \in [Period -> Counts]
  /\ aggregators \in
       [Aggregator -> [next : {"none", "count", "choose", "daily", "rebuilt", "mark"} \cup Period,
                       daily : Counts, mark : 0 .. LastDay, stale : BOOLEAN]]
  /\ cursor \in 0 .. LastDay /\ billed \in Counts
  /\ lacking \subseteq Bucket /\ rolledUp \in [Period -> BOOLEAN]
  /\ mishaps \in 0 .. MaxMishaps

UsageInit ==
  /\ archive = Empty /\ dailyFile = Empty /\ watermark = 0
  /\ rollupFile = [w \in Period |-> Empty]
  /\ aggregators = [p \in Aggregator |-> Idle] /\ cursor = 0 /\ billed = Empty
  /\ lacking = {} /\ rolledUp = [w \in Period |-> TRUE] /\ mishaps = 0

-----------------------------------------------------------------------------
\* The day is behind the watermark, or the one that a call will write.
BehindMark(d) == d < watermark \/ \E p \in Aggregator : d < aggregators[p].mark

\* record appends an event of any day so far, be it the present one or an earlier
\* one (nothing else depends on which day it is).
Archive(d, k) ==
  /\ FoldFunctionOnSet(+, 0, archive, Bucket) < MaxEvents
  /\ archive' = [archive EXCEPT ![<<d, k>>] = @ + 1]
  /\ lacking' = IF BehindMark(d) THEN lacking \cup {<<d, k>>} ELSE lacking
  /\ UNCHANGED <<dailyFile, watermark, rollupFile, aggregators, cursor, billed, rolledUp,
                 mishaps>>

Archived == {d \in Day : \E k \in Key : archive[<<d, k>>] > 0}

WritesTheDaily(p) == aggregators[p].next \in {"daily", "rebuilt"}

\* A file that another process is writing may be read while it is empty.
DailyAsRead(p) == {dailyFile} \cup {Empty : q \in {q \in Aggregator \ {p} : WritesTheDaily(q)}}
MarkAsRead(p) ==
  {watermark} \cup {0 : q \in {q \in Aggregator \ {p} : aggregators[q].next = "mark"}}

\* runDailyUsageAggregation, rebuildDailyUsageAggregates (which returns if there
\* is nothing archived) and runUsagePeriodRollups all begin with daily.json.  As
\* processes remember nothing of a call, the first that is free makes the next one.
ReadsDaily(p) ==
  /\ aggregators[p].next = "none"
  /\ \A q \in Aggregator : q < p => aggregators[q].next # "none"
  /\ \E next \in {"count", "choose", "weekly"}, counts \in DailyAsRead(p) :
       /\ next = "choose" => Archived # {}
       /\ aggregators' = [aggregators EXCEPT ![p] = Doing(next, counts, 0, counts # dailyFile)]
  /\ mishaps' = IF \A q \in Aggregator : aggregators[q].next = "none" THEN mishaps ELSE mishaps + 1
  /\ mishaps' <= MaxMishaps
  /\ UNCHANGED <<archive, dailyFile, watermark, rollupFile, cursor, billed, lacking, rolledUp>>

\* The days of an aggregation, from the watermark on.
PendingDays_Beyond(mark) == {d \in Archived : mark = 0 \/ d > mark}
PendingDays(mark) == {d \in Archived : d >= mark}

\* The chosen buckets are counted again, less those of days whose file can not
\* be read; the others stay as they were read.
Recounted_Adds(counts, chosen, unreadable) ==
  [b \in Bucket |-> IF b \in chosen /\ b[1] \notin unreadable THEN counts[b] + archive[b]
                                                              ELSE counts[b]]

Recounted(counts, chosen, unreadable) ==
  [b \in Bucket |-> CASE b \in chosen /\ b[1] \notin unreadable -> archive[b]
                      [] b \in chosen /\ b[1] \in unreadable -> 0
                      [] OTHER -> counts[b]]

NewMark(mark, days) == IF days = {} THEN mark ELSE Max(days)

Unreadable(days) == IF mishaps < MaxMishaps THEN {{}} \cup {{d} : d \in days} ELSE {{}}

Counting(p, next, mark, chosen, unreadable) ==
  /\ aggregators' = [aggregators EXCEPT ![p] =
       Doing(next, Recounted(aggregators[p].daily, chosen, unreadable), mark, aggregators[p].stale)]
  /\ lacking' = lacking \cup {b \in chosen : b[1] \in unreadable}
  /\ mishaps' = mishaps + Cardinality(unreadable)
  /\ UNCHANGED <<archive, dailyFile, watermark, rollupFile, cursor, billed, rolledUp>>

CountsPending(p) ==
  /\ aggregators[p].next = "count"
  /\ \E mark \in MarkAsRead(p) : \E bad \in Unreadable(PendingDays(mark)) :
       Counting(p, "daily", NewMark(mark, PendingDays(mark) \ bad), PendingDays(mark) \X Key, bad)

\* The days of a range, of one key or of all.
CountsChosen(p, from, to, keys) ==
  LET days == Archived \cap from .. to
  IN /\ aggregators[p].next = "choose"
     /\ \E bad \in Unreadable(days) : Counting(p, "rebuilt", 0, days \X keys, bad)

\* Calls at work with what they have read of daily.json are behind it from now on.
Overtaken(p, call) ==
  [q \in Aggregator |->
     IF q = p THEN call
     ELSE IF aggregators[q].next \in {"none", "mark"} THEN aggregators[q]
     ELSE [aggregators[q] EXCEPT !.stale = TRUE]]

\* Only a stale call may take counts back.  What has all its events needs no excuse.
WritesDaily(p) ==
  LET call == aggregators[p]
  IN /\ WritesTheDaily(p)
     /\ dailyFile' = call.daily
     /\ aggregators' = Overtaken(p, IF call.next = "rebuilt" THEN Idle
                                    ELSE Doing("mark", Empty, call.mark, FALSE))
     /\ lacking' = {b \in Bucket : /\ call.daily[b] # archive[b]
                                   /\ b \in lacking \/ (call.stale /\ call.daily[b] < dailyFile[b])}
     /\ rolledUp' = [w \in Period |-> rolledUp[w] /\ call.daily = dailyFile]
     /\ UNCHANGED <<archive, watermark, rollupFile, cursor, billed, mishaps>>

WritesMark(p) ==
  /\ aggregators[p].next = "mark"
  /\ watermark' = aggregators[p].mark
  /\ aggregators' = [aggregators EXCEPT ![p] = Idle]
  /\ UNCHANGED <<archive, dailyFile, rollupFile, cursor, billed, lacking, rolledUp, mishaps>>

\* runUsagePeriodRollups, alone or after the aggregation in the pipeline.
PeriodStart(w, d) == LET n == IF w = "weekly" THEN WeekLength ELSE MonthLength
                     IN d - ((d - 1) % n)

RollUp(w, daily) ==
  [b \in Bucket |->
     MapThenSumSet(LAMBDA d : daily[<<d, b[2]>>], {d \in Day : PeriodStart(w, d) = b[1]})]

WritesRollup(p, w) ==
  /\ aggregators[p].next = w
  /\ rollupFile' = [rollupFile EXCEPT ![w] = RollUp(w, aggregators[p].daily)]
  /\ aggregators' = [aggregators EXCEPT ![p] = IF w = "weekly" THEN [@ EXCEPT !.next = "monthly"]
                                                               ELSE Idle]
  /\ rolledUp' = [rolledUp EXCEPT ![w] = ~aggregators[p].stale]
  /\ UNCHANGED <<archive, dailyFile, watermark, cursor, billed, lacking, mishaps>>

\* verifyUsageRollupReconciliation: the buckets that differ from a new rollup.
Mismatches(w) == LET expected == RollUp(w, dailyFile)
                 IN {b \in Bucket : rollupFile[w][b] # expected[b]}

\* getBillingUsageIncremental for daily buckets: the limit cuts the buckets
\* from the first day on, and then those up to the cursor are dropped.
Before(b, c) == b[1] < c[1] \/ (b[1] = c[1] /\ b[2] < c[2])
Present == {b \in Bucket : dailyFile[b] > 0}
FirstBuckets(limit) ==
  {b \in Present : Cardinality({c \in Present : Before(c, b)}) < limit}

Delivered_Inclusive(limit) == {b \in FirstBuckets(limit) : b[1] >= cursor}
Delivered(limit) == {b \in FirstBuckets(limit) : b[1] > cursor}

FetchIncremental(limit) ==
  LET buckets == Delivered(limit)
  IN /\ billed' = [b \in Bucket |-> IF b \in buckets /\ billed[b] + dailyFile[b] <= MaxEvents
                                    THEN billed[b] + dailyFile[b]
                                    ELSE IF b \in buckets THEN MaxEvents ELSE billed[b]]
     /\ cursor' = IF buckets = {} THEN cursor ELSE Max({b[1] : b \in buckets})
     /\ UNCHANGED <<archive, dailyFile, watermark, rollupFile, aggregators, lacking, rolledUp,
                    mishaps>>

\* A process dies at work, with the file it was writing torn or not.  A torn
\* file is read as one that is not there.
AggregatorDies(p) ==
  /\ aggregators[p].next # "none" /\ mishaps < MaxMishaps
  /\ mishaps' = mishaps + 1
  /\ UNCHANGED <<archive, cursor, billed>>
  /\ \/ /\ aggregators' = [aggregators EXCEPT ![p] = Idle]
        /\ UNCHANGED <<dailyFile, watermark, rollupFile, lacking, rolledUp>>
     \/ /\ WritesTheDaily(p)
        /\ dailyFile' = Empty
        /\ aggregators' = Overtaken(p, Idle)
        /\ UNCHANGED <<watermark, rollupFile>>
        /\ lacking' = {b \in Bucket : archive[b] # 0 /\ (b \in lacking \/ BehindMark(b[1])')}
        /\ rolledUp' = [w \in Period |-> rolledUp[w] /\ dailyFile = Empty]
     \/ /\ aggregators[p].next = "mark"
        /\ watermark' = 0
        /\ aggregators' = [aggregators EXCEPT ![p] = Idle]
        /\ UNCHANGED <<dailyFile, rollupFile, lacking, rolledUp>>
     \/ \E w \in Period :
          /\ aggregators[p].next = w
          /\ rollupFile' = [rollupFile EXCEPT ![w] = Empty]
          /\ aggregators' = [aggregators EXCEPT ![p] = Idle]
          /\ rolledUp' = [rolledUp EXCEPT ![w] = FALSE]
          /\ UNCHANGED <<dailyFile, watermark, lacking>>

UsageNext ==
  \/ \E d \in Day, k \in Key : Archive(d, k)
  \/ \E p \in Aggregator :
       \/ ReadsDaily(p) \/ CountsPending(p) \/ WritesDaily(p) \/ WritesMark(p) \/ AggregatorDies(p)
       \/ \E w \in Period : WritesRollup(p, w)
       \/ \E from, to \in Day, keys \in {Key} \cup {{k} : k \in Key} : CountsChosen(p, from, to, keys)
  \/ \E limit \in {FetchLimit, Cardinality(Bucket)} : FetchIncremental(limit)

UsageSpec == UsageInit /\ [][UsageNext]_usageVars

-----------------------------------------------------------------------------
(***************************************************************************)
(* Properties                                                              *)
(***************************************************************************)
\* No event is counted twice, however often a day is counted, and by however
\* many processes at once.
NothingOvercounted == \A b \in Bucket : dailyFile[b] <= archive[b]

\* A day behind the watermark, which will not be counted again, has all its
\* events.  It may miss those that came late, those that a fault has cost, and
\* those that a call took back which had read daily.json before another wrote it.
SettledDaysAreFull ==
  \A b \in Bucket : b[1] < watermark /\ b \notin lacking => dailyFile[b] = archive[b]

\* verifyUsageRollupReconciliation finds no mismatch, unless daily.json has
\* changed since it was read for the rollup, or the rollup was torn.
RollupsReconcile == \A w \in Period : rolledUp[w] => Mismatches(w) = {}

\* The billing service never gets more events than there are.
NothingOverbilled == \A b \in Bucket : billed[b] <= archive[b]

\* What is aggregated, rolled up and billed is what was archived: the
\* aggregation behind its watermark and the billing fetch behind its cursor.
AggregatesSafe ==
  NothingOvercounted /\ SettledDaysAreFull /\ RollupsReconcile /\ NothingOverbilled
=============================================================================
