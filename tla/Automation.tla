----------------------------- MODULE Automation -----------------------------
(***************************************************************************)
(* automation/: a call raced with a timer, the delay between attempts and  *)
(* the wait for it, what a run does about a step that failed, and an       *)
(* operation tried again.  Each has variables of its own.  The             *)
(* delays of a configuration are in tens of seconds.                      *)
(***************************************************************************)
EXTENDS Integers, FiniteSets

CONSTANTS Bases,        \* the base delays to look at
          TriedSteps,   \* the steps of a run under a failure strategy
          MaxFailedRuns \* bound: the runs that share a strategy

ASSUME AutomationAssumption == Bases \subseteq Nat /\ TriedSteps \in Nat /\ MaxFailedRuns \in Nat

VARIABLES
  timed,   \* a call of TimeoutManager.executeWithResult
  backoff, \* a wait between attempts, of a retry configuration
  failing  \* runs under one FailureStrategy: the presets are shared objects

-----------------------------------------------------------------------------
(***************************************************************************)
(* TimeoutManager                                                          *)
(***************************************************************************)
Endings == {"resolved", "rejected", "threwTimeout"}

\* cleans: onTimeout is given, and not put off by cleanupBeforeThrow.
\* overdue: the operation had not ended when the outcome was decided.
TimedCalls ==
  [cleans : BOOLEAN, op : {"running"} \cup Endings,
   timer : {"armed", "cleaning", "fired", "cleared"},
   outcome : {"pending", "result", "timedOut", "error"}, overdue : BOOLEAN]

TimedInit ==
  \E c \in BOOLEAN :
    timed = [cleans |-> c, op |-> "running", timer |-> "armed", outcome |-> "pending", overdue |-> FALSE]

\* An operation may throw a TimeoutError of its own.
OutcomeOf(end) ==
  CASE end = "resolved" -> "result" [] end = "rejected" -> "error" [] end = "threwTimeout" -> "timedOut"

\* Mutant: the timer is left armed, and an ended call counts as running.
OperationEnds_Forgotten(end) ==
  /\ timed.op = "running"
  /\ timed' = [timed EXCEPT !.op = end]

OperationEnds(end) ==
  /\ timed.op = "running"
  /\ timed' = [timed EXCEPT !.op = end,
                            !.outcome = IF @ = "pending" THEN OutcomeOf(end) ELSE @,
                            !.timer = IF @ = "armed" THEN "cleared" ELSE @]

\* The race is lost only when the cleanup, which may fail, is over.
TimeIsUp ==
  /\ timed.timer = "armed"
  /\ IF timed.cleans
       THEN timed' = [timed EXCEPT !.timer = "cleaning"]
       ELSE timed' = [timed EXCEPT !.timer = "fired", !.outcome = "timedOut", !.overdue = timed.op = "running"]

CleanupEnds ==
  /\ timed.timer = "cleaning"
  /\ timed' = [timed EXCEPT !.timer = "fired",
                            !.outcome = IF @ = "pending" THEN "timedOut" ELSE @,
                            !.overdue = @ \/ timed.op = "running"]

TimedNext == TimeIsUp \/ CleanupEnds \/ \E end \in Endings : OperationEnds(end)

TimedSpec == TimedInit /\ [][TimedNext]_timed

-----------------------------------------------------------------------------
(***************************************************************************)
(* BackoffStrategy and BackoffTimer                                        *)
(***************************************************************************)
\* jitter is in tenths, and 1 unless it is given.
BackoffConfigs ==
  [type : {"fixed", "linear", "exponential"}, base : Bases, max : {3, 6}, multiplier : {1, 2}, jitter : {0, 1}]

BackoffRefused(c) == c.max < c.base

Least(a, b) == IF a < b THEN a ELSE b

\* The attempts looked at are the first three, and the one after.
UncappedDelay(c, attempt) ==
  LET power[k \in 0 .. 3] == IF k = 0 THEN 1 ELSE c.multiplier * power[k - 1]
  IN CASE c.type = "fixed" -> c.base
       [] c.type = "linear" -> c.base * attempt
       [] c.type = "exponential" -> c.base * power[attempt - 1]

CappedDelay_Uncapped(c, attempt) == UncappedDelay(c, attempt)

CappedDelay(c, attempt) == Least(UncappedDelay(c, attempt), c.max)

\* In seconds: the jitter is added to the capped delay.  The least and the
\* greatest of the delays, and the one between.
CalculateDelays(c, attempt) ==
  LET d == CappedDelay(c, attempt) IN {10 * d - d * c.jitter, 10 * d, 10 * d + d * c.jitter}

\* The backoff of a step: StepExecutor caps it at 30 s, and throws, before the
\* first attempt, when the base is greater; createRetryPolicyFromStep at 60 s.
\* A missing delay, or 0, is 1 s; here, 10.
StepBackoff(type, delay, cap) ==
  [type |-> type, base |-> IF delay = 0 THEN 1 ELSE delay, max |-> cap, multiplier |-> 2, jitter |-> 1]

\* The attempts of a step with a retry configuration, under a policy or none (0).
StepAttempts(max, policyMax) ==
  LET own == IF max = 0 THEN 1 ELSE max IN IF policyMax > own THEN policyMax ELSE own

BackoffInit ==
  \E c \in BackoffConfigs, n \in 1 .. 3 :
    backoff = [config |-> c, attempt |-> n, at |-> "called", delay |-> 0, aborted |-> FALSE]

\* waitCancellable; no delay is no wait, even when it is cancelled already.
WaitBegins ==
  /\ backoff.at = "called"
  /\ IF BackoffRefused(backoff.config)
       THEN backoff' = [backoff EXCEPT !.at = "refused"]
       ELSE \E d \in CalculateDelays(backoff.config, backoff.attempt) :
              backoff' = [backoff EXCEPT !.delay = d, !.at = CASE d = 0 -> "waited"
                                                               [] d # 0 /\ backoff.aborted -> "cancelled"
                                                               [] OTHER -> "waiting"]

WaitEnds == backoff.at = "waiting" /\ backoff' = [backoff EXCEPT !.at = "waited"]

SignalAborts_Unheard ==
  /\ ~backoff.aborted
  /\ backoff' = [backoff EXCEPT !.aborted = TRUE]

SignalAborts ==
  /\ ~backoff.aborted
  /\ backoff' = [backoff EXCEPT !.aborted = TRUE, !.at = IF @ = "waiting" THEN "cancelled" ELSE @]

BackoffNext == WaitBegins \/ WaitEnds \/ SignalAborts

BackoffSpec == BackoffInit /\ [][BackoffNext]_backoff

-----------------------------------------------------------------------------
(***************************************************************************)
(* FailureStrategy and FailureHandler                                      *)
(***************************************************************************)
NoFailureLimit == TriedSteps * MaxFailedRuns + 1

Strategies ==
  [type : {"abort", "continue", "skipDependent"}, partial : BOOLEAN,
   max : {1, 2, NoFailureLimit}, critical : {{}, {1}}]

FreshRun == [completed |-> 0, failed |-> {}, skipped |-> 0, skips |-> FALSE, why |-> "none", verdict |-> "none"]

\* carried: the failures that the strategy had counted when the run began.
FailInit ==
  \E s \in Strategies :
    failing = [strategy |-> s, count |-> 0, carried |-> 0, run |-> FreshRun, runs |-> 1]

FailedRun == failing.run
Step == FailedRun.completed + Cardinality(FailedRun.failed) + FailedRun.skipped + 1
StepNext == FailedRun.verdict = "none" /\ Step <= TriedSteps

\* decide, for the failure that is the count-th: why the run ends, if it does.
EndsFor_Early(s, step, count) ==
  CASE step \in s.critical -> "critical"
    [] step \notin s.critical /\ count >= s.max -> "max"
    [] OTHER -> IF s.type = "abort" THEN "abort" ELSE "none"

EndsFor(s, step, count) ==
  CASE step \in s.critical -> "critical"
    [] step \notin s.critical /\ count > s.max -> "max"
    [] OTHER -> IF s.type = "abort" THEN "abort" ELSE "none"

AbortStatus(s, why, completed) ==
  IF why # "critical" /\ s.partial /\ completed > 0 THEN "partial" ELSE "failed"

DetermineFinalStatus(total, completed, failed, allowPartial) ==
  CASE failed = 0 -> "success"
    [] failed > 0 /\ allowPartial /\ completed > 0 /\ 2 * completed >= total /\ 2 * failed < total -> "partial"
    [] OTHER -> "failed"

\* handle, and the workflow that does as it says.
StepFails ==
  LET s == failing.strategy
      why == EndsFor(s, Step, failing.count + 1)
      run == [FailedRun EXCEPT
                !.failed = @ \cup {Step}, !.why = why, !.skips = @ \/ s.type = "skipDependent",
                !.verdict = IF why = "none" THEN "none" ELSE AbortStatus(s, why, FailedRun.completed)]
  IN StepNext /\ failing' = [failing EXCEPT !.count = @ + 1, !.run = run]

StepCompletes == StepNext /\ failing' = [failing EXCEPT !.run.completed = @ + 1]

StepIsSkipped == StepNext /\ FailedRun.skips /\ failing' = [failing EXCEPT !.run.skipped = @ + 1]

RunIsJudged ==
  /\ FailedRun.verdict = "none" /\ Step > TriedSteps
  /\ failing' = [failing EXCEPT !.run.verdict =
       DetermineFinalStatus(TriedSteps, FailedRun.completed, Cardinality(FailedRun.failed),
                            failing.strategy.partial)]

\* Another run, with a strategy that is reset or not.
RunBegins ==
  /\ FailedRun.verdict # "none" /\ failing.runs < MaxFailedRuns
  /\ \E c \in {0, failing.count} :
       failing' = [failing EXCEPT !.count = c, !.carried = c, !.run = FreshRun, !.runs = @ + 1]

FailNext == StepFails \/ StepCompletes \/ StepIsSkipped \/ RunIsJudged \/ RunBegins

FailSpec == FailInit /\ [][FailNext]_failing

-----------------------------------------------------------------------------
(***************************************************************************)
(* Properties                                                              *)
(***************************************************************************)
TimedTypeOK == timed \in TimedCalls
BackoffTypeOK ==
  /\ backoff.config \in BackoffConfigs /\ backoff.attempt \in 1 .. 3 /\ backoff.aborted \in BOOLEAN
  /\ backoff.at \in {"called", "waiting", "waited", "cancelled", "refused"} /\ backoff.delay \in Nat
FailTypeOK ==
  /\ failing.strategy \in Strategies /\ failing.runs \in 1 .. MaxFailedRuns
  /\ failing.count \in Nat /\ failing.carried \in 0 .. failing.count
  /\ FailedRun.completed \in Nat /\ FailedRun.failed \subseteq 1 .. TriedSteps
  /\ FailedRun.skipped \in Nat /\ FailedRun.skips \in BOOLEAN
  /\ FailedRun.why \in {"none", "critical", "max", "abort"}
  /\ FailedRun.verdict \in {"none", "success", "partial", "failed"}

\* A call ends as what came first says: an operation that has ended is not
\* reported as too late, a timer leaves nothing behind, and only a cleanup
\* gives an operation the time to overtake the timer.
RaceIsFair ==
  /\ timed.op # "running" => timed.outcome # "pending" /\ timed.timer # "armed"
  /\ timed.outcome = "timedOut" => timed.overdue \/ timed.op = "threwTimeout"
  /\ timed.outcome \in {"result", "error"} /\ timed.timer # "cleared" => timed.cleans

\* Delays grow with the attempts up to the cap, which only the jitter exceeds,
\* and a cancelled wait does not go on.  A step's own retries are never cut
\* down by a policy, and what StepExecutor takes the policy of a step takes.
BackoffSound ==
  LET c == backoff.config n == backoff.attempt
  IN /\ ~BackoffRefused(c) => /\ CappedDelay(c, n) <= CappedDelay(c, n + 1)
                              /\ CappedDelay(c, n) <= c.max
     /\ 10 * backoff.delay <= (10 + c.jitter) * 10 * c.max
     /\ backoff.at = "waiting" => ~backoff.aborted /\ backoff.delay > 0
     /\ backoff.at = "cancelled" => backoff.aborted
     /\ StepAttempts(n - 1, backoff.delay) >= n - 1 /\ StepAttempts(n - 1, backoff.delay) >= 1
     /\ ~BackoffRefused(StepBackoff(c.type, c.base, 3)) => ~BackoffRefused(StepBackoff(c.type, c.base, 6))

\* A run is not ended by the limit before its failures, and those that the
\* strategy carries from another run, are more than the limit, nor goes on
\* when they are; a critical failure is always the end and a failure; a
\* partial success has been asked for, and has something that succeeded, which
\* is the greater part if the run has come to its end.
FailuresJudged ==
  LET s == failing.strategy bad == Cardinality(FailedRun.failed)
  IN /\ FailedRun.why = "max" => bad + failing.carried > s.max
     /\ FailedRun.verdict \in {"none", "success"} => bad = 0 \/ bad + failing.carried <= s.max
     /\ FailedRun.failed \cap s.critical # {} => FailedRun.verdict = "failed"
     /\ FailedRun.verdict = "success" => bad = 0
     /\ FailedRun.verdict = "partial" =>
          /\ s.partial /\ FailedRun.completed > 0
          /\ FailedRun.why = "none" => FailedRun.completed > bad

-----------------------------------------------------------------------------
(***************************************************************************)
(* RetryExecutor.execute and executeWithTimeout with a RetryPolicy: an     *)
(* operation is tried again until it resolves, the policy refuses, or the  *)
(* attempts are used up.  With a timeout the executor turns its back on an *)
(* attempt that goes on all the same.  A listener that throws is an error  *)
(* of the operation or of the whole call, depending on where it is called. *)
(***************************************************************************)
CONSTANT MaxAttempts   \* the largest maxAttempts of a policy

ASSUME RetryRunAssumption == MaxAttempts \in Nat

VARIABLES
  policy,     \* maxAttempts, whether there is a timeout, and whether the policy
              \* lists the errors (or messages) to retry; never changes
  retry,      \* the loop: where it is, the attempt, the errors, the last error
  abandoned,  \* attempts that have timed out and not ended
  effects,    \* history: the attempts whose operation has resolved
  listenerThrew, \* history: onSuccess has thrown
  slept          \* history: the delays waited

retryVars == <<policy, retry, abandoned, effects, listenerThrew, slept>>

\* An error in abortOn, one that the policy lists, and any other.
Errors == {"abort", "listed", "other"}
Final == {"success", "failed", "aborted", "threw"}
Policies == [max : 0 .. MaxAttempts, timed : BOOLEAN, selective : BOOLEAN]

RetryTypeOK ==
  /\ policy \in Policies
  /\ retry \in [at : {"loop", "running", "sleeping"} \cup Final, attempt : 0 .. MaxAttempts,
                errors : 0 .. MaxAttempts, last : Errors \cup {"none"}]
  /\ abandoned \in 0 .. MaxAttempts /\ effects \in 0 .. MaxAttempts
  /\ listenerThrew \in BOOLEAN /\ slept \in 0 .. MaxAttempts

RetryInit ==
  /\ policy \in Policies
  /\ retry = [at |-> "loop", attempt |-> 0, errors |-> 0, last |-> "none"]
  /\ abandoned = 0 /\ effects = 0 /\ listenerThrew = FALSE /\ slept = 0

-----------------------------------------------------------------------------
\* RetryPolicy.shouldAbort and shouldRetry.
ShouldAbort(error) == error = "abort"

ShouldRetry_Late(error, attempt) ==
  /\ attempt <= policy.max
  /\ ~ShouldAbort(error)
  /\ policy.selective => error = "listed"

ShouldRetry(error, attempt) ==
  /\ attempt < policy.max
  /\ ~ShouldAbort(error)
  /\ policy.selective => error = "listed"

Ends(status) == retry' = [retry EXCEPT !.at = status]

\* The catch block: back to sleep, or the end.  onError, onRetry, onAbort and
\* onExhausted are called here, and what they throw ends the call.
Catches(error) ==
  LET caught == [retry EXCEPT !.errors = @ + 1, !.last = error]
  IN \/ retry' = [caught EXCEPT !.at = "threw"]
     \/ retry' = [caught EXCEPT !.at =
                    CASE ShouldRetry(error, retry.attempt) -> "sleeping"
                      [] ~ShouldRetry(error, retry.attempt) /\ ShouldAbort(error) -> "aborted"
                      [] OTHER -> "failed"]

\* The head of the loop.
Attempt ==
  /\ retry.at = "loop"
  /\ \/ retry.attempt < policy.max /\ retry' = [retry EXCEPT !.at = "running", !.attempt = @ + 1]
     \/ retry.attempt < policy.max /\ retry' = [retry EXCEPT !.at = "threw", !.attempt = @ + 1]  \* onAttempt
     \/ retry.attempt >= policy.max /\ Ends("failed")
  /\ UNCHANGED <<policy, abandoned, effects, listenerThrew, slept>>

OperationResolves ==
  /\ retry.at = "running"
  /\ effects' = effects + 1
  /\ \/ Ends("success") /\ UNCHANGED listenerThrew
     \/ Catches("other") /\ listenerThrew' = TRUE   \* onSuccess
  /\ UNCHANGED <<policy, abandoned, slept>>

OperationRejects ==
  /\ retry.at = "running"
  /\ \E error \in Errors : Catches(error)
  /\ UNCHANGED <<policy, abandoned, effects, listenerThrew, slept>>

\* The timer of executeWithTimeout is first; its error may be of any kind.
AttemptTimesOut ==
  /\ retry.at = "running" /\ policy.timed
  /\ \E error \in Errors : Catches(error)
  /\ abandoned' = abandoned + 1
  /\ UNCHANGED <<policy, effects, listenerThrew, slept>>

AbandonedEnds ==
  /\ abandoned > 0
  /\ abandoned' = abandoned - 1
  /\ \/ effects' = effects + 1 \/ UNCHANGED effects
  /\ UNCHANGED <<policy, retry, listenerThrew, slept>>

BackoffEnds ==
  /\ retry.at = "sleeping"
  /\ Ends("loop")
  /\ slept' = slept + 1
  /\ UNCHANGED <<policy, abandoned, effects, listenerThrew>>

RetryNext ==
  \/ Attempt \/ OperationResolves \/ OperationRejects \/ AttemptTimesOut
  \/ AbandonedEnds \/ BackoffEnds

RetrySpec == RetryInit /\ [][RetryNext]_retryVars

-----------------------------------------------------------------------------
(***************************************************************************)
(* Properties                                                              *)
(***************************************************************************)
\* An operation that has taken effect is not run again, unless its answer was
\* late or lost by a listener.
NoRepeatedEffect == ~policy.timed /\ ~listenerThrew => effects <= 1

\* The result tells what happened: success means an effect, every attempt but
\* a successful one has left an error, aborted means an error to abort on,
\* and a failure that is not the policy's choice has used all attempts.
ResultIsTrue ==
  /\ retry.at = "success" => effects > 0 /\ retry.errors = retry.attempt - 1
  /\ retry.at \in {"failed", "aborted"} => retry.errors = retry.attempt
  /\ retry.at = "aborted" <=> retry.last = "abort" /\ retry.at # "threw"
  /\ retry.at = "failed" => \/ retry.attempt = policy.max
                            \/ policy.selective /\ retry.last = "other"

\* It waits between two attempts, and never after the last.
WaitsBetween == retry.at \in Final \ {"threw"} => slept = (IF retry.attempt = 0 THEN 0 ELSE retry.attempt - 1)

RetrySafe == NoRepeatedEffect /\ ResultIsTrue /\ WaitsBetween
=============================================================================
