---------------------------- MODULE CronSchedule ----------------------------
(***************************************************************************)
(* CronScheduler behind Scheduler: schedules that are run by timers.  An   *)
(* interval schedule is a chain of setTimeouts: one fires, the workflow is *)
(* awaited, and the next is armed.  A once schedule is one setTimeout, a   *)
(* cron schedule a task of node-cron.  The map intervalTimers holds the    *)
(* last timer armed for a schedule; one that another has replaced in it    *)
(* can not be cleared any more, and is called stray here.                  *)
(*                                                                         *)
(* The engine is interrupted only while workflows run.  A timer may fire   *)
(* at any time from the one it is armed for.                               *)
(***************************************************************************)
EXTENDS Integers, SequencesExt

CONSTANTS Schedule,      \* the schedules
          Interval,      \* intervalMs of the interval schedules
          CronTicks,     \* the times at which the cron schedules match
          MaxConcurrent, \* maxConcurrent
          EndDate,       \* an endDate
          MaxTime,       \* bound: of the clock
          MaxCalls       \* bound: the calls of start, stop, update, remove and trigger

ASSUME CronScheduleAssumption ==
  /\ IsFiniteSet(Schedule)
  /\ Interval \in Nat \ {0} /\ MaxConcurrent \in Nat \ {0}
  /\ CronTicks \subseteq 0 .. MaxTime
  /\ EndDate \in Nat /\ MaxTime \in Nat /\ MaxCalls \in Nat

VARIABLES
  clock,
  cronOn,    \* running
  object,    \* object[s]: the WorkflowSchedule, which outlives its removal
  listed,    \* the keys of schedules
  mapped,    \* mapped[s]: when the timer or task in the map is due, or Never
  stray,     \* stray[s][t]: how many stray timers are due at t
  chainRuns, \* chainRuns[s]: the running executions that a setTimeout awaits
  freeRuns,  \* freeRuns[s]: the other ones, of cron tasks and manual triggers
  manual,    \* history: manual[s], the manual triggers
  disturbed, \* history: schedules whose timer was started or stopped while
             \* one of their executions ran
  cronCalls  \* calls made so far

cronVars == <<clock, cronOn, object, listed, mapped, stray, chainRuns, freeRuns, manual, disturbed,
              cronCalls>>

Unlimited == MaxTime + MaxCalls + 1
Beyond == MaxTime + Interval + 1   \* some time after MaxTime
Never == Beyond + 1
Moment == 0 .. Never
Running == 0 .. Unlimited

Objects == [kind : {"interval", "once", "cron"}, max : {1, 2, Unlimited}, skip : BOOLEAN,
            end : {EndDate, Never}, status : {"absent", "active", "paused", "expired"},
            next : Moment, count : Running]

CronTypeOK ==
  /\ clock \in 0 .. MaxTime /\ cronOn \in BOOLEAN
  /\ object \in [Schedule -> Objects]
  /\ listed \cup disturbed \subseteq Schedule
  /\ mapped \in [Schedule -> Moment] /\ stray \in [Schedule -> [Moment -> Running]]
  /\ chainRuns \in [Schedule -> Running] /\ freeRuns \in [Schedule -> Running]
  /\ manual \in [Schedule -> 0 .. MaxCalls] /\ cronCalls \in 0 .. MaxCalls

CronInit ==
  /\ clock = 0 /\ cronOn = FALSE
  /\ object = [s \in Schedule |-> [kind |-> "interval", max |-> Unlimited, skip |-> FALSE,
                                   end |-> Never, status |-> "absent", next |-> 0, count |-> 0]]
  /\ listed = {} /\ disturbed = {}
  /\ mapped = [s \in Schedule |-> Never]
  /\ stray = [s \in Schedule |-> [t \in Moment |-> 0]]
  /\ chainRuns = [s \in Schedule |-> 0] /\ freeRuns = [s \in Schedule |-> 0]
  /\ manual = [s \in Schedule |-> 0]
  /\ cronCalls = 0

-----------------------------------------------------------------------------
NextMatch == Min({t \in CronTicks : t > clock} \cup {Beyond})

\* calculateNextRunTime, of a schedule that runs or is added now; a once
\* schedule has its startDate there, for good.
NextRun(kind, startDate) ==
  CASE kind = "interval" -> clock + Interval
    [] kind = "cron"     -> NextMatch
    [] kind = "once"     -> startDate

Later(t) == IF t > clock THEN t ELSE clock

\* startScheduleTask: when the timer or task that it leaves in the map is due.
TaskStarts(o) == IF o.kind = "cron" THEN NextMatch ELSE Later(o.next)

Active(s) == object[s].status = "active"
Executing(s) == chainRuns[s] > 0

\* isScheduleExpired and shouldScheduleRun.
Expired(o) == clock > o.end \/ o.count >= o.max
Due(o) == o.status = "active" /\ ~Expired(o) /\ clock >= o.next

CurrentExecutions == MapThenSumSet(LAMBDA s : chainRuns[s] + freeRuns[s], Schedule)

\* handleScheduleTrigger goes on to triggerSchedule.
Triggers(s) ==
  /\ Due(object[s])
  /\ CurrentExecutions < MaxConcurrent
  /\ object[s].skip => chainRuns[s] + freeRuns[s] = 0

\* triggerSchedule up to its first await: the object, and the map if it expires.
Ran(o) ==
  LET run == [o EXCEPT !.count = @ + 1, !.next = NextRun(o.kind, @)]
  IN IF Expired(run) THEN [run EXCEPT !.status = "expired"] ELSE run

MapAfter(s, m) == IF Expired(Ran(object[s])) THEN [m EXCEPT ![s] = Never] ELSE m

-----------------------------------------------------------------------------
CountsCall == cronCalls < MaxCalls /\ cronCalls' = cronCalls + 1

StartScheduler ==
  /\ CountsCall /\ ~cronOn
  /\ cronOn' = TRUE
  /\ mapped' = [s \in Schedule |-> IF s \in listed /\ Active(s) THEN TaskStarts(object[s])
                                                               ELSE mapped[s]]
  /\ disturbed' = disturbed \cup {s \in listed : Active(s) /\ Executing(s)}
  /\ UNCHANGED <<clock, object, listed, stray, chainRuns, freeRuns, manual>>

StopScheduler ==
  /\ CountsCall /\ cronOn
  /\ cronOn' = FALSE
  /\ mapped' = [s \in Schedule |-> Never]
  /\ disturbed' = disturbed \cup {s \in Schedule : Executing(s)}
  /\ UNCHANGED <<clock, object, listed, stray, chainRuns, freeRuns, manual>>

\* addSchedule of Scheduler, with a new object.
AddSchedule(s, kind, max, skip, start, end) ==
  LET o == [kind |-> kind, max |-> max, skip |-> skip, end |-> end, status |-> "active",
            next |-> NextRun(kind, start), count |-> 0]
  IN /\ object[s].status = "absent"
     /\ object' = [object EXCEPT ![s] = o]
     /\ listed' = listed \cup {s}
     /\ mapped' = IF cronOn THEN [mapped EXCEPT ![s] = TaskStarts(o)] ELSE mapped
     /\ UNCHANGED <<clock, cronOn, stray, chainRuns, freeRuns, manual, disturbed, cronCalls>>

RemoveSchedule(s) ==
  /\ CountsCall /\ s \in listed
  /\ listed' = listed \ {s}
  /\ mapped' = [mapped EXCEPT ![s] = Never]
  /\ disturbed' = IF Executing(s) THEN disturbed \cup {s} ELSE disturbed
  /\ UNCHANGED <<clock, cronOn, object, stray, chainRuns, freeRuns, manual>>

\* updateScheduleStatus; disabled is as paused.  The timer in the map is
\* cleared first.
UpdateStatus_KeepsTimer(s, status) ==
  LET o == [object[s] EXCEPT !.status = status]
  IN /\ CountsCall /\ s \in listed
     /\ object' = [object EXCEPT ![s] = o]
     /\ mapped' = IF cronOn /\ status = "active" THEN [mapped EXCEPT ![s] = TaskStarts(o)]
                                                 ELSE mapped
     /\ stray' = IF cronOn /\ status = "active" /\ mapped[s] # Never
                 THEN [stray EXCEPT ![s][mapped[s]] = @ + 1] ELSE stray
     /\ disturbed' = IF Executing(s) THEN disturbed \cup {s} ELSE disturbed
     /\ UNCHANGED <<clock, cronOn, listed, chainRuns, freeRuns, manual>>

UpdateStatus(s, status) ==
  LET o == [object[s] EXCEPT !.status = status]
  IN /\ CountsCall /\ s \in listed
     /\ object' = [object EXCEPT ![s] = o]
     /\ mapped' = IF ~cronOn THEN mapped
                  ELSE [mapped EXCEPT ![s] = IF status = "active" THEN TaskStarts(o) ELSE Never]
     /\ disturbed' = IF Executing(s) THEN disturbed \cup {s} ELSE disturbed
     /\ UNCHANGED <<clock, cronOn, listed, stray, chainRuns, freeRuns, manual>>

\* manualTrigger, which bypasses the checks.
ManualTrigger(s) ==
  /\ CountsCall /\ s \in listed
  /\ object' = [object EXCEPT ![s] = Ran(object[s])]
  /\ mapped' = MapAfter(s, mapped)
  /\ freeRuns' = [freeRuns EXCEPT ![s] = @ + 1]
  /\ manual' = [manual EXCEPT ![s] = @ + 1]
  /\ UNCHANGED <<clock, cronOn, listed, stray, chainRuns, disturbed>>

-----------------------------------------------------------------------------
\* The finally of executeAndScheduleNext, with the map m and the stray timers
\* w: the chain goes on, over whatever the map holds.
Rearms(s, m, w) ==
  IF cronOn /\ Active(s)
  THEN /\ mapped' = [m EXCEPT ![s] = clock + Interval]
       /\ stray' = IF m[s] = Never THEN w ELSE [w EXCEPT ![s][m[s]] = @ + 1]
  ELSE mapped' = m /\ stray' = w

\* A timer of s fires and leaves the map m and the stray timers w.
Fires(s, m, w) ==
  \/ /\ Triggers(s)
     /\ object' = [object EXCEPT ![s] = Ran(object[s])]
     /\ mapped' = MapAfter(s, m) /\ stray' = w
     /\ chainRuns' = [chainRuns EXCEPT ![s] = @ + 1]
  \/ /\ ~Triggers(s) /\ object[s].kind = "interval"
     /\ Rearms(s, m, w)
     /\ UNCHANGED <<object, chainRuns>>
  \/ /\ ~Triggers(s) /\ object[s].kind = "once"
     /\ object' = [object EXCEPT ![s].status = "expired"]
     /\ mapped' = m /\ stray' = w
     /\ UNCHANGED chainRuns

TimerFires(s) ==
  /\ object[s].kind # "cron"
  /\ \/ mapped[s] <= clock /\ Fires(s, [mapped EXCEPT ![s] = Never], stray)
     \/ \E t \in Moment : /\ t <= clock /\ stray[s][t] > 0
                          /\ Fires(s, mapped, [stray EXCEPT ![s][t] = @ - 1])
  /\ UNCHANGED <<clock, cronOn, listed, freeRuns, manual, disturbed, cronCalls>>

\* node-cron calls handleScheduleTrigger, and goes on to its next match.
TaskFires(s) ==
  /\ object[s].kind = "cron" /\ mapped[s] <= clock
  /\ LET m == [mapped EXCEPT ![s] = NextMatch]
     IN \/ /\ Triggers(s)
           /\ object' = [object EXCEPT ![s] = Ran(object[s])]
           /\ mapped' = MapAfter(s, m)
           /\ freeRuns' = [freeRuns EXCEPT ![s] = @ + 1]
        \/ /\ ~Triggers(s)
           /\ mapped' = m
           /\ UNCHANGED <<object, freeRuns>>
  /\ UNCHANGED <<clock, cronOn, listed, stray, chainRuns, manual, disturbed, cronCalls>>

\* The workflow returns or fails: triggerSchedule ends either way.
ChainRunEnds(s) ==
  /\ chainRuns[s] > 0
  /\ chainRuns' = [chainRuns EXCEPT ![s] = @ - 1]
  /\ \/ object[s].kind = "interval" /\ Rearms(s, mapped, stray) /\ UNCHANGED object
     \/ /\ object[s].kind = "once"
        /\ object' = [object EXCEPT ![s].status = "expired"]
        /\ UNCHANGED <<mapped, stray>>
  /\ UNCHANGED <<clock, cronOn, listed, freeRuns, manual, disturbed, cronCalls>>

FreeRunEnds(s) ==
  /\ freeRuns[s] > 0
  /\ freeRuns' = [freeRuns EXCEPT ![s] = @ - 1]
  /\ UNCHANGED <<clock, cronOn, object, listed, mapped, stray, chainRuns, manual, disturbed,
                 cronCalls>>

ClockTicks ==
  /\ clock < MaxTime
  /\ clock' = clock + 1
  /\ UNCHANGED <<cronOn, object, listed, mapped, stray, chainRuns, freeRuns, manual, disturbed,
                 cronCalls>>

CronNext ==
  \/ StartScheduler \/ StopScheduler \/ ClockTicks
  \/ \E s \in Schedule :
       \/ \E kind \in {"interval", "once", "cron"}, max \in {1, 2, Unlimited}, skip \in BOOLEAN,
             start \in {clock, clock + 1}, end \in {EndDate, Never} :
            AddSchedule(s, kind, max, skip, start, end)
       \/ RemoveSchedule(s) \/ ManualTrigger(s)
       \/ \E status \in {"active", "paused"} : UpdateStatus(s, status)
       \/ TimerFires(s) \/ TaskFires(s) \/ ChainRunEnds(s) \/ FreeRunEnds(s)

CronSpec == CronInit /\ [][CronNext]_cronVars

-----------------------------------------------------------------------------
(***************************************************************************)
(* Properties                                                              *)
(***************************************************************************)
Armed(s) == (IF mapped[s] = Never THEN 0 ELSE 1)
              + MapThenSumSet(LAMBDA t : stray[s][t], Moment)

\* A schedule that is to run has a timer or waits for an execution that will
\* arm one, so it is never forgotten.
ActiveIsArmed ==
  \A s \in listed : cronOn /\ Active(s) => Armed(s) + chainRuns[s] > 0

\* Unless its timer was touched while it ran, it has exactly one, and none
\* when it is paused, expired, removed or the scheduler is stopped.
OneChain ==
  \A s \in Schedule \ disturbed :
    /\ Armed(s) + chainRuns[s] <= 1
    /\ Armed(s) > 0 => cronOn /\ s \in listed /\ Active(s)

\* Whatever chains there are, the limits hold for the runs the timers start.
LimitsHold ==
  /\ \A s \in Schedule : object[s].count - manual[s] <= object[s].max
  /\ \A s \in Schedule : object[s].skip => chainRuns[s] <= 1
  /\ MapThenSumSet(LAMBDA s : chainRuns[s], Schedule) <= MaxConcurrent

\* No schedule is forgotten, none is started by two chains without a reason,
\* and none beyond its limits: CronScheduler's timers.
CronSafe == ActiveIsArmed /\ OneChain /\ LimitsHold
=============================================================================
