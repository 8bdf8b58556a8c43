----------------------------- MODULE Lifecycle -----------------------------
(***************************************************************************)
(* EngineLifecycle: start starts the registered components one after the   *)
(* other, stop stops them in reverse, gracefulShutdown races stop with a   *)
(* timer.  Each call is interrupted at every component it awaits, and the  *)
(* other calls see only the state field.                                   *)
(***************************************************************************)
EXTENDS Integers, FiniteSets

CONSTANTS Call,          \* the calls of start, stop and gracefulShutdown in progress
          MaxComponents, \* bound: the components registered
          MaxLifeCalls   \* bound: calls made

ASSUME LifecycleAssumption == MaxComponents \in Nat /\ MaxLifeCalls \in Nat

VARIABLES
  engineState, \* state
  components,  \* how many components are registered
  call,        \* call[k]: what call k does, and the component it awaits
  up,          \* the components whose last start or stop that ended was a start
  stuck,       \* history: the components whose last stop threw
  overlapped,  \* history: a call has met another one, or gone on after its caller
               \* had been told that it was over
  lifeCalls    \* calls made so far

lifeVars == <<engineState, components, call, up, stuck, overlapped, lifeCalls>>

States == {"stopped", "starting", "running", "stopping", "error"}
Component == 1 .. MaxComponents
NoCall == [op |-> "none", at |-> 0, timed |-> FALSE]

LifeTypeOK ==
  /\ engineState \in States /\ components \in 0 .. MaxComponents
  /\ call \in [Call -> [op : {"none", "start", "stop"}, at : 0 .. MaxComponents + 1,
                        timed : BOOLEAN]]
  /\ up \cup stuck \subseteq Component /\ overlapped \in BOOLEAN
  /\ lifeCalls \in 0 .. MaxLifeCalls

LifeInit ==
  /\ engineState = "stopped" /\ components = 0
  /\ call = [k \in Call |-> NoCall]
  /\ up = {} /\ stuck = {} /\ overlapped = FALSE /\ lifeCalls = 0

-----------------------------------------------------------------------------
InProgress == {k \in Call : call[k].op # "none"}

Calls(k) ==
  /\ call[k] = NoCall /\ lifeCalls < MaxLifeCalls
  /\ lifeCalls' = lifeCalls + 1

RegisterComponent ==
  /\ engineState = "stopped" /\ components < MaxComponents
  /\ components' = components + 1
  /\ overlapped' = (overlapped \/ InProgress # {})
  /\ UNCHANGED <<engineState, call, up, stuck, lifeCalls>>

\* start: without components it is over at once.
Start(k) ==
  /\ Calls(k)
  /\ engineState = "stopped"
  /\ IF components = 0 THEN engineState' = "running" /\ UNCHANGED call
     ELSE /\ engineState' = "starting"
          /\ call' = [call EXCEPT ![k] = [op |-> "start", at |-> 1, timed |-> FALSE]]
  /\ overlapped' = (overlapped \/ InProgress # {})
  /\ UNCHANGED <<components, up, stuck>>

\* The component that k awaits has started; the array is read as it is now.
ComponentStarts(k) ==
  /\ call[k].op = "start"
  /\ up' = up \cup {call[k].at} /\ stuck' = stuck \ {call[k].at}
  /\ IF call[k].at < components
     THEN call' = [call EXCEPT ![k].at = @ + 1] /\ UNCHANGED engineState
     ELSE call' = [call EXCEPT ![k] = NoCall] /\ engineState' = "running"
  /\ UNCHANGED <<components, overlapped, lifeCalls>>

ComponentStartFails(k) ==
  /\ call[k].op = "start"
  /\ engineState' = "error"
  /\ call' = [call EXCEPT ![k] = NoCall]
  /\ UNCHANGED <<components, up, stuck, overlapped, lifeCalls>>

\* stop, with a timer when gracefulShutdown calls it: in any state but stopped
\* and stopping.
Stop(k, timed) ==
  /\ Calls(k)
  /\ engineState \notin {"stopped", "stopping"}
  /\ IF components = 0 THEN engineState' = "stopped" /\ UNCHANGED call
     ELSE /\ engineState' = "stopping"
          /\ call' = [call EXCEPT ![k] = [op |-> "stop", at |-> components, timed |-> timed]]
  /\ overlapped' = (overlapped \/ InProgress # {})
  /\ UNCHANGED <<components, up, stuck>>

\* stop while another stop is at work throws; gracefulShutdown takes this as
\* its own failure and forces the state.
SecondShutdown(k) ==
  /\ Calls(k)
  /\ engineState = "stopping"
  /\ engineState' = "stopped"
  /\ overlapped' = TRUE
  /\ UNCHANGED <<components, call, up, stuck>>

\* stop goes on to the component before, also when this one throws.
StopsNext_Ends(k) ==
  /\ call' = [call EXCEPT ![k] = NoCall]
  /\ engineState' = "stopped"

StopsNext(k) ==
  IF call[k].at > 1
  THEN call' = [call EXCEPT ![k].at = @ - 1] /\ UNCHANGED engineState
  ELSE call' = [call EXCEPT ![k] = NoCall] /\ engineState' = "stopped"

ComponentStops(k) ==
  /\ call[k].op = "stop"
  /\ up' = up \ {call[k].at} /\ stuck' = stuck \ {call[k].at}
  /\ StopsNext(k)
  /\ UNCHANGED <<components, overlapped, lifeCalls>>

ComponentStopFails(k) ==
  /\ call[k].op = "stop"
  /\ stuck' = stuck \cup {call[k].at}
  /\ StopsNext(k)
  /\ UNCHANGED <<components, up, overlapped, lifeCalls>>

\* The timer of gracefulShutdown is first: stop goes on behind its back.
ShutdownTimesOut(k) ==
  /\ call[k].op = "stop" /\ call[k].timed
  /\ call' = [call EXCEPT ![k].timed = FALSE]
  /\ engineState' = "stopped"
  /\ overlapped' = TRUE
  /\ UNCHANGED <<components, up, stuck, lifeCalls>>

LifeNext ==
  \/ RegisterComponent
  \/ \E k \in Call : \/ Start(k) \/ ComponentStarts(k) \/ ComponentStartFails(k)
                     \/ \E timed \in BOOLEAN : Stop(k, timed)
                     \/ SecondShutdown(k) \/ ShutdownTimesOut(k)
                     \/ ComponentStops(k) \/ ComponentStopFails(k)

LifeSpec == LifeInit /\ [][LifeNext]_lifeVars

-----------------------------------------------------------------------------
(***************************************************************************)
(* Properties                                                              *)
(***************************************************************************)
\* As long as no call has met another one, the state says what the components
\* do: all up when running, and none but those whose stop threw when stopped.
StateIsTrue ==
  ~overlapped => /\ engineState = "running" => up = 1 .. components
                 /\ engineState = "stopped" => up \subseteq stuck

\* Whatever meets: a call is at work while the state is starting or stopping,
\* so the engine is not stuck in either.
StateMoves ==
  /\ engineState = "starting" => \E k \in Call : call[k].op = "start"
  /\ engineState = "stopping" => \E k \in Call : call[k].op = "stop"

\* What start, stop and gracefulShutdown keep, when they meet and when they do not.
LifecycleSafe == StateIsTrue /\ StateMoves
=============================================================================
