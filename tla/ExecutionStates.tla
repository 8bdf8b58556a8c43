-------------------------- MODULE ExecutionStates --------------------------
(***************************************************************************)
(* state/: the tables of allowed transitions with the StateMachine that    *)
(* enforces them, and the ExecutionStateManager that records the state of  *)
(* an execution, here kept by a caller that lets a machine per step and    *)
(* one for the workflow decide first.                                      *)
(***************************************************************************)
EXTENDS Integers, SequencesExt

CONSTANTS StateStep,  \* the steps of the execution
          MaxMoves,   \* bound: the transitions of all machines
          MaxInstant  \* bound: the clock

ASSUME StatesAssumption == IsFiniteSet(StateStep) /\ "workflow" \notin StateStep

VARIABLES
  machine,  \* machine[m]: the StateMachine of a step or of the workflow (lost
            \* is history: the transitions that a reset has forgotten)
  book,     \* the WorkflowExecutionState
  instant

stateVars == <<machine, book, instant>>

Flow == "workflow"
Machines == StateStep \cup {Flow}

StepTransitions ==
  [pending  |-> {"running", "skipped", "cancelled"},
   running  |-> {"success", "failed", "timeout", "cancelled"},
   failed   |-> {"retrying", "cancelled"},
   retrying |-> {"running", "cancelled"},
   skipped  |-> {}, success |-> {}, timeout |-> {}, cancelled |-> {}]

StepTerminal == {"success", "skipped", "timeout", "cancelled"}

FlowTransitions ==
  [queued |-> {"running", "cancelled"},
   running |-> {"completed", "failed", "partial", "timeout", "cancelled", "paused"},
   paused  |-> {"running", "cancelled"},
   completed |-> {}, failed |-> {}, partial |-> {}, timeout |-> {}, cancelled |-> {}]

FlowTerminal == {"completed", "failed", "partial", "timeout", "cancelled"}

TransitionsOf(m) == IF m = Flow THEN FlowTransitions ELSE StepTransitions
TerminalOf(m) == IF m = Flow THEN FlowTerminal ELSE StepTerminal
InitialOf(m) == IF m = Flow THEN "queued" ELSE "pending"

\* ExecutionStateManager has a list of its own: there a failed step is over.
RecordedTerminal(m) == IF m = Flow THEN FlowTerminal ELSE StepTerminal \cup {"failed"}

\* Times are numbers from 1, and 0 is one that is not set.
FreshEntry(m) == [status |-> InitialOf(m), start |-> 0, end |-> 0, duration |-> 0, error |-> FALSE]
NoCounts == [completed |-> 0, failed |-> 0, skipped |-> 0]

StatesInit ==
  /\ machine = [m \in Machines |-> [state |-> InitialOf(m), history |-> <<>>, lost |-> 0]]
  /\ book = [entries |-> [m \in Machines |-> FreshEntry(m)], counts |-> NoCounts]
  /\ instant = 1

-----------------------------------------------------------------------------
CanTransition_Terminal(m, to) ==
  to \in TransitionsOf(m)[machine[m].state] \cup ({"retrying"} \ {machine[m].state})

CanTransition(m, to) ==
  /\ machine[m].state \notin TerminalOf(m)
  /\ to \in TransitionsOf(m)[machine[m].state]

MovesMade == FoldFunction(LAMBDA x, y : Len(x.history) + x.lost + y, 0, machine)

\* transition, which throws unless the machine can.
Transition(m, to) ==
  /\ CanTransition(m, to) /\ MovesMade < MaxMoves
  /\ machine' = [machine EXCEPT ![m] =
       [machine[m] EXCEPT !.state = to, !.history = Append(@, [from |-> machine[m].state, to |-> to])]]

\* updateStepStatus and updateWorkflowStatus on an entry: the first start and
\* the first end are kept, and so is an error.
Updated_LastEnd(m, entry, to) ==
  LET start == IF to = "running" THEN instant ELSE entry.start
      ends == to \in RecordedTerminal(m)
  IN [status |-> to, start |-> start, end |-> IF ends THEN instant ELSE entry.end,
      duration |-> IF ends /\ entry.start # 0 THEN instant - entry.start ELSE entry.duration,
      error |-> entry.error \/ to \in {"failed", "timeout"}]

UpdatedEntry(m, entry, to) ==
  LET start == IF to = "running" /\ entry.start = 0 THEN instant ELSE entry.start
      ends == to \in RecordedTerminal(m) /\ entry.end = 0
  IN [status |-> to, start |-> start, end |-> IF ends THEN instant ELSE entry.end,
      duration |-> IF ends /\ start # 0 THEN instant - start ELSE entry.duration,
      error |-> entry.error \/ to \in {"failed", "timeout"}]

\* updateWorkflowMetadata.
StepsIn(entries, statuses) == {s \in StateStep : entries[s].status \in statuses}
CountsOf(entries) ==
  [completed |-> Cardinality(StepsIn(entries, {"success"})),
   failed |-> Cardinality(StepsIn(entries, {"failed", "timeout"})),
   skipped |-> Cardinality(StepsIn(entries, {"skipped"}))]

GetFailedSteps == StepsIn(book.entries, {"failed", "timeout"})
GetCompletedSteps == StepsIn(book.entries, RecordedTerminal(CHOOSE s \in StateStep : TRUE))

Transits(m, to) ==
  /\ Transition(m, to)
  /\ LET entries == [book.entries EXCEPT ![m] = UpdatedEntry(m, @, to)]
     IN book' = [entries |-> entries, counts |-> IF m = Flow THEN book.counts ELSE CountsOf(entries)]
  /\ UNCHANGED instant

\* A step only runs while the workflow does.
StepMoves ==
  /\ machine[Flow].state = "running"
  /\ \E s \in StateStep : \E to \in DOMAIN StepTransitions : Transits(s, to)

FlowMoves == \E to \in DOMAIN FlowTransitions : Transits(Flow, to)

\* reset of a machine, for recovery: the record does not know of it.
MachineResets ==
  \E s \in StateStep :
    /\ machine[s].history # <<>> /\ machine[s].lost = 0
    /\ machine' = [machine EXCEPT ![s] = [state |-> "pending", history |-> <<>>, lost |-> Len(machine[s].history)]]
    /\ UNCHANGED <<book, instant>>

InstantPasses == instant < MaxInstant /\ instant' = instant + 1 /\ UNCHANGED <<machine, book>>

StatesNext == StepMoves \/ FlowMoves \/ MachineResets \/ InstantPasses

StatesSpec == StatesInit /\ [][StatesNext]_stateVars

-----------------------------------------------------------------------------
(***************************************************************************)
(* Properties                                                              *)
(***************************************************************************)
StatesTypeOK ==
  /\ \A m \in Machines : /\ machine[m].state \in DOMAIN TransitionsOf(m)
                         /\ Len(machine[m].history) <= MaxMoves
                         /\ book.entries[m].status \in DOMAIN TransitionsOf(m)
  /\ instant \in 1 .. MaxInstant

\* A state is terminal just when the tables leave no way out of it, and from
\* every other there is a way to one that is.
TablesClosed ==
  \A m \in Machines :
    LET table == TransitionsOf(m)
    IN \A s \in DOMAIN table :
         /\ table[s] = {} <=> s \in TerminalOf(m)
         /\ table[s] # {} => table[s] \cap TerminalOf(m) # {}

\* The history of a machine leads from its first state to the one it is in, by
\* allowed transitions only, and passes no terminal state.
HistoryIsPath ==
  \A m \in Machines :
    LET h == machine[m].history
        at(i) == IF i = 0 THEN InitialOf(m) ELSE h[i].to
    IN /\ machine[m].state = at(Len(h))
       /\ \A i \in 1 .. Len(h) : /\ h[i].from = at(i - 1) /\ h[i].to \in TransitionsOf(m)[h[i].from]
                                 /\ h[i].from \notin TerminalOf(m)

\* What has ended in the record has an end; without a reset the end is no
\* sooner than the start, the time between is the duration, and what has an end
\* and goes on is a step that failed and is tried again.
RecordIsTrue ==
  \A m \in Machines :
    LET e == book.entries[m]
    IN /\ e.status \in RecordedTerminal(m) => e.end # 0
       /\ machine[m].lost = 0 =>
            /\ machine[m].state = e.status
            /\ e.end # 0 /\ e.start # 0 => e.end >= e.start /\ e.duration = e.end - e.start
            /\ e.end # 0 /\ e.status \notin RecordedTerminal(m) => m # Flow /\ e.error

\* The counts are those of the steps, no step is counted twice, and a step
\* that is counted has ended but may be tried again.
CountsAreTrue ==
  LET c == book.counts
  IN /\ c = CountsOf(book.entries)
     /\ c.completed + c.failed + c.skipped <= Cardinality(GetCompletedSteps)
     /\ GetFailedSteps \subseteq GetCompletedSteps

StatesSound == TablesClosed /\ HistoryIsPath /\ RecordIsTrue /\ CountsAreTrue
=============================================================================
