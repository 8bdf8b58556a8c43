----------------------------- MODULE EngineLog ------------------------------
(***************************************************************************)
(* EngineLogger and LoggerManager: one logger for all that runs in a       *)
(* process.  An operation (run, validate, explain) loads a workflow, which *)
(* sets the context that the logger's own field keeps; a run then goes on  *)
(* in an AsyncLocalStorage scope of its own.  What is logged is kept, and  *)
(* appended to a JSON file that is read and written as a whole, the one    *)
(* without a run by every process.                                         *)
(***************************************************************************)
EXTENDS Naturals, SequencesExt

CONSTANTS Task,     \* the operations of an engine
          Level,    \* the level of the logger
          MaxLogHistory, \* maxHistorySize: 0 is no limit
          MaxLogged \* bound: the events that pass the level

ASSUME EngineLogAssumption ==
  /\ Level \in {"debug", "info", "warn", "error", "fatal"}
  /\ MaxLogHistory \in Nat /\ MaxLogged \in Nat
  /\ {"none", "engine"} \cap Task = {}

VARIABLES
  shared,  \* workflowContext, the field: the task that set it, or NoContext
  phase,   \* where each task is
  logged,  \* history: every event recorded, in order
  recent,  \* logHistory, as positions in logged
  files,   \* the log files, as positions in logged; Foreign is another process's event
  foreign, \* another process: what it has read of the file, or Nothing
  overwritten    \* history: another process wrote the file, or left it torn

logVars == <<shared, phase, logged, recent, files, foreign, overwritten>>

NoContext == "none"
EngineFile == "engine"
Foreign == 0
Nothing == <<MaxLogged + 1>>
Severity == [debug |-> 0, info |-> 1, warn |-> 2, error |-> 3, fatal |-> 4]

\* The calls of the helpers: the level, the category, and the type, given or
\* that of the level.
LogCalls == {"stepStarted", "stepRetry", "stepFailed", "adapterFailed", "validationFailed", "debug"}
LevelOf(c) ==
  CASE c \in {"stepStarted"} -> "info" [] c \in {"stepRetry", "adapterFailed"} -> "warn"
    [] c \in {"stepFailed", "validationFailed"} -> "error" [] c = "debug" -> "debug"
CategoryOf(c) == CASE c = "validationFailed" -> "analysis" [] c = "debug" -> "system" [] OTHER -> "runtime"
TypeOfLevel == [debug |-> "debug", info |-> "info", warn |-> "warning",
                error |-> "error.detected", fatal |-> "error"]
EventTypeOf(c) ==
  CASE c = "stepStarted" -> "step.started" [] c = "stepRetry" -> "step.retry"
    [] c = "stepFailed" -> "step.failed" [] c = "adapterFailed" -> "execution.time"
    [] c = "validationFailed" -> "validation.error" [] c = "debug" -> TypeOfLevel["debug"]

\* measureExecution; a threshold of 0 is none.
MeasuredLevel(duration, warn, error) ==
  CASE error # 0 /\ duration > error -> "error"
    [] ~(error # 0 /\ duration > error) /\ warn # 0 /\ duration > warn -> "warn"
    [] OTHER -> "info"

LogInit ==
  /\ shared = NoContext
  /\ phase = [t \in Task |-> "idle"]
  /\ logged = <<>> /\ recent = <<>>
  /\ files = [f \in Task \cup {EngineFile} |-> <<>>]
  /\ foreign = Nothing /\ overwritten = FALSE

-----------------------------------------------------------------------------
\* WorkflowLoader._setContext, outside any scope.
Loads(t) ==
  /\ phase[t] = "idle"
  /\ phase' = [phase EXCEPT ![t] = "loaded"]
  /\ shared' = t
  /\ UNCHANGED <<logged, recent, files, foreign, overwritten>>

\* runWithWorkflowContext: the scope has a copy, with the id of the execution.
EntersScope(t) ==
  /\ phase[t] = "loaded"
  /\ phase' = [phase EXCEPT ![t] = "scoped"]
  /\ UNCHANGED <<shared, logged, recent, files, foreign, overwritten>>

\* clearWorkflowContext at the end of an operation, which clears the field
\* whoever has set it; an operation that throws does not come to it.
IsOver(t) ==
  /\ phase[t] \in {"loaded", "scoped"}
  /\ phase' = [phase EXCEPT ![t] = "over"]
  /\ shared' \in {NoContext, shared}
  /\ UNCHANGED <<logged, recent, files, foreign, overwritten>>

\* The scope's context comes before the field.
ContextOf_FieldFirst(t) ==
  IF shared # NoContext THEN shared ELSE IF phase[t] = "scoped" THEN t ELSE NoContext
ContextOf(t) == IF phase[t] = "scoped" THEN t ELSE shared

\* resolveWorkflowLogFilePath: only a run has the id of an execution.
LogFileOf(t) == IF phase[t] = "scoped" THEN t ELSE EngineFile

Trimmed_OneMore(s) == IF MaxLogHistory > 0 /\ Len(s) > MaxLogHistory + 1 THEN Tail(s) ELSE s
Trimmed(s) == IF MaxLogHistory > 0 /\ Len(s) > MaxLogHistory THEN Tail(s) ELSE s

\* What is logged while a workflow is loaded, and while it runs.
CallsOf(t) == IF phase[t] = "scoped" THEN {"stepStarted", "stepFailed"} ELSE {"validationFailed"}

\* _logWithCategory: what is below the level leaves no trace.
Logs(t, c) ==
  /\ phase[t] \in {"loaded", "scoped"} /\ Len(logged) < MaxLogged
  /\ Severity[LevelOf(c)] >= Severity[Level]
  /\ logged' = Append(logged, [task |-> t, context |-> ContextOf(t), call |-> c])
  /\ recent' = Trimmed(Append(recent, Len(logged')))
  /\ files' = [files EXCEPT ![LogFileOf(t)] = Append(@, Len(logged'))]
  /\ UNCHANGED <<shared, phase, foreign, overwritten>>

ClearHistory ==
  /\ recent # <<>> /\ recent' = <<>>
  /\ UNCHANGED <<shared, phase, logged, files, foreign, overwritten>>

\* appendJsonWorkflowLog in another process, with the same directory.
OtherReads ==
  /\ foreign = Nothing /\ ~overwritten
  /\ foreign' = files[EngineFile]
  /\ UNCHANGED <<shared, phase, logged, recent, files, overwritten>>

OtherWrites ==
  /\ foreign # Nothing
  /\ files' = [files EXCEPT ![EngineFile] = Append(foreign, Foreign)]
  /\ foreign' = Nothing /\ overwritten' = TRUE
  /\ UNCHANGED <<shared, phase, logged, recent>>

\* It stops in the middle of writeFileSync: a file that does not parse is taken
\* to be empty.
OtherTears ==
  /\ foreign # Nothing
  /\ files' = [files EXCEPT ![EngineFile] = <<>>]
  /\ foreign' = Nothing /\ overwritten' = TRUE
  /\ UNCHANGED <<shared, phase, logged, recent>>

LogNext ==
  \/ \E t \in Task : \/ Loads(t) \/ EntersScope(t) \/ IsOver(t)
                     \/ \E c \in CallsOf(t) : Logs(t, c)
  \/ ClearHistory \/ OtherReads \/ OtherWrites \/ OtherTears

LogSpec == LogInit /\ [][LogNext]_logVars

-----------------------------------------------------------------------------
\* filterHistory and exportLogs, of the history: where in it the answer lies.
FilterHistory(category, type) ==
  {k \in DOMAIN recent : /\ category \in {"any", CategoryOf(logged[recent[k]].call)}
                         /\ type \in {"any", EventTypeOf(logged[recent[k]].call)}}
ByCategory == [k \in {"system", "analysis", "runtime", "security"} |-> Cardinality(FilterHistory(k, "any"))]

LogTypeOK ==
  /\ shared \in Task \cup {NoContext}
  /\ phase \in [Task -> {"idle", "loaded", "scoped", "over"}]
  /\ logged \in Seq([task : Task, context : Task \cup {NoContext}, call : LogCalls])
  /\ \A f \in DOMAIN files : files[f] \in Seq(0 .. MaxLogged)
  /\ recent \in Seq(1 .. MaxLogged) /\ overwritten \in BOOLEAN

\* Whatever else is loaded, run or cleared, the events in the file of a run are
\* its own, say so, and are in order; an event that names another workflow went
\* to the file that all share, and that file has every one of these while no other
\* process writes it.  The history is the end of what was logged, no longer than
\* its limit, and its counts by category add up.
LogsAreKept ==
  /\ \A t \in Task : /\ \A i \in ToSet(files[t]) : logged[i].task = t /\ logged[i].context = t
                     /\ \A k, l \in DOMAIN files[t] : k < l => files[t][k] < files[t][l]
  /\ \A i \in DOMAIN logged :
       /\ logged[i].context # logged[i].task => i \notin UNION {ToSet(files[t]) : t \in Task}
       /\ \E f \in DOMAIN files : i \in ToSet(files[f]) \/ overwritten
  /\ recent # <<>> => recent = [k \in 1 .. Len(recent) |-> Len(logged) - Len(recent) + k]
  /\ MaxLogHistory > 0 => Len(recent) <= MaxLogHistory
  /\ ByCategory.runtime + ByCategory.analysis + ByCategory.system = Len(recent)
  /\ \A k \in DOMAIN ByCategory : FilterHistory(k, "step.failed") # {} => k = "runtime"

\* A slower call is never logged at a lower level.
LevelsGrow ==
  \A d \in 0 .. 3, w \in 0 .. 2, e \in 0 .. 2 :
    Severity[MeasuredLevel(d, w, e)] <= Severity[MeasuredLevel(d + 1, w, e)]

\* The log of a run is its own, and is complete.
LogSound == LogsAreKept /\ LevelsGrow
=============================================================================
