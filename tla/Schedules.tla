----------------------------- MODULE Schedules -----------------------------
(***************************************************************************)
(* The Scheduler's event, webhook and manual triggers, the match of a cron *)
(* expression, and the stores of schedules and workflow definitions.       *)
(* Timed schedules are in CronSchedule.                                    *)
(***************************************************************************)
EXTENDS Naturals, FiniteSetsExt, SequencesExt

CONSTANTS ScheduleId,    \* the schedules, in any number of types
          TriggerCall,   \* the calls of a trigger
          StoreProcess,  \* the processes with a ScheduleStore and a WorkflowStore
          MaxVersions,   \* bound: the versions of a workflow
          MaxStoreCalls  \* bound: the calls of the stores

ASSUME SchedulesAssumption == MaxVersions \in Nat /\ MaxStoreCalls \in Nat

VARIABLES
  registry,  \* registry[s]: the WorkflowSchedule: whether it is registered and
             \* active, and which call has set each part of its input
  routes,    \* the Set of the one event source (or endpoint): its ids in the
             \* order they were added, and which Set it is
  calls      \* calls[c]: a call of triggerEvent, triggerWebhook or triggerManual

triggerVars == <<registry, routes, calls>>

NoTrigger == "no call"
NoSchedule == "no schedule"

TriggerInit ==
  /\ registry = [s \in ScheduleId |-> [status |-> "new", event |-> NoTrigger, manual |-> NoTrigger]]
  /\ routes = [ids |-> <<>>, gen |-> 1]
  /\ calls = [c \in TriggerCall |->
       [at |-> "idle", kind |-> "event", gen |-> 0, seen |-> {}, ran |-> <<>>, stable |-> {},
        now |-> NoSchedule, got |-> NoTrigger, overtaken |-> FALSE]]

-----------------------------------------------------------------------------
Listening(s) == registry[s].status \in {"active", "paused"}

\* addSchedule of a schedule of the source.
AddsSchedule(s) ==
  /\ registry[s].status = "new"
  /\ registry' = [registry EXCEPT ![s].status = "active"]
  /\ routes' = [routes EXCEPT !.ids = Append(@, s)]
  /\ UNCHANGED calls

\* removeSchedule: an empty Set is dropped, and the next schedule gets another.
RemovesSchedule(s) ==
  /\ Listening(s)
  /\ registry' = [registry EXCEPT ![s].status = "removed"]
  /\ LET left == RemoveFirst(routes.ids, s)
     IN routes' = [ids |-> left, gen |-> IF left = <<>> THEN routes.gen + 1 ELSE routes.gen]
  /\ calls' = [c \in TriggerCall |-> [calls[c] EXCEPT !.stable = @ \ {s}]]

\* The owner of the object that addSchedule returned.
PauseSchedule(s) ==
  /\ registry[s].status = "active"
  /\ registry' = [registry EXCEPT ![s].status = "paused"]
  /\ calls' = [c \in TriggerCall |-> [calls[c] EXCEPT !.stable = @ \ {s}]]
  /\ UNCHANGED routes

\* triggerEvent and triggerWebhook up to the loop over the Set, which goes on
\* over the Set as it is then.
TriggerEvent(c) ==
  /\ calls[c].at = "idle"
  /\ calls' = [calls EXCEPT ![c] = [@ EXCEPT
       !.at = IF routes.ids = <<>> THEN "done" ELSE "loop", !.gen = routes.gen,
       !.stable = {s \in ToSet(routes.ids) : registry[s].status = "active"}]]
  /\ UNCHANGED <<registry, routes>>

\* Mutant: the loop is over an array's positions, which move.
Unvisited_ByPosition(c) ==
  {i \in DOMAIN routes.ids : calls[c].gen = routes.gen /\ i > Cardinality(calls[c].seen)}

\* The places in the Set that the loop has not come to.
Unvisited(c) ==
  {i \in DOMAIN routes.ids : calls[c].gen = routes.gen /\ routes.ids[i] \notin calls[c].seen}

\* The handler of the workflow is given the schedule, whose input it may read
\* at once or after an await; another call may by then have replaced it.
RunSchedule(c, s, part) ==
  /\ registry' = [registry EXCEPT ![s][part] = c]
  /\ calls' = [d \in TriggerCall |->
       CASE d = c -> [calls[c] EXCEPT !.at = "running", !.kind = part, !.seen = @ \cup {s},
                                      !.ran = Append(@, s), !.now = s, !.got = NoTrigger, !.overtaken = FALSE]
         [] d # c /\ calls[d].now = s /\ calls[d].kind = part -> [calls[d] EXCEPT !.overtaken = TRUE]
         [] OTHER -> calls[d]]
  /\ UNCHANGED routes

NextSchedule(c) ==
  /\ calls[c].at = "loop"
  /\ IF Unvisited(c) = {}
       THEN calls' = [calls EXCEPT ![c].at = "done", ![c].seen = {}] /\ UNCHANGED <<registry, routes>>
       ELSE LET s == routes.ids[Min(Unvisited(c))]
            IN IF registry[s].status = "active" THEN RunSchedule(c, s, "event")
               ELSE calls' = [calls EXCEPT ![c].seen = @ \cup {s}] /\ UNCHANGED <<registry, routes>>

\* triggerManual asks for no active schedule.
TriggerManual(c, s) ==
  /\ calls[c].at = "idle" /\ Listening(s)
  /\ RunSchedule(c, s, "manual")

\* The handler ends, and has read the input last of all.  One that throws ends
\* the trigger, and leaves the rest of the Set.
HandlerEnds(c) ==
  /\ calls[c].at = "running"
  /\ \E end \in {"threw", IF calls[c].kind = "manual" THEN "done" ELSE "loop"} :
       calls' = [calls EXCEPT ![c].at = end, ![c].now = NoSchedule,
                              ![c].got = registry[calls[c].now][calls[c].kind]]
  /\ UNCHANGED <<registry, routes>>

TriggerNext ==
  \/ \E s \in ScheduleId : AddsSchedule(s) \/ RemovesSchedule(s) \/ PauseSchedule(s)
  \/ \E c \in TriggerCall : \/ TriggerEvent(c) \/ NextSchedule(c) \/ HandlerEnds(c)
                            \/ \E s \in ScheduleId : TriggerManual(c, s)

TriggerSpec == TriggerInit /\ [][TriggerNext]_triggerVars

-----------------------------------------------------------------------------
(***************************************************************************)
(* ScheduleParser.matchesField                                             *)
(***************************************************************************)
\* A part of a field: "*", "a-b", "a", "*/n", "a-b/n" or "a/n".
FieldParts ==
  [form : {"all", "range", "value", "allStep", "rangeStep", "valueStep"}, a : 0 .. 3, b : 0 .. 3, n : 1 .. 2]

MatchesPart_FromZero(v, piece, min) ==
  CASE piece.form = "all" -> TRUE
    [] piece.form = "value" -> v = piece.a
    [] piece.form = "range" -> v \in piece.a .. piece.b
    [] piece.form = "allStep" -> v % piece.n = 0
    [] piece.form = "rangeStep" -> v \in piece.a .. piece.b /\ v % piece.n = 0
    [] piece.form = "valueStep" -> FALSE

\* A value with a step matches nothing.
MatchesPart(v, piece, min) ==
  CASE piece.form = "all" -> TRUE
    [] piece.form = "value" -> v = piece.a
    [] piece.form = "range" -> v \in piece.a .. piece.b
    [] piece.form = "allStep" -> (v - min) % piece.n = 0
    [] piece.form = "rangeStep" -> v \in piece.a .. piece.b /\ (v - piece.a) % piece.n = 0
    [] piece.form = "valueStep" -> FALSE

MatchesField(v, parts, min) == \E p \in parts : MatchesPart(v, p, min)

\* What a crontab means by a part of a field, for the values min .. max.
Meant(piece, min, max) ==
  LET stepped(from, to, n) == {v \in from .. to : \E k \in 0 .. to : v = from + k * n}
  IN CASE piece.form = "all" -> min .. max
       [] piece.form = "value" -> {piece.a} \cap (min .. max)
       [] piece.form = "range" -> (piece.a .. piece.b) \cap (min .. max)
       [] piece.form = "allStep" -> stepped(min, max, piece.n)
       [] piece.form = "rangeStep" -> stepped(piece.a, piece.b, piece.n) \cap (min .. max)
       [] piece.form = "valueStep" -> stepped(piece.a, max, piece.n) \cap (min .. max)

\* But for a value with a step, a field matches what a crontab means by it.
FieldsMatchAsMeant ==
  \A piece \in FieldParts : \A min \in {0, 1} :
    piece.form # "valueStep" => {v \in min .. 3 : MatchesField(v, {piece}, min)} = Meant(piece, min, 3)

TriggersTypeOK ==
  /\ \A s \in ScheduleId : /\ registry[s].status \in {"new", "active", "paused", "removed"}
                           /\ {registry[s].event, registry[s].manual} \subseteq TriggerCall \cup {NoTrigger}
  /\ ToSet(routes.ids) \subseteq ScheduleId /\ routes.gen \in Nat
  /\ \A c \in TriggerCall : /\ calls[c].at \in {"idle", "loop", "running", "done", "threw"}
                            /\ calls[c].stable \cup calls[c].seen \subseteq ScheduleId
                            /\ calls[c].now \in ScheduleId \cup {NoSchedule}

\* The routes are the registered schedules.  A trigger that ends well has run
\* every schedule that was there and active from its beginning to its end, and
\* runs none twice.  A handler gets the data of its own trigger unless another
\* trigger of the same schedule came before it looked.  Fields match as meant.
TriggersSafe ==
  /\ ToSet(routes.ids) = {s \in ScheduleId : Listening(s)}
  /\ \A c \in TriggerCall :
       /\ calls[c].at = "done" /\ calls[c].kind = "event" => calls[c].stable \subseteq ToSet(calls[c].ran)
       /\ IsInjective(calls[c].ran)
       /\ calls[c].got \notin {NoTrigger, c} => calls[c].overtaken
  /\ FieldsMatchAsMeant

-----------------------------------------------------------------------------
(***************************************************************************)
(* ScheduleStore, of one schedule, and WorkflowStore, of one workflow.     *)
(* Each process has its own cache of the files.                            *)
(***************************************************************************)
VARIABLES
  scheduleFile,  \* the PersistedSchedule in the file; NoRecord if none can be read
  scheduleCache, \* scheduleCache[p]
  unaware,       \* history: the processes whose cache has missed a write, or was not written
  versionFile,   \* versionFile[n]: "none", "torn", which no one can read, or "whole"
  latest,        \* latest[p]: latestVersionCache, or 0
  saving,        \* saving[p]: where p's call of save is, and its version
  behind,        \* history: the processes whose latest or saving has missed a change
  replaced,      \* history: the whole file of a version has been overwritten
  careless,      \* history: a process that was behind has saved
  storeCalls     \* calls made so far

scheduleStoreVars == <<scheduleFile, scheduleCache, unaware>>
workflowStoreVars == <<versionFile, latest, saving, behind, replaced, careless>>
storeVars == <<scheduleStoreVars, workflowStoreVars, storeCalls>>

NoRecord == [status |-> "none", runs |-> 0, errors |-> 0, last |-> "none"]
Versions == 1 .. MaxVersions
NotSaving == [at |-> "idle", n |-> 0]
Others(p) == StoreProcess \ {p}
CountsStoreCall == storeCalls < MaxStoreCalls /\ storeCalls' = storeCalls + 1

StoresInit ==
  /\ scheduleFile = NoRecord /\ scheduleCache = [p \in StoreProcess |-> NoRecord] /\ unaware = {}
  /\ versionFile = [n \in Versions |-> "none"] /\ latest = [p \in StoreProcess |-> 0]
  /\ saving = [p \in StoreProcess |-> NotSaving]
  /\ behind = {} /\ replaced = FALSE /\ careless = FALSE /\ storeCalls = 0

\* The others that answer from their cache, if the file becomes what is written.
FallBehind(p, written) ==
  IF written = scheduleFile THEN {} ELSE {r \in Others(p) : scheduleCache[r] # NoRecord}

\* The cache first, then the file: whose write may fail, without a word, before
\* the file is opened or after.
WritesRecord(p, record) ==
  /\ scheduleCache' = [scheduleCache EXCEPT ![p] = record]
  /\ \E written \in {record, scheduleFile, NoRecord} :
       /\ scheduleFile' = written
       /\ unaware' = (IF written = record THEN unaware \ {p} ELSE unaware \cup {p})
                     \cup FallBehind(p, written)

SaveSchedule(p) == WritesRecord(p, [status |-> "active", runs |-> 0, errors |-> 0, last |-> "none"])

\* _getOrLoad: the first half of what follows, and of list.
LoadsRecord(p) ==
  /\ scheduleCache[p] = NoRecord /\ scheduleFile # NoRecord
  /\ scheduleCache' = [scheduleCache EXCEPT ![p] = scheduleFile]
  /\ unaware' = unaware \ {p}
  /\ UNCHANGED scheduleFile

AfterRun_KeepsErrors(record, status) ==
  [record EXCEPT !.runs = @ + 1, !.last = status, !.errors = IF status = "completed" THEN @ ELSE @ + 1]

AfterRun(record, status) ==
  [record EXCEPT !.runs = @ + 1, !.last = status, !.errors = IF status = "completed" THEN 0 ELSE @ + 1]

UpdateLastRun(p) ==
  /\ scheduleCache[p] # NoRecord
  /\ \E status \in {"completed", "failed"} : WritesRecord(p, AfterRun(scheduleCache[p], status))

\* enable and disable.
SetStatus(p) ==
  /\ scheduleCache[p] # NoRecord
  /\ \E status \in {"active", "paused"} : WritesRecord(p, [scheduleCache[p] EXCEPT !.status = status])

\* The file may stay, as the removal may fail.
DeleteSchedule(p) ==
  /\ scheduleCache' = [scheduleCache EXCEPT ![p] = NoRecord]
  /\ \E written \in {NoRecord, scheduleFile} :
       scheduleFile' = written /\ unaware' = (unaware \ {p}) \cup FallBehind(p, written)

Existing == {n \in Versions : versionFile[n] # "none"}
WholeVersions == {n \in Versions : versionFile[n] = "whole"}

NextVersion_Count(p) == Cardinality(Existing) + 1

\* _nextVersion: the cache first.
NextVersion(p) ==
  IF latest[p] # 0 THEN latest[p] + 1 ELSE IF Existing = {} THEN 1 ELSE Max(Existing) + 1

\* save, in the steps that other processes can come between: the number is chosen,
NumberVersion(p) ==
  /\ NextVersion(p) \in Versions
  /\ saving' = [saving EXCEPT ![p] = [at |-> "numbered", n |-> NextVersion(p)]]
  /\ UNCHANGED <<versionFile, latest, behind, replaced, careless>>

\* A file is overwritten, in p's save.
Overwrites(p) ==
  /\ replaced' = (replaced \/ versionFile[saving[p].n] = "whole")
  /\ careless' = (careless \/ p \in behind)

\* the file is opened and truncated,
OpenVersion(p) ==
  /\ saving[p].at = "numbered"
  /\ saving' = [saving EXCEPT ![p].at = "open"]
  /\ versionFile' = [versionFile EXCEPT ![saving[p].n] = "torn"]
  /\ Overwrites(p)
  /\ UNCHANGED <<latest, behind>>

\* and written, in full or, over what another has written, in part of it.
WriteVersion(p) ==
  LET n == saving[p].n
  IN /\ saving[p].at = "open"
     /\ \E content \in {"whole"} \cup (IF n \in WholeVersions THEN {"torn"} ELSE {}) :
          versionFile' = [versionFile EXCEPT ![n] = content]
     /\ Overwrites(p)
     /\ saving' = [saving EXCEPT ![p] = NotSaving]
     /\ latest' = [latest EXCEPT ![p] = n]
     /\ behind' = behind \cup {r \in Others(p) : latest[r] # 0 \/ saving[r].n \in 1 .. n}

\* The file it has opened was removed meanwhile.
WriteIsLost(p) ==
  /\ saving[p].at = "adrift"
  /\ saving' = [saving EXCEPT ![p] = NotSaving]
  /\ latest' = [latest EXCEPT ![p] = saving[p].n]
  /\ UNCHANGED <<versionFile, behind, replaced, careless>>

\* An error at any step is swallowed.
SaveFails(p) ==
  /\ saving[p] # NotSaving
  /\ saving' = [saving EXCEPT ![p] = NotSaving]
  /\ UNCHANGED <<versionFile, latest, behind, replaced, careless>>

\* loadLatest: the cached version unless its file can not be read.
LatestOf(p) ==
  IF latest[p] \in WholeVersions THEN latest[p] ELSE IF Existing = {} THEN 0 ELSE Max(Existing)

LoadLatest(p) ==
  /\ Existing # {}
  /\ latest' = [latest EXCEPT ![p] = LatestOf(p)]
  /\ behind' = IF LatestOf(p) = Max(Existing) THEN behind \ {p} ELSE behind
  /\ UNCHANGED <<versionFile, saving, replaced, careless>>

\* delete of one version or of all: of which some may have gone when it fails.  The
\* cache forgets its version only if it succeeds.
DeleteVersions(p) ==
  \E asked \in {{n} : n \in Versions} \cup {Versions} : \E gone \in SUBSET (asked \cap Existing) :
    /\ versionFile' = [n \in Versions |-> IF n \in gone THEN "none" ELSE versionFile[n]]
    /\ saving' = [r \in StoreProcess |-> IF saving[r].at = "open" /\ saving[r].n \in gone
                                         THEN [saving[r] EXCEPT !.at = "adrift"] ELSE saving[r]]
    /\ latest' = [latest EXCEPT ![p] = IF gone = asked \cap Existing /\ @ \in asked THEN 0 ELSE @]
    /\ behind' = {r \in behind \cup {o \in StoreProcess : latest[o] \in gone \/ saving[o].n \in gone} :
                    latest'[r] # 0 \/ saving[r].n # 0}
    /\ UNCHANGED <<replaced, careless>>

\* Wherever it is: a crash between the steps of a save leaves the file torn.
ProcessRestarts(p) ==
  /\ scheduleCache' = [scheduleCache EXCEPT ![p] = NoRecord]
  /\ latest' = [latest EXCEPT ![p] = 0] /\ saving' = [saving EXCEPT ![p] = NotSaving]
  /\ unaware' = unaware \ {p} /\ behind' = behind \ {p}
  /\ UNCHANGED <<scheduleFile, versionFile, replaced, careless>>

\* No process calls a store while it saves.
ScheduleCall(p) ==
  /\ saving[p] = NotSaving
  /\ SaveSchedule(p) \/ LoadsRecord(p) \/ UpdateLastRun(p) \/ SetStatus(p) \/ DeleteSchedule(p)

WorkflowCall(p) ==
  /\ saving[p] = NotSaving
  /\ NumberVersion(p) \/ LoadLatest(p) \/ DeleteVersions(p)

SaveStep(p) == OpenVersion(p) \/ WriteVersion(p) \/ WriteIsLost(p) \/ SaveFails(p)

StoresNext ==
  \E p \in StoreProcess :
    \/ CountsStoreCall /\ ScheduleCall(p) /\ UNCHANGED workflowStoreVars
    \/ CountsStoreCall /\ WorkflowCall(p) /\ UNCHANGED scheduleStoreVars
    \/ CountsStoreCall /\ ProcessRestarts(p)
    \/ SaveStep(p) /\ UNCHANGED <<scheduleStoreVars, storeCalls>>

StoresSpec == StoresInit /\ [][StoresNext]_storeVars

StoresTypeOK ==
  /\ {scheduleFile} \cup {scheduleCache[p] : p \in StoreProcess} \subseteq
       [status : {"none", "active", "paused"}, runs : 0 .. MaxStoreCalls, errors : 0 .. MaxStoreCalls,
        last : {"none", "completed", "failed"}]
  /\ versionFile \in [Versions -> {"none", "torn", "whole"}] /\ latest \in [StoreProcess -> 0 .. MaxVersions]
  /\ saving \in [StoreProcess -> [at : {"idle", "numbered", "open", "adrift"}, n : 0 .. MaxVersions]]
  /\ unaware \cup behind \subseteq StoreProcess

\* A process that has missed no write, none of another and none of its own that
\* failed, has the file in its cache, and no record has more consecutive errors
\* than runs, nor any after a success.  A whole version is overwritten only by the
\* save of a process that was behind: another one had saved or deleted since it
\* knew its latest version or chose the number.  Until then what a run used can be
\* replayed, and a process that is not behind loads the greatest version that is
\* whole, or nothing if the last file is torn.
StoresSafe ==
  /\ \A p \in StoreProcess \ unaware : scheduleCache[p] \in {NoRecord, scheduleFile}
  /\ scheduleFile.errors <= scheduleFile.runs
  /\ scheduleFile.last = "completed" => scheduleFile.errors = 0
  /\ replaced => careless
  /\ ~careless => \A p \in StoreProcess \ behind :
       IF LatestOf(p) \in WholeVersions THEN LatestOf(p) = Max(WholeVersions)
                                        ELSE WholeVersions = {} \/ Max(Existing) \notin WholeVersions
=============================================================================
