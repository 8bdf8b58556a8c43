----------------------------- MODULE Explanation -----------------------------
(***************************************************************************)
(* What ExplanationGenerator says of a workflow before it runs, its cycles, *)
(* depth, paths and times, and the engine's check of versions.  The code   *)
(* has its own searches for this, apart from the executor's planner; they  *)
(* are checked against it.  The workflow is written one remark at a time.  *)
(***************************************************************************)
EXTENDS ExecutionPlan

CONSTANTS DraftSteps, \* the number of steps
          MaxEdits    \* bound: what is written of them

VARIABLE draft \* the workflow: what its steps need, and which of them have what

DraftStep == 1 .. DraftSteps
NoStep == 0   \* a dependency that is no step

\* when: with a condition; fs: an action of the adapter fs, not of shell;
\* timed: with the timeout "30s".
DraftInit == draft = [needs |-> [s \in DraftStep |-> <<>>], when |-> {}, fs |-> {}, timed |-> {}]

Edits == MapThenSumSet(LAMBDA s : Len(draft.needs[s]), DraftStep)
           + Cardinality(draft.when) + Cardinality(draft.fs) + Cardinality(draft.timed)

NamesDependency(s) == \E d \in DraftStep \cup {NoStep} : draft' = [draft EXCEPT !.needs[s] = Append(@, d)]
IsMarked(s) ==
  \E mark \in {"when", "fs", "timed"} : s \notin draft[mark] /\ draft' = [draft EXCEPT ![mark] = @ \cup {s}]

DraftNext == Edits < MaxEdits /\ \E s \in DraftStep : NamesDependency(s) \/ IsMarked(s)

\* dependencyGraph[id] || []
DependenciesOf(d, s) == IF s \in DraftStep THEN d.needs[s] ELSE <<>>

-----------------------------------------------------------------------------
(***************************************************************************)
(* detectCycles: a search that leaves its stack as it is when it has found *)
(* a cycle, so that the next one begins with it.                           *)
(***************************************************************************)
RECURSIVE SearchFrom(_, _, _)

\* Mutant: a step that was seen before, on another way, closes a cycle.
Neighbour_Seen(d, t, n) ==
  CASE t.found -> t
    [] ~t.found /\ n \notin t.visited -> SearchFrom(d, n, t)
    [] OTHER -> [t EXCEPT !.found = TRUE, !.cycles = Append(@, <<n>>)]

Neighbour(d, t, n) ==
  CASE t.found -> t
    [] ~t.found /\ n \notin t.visited -> SearchFrom(d, n, t)
    [] ~t.found /\ n \in t.stack ->
         LET at == CHOOSE i \in DOMAIN t.path : t.path[i] = n
         IN [t EXCEPT !.found = TRUE, !.cycles = Append(@, SubSeq(t.path, at, Len(t.path)) \o <<n>>)]
    [] OTHER -> t

SearchFrom(d, s, t) ==
  LET entered == [t EXCEPT !.visited = @ \cup {s}, !.stack = @ \cup {s}, !.path = Append(@, s)]
      end == FoldLeft(LAMBDA u, n : Neighbour(d, u, n), entered, DependenciesOf(d, s))
  IN IF s = NoStep THEN t
     ELSE IF end.found THEN end ELSE [end EXCEPT !.stack = @ \ {s}, !.path = Front(@)]

DetectCycles(d) ==
  FoldLeft(LAMBDA t, s : IF s \in t.visited THEN t ELSE SearchFrom(d, s, [t EXCEPT !.found = FALSE]),
           [visited |-> {}, stack |-> {}, path |-> <<>>, cycles |-> <<>>, found |-> FALSE],
           Sorted(DraftStep)).cycles

-----------------------------------------------------------------------------
(***************************************************************************)
(* Depth and phases.  getDepth counts from 1, calculateDepth from 0; both   *)
(* keep what they found, and a step that is met again on its way counts 0.  *)
(***************************************************************************)
RECURSIVE DepthFrom(_, _, _, _, _)
DepthFrom(d, base, s, visited, found) ==
  LET end == FoldLeft(LAMBDA acc, n :
                        LET of == DepthFrom(d, base, n, visited \cup {s}, acc.found)
                        IN [deepest |-> Max({acc.deepest, of.depth}), found |-> of.found],
                      [deepest |-> base - 1, found |-> found], DependenciesOf(d, s))
  IN CASE s \in DOMAIN found -> [depth |-> found[s], found |-> found]
       [] s \notin DOMAIN found /\ s \in visited -> [depth |-> 0, found |-> found]
       [] OTHER -> [depth |-> end.deepest + 1, found |-> (s :> end.deepest + 1) @@ end.found]

DepthsFrom(d, base) ==
  FoldLeft(LAMBDA found, s : DepthFrom(d, base, s, {}, found).found, <<>>, Sorted(DraftStep))

CalculateMaxDepth(d) == Max(Range(DepthsFrom(d, 1)))

\* byStep, in tens of milliseconds; parseInt makes 30 ms of "30s".
EstimateOf(d, s) ==
  LET of == IF s \in d.fs THEN [min |-> 1, avg |-> 10, max |-> 100] ELSE [min |-> 10, avg |-> 100, max |-> 500]
  IN IF s \in d.timed THEN [of EXCEPT !.max = Min({@, 3})] ELSE of

\* byPhase: the phases that have steps, each as long as the longest of them.
PhasesOf(d) ==
  LET depths == DepthsFrom(d, 0)
      steps(p) == {s \in DraftStep : depths[s] = p}
      used == {p \in 0 .. Max(Range(depths)) : steps(p) # {}}
  IN [i \in 1 .. Cardinality(used) |-> steps(SetToSortSeq(used, <)[i])]

PhaseTime(d, steps, kind) == Max({EstimateOf(d, s)[kind] : s \in steps})
TotalTime(d, kind) == FoldLeft(LAMBDA sum, steps : sum + PhaseTime(d, steps, kind), 0, PhasesOf(d))

-----------------------------------------------------------------------------
(***************************************************************************)
(* findCriticalPath                                                        *)
(***************************************************************************)
Longer(a, b) == IF b.duration > a.duration THEN b ELSE a

\* calculatePath keeps the paths it has found to steps with dependencies.
RECURSIVE PathTo(_, _, _, _)

\* Mutant: the first dependency is followed, however long its path.
LongestNeed_First(d, s, visited, found) ==
  LET first == IF DependenciesOf(d, s) = <<>> THEN [duration |-> 0, path |-> <<>>, found |-> found]
               ELSE PathTo(d, Head(DependenciesOf(d, s)), visited, found)
  IN [best |-> [duration |-> first.duration, path |-> first.path], found |-> first.found]

LongestNeed(d, s, visited, found) ==
  FoldLeft(LAMBDA acc, n :
             LET to == PathTo(d, n, visited, acc.found)
             IN [best |-> Longer(acc.best, [duration |-> to.duration, path |-> to.path]), found |-> to.found],
           [best |-> [duration |-> -1, path |-> <<>>], found |-> found], DependenciesOf(d, s))

PathTo(d, s, visited, found) ==
  LET time == EstimateOf(d, s).avg
      need == LongestNeed(d, s, visited \cup {s}, found)
      best == [duration |-> need.best.duration + time, path |-> Append(need.best.path, s)]
  IN CASE s \in DOMAIN found -> [duration |-> found[s].duration, path |-> found[s].path, found |-> found]
       [] s \notin DOMAIN found /\ s \in visited -> [duration |-> 0, path |-> <<>>, found |-> found]
       [] s \notin DOMAIN found \cup visited /\ DependenciesOf(d, s) = <<>> ->
            [duration |-> time, path |-> <<s>>, found |-> found]
       [] OTHER -> [duration |-> best.duration, path |-> best.path, found |-> (s :> best) @@ need.found]

EndNodes(d) == {s \in DraftStep : \A t \in DraftStep : s \notin ToSet(d.needs[t])}

CriticalPathOf(d) ==
  FoldLeft(LAMBDA acc, s :
             LET to == PathTo(d, s, {}, acc.found)
             IN [best |-> Longer(acc.best, [duration |-> to.duration, path |-> to.path]), found |-> to.found],
           [best |-> [duration |-> 0, path |-> <<>>], found |-> <<>>], Sorted(EndNodes(d))).best

\* A dependency on no step has no estimate: generate throws when it meets it.
ReachedFrom(d, S) ==
  LET reach[n \in 0 .. DraftSteps] ==
        IF n = 0 THEN S ELSE reach[n - 1] \cup UNION {ToSet(DependenciesOf(d, s)) : s \in reach[n - 1]}
  IN reach[DraftSteps]
Explains(d) == NoStep \notin ReachedFrom(d, EndNodes(d))

\* Longer than one and a half times the mean, on the critical path.
Bottlenecks(d) ==
  {s \in ToSet(CriticalPathOf(d).path) : 2 * DraftSteps * EstimateOf(d, s).avg > 3 * TotalTime(d, "avg")}

-----------------------------------------------------------------------------
(***************************************************************************)
(* Strategy, conditions and what is unresolved                             *)
(***************************************************************************)
\* Never "parallel"; the steps that need another are counted as parallelizable.
ExecutionStrategy(d) ==
  IF \A s \in DraftStep : d.needs[s] = <<>> \/ (s > 1 /\ s - 1 \in ToSet(d.needs[s]))
  THEN "sequential" ELSE "mixed"
Parallelizable(d) == Cardinality({s \in DraftStep : d.needs[s] # <<>>})

\* analyzeConditionalPaths: all conditions true, and all false.
ConditionalPaths(d) ==
  IF d.when = {} THEN {[executed |-> DraftStep, skipped |-> {}]}
  ELSE {[executed |-> DraftStep, skipped |-> {}], [executed |-> DraftStep \ d.when, skipped |-> d.when]}
AlwaysExecutes(d) == {s \in DraftStep \ d.when : ToSet(d.needs[s]) \cap d.when = {}}

HasUnresolvedDependencies(d, s) == NoStep \in ToSet(d.needs[s])

-----------------------------------------------------------------------------

CompareVersionTuples(a, b) ==
  CASE a[1] # b[1] -> a[1] - b[1]
    [] a[1] = b[1] /\ a[2] # b[2] -> a[2] - b[2]
    [] OTHER -> a[3] - b[3]

EngineVersion == <<0, 1, 2>>
NoBound == <<>>

\* w has the major version of the language, and perhaps bounds on the engine's.
VersionSupported(w) ==
  /\ w.major = 1
  /\ w.min # NoBound => CompareVersionTuples(EngineVersion, w.min) >= 0
  /\ w.max # NoBound => CompareVersionTuples(EngineVersion, w.max) <= 0

-----------------------------------------------------------------------------
(***************************************************************************)
(* Properties                                                              *)
(***************************************************************************)
DraftTypeOK ==
  /\ draft.needs \in [DraftStep -> Seq(DraftStep \cup {NoStep})]
  /\ draft.when \cup draft.fs \cup draft.timed \subseteq DraftStep
  /\ Edits <= MaxEdits

\* Steps of which each needs another of them.
Loops(d) == \E S \in SUBSET DraftStep \ {{}} : \A s \in S : ToSet(d.needs[s]) \cap S # {}

\* generate reports a cycle when there is one, and only then, and the first one
\* is one; those after it may begin on the way to the first.
CyclesAreFound ==
  LET cycles == DetectCycles(draft)
  IN /\ cycles # <<>> <=> Loops(draft)
     /\ cycles # <<>> =>
          /\ Head(cycles[1]) = Last(cycles[1])
          /\ \A i \in 1 .. Len(cycles[1]) - 1 : cycles[1][i + 1] \in ToSet(draft.needs[cycles[1][i]])

\* A workflow that the planner accepts is explained as it is going to run: in the
\* planner's phases, as deep as there are phases, on a critical path that is a
\* chain of dependencies from a step that needs none to one that none needs, as
\* long as the planner's and never longer than the phases.  The steps that are
\* counted as parallelizable are those that wait for another, and one step after
\* the other, in the order of the document, is called sequential.
ExplainedAsPlanned ==
  Plans(draft.needs) =>
    LET critical == CriticalPathOf(draft)
        avg == [s \in DraftStep |-> EstimateOf(draft, s).avg]
    IN /\ Explains(draft)
       /\ PhasesOf(draft) = [i \in DOMAIN Phases(draft.needs) |-> ToSet(Phases(draft.needs)[i])]
       /\ CalculateMaxDepth(draft) = Len(Phases(draft.needs))
       /\ draft.needs[Head(critical.path)] = <<>> /\ Last(critical.path) \in EndNodes(draft)
       /\ \A i \in 1 .. Len(critical.path) - 1 : critical.path[i] \in ToSet(draft.needs[critical.path[i + 1]])
       /\ critical.duration = Duration(draft.needs, avg)
       /\ critical.duration = FoldLeft(LAMBDA sum, s : sum + avg[s], 0, critical.path)
       /\ ToSet(critical.path) \subseteq CriticalPath(draft.needs, avg)
       /\ critical.duration <= TotalTime(draft, "avg")
       /\ Bottlenecks(draft) # DraftStep
       /\ EndNodes(draft) = ExitPoints(draft.needs)
       /\ Parallelizable(draft) = DraftSteps - Len(Phases(draft.needs)[1])
       /\ PhasesOf(draft) = [s \in DraftStep |-> {s}] => ExecutionStrategy(draft) = "sequential"

\* A workflow with an unknown dependency is only explained when no step that
\* ends it leads there, which takes a cycle.  A step outside every path that
\* skips is one that always executes.
GapsAreSeen ==
  /\ Explains(draft) /\ ~Loops(draft) => \A s \in DraftStep : ~HasUnresolvedDependencies(draft, s)
  /\ AlwaysExecutes(draft) \subseteq {s \in DraftStep : \A path \in ConditionalPaths(draft) : s \in path.executed}
  /\ \A s \in DraftStep : ReachedFrom(draft, {s}) \cap draft.when = {} => s \in AlwaysExecutes(draft)

\* The comparison of versions is a total order, so that a workflow whose bounds
\* admit two engines admits each one between, and bounds the wrong way round
\* admit none.
VersionsOrdered ==
  LET V == {<<i, j, k>> : i, j, k \in 0 .. 2}
  IN \A a, b \in V :
       /\ CompareVersionTuples(a, b) = 0 <=> a = b
       /\ CompareVersionTuples(a, b) < 0 <=> CompareVersionTuples(b, a) > 0
       /\ VersionSupported([major |-> 1, min |-> a, max |-> b]) => CompareVersionTuples(a, b) <= 0
       /\ CompareVersionTuples(a, b) <= 0 /\ VersionSupported([major |-> 1, min |-> b, max |-> NoBound])
            => VersionSupported([major |-> 1, min |-> a, max |-> NoBound])

ExplanationSound == CyclesAreFound /\ ExplainedAsPlanned /\ GapsAreSeen /\ VersionsOrdered
=============================================================================
