---------------------------- MODULE ExecutionPlan ----------------------------
(***************************************************************************)
(* Planning of a workflow: the checks on the "needs" of its steps, Kahn's  *)
(* sort into phases, the critical path, and the queries made on the plan   *)
(* (DependencyResolver, TopologicalSorter, ExecutionPlanner).  Steps are   *)
(* numbers, declared in the order in which their ids sort; needs[s] is the *)
(* sequence of dependencies step s names, as written, repetitions included.*)
(***************************************************************************)
EXTENDS Naturals, Integers, SequencesExt

\* The members of S in ascending order, each where as many are smaller.
Sorted(S) == [i \in 1 .. Cardinality(S) |-> CHOOSE x \in S : Cardinality({y \in S : y < x}) = i - 1]

-----------------------------------------------------------------------------
(***************************************************************************)
(* DependencyResolver                                                      *)
(***************************************************************************)
\* resolve throws on a dependency that is no step and on a step naming itself.
Resolves(needs) ==
  \A s \in DOMAIN needs : ToSet(needs[s]) \subseteq DOMAIN needs \ {s}

\* The dependencies of s among the steps of S, with their multiplicity: the
\* graph has an edge for each time a dependency is named.
EdgesTo(needs, s, S) == Cardinality({i \in DOMAIN needs[s] : needs[s][i] \in S})

DependentsOf(needs, d) == {s \in DOMAIN needs : d \in ToSet(needs[s])}
EntryPoints(needs) == {s \in DOMAIN needs : needs[s] = <<>>}
ExitPoints(needs) == {s \in DOMAIN needs : DependentsOf(needs, s) = {}}
InDegrees(needs) == [s \in DOMAIN needs |-> Len(needs[s])]

-----------------------------------------------------------------------------
(***************************************************************************)
(* TopologicalSorter                                                       *)
(***************************************************************************)
\* The unprocessed steps whose in-degree has dropped to zero.
Ready(k) == {s \in DOMAIN k.degree : k.degree[s] = 0} \ k.processed

\* One turn of the loop: the ready steps become a phase, and each of them
\* lowers the in-degree of its dependents.
Peel_OnePerStep(needs, k) ==
  LET phase == Ready(k)
  IN [degree    |-> [s \in DOMAIN needs |->
                       IF EdgesTo(needs, s, phase) > 0 THEN k.degree[s] - 1
                                                       ELSE k.degree[s]],
      processed |-> k.processed \cup phase,
      phases    |-> Append(k.phases, Sorted(phase))]

Peel(needs, k) ==
  LET phase == Ready(k)
  IN [degree    |-> [s \in DOMAIN needs |-> k.degree[s] - EdgesTo(needs, s, phase)],
      processed |-> k.processed \cup phase,
      phases    |-> Append(k.phases, Sorted(phase))]

\* sort: it stops when every step is processed, and throws when none is ready.
Kahn(needs) ==
  LET turn[n \in Nat] ==
        IF n = 0 THEN [degree |-> InDegrees(needs), processed |-> {}, phases |-> <<>>]
        ELSE LET k == turn[n - 1] IN IF Ready(k) = {} THEN k ELSE Peel(needs, k)
  IN turn[Cardinality(DOMAIN needs)]

Sorts(needs) == Kahn(needs).processed = DOMAIN needs
Phases(needs) == Kahn(needs).phases

\* calculateCriticalPath, for steps with the durations dur.  Both passes go
\* through the phases in order, so each is a recursion over the dependencies.
Earliest(needs, dur) ==
  LET start[s \in DOMAIN needs] ==
        Max({0} \cup {start[d] + dur[d] : d \in ToSet(needs[s])})
  IN start

Duration(needs, dur) ==
  LET start == Earliest(needs, dur) IN Max({0} \cup {start[s] + dur[s] : s \in DOMAIN needs})

Latest(needs, dur) ==
  LET end == Duration(needs, dur)
      start[s \in DOMAIN needs] ==
        Min({end} \cup {start[d] : d \in DependentsOf(needs, s)}) - dur[s]
  IN start

CriticalPath_Exits(needs, dur) ==
  LET start == Latest(needs, dur)
      end   == Duration(needs, dur)
  IN {s \in DOMAIN needs : start[s] + dur[s] = end}

CriticalPath(needs, dur) ==
  LET earliest == Earliest(needs, dur)
      latest   == Latest(needs, dur)
  IN {s \in DOMAIN needs : latest[s] = earliest[s]}

-----------------------------------------------------------------------------
(***************************************************************************)
(* ExecutionPlanner                                                        *)
(***************************************************************************)
\* plan throws when resolve does, then when the detector finds a cycle.
Plans(needs) == Resolves(needs) /\ Sorts(needs)

MaxParallelism(needs) ==
  Max({0} \cup {Len(Phases(needs)[i]) : i \in DOMAIN Phases(needs)})
CanParallelize(needs) == \E i \in DOMAIN Phases(needs) : Len(Phases(needs)[i]) > 1
FlatOrder(needs) == FlattenSeq(Phases(needs))
InitialNodes(needs) == IF Phases(needs) = <<>> THEN <<>> ELSE Phases(needs)[1]
PhaseForStep(needs, s) == CHOOSE i \in DOMAIN Phases(needs) : s \in ToSet(Phases(needs)[i])
=============================================================================
