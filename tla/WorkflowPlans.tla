---------------------------- MODULE WorkflowPlans ----------------------------
(***************************************************************************)
(* A workflow that is written one dependency at a time, and what planning  *)
(* makes of it: the sort into phases and the critical path of              *)
(* ExecutionPlan, against what a plan is to be.  The searches that the     *)
(* code makes beside them are in GraphSearch.                              *)
(***************************************************************************)
EXTENDS ExecutionPlan

CONSTANTS Steps,     \* the number of steps
          MaxNeeds,  \* bound: the dependencies that all steps together name
          Durations  \* the durations of steps

ASSUME WorkflowPlansAssumption ==
  Steps \in Nat /\ MaxNeeds \in Nat /\ Durations \subseteq Nat

VARIABLE needs   \* needs[s]: what step s names in "needs"

PlanStep == 1 .. Steps

Named == MapThenSumSet(LAMBDA s : Len(needs[s]), PlanStep)

PlansTypeOK ==
  /\ needs \in [PlanStep -> Seq(PlanStep)]
  /\ Named <= MaxNeeds

PlansInit == needs = [s \in PlanStep |-> <<>>]

\* A dependency is written, the same one again perhaps, or the step itself.
Needs(s, d) ==
  /\ Named < MaxNeeds
  /\ needs' = [needs EXCEPT ![s] = Append(@, d)]

PlansNext == \E s, d \in PlanStep : Needs(s, d)

PlansSpec == PlansInit /\ [][PlansNext]_needs

-----------------------------------------------------------------------------
\* Every set of steps has one that needs none of the set.
Acyclic == \A S \in SUBSET PlanStep : S # {} => \E s \in S : ToSet(needs[s]) \cap S = {}

\* Each step is in one phase of the plan, once.
EachStepOnce(plan) ==
  /\ UNION {ToSet(plan[i]) : i \in DOMAIN plan} = PlanStep
  /\ \A i, j \in DOMAIN plan : i # j => ToSet(plan[i]) \cap ToSet(plan[j]) = {}
  /\ \A i \in DOMAIN plan : Len(plan[i]) = Cardinality(ToSet(plan[i]))

NeedsBefore(plan) ==
  \A i, j \in DOMAIN plan : \A s \in ToSet(plan[i]), d \in ToSet(plan[j]) : d \in ToSet(needs[s]) => j < i

\* No step could be in an earlier phase.
NoneWaitsLonger(plan) ==
  \A i \in DOMAIN plan : i > 1 =>
    \A s \in ToSet(plan[i]) : ToSet(needs[s]) \cap ToSet(plan[i - 1]) # {}

\* The lengths of the longest chain from s on, with its durations dur.
Remaining(dur) ==
  LET length[s \in PlanStep] == dur[s] + Max({0} \cup {length[t] : t \in DependentsOf(needs, s)})
  IN length

-----------------------------------------------------------------------------
(***************************************************************************)
(* Properties                                                              *)
(***************************************************************************)
\* The planner accepts the needs that are acyclic and no others, however often
\* a dependency is named; and its plan has each step once, after its needs, in
\* the first phase in which it can be.
PlannerSound ==
  /\ Plans(needs) <=> Acyclic
  /\ Plans(needs) => /\ EachStepOnce(Phases(needs)) /\ NeedsBefore(Phases(needs))
                     /\ NoneWaitsLonger(Phases(needs))

\* The critical path is the steps of the longest chains, for all durations.
CriticalPathIsLongest ==
  Acyclic => \A dur \in [PlanStep -> Durations] :
    LET before == Earliest(needs, dur)
        rest == Remaining(dur)
        total == Max({0} \cup {rest[s] : s \in PlanStep})
    IN /\ Duration(needs, dur) = total
       /\ CriticalPath(needs, dur) = {s \in PlanStep : before[s] + rest[s] = total}
=============================================================================
