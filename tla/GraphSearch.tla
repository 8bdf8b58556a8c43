----------------------------- MODULE GraphSearch -----------------------------
(***************************************************************************)
(* The depth-first searches over the dependency graph: the three-colour    *)
(* search and Tarjan's components of CycleDetector, the search and the     *)
(* linear order of WorkflowGuard, sortLinear of TopologicalSorter and      *)
(* getDependencyChain of ExecutionPlanner.  They are recursive, so they    *)
(* live apart from ExecutionPlan, whose operators they are checked against.*)
(***************************************************************************)
EXTENDS ExecutionPlan

-----------------------------------------------------------------------------
(***************************************************************************)
(* CycleDetector.detect: colours, parent pointers, and the cycle once one  *)
(* is found (after which every loop returns at once).                      *)
(***************************************************************************)
\* Walk from the end of the closing edge back to the grey step it leads to.
RECURSIVE WalkBack(_, _, _)
WalkBack(parent, s, to) ==
  IF s = to \/ s \notin DOMAIN parent THEN <<s>>
  ELSE Append(WalkBack(parent, parent[s], to), s)

RECURSIVE Dfs(_, _, _)

\* The loop of dfs over the dependencies of s.
Explore_BlackIsGrey(needs, s, st, d) ==
  CASE st.cycle # <<>> -> st
    [] st.cycle = <<>> /\ st.color[d] # "white" ->
         [st EXCEPT !.cycle = Append(WalkBack(st.parent, s, d), d)]
    [] st.cycle = <<>> /\ st.color[d] = "white" ->
         Dfs(needs, d, [st EXCEPT !.parent = (d :> s) @@ st.parent])

Explore(needs, s, st, d) ==
  CASE st.cycle # <<>> -> st
    [] st.cycle = <<>> /\ st.color[d] = "grey" ->
         [st EXCEPT !.cycle = Append(WalkBack(st.parent, s, d), d)]
    [] st.cycle = <<>> /\ st.color[d] = "white" ->
         Dfs(needs, d, [st EXCEPT !.parent = (d :> s) @@ st.parent])
    [] st.cycle = <<>> /\ st.color[d] = "black" -> st

Dfs(needs, s, st) ==
  LET grey == [st EXCEPT !.color[s] = "grey"]
      end  == FoldLeft(LAMBDA t, d : Explore(needs, s, t, d), grey,
                       SortSeq(needs[s], <))
  IN IF end.cycle # <<>> THEN end ELSE [end EXCEPT !.color[s] = "black"]

\* detect: the cycle it reports, or <<>>.
DetectedCycle(needs) ==
  FoldLeft(LAMBDA st, s : IF st.cycle = <<>> /\ st.color[s] = "white"
                          THEN Dfs(needs, s, st) ELSE st,
           [color |-> [s \in DOMAIN needs |-> "white"], parent |-> <<>>, cycle |-> <<>>],
           Sorted(DOMAIN needs)).cycle

-----------------------------------------------------------------------------
(***************************************************************************)
(* CycleDetector.findStronglyConnectedComponents (Tarjan).                 *)
(***************************************************************************)
\* Pop the component of s off the stack; those of one step are dropped.
PopComponent_KeepsSingles(st, s) ==
  LET at == CHOOSE i \in DOMAIN st.stack : st.stack[i] = s
  IN [st EXCEPT !.stack = SubSeq(st.stack, 1, at - 1),
                !.sccs = @ \cup {ToSet(SubSeq(st.stack, at, Len(st.stack)))}]

PopComponent(st, s) ==
  LET at  == CHOOSE i \in DOMAIN st.stack : st.stack[i] = s
      scc == ToSet(SubSeq(st.stack, at, Len(st.stack)))
  IN [st EXCEPT !.stack = SubSeq(st.stack, 1, at - 1),
                !.sccs = IF Cardinality(scc) > 1 THEN @ \cup {scc} ELSE @]

RECURSIVE StrongConnect(_, _, _)

\* The loop over the dependencies: descend into a new one, or take the index
\* of one that is still on the stack.
LowLink(needs, s, st, d) ==
  IF d \notin DOMAIN st.index
  THEN LET t == StrongConnect(needs, d, st)
       IN [t EXCEPT !.low[s] = Min({t.low[s], t.low[d]})]
  ELSE IF d \in ToSet(st.stack)
       THEN [st EXCEPT !.low[s] = Min({st.low[s], st.index[d]})]
       ELSE st

StrongConnect(needs, s, st) ==
  LET entered == [st EXCEPT !.index = (s :> st.next) @@ @,
                            !.low   = (s :> st.next) @@ @,
                            !.next  = @ + 1,
                            !.stack = Append(@, s)]
      end == FoldLeft(LAMBDA t, d : LowLink(needs, s, t, d), entered,
                      SortSeq(needs[s], <))
  IN IF end.low[s] = end.index[s] THEN PopComponent(end, s) ELSE end

\* The count of indices starts again from 0 at each root.
Components(needs) ==
  FoldLeft(LAMBDA st, s : IF s \in DOMAIN st.index THEN st
                          ELSE StrongConnect(needs, s, [st EXCEPT !.next = 0]),
           [index |-> <<>>, low |-> <<>>, next |-> 0, stack |-> <<>>, sccs |-> {}],
           Sorted(DOMAIN needs)).sccs

-----------------------------------------------------------------------------
(***************************************************************************)
(* WorkflowGuard                                                           *)
(***************************************************************************)
RECURSIVE GuardDfs(_, _, _)

\* detectCircularDependencies: "throws" stands for the Error, after which the
\* callers of dfs do nothing more.
GuardDfs(needs, s, st) ==
  CASE st.throws \/ (s \notin st.visiting /\ s \in st.visited) -> st
    [] ~st.throws /\ s \in st.visiting -> [st EXCEPT !.throws = TRUE]
    [] OTHER ->
         LET end == FoldLeft(LAMBDA t, d : GuardDfs(needs, d, t),
                             [st EXCEPT !.visiting = @ \cup {s}], needs[s])
         IN [end EXCEPT !.visiting = @ \ {s}, !.visited = @ \cup {s}]

GuardThrows(needs) ==
  FoldLeft(LAMBDA st, s : GuardDfs(needs, s, st),
           [visiting |-> {}, visited |-> {}, throws |-> FALSE],
           Sorted(DOMAIN needs)).throws

\* FailureHandler.calculateStepsToSkip, a breadth-first search.
RECURSIVE Skipped(_, _, _)
Skipped(needs, queue, toSkip) ==
  IF queue = <<>> THEN toSkip
  ELSE LET new == DependentsOf(needs, Head(queue)) \ toSkip
       IN Skipped(needs, Tail(queue) \o Sorted(new), toSkip \cup new)
StepsToSkip(needs, failed) == Skipped(needs, <<failed>>, {})

\* getExecutionOrder: Kahn's algorithm one step at a time, always the first
\* in the sorted queue; <<>> when it throws because steps are left over.
RECURSIVE Drain(_, _, _)
Drain(needs, degree, out) ==
  LET ready == {s \in DOMAIN needs : degree[s] = 0} \ ToSet(out)
      next  == Min(ready)
  IN IF ready = {} THEN out
     ELSE Drain(needs, [s \in DOMAIN needs |-> degree[s] - EdgesTo(needs, s, {next})],
                Append(out, next))

ExecutionOrder(needs) ==
  LET order == Drain(needs, InDegrees(needs), <<>>)
  IN IF Len(order) = Cardinality(DOMAIN needs) THEN order ELSE <<>>

RECURSIVE Collect(_, _, _)
Collect(needs, s, found) ==
  FoldLeft(LAMBDA acc, d : IF d \in acc THEN acc ELSE Collect(needs, d, acc \cup {d}),
           found, needs[s])
AllDependencies(needs, s) == Collect(needs, s, {})

-----------------------------------------------------------------------------
(***************************************************************************)
(* Post-order walks: sortLinear over all steps, getDependencyChain of one. *)
(***************************************************************************)
RECURSIVE Visit(_, _, _)
Visit(needs, s, st) ==
  IF s \in st.visited THEN st
  ELSE LET end == FoldLeft(LAMBDA t, d : Visit(needs, d, t),
                           [st EXCEPT !.visited = @ \cup {s}], needs[s])
       IN [end EXCEPT !.order = Append(@, s)]

NothingVisited == [visited |-> {}, order |-> <<>>]
SortLinear(needs) ==
  FoldLeft(LAMBDA st, s : Visit(needs, s, st), NothingVisited, Sorted(DOMAIN needs)).order
DependencyChain(needs, s) == Visit(needs, s, NothingVisited).order

-----------------------------------------------------------------------------
(***************************************************************************)
(* What the searches are to find                                           *)
(***************************************************************************)
\* The pairs of steps with a path of dependencies from the first to the second,
\* by Warshall's algorithm; the operators below take them as path.
Through(needs, m, path) ==
  path \cup ({s \in DOMAIN needs : <<s, m>> \in path} \X {d \in DOMAIN needs : <<m, d>> \in path})

DependsOn(needs) ==
  LET path[m \in 0 .. Len(needs)] ==
        IF m = 0 THEN UNION {{s} \X ToSet(needs[s]) : s \in DOMAIN needs}
                 ELSE UNION {Through(needs, m, shorter) : shorter \in {path[m - 1]}}
  IN path[Len(needs)]

NoCycle(needs, path) == \A s \in DOMAIN needs : <<s, s>> \notin path

\* An order of all the steps with every step after its dependencies.
Respects(needs, path, order) ==
  /\ Len(order) = Len(needs) /\ ToSet(order) = DOMAIN needs
  /\ \A i, j \in DOMAIN needs : <<order[i], order[j]>> \in path => j < i

\* The length of the longest chain of dependencies that ends with s.
Depth(needs) ==
  LET depth[s \in DOMAIN needs] == 1 + Max({0} \cup {depth[d] : d \in ToSet(needs[s])})
  IN depth

\* The planner, its cycle detector, the sorter and the guard give one verdict,
\* though each has its own search: a plan exists if there is no cycle.
VerdictsAgree(needs, path) ==
  /\ Plans(needs) <=> NoCycle(needs, path)
  /\ DetectedCycle(needs) = <<>> <=> NoCycle(needs, path)
  /\ GuardThrows(needs) <=> ~NoCycle(needs, path)
  /\ Sorts(needs) <=> NoCycle(needs, path)
  /\ ExecutionOrder(needs) # <<>> <=> NoCycle(needs, path)

\* The cycle that the detector reports is one, and its components are the sets
\* of steps that depend on each other.
ReportsAreTrue(needs, path) ==
  LET cycle == DetectedCycle(needs)
      mutual(s) == {t \in DOMAIN needs \ {s} : <<s, t>> \in path /\ <<t, s>> \in path}
  IN /\ cycle # <<>> => /\ cycle[1] = cycle[Len(cycle)]
                        /\ \A i \in 1 .. Len(cycle) - 1 : cycle[i + 1] \in ToSet(needs[cycle[i]])
     /\ Components(needs) = {{s} \cup mutual(s) : s \in {s \in DOMAIN needs : mutual(s) # {}}}

\* Every step is in one phase, as early as its dependencies allow, and every
\* linear order and chain has the dependencies of a step before it.
OrdersAgree(needs, path) ==
  NoCycle(needs, path) =>
    /\ [s \in DOMAIN needs |-> PhaseForStep(needs, s)] = Depth(needs)
    /\ \A order \in {FlatOrder(needs), ExecutionOrder(needs), SortLinear(needs)} :
         Respects(needs, path, order)
    /\ ToSet(InitialNodes(needs)) = EntryPoints(needs)
    /\ CanParallelize(needs) <=> Len(Phases(needs)) < Len(needs)
    /\ Len(needs) <= MaxParallelism(needs) * Len(Phases(needs))
    /\ \A s \in DOMAIN needs :
         \A chain \in {DependencyChain(needs, s)} :
           /\ ToSet(chain) = {s} \cup AllDependencies(needs, s)
           /\ \A i, j \in DOMAIN chain : <<chain[i], chain[j]>> \in path => j < i

\* What depends on a step, and what it depends on, is found whole.
ClosuresAreWhole(needs, path) ==
  \A s \in DOMAIN needs :
    /\ AllDependencies(needs, s) = {d \in DOMAIN needs : <<s, d>> \in path}
    /\ StepsToSkip(needs, s) = {t \in DOMAIN needs : <<t, s>> \in path}

SearchesAgree(needs) ==
  \A path \in {DependsOn(needs)} :
    /\ VerdictsAgree(needs, path) /\ ReportsAreTrue(needs, path)
    /\ OrdersAgree(needs, path) /\ ClosuresAreWhole(needs, path)
=============================================================================
