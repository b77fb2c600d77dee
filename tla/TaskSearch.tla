----------------------------- MODULE TaskSearch -----------------------------
(***************************************************************************)
(* search_task (controller/task/tamp/task_planning.py): beam search, and   *)
(* greedy search, which is a beam of width one.  One step expands one      *)
(* operator of one state of the beam, in the order the code tries them, or *)
(* passes to the next level; the clock may run out before any of them.     *)
(***************************************************************************)
EXTENDS TransferDomain, Sequences

CONSTANTS
    Depth, Expansions, Width,   \* the budget
    Refusals                    \* bound: operators that motion probes refuse

ASSUME BudgetAssumption ==
    Depth \in Nat \ {0} /\ Expansions \in Nat \ {0} /\ Width \in Nat \ {0}

VARIABLES
    start, goal,
    refused,     \* operators for which no motion is found from the start
    level,       \* operators on the paths being extended
    queue,       \* what is left to expand on this level
    candidates,  \* states found on this level, with the path to each
    visited,
    expansions,
    result,      \* "searching", or the reason of the SearchResult
    plan

vars == <<start, goal, refused, level, queue, candidates, visited, expansions,
          result, plan>>

\* The refs of operators in alphabetical order.
Before(a, b) ==
    \/ a.obj < b.obj
    \/ a.obj = b.obj /\ a.source < b.source
    \/ a.obj = b.obj /\ a.source = b.source /\ a.target < b.target

\* The paths of one level have the same length.
PathBefore(p, q) ==
    \E i \in 1..Len(p) : Before(p[i], q[i]) /\ \A j \in 1..(i - 1) : p[j] = q[j]

Distance(node) == Cardinality(goal.required \ node.facts)

Better(m, n) ==
    \/ Distance(m) < Distance(n)
    \/ Distance(m) = Distance(n) /\ PathBefore(m.path, n.path)

\* The best candidates, as many as the beam is wide.
Beam(nodes) == { n \in nodes : Cardinality({ m \in nodes : Better(m, n) }) < Width }

\* Every operator of every state.
Expand(nodes) ==
    UNION { { [node |-> n, op |-> op] : op \in Operators(n.facts) } : n \in nodes }

\* The order of the loops: the states by rank, the operators of one by name.
Earlier(s, t) ==
    \/ Better(s.node, t.node)
    \/ s.node = t.node /\ Before(s.op, t.op)

Root(facts) == { [facts |-> facts, path |-> <<>>] }

\* Motion is probed from the measured state only; later states are skeletons.
CanMove(op, facts) ==
    Feasible(op, facts) /\ (facts = Facts(start) => op \notin refused)

\* What the first checks of the search answer at once.
FirstResult(g, facts) ==
    CASE ~Keeps(g, facts) -> "protected_goals_not_satisfied"
      [] Satisfied(g, facts) -> "ok"
      [] OTHER -> "searching"

Init ==
    /\ start \in Placements
    /\ goal \in { Goal(f, start) : f \in Assignments }
    /\ refused \in { S \in SUBSET Operators(Facts(start)) :
                       Cardinality(S) <= Refusals }
    /\ level = 1
    /\ queue = Expand(Root(Facts(start)))
    /\ candidates = {}
    /\ visited = {Facts(start)}
    /\ expansions = 0
    /\ result = FirstResult(goal, Facts(start))
    /\ plan = <<>>

Stop(reason) ==
    /\ result' = reason
    /\ UNCHANGED <<start, goal, refused, level, queue, candidates, visited,
                   expansions, plan>>

TimeOut ==
    /\ result = "searching"
    /\ queue # {}
    /\ Stop("planning_timeout")

RunOut ==
    /\ result = "searching"
    /\ queue # {}
    /\ expansions >= Expansions
    /\ Stop("expansion_budget_exhausted")

\* Fault: goals that must be kept are not looked at.
IsNewAnyhow(facts) == facts \notin visited

IsNew(facts) == facts \notin visited /\ Keeps(goal, facts)

\* Fault: a state is marked before it is known that the robot can get there.
MarkedAtSight(op, facts) == {Apply(op, facts)}

Marked(op, facts) == IF CanMove(op, facts) THEN {Apply(op, facts)} ELSE {}

ExpandNext ==
    \E step \in queue :
      LET node == step.node
          op == step.op
          next == Apply(op, node.facts)
          found == [facts |-> next, path |-> Append(node.path, op)]
          accepted == IsNew(next) /\ CanMove(op, node.facts)
          done == accepted /\ Satisfied(goal, next)
      IN  /\ \A other \in queue \ {step} : Earlier(step, other)
          /\ result = "searching"
          /\ expansions < Expansions
          /\ expansions' = expansions + 1
          /\ queue' = queue \ {step}
          /\ visited' = visited \cup
                          (IF IsNew(next) THEN Marked(op, node.facts) ELSE {})
          /\ candidates' = IF accepted /\ ~done THEN candidates \cup {found}
                           ELSE candidates
          /\ result' = IF done THEN "ok" ELSE result
          /\ plan' = IF done THEN found.path ELSE plan
          /\ UNCHANGED <<start, goal, refused, level>>

NextLevel ==
    /\ result = "searching"
    /\ queue = {}
    /\ IF candidates = {}
       THEN Stop("search_exhausted")
       ELSE IF level = Depth
       THEN Stop("depth_budget_exhausted")
       ELSE /\ level' = level + 1
            /\ queue' = Expand(Beam(candidates))
            /\ candidates' = {}
            /\ UNCHANGED <<start, goal, refused, visited, expansions, result, plan>>

Next == TimeOut \/ RunOut \/ ExpandNext \/ NextLevel

Spec == Init /\ [][Next]_vars

-----------------------------------------------------------------------------
(* What the search is meant to find.                                       *)

\* The states after n transfers that respect the goal and that can be made.
Reached ==
    LET reach[n \in Nat] ==
          IF n = 0 THEN {Facts(start)}
          ELSE UNION { { Apply(op, f) : op \in { op \in Operators(f) :
                           /\ CanMove(op, f)
                           /\ goal.protected \subseteq Apply(op, f) } }
                       : f \in reach[n - 1] }
    IN  reach

SolvedIn(n) == \E f \in Reached[n] : goal.required \subseteq f

-----------------------------------------------------------------------------
(* Properties.                                                             *)

\* A plan that is returned can be carried out step by step from the measured
\* state, never moves an object the instruction does not mention, reaches the
\* goal and keeps to the depth.
PlanIsExecutable ==
    result = "ok" =>
      LET after[i \in 0..Len(plan)] ==
            IF i = 0 THEN Facts(start) ELSE Apply(plan[i], after[i - 1])
      IN  /\ Len(plan) <= Depth
          /\ \A i \in 1..Len(plan) :
                CanMove(plan[i], after[i - 1]) /\ goal.protected \subseteq after[i]
          /\ goal.required \subseteq after[Len(plan)]

\* A beam that never has to drop a state misses nothing, although states are
\* marked as visited while their level is still expanded and motions from the
\* measured state are refused: a plan has the fewest transfers possible, the
\* depth is exhausted only if no plan keeps to it, and the search only if there
\* is no plan at all.
MissesNothing ==
    /\ result = "ok" => \A n \in 0..(Len(plan) - 1) : ~SolvedIn(n)
    /\ result = "depth_budget_exhausted" => \A n \in 0..Depth : ~SolvedIn(n)
    /\ result = "search_exhausted" =>
         \A n \in 0..Cardinality(Placements) : ~SolvedIn(n)
=============================================================================
