-------------------------- MODULE TaskSearchProofs --------------------------
(***************************************************************************)
(* For any objects, regions, goals and budgets, and whichever motions are  *)
(* refused: a plan that the search returns can be carried out from the     *)
(* measured state, keeps what the goal protects and reaches the rest; and  *)
(* a beam as wide as the table has placements misses no plan.              *)
(***************************************************************************)
EXTENDS TaskSearch, FiniteSetTheorems, TLAPS

-----------------------------------------------------------------------------
(* Induction *)

LEMMA NatIsWellFounded == IsWellFoundedOn({ss \in Nat \X Nat : ss[1] < ss[2]}, Nat)
BY NatLessThanWellFounded DEF OpToRel

\* A set that holds 0 and is closed under successor holds every natural number.
LEMMA SetInduction ==
  ASSUME NEW S, 0 \in S, \A n \in Nat : n \in S => n + 1 \in S
  PROVE  \A n \in Nat : n \in S
<1> DEFINE R == {ss \in Nat \X Nat : ss[1] < ss[2]}
<1> DEFINE T == Nat \ S
<1> SUFFICES ASSUME T # {} PROVE FALSE
  OBVIOUS
<1>1. IsWellFoundedOn(R, Nat) /\ T \subseteq Nat
  BY NatIsWellFounded
<1> HIDE DEF R
<1>2. PICK x \in T : \A y \in T : ~ (<<y, x>> \in R)
  <2> HIDE DEF T
  <2> QED BY <1>1, WFMin
<1>3. x \in Nat /\ x # 0 /\ x - 1 \in Nat /\ x - 1 + 1 = x
  OBVIOUS
<1>4. x - 1 \in T
  BY <1>3
<1>5. <<x - 1, x>> \in R
  BY <1>3 DEF R
<1> QED BY <1>2, <1>4, <1>5

-----------------------------------------------------------------------------
(* The inductive invariant *)

\* The states that a path goes through.
IsTrail(trail, path) ==
  /\ trail[0] = Facts(start)
  /\ \A i \in 1..Len(path) :
       /\ CanMove(path[i], trail[i - 1])
       /\ trail[i] = Apply(path[i], trail[i - 1])
       /\ goal.protected \subseteq trail[i]

\* The path can be carried out from the measured state and leads to the facts.
Leads(path, facts) == \E trail : IsTrail(trail, path) /\ trail[Len(path)] = facts

IsFound(node, length) ==
  /\ node.path \in Seq(Transfer) /\ Len(node.path) = length
  /\ Leads(node.path, node.facts)

\* Whatever has been found was found on a path that can be carried out, of the length
\* of its level.
SearchInv ==
  /\ level \in 1..Depth
  /\ \A step \in queue : step.op \in Transfer /\ IsFound(step.node, level - 1)
  /\ \A node \in candidates : IsFound(node, level)

\* So was the plan.
PlanInv ==
  result = "ok" =>
    /\ plan \in Seq(Transfer) /\ Len(plan) <= Depth
    /\ \E facts : Leads(plan, facts) /\ goal.required \subseteq facts

-----------------------------------------------------------------------------
(* Paths *)

LEMMA EmptyPathLeads == Leads(<<>>, Facts(start))
<1> DEFINE trail == [i \in {0} |-> Facts(start)]
<1>1. IsTrail(trail, <<>>) /\ trail[Len(<<>>)] = Facts(start)
  BY DEF IsTrail
<1> QED BY <1>1 DEF Leads

LEMMA AppendLemma ==
  ASSUME NEW X, NEW w \in Seq(X), NEW x \in X
  PROVE  /\ Append(w, x) \in Seq(X) /\ Len(Append(w, x)) = Len(w) + 1
         /\ Append(w, x)[Len(w) + 1] = x
         /\ \A i \in 1..Len(w) : Append(w, x)[i] = w[i]
OBVIOUS

LEMMA LongerPathLeads ==
  ASSUME NEW path \in Seq(Transfer), NEW facts, Leads(path, facts), NEW op \in Transfer,
         CanMove(op, facts), goal.protected \subseteq Apply(op, facts)
  PROVE  Leads(Append(path, op), Apply(op, facts))
<1>1. PICK trail : IsTrail(trail, path) /\ trail[Len(path)] = facts
  BY DEF Leads
<1> DEFINE n      == Len(path)
           after  == Apply(op, facts)
           longer == [i \in 0..(n + 1) |-> IF i <= n THEN trail[i] ELSE after]
           p      == Append(path, op)
<1>2. n \in Nat /\ Len(p) = n + 1 /\ p[n + 1] = op /\ \A i \in 1..n : p[i] = path[i]
  BY AppendLemma
<1>3. \A i \in 0..n : longer[i] = trail[i]
  BY <1>2
<1>4. longer[n + 1] = after
  BY <1>2
<1> HIDE DEF n, after, longer, p
<1>5. longer[0] = Facts(start)
  BY <1>1, <1>2, <1>3 DEF IsTrail
<1>6. ASSUME NEW i \in 1..(n + 1)
      PROVE  /\ CanMove(p[i], longer[i - 1])
             /\ longer[i] = Apply(p[i], longer[i - 1])
             /\ goal.protected \subseteq longer[i]
  <2>1. CASE i = n + 1
    <3>1. i - 1 = n /\ n \in 0..n
      BY <1>2, <2>1
    <3>2. longer[i - 1] = facts
      BY <1>1, <1>3, <3>1 DEF n
    <3> QED BY <1>2, <1>4, <2>1, <3>2 DEF after
  <2>2. CASE i \in 1..n
    <3>1. i \in 0..n /\ i - 1 \in 0..n
      BY <1>2, <2>2
    <3>2. longer[i] = trail[i] /\ longer[i - 1] = trail[i - 1] /\ p[i] = path[i]
      BY <1>2, <1>3, <2>2, <3>1
    <3>3. /\ CanMove(path[i], trail[i - 1])
          /\ trail[i] = Apply(path[i], trail[i - 1])
          /\ goal.protected \subseteq trail[i]
      BY <1>1, <2>2 DEF IsTrail, n
    <3> QED BY <3>2, <3>3
  <2> QED BY <1>2, <2>1, <2>2
<1>7. IsTrail(longer, p) /\ longer[Len(p)] = after
  BY <1>2, <1>4, <1>5, <1>6 DEF IsTrail
<1> QED BY <1>7 DEF Leads, p, after

\* What has been found stays found.
LEMMA FoundStays ==
  ASSUME UNCHANGED <<start, goal, refused>>, NEW node, NEW length, IsFound(node, length)
  PROVE  IsFound(node, length)'
BY DEF IsFound, Leads, IsTrail, CanMove

\* The states that the property computes are those of the trail.
LEMMA TrailIsComputed ==
  ASSUME NEW path \in Seq(Transfer), NEW trail, IsTrail(trail, path)
  PROVE  LET after[i \in 0..Len(path)] ==
               IF i = 0 THEN Facts(start) ELSE Apply(path[i], after[i - 1])
         IN  \A i \in 0..Len(path) : after[i] = trail[i]
<1> DEFINE n == Len(path)
           after[i \in 0..n] == IF i = 0 THEN Facts(start) ELSE Apply(path[i], after[i - 1])
           g == [i \in 0..n |-> trail[i]]
<1>1. n \in Nat
  OBVIOUS
<1>2. g = [i \in 0..n |-> IF i = 0 THEN Facts(start) ELSE Apply(path[i], g[i - 1])]
  <2>1. ASSUME NEW i \in 0..n
        PROVE  trail[i] = IF i = 0 THEN Facts(start) ELSE Apply(path[i], g[i - 1])
    <3>1. CASE i = 0
      BY <3>1 DEF IsTrail
    <3>2. CASE i # 0
      <4>1. i \in 1..n /\ i - 1 \in 0..n
        BY <1>1, <3>2
      <4>2. trail[i] = Apply(path[i], trail[i - 1])
        BY <4>1 DEF IsTrail
      <4>3. g[i - 1] = trail[i - 1]
        BY <4>1
      <4> HIDE DEF g
      <4> QED BY <3>2, <4>2, <4>3
    <3> QED BY <3>1, <3>2
  <2> QED BY <2>1
<1> HIDE DEF g
<1>3. after = [i \in 0..n |-> IF i = 0 THEN Facts(start) ELSE Apply(path[i], after[i - 1])]
  BY <1>2
<1> HIDE DEF after
<1> DEFINE S == {i \in Nat : i <= n => after[i] = trail[i]}
<1>4. 0 \in S
  BY <1>1, <1>3 DEF IsTrail
<1>5. ASSUME NEW i \in Nat, i \in S PROVE i + 1 \in S
  <2> SUFFICES ASSUME i + 1 <= n PROVE after[i + 1] = trail[i + 1]
    OBVIOUS
  <2>1. i + 1 \in 1..n /\ i + 1 \in 0..n /\ i + 1 - 1 = i /\ i + 1 # 0 /\ i <= n
    BY <1>1
  <2>2. after[i] = trail[i]
    BY <1>5, <2>1
  <2>3. after[i + 1] = Apply(path[i + 1], after[i])
    BY <1>3, <2>1
  <2>4. trail[i + 1] = Apply(path[i + 1], trail[i])
    BY <2>1 DEF IsTrail
  <2> QED BY <2>2, <2>3, <2>4
<1>6. \A i \in Nat : i \in S
  <2> HIDE DEF S
  <2> QED BY <1>4, <1>5, SetInduction
<1>7. \A i \in 0..n : after[i] = trail[i]
  BY <1>1, <1>6
<1> QED BY <1>7 DEF after

-----------------------------------------------------------------------------
(* Theorems *)

\* Whatever the search keeps was found on a path that can be carried out, and the plan
\* that it returns is such a path.
THEOREM FindsAreReal == Spec => [](SearchInv /\ PlanInv)
<1>1. Init => SearchInv /\ PlanInv
  <2> SUFFICES ASSUME Init PROVE SearchInv /\ PlanInv
    OBVIOUS
  <2>1. level \in 1..Depth /\ level - 1 = 0 /\ candidates = {}
    BY BudgetAssumption DEF Init
  <2>2. \A step \in queue : step.op \in Transfer /\ step.node = [facts |-> Facts(start), path |-> <<>>]
    BY DEF Init, Expand, Root, Operators
  <2>3. IsFound([facts |-> Facts(start), path |-> <<>>], 0)
    BY EmptyPathLeads DEF IsFound
  <2>4. SearchInv
    BY <2>1, <2>2, <2>3 DEF SearchInv
  <2>5. PlanInv
    <3> SUFFICES ASSUME result = "ok" PROVE PlanInv
      BY DEF PlanInv
    <3>1. Satisfied(goal, Facts(start)) /\ plan = <<>>
      BY DEF Init, FirstResult
    <3> QED BY <3>1, EmptyPathLeads, BudgetAssumption DEF PlanInv, Satisfied
  <2> QED BY <2>4, <2>5
<1>2. ASSUME SearchInv, PlanInv, [Next]_vars PROVE SearchInv' /\ PlanInv'
  <2>1. ASSUME NEW reason \in {"planning_timeout", "expansion_budget_exhausted",
                               "search_exhausted", "depth_budget_exhausted"}, Stop(reason)
        PROVE  SearchInv' /\ PlanInv'
    <3>1. UNCHANGED <<start, goal, refused>> /\ UNCHANGED <<level, queue, candidates>>
      BY <2>1 DEF Stop
    <3>2. SearchInv'
      BY <1>2, <3>1, FoundStays DEF SearchInv
    <3> QED BY <2>1, <3>2 DEF Stop, PlanInv
  <2>2. CASE TimeOut \/ RunOut
    BY <2>1, <2>2 DEF TimeOut, RunOut
  <2>3. CASE ExpandNext
    <3>1. PICK step \in queue :
            LET node == step.node
                op == step.op
                next == Apply(op, node.facts)
                found == [facts |-> next, path |-> Append(node.path, op)]
                accepted == IsNew(next) /\ CanMove(op, node.facts)
                done == accepted /\ Satisfied(goal, next)
            IN  /\ queue' = queue \ {step}
                /\ candidates' = IF accepted /\ ~done THEN candidates \cup {found}
                                 ELSE candidates
                /\ result = "searching"
                /\ result' = IF done THEN "ok" ELSE result
                /\ plan' = IF done THEN found.path ELSE plan
                /\ UNCHANGED <<start, goal, refused, level>>
      BY <2>3 DEF ExpandNext
    <3> DEFINE node == step.node
               op == step.op
               next == Apply(op, node.facts)
               found == [facts |-> next, path |-> Append(node.path, op)]
               accepted == IsNew(next) /\ CanMove(op, node.facts)
               done == accepted /\ Satisfied(goal, next)
    <3>2. op \in Transfer /\ IsFound(node, level - 1) /\ level \in 1..Depth
      BY <1>2 DEF SearchInv
    <3>3. accepted => IsFound(found, level)
      <4> SUFFICES ASSUME accepted PROVE IsFound(found, level)
        OBVIOUS
      <4>1. /\ node.path \in Seq(Transfer) /\ Len(node.path) = level - 1
            /\ Leads(node.path, node.facts)
        BY <3>2 DEF IsFound
      <4>2. /\ found.path \in Seq(Transfer) /\ Len(found.path) = level - 1 + 1
        BY <3>2, <4>1, AppendLemma
      <4>3. CanMove(op, node.facts) /\ goal.protected \subseteq next
        BY DEF IsNew, Keeps
      <4>4. Leads(found.path, found.facts)
        BY <3>2, <4>1, <4>3, LongerPathLeads
      <4> HIDE DEF found
      <4> QED BY <3>2, <4>2, <4>4, BudgetAssumption DEF IsFound
    <3>4. /\ queue' \subseteq queue /\ candidates' \subseteq candidates \cup {found}
          /\ candidates' # candidates => accepted
          /\ UNCHANGED <<start, goal, refused>> /\ level' = level
      BY <3>1
    <3>5. \A n \in candidates' : IsFound(n, level)
      BY <1>2, <3>3, <3>4 DEF SearchInv
    <3>6. SearchInv'
      BY <1>2, <3>4, <3>5, FoundStays DEF SearchInv
    <3>7. PlanInv'
      <4> SUFFICES ASSUME result' = "ok" PROVE PlanInv'
        BY DEF PlanInv
      <4>1. done /\ plan' = found.path
        BY <3>1
      <4>2. IsFound(found, level) /\ goal.required \subseteq found.facts
        BY <3>3, <4>1 DEF Satisfied
      <4>3. IsFound(found, level)'
        BY <3>4, <4>2, FoundStays
      <4> QED BY <3>2, <3>4, <4>1, <4>2, <4>3, BudgetAssumption DEF PlanInv, IsFound
    <3> QED BY <3>6, <3>7
  <2>4. CASE NextLevel
    <3>1. CASE candidates = {} \/ level = Depth
      BY <2>1, <2>4, <3>1 DEF NextLevel
    <3>2. CASE ~(candidates = {} \/ level = Depth)
      <4>1. /\ level' = level + 1 /\ queue' = Expand(Beam(candidates)) /\ candidates' = {}
            /\ UNCHANGED <<start, goal, refused>> /\ result' = "searching"
        BY <2>4, <3>2 DEF NextLevel
      <4>2. level' \in 1..Depth /\ level' - 1 = level
        BY <1>2, <3>2, <4>1, BudgetAssumption DEF SearchInv
      <4>3. \A step \in queue' : step.op \in Transfer /\ step.node \in candidates
        <5>1. Beam(candidates) \subseteq candidates
          BY DEF Beam
        <5>2. ASSUME NEW step \in queue'
              PROVE  step.op \in Transfer /\ step.node \in Beam(candidates)
          BY <4>1 DEF Expand, Operators
        <5> QED BY <5>1, <5>2
      <4>4. \A step \in queue' : step.op \in Transfer /\ IsFound(step.node, level)
        BY <1>2, <4>3 DEF SearchInv
      <4>5. SearchInv'
        BY <4>1, <4>2, <4>4, FoundStays DEF SearchInv
      <4> QED BY <4>1, <4>5 DEF PlanInv
    <3> QED BY <3>1, <3>2
  <2>5. CASE UNCHANGED vars
    <3>1. UNCHANGED <<start, goal, refused>> /\ UNCHANGED <<level, queue, candidates>>
          /\ UNCHANGED <<result, plan>>
      BY <2>5 DEF vars
    <3>2. SearchInv'
      BY <1>2, <3>1, FoundStays DEF SearchInv
    <3>3. PlanInv'
      BY <1>2, <3>1 DEF PlanInv, Leads, IsTrail, CanMove
    <3> QED BY <3>2, <3>3
  <2> QED BY <1>2, <2>2, <2>3, <2>4, <2>5 DEF Next
<1> QED BY <1>1, <1>2, PTL DEF Spec

\* A plan that is returned can be carried out step by step from the measured state,
\* never moves an object that the instruction does not mention, reaches the goal and
\* keeps to the depth.
THEOREM PlansAreExecutable == Spec => []PlanIsExecutable
<1>1. PlanInv => PlanIsExecutable
  <2> SUFFICES ASSUME PlanInv, result = "ok" PROVE PlanIsExecutable
    BY DEF PlanIsExecutable
  <2>1. /\ plan \in Seq(Transfer) /\ Len(plan) <= Depth
    BY DEF PlanInv
  <2>2. PICK trail : IsTrail(trail, plan) /\ goal.required \subseteq trail[Len(plan)]
    BY DEF PlanInv, Leads
  <2> DEFINE after[i \in 0..Len(plan)] ==
               IF i = 0 THEN Facts(start) ELSE Apply(plan[i], after[i - 1])
  <2>3. \A i \in 0..Len(plan) : after[i] = trail[i]
    BY <2>1, <2>2, TrailIsComputed
  <2> HIDE DEF after
  <2>4. ASSUME NEW i \in 1..Len(plan)
        PROVE  CanMove(plan[i], after[i - 1]) /\ goal.protected \subseteq after[i]
    <3>1. i \in 0..Len(plan) /\ i - 1 \in 0..Len(plan)
      BY <2>1
    <3> QED BY <2>2, <2>3, <3>1 DEF IsTrail
  <2>5. goal.required \subseteq after[Len(plan)]
    BY <2>1, <2>2, <2>3
  <2> QED BY <2>1, <2>4, <2>5 DEF PlanIsExecutable, after
<1> QED BY <1>1, FindsAreReal, PTL

-----------------------------------------------------------------------------
(* The states that can be reached *)

\* What one more transfer makes of a set of states.
Onward(S) ==
  UNION { { Apply(op, f) : op \in { op \in Operators(f) :
              /\ CanMove(op, f)
              /\ goal.protected \subseteq Apply(op, f) } }
          : f \in S }

\* Reached as far as n.
IsReach(g, n) == g = [i \in 0..n |-> IF i = 0 THEN {Facts(start)} ELSE Onward(g[i - 1])]

LEMMA ReachExists == \A n \in Nat : \E g : IsReach(g, n)
<1> DEFINE S == {n \in Nat : \E g : IsReach(g, n)}
<1>1. 0 \in S
  <2> DEFINE g == [i \in 0..0 |-> {Facts(start)}]
  <2>1. g = [i \in 0..0 |-> IF i = 0 THEN {Facts(start)} ELSE Onward(g[i - 1])]
    OBVIOUS
  <2> HIDE DEF g
  <2> QED BY <2>1 DEF IsReach
<1>2. ASSUME NEW n \in Nat, n \in S PROVE n + 1 \in S
  <2>1. PICK g : IsReach(g, n)
    BY <1>2
  <2> DEFINE h == [i \in 0..(n + 1) |-> IF i <= n THEN g[i] ELSE Onward(g[n])]
  <2>2. \A i \in 0..n : h[i] = g[i]
    OBVIOUS
  <2>3. h[n + 1] = Onward(g[n]) /\ h = [i \in 0..(n + 1) |-> h[i]]
    OBVIOUS
  <2> HIDE DEF h
  <2>4. ASSUME NEW i \in 0..(n + 1)
        PROVE  h[i] = IF i = 0 THEN {Facts(start)} ELSE Onward(h[i - 1])
    <3>1. CASE i = 0
      <4>1. 0 \in 0..n
        OBVIOUS
      <4>2. g[0] = {Facts(start)}
        BY <2>1, <4>1 DEF IsReach
      <4> QED BY <2>2, <3>1, <4>1, <4>2
    <3>2. CASE i \in 1..n
      <4>1. i \in 0..n /\ i - 1 \in 0..n /\ i # 0
        BY <3>2
      <4>2. g[i] = Onward(g[i - 1])
        BY <2>1, <4>1 DEF IsReach
      <4> QED BY <2>2, <4>1, <4>2
    <3>3. CASE i = n + 1
      <4>1. i - 1 = n /\ n \in 0..n /\ i # 0
        BY <3>3
      <4> QED BY <2>2, <2>3, <3>3, <4>1
    <3> QED BY <3>1, <3>2, <3>3
  <2>5. IsReach(h, n + 1)
    BY <2>3, <2>4 DEF IsReach
  <2> QED BY <2>5
<1> HIDE DEF S
<1>3. \A n \in Nat : n \in S
  BY <1>1, <1>2, SetInduction
<1> QED BY <1>3 DEF S

LEMMA ReachStep ==
  ASSUME NEW n \in Nat, NEW g, IsReach(g, n), NEW i \in 0..n, i # 0
  PROVE  g[i] = Onward(g[i - 1])
BY DEF IsReach

LEMMA ReachIsUnique ==
  ASSUME NEW n \in Nat, NEW m \in Nat, NEW g, NEW h, IsReach(g, n), IsReach(h, m)
  PROVE  \A i \in Nat : i <= n /\ i <= m => g[i] = h[i]
<1> DEFINE S == {i \in Nat : i <= n /\ i <= m => g[i] = h[i]}
<1>1. 0 \in S
  <2>1. 0 \in 0..n /\ 0 \in 0..m
    OBVIOUS
  <2>2. g[0] = {Facts(start)} /\ h[0] = {Facts(start)}
    BY <2>1 DEF IsReach
  <2> QED BY <2>2
<1>2. ASSUME NEW i \in Nat, i \in S PROVE i + 1 \in S
  <2> SUFFICES ASSUME i + 1 <= n, i + 1 <= m PROVE g[i + 1] = h[i + 1]
    OBVIOUS
  <2>1. i + 1 \in 0..n /\ i + 1 \in 0..m /\ i + 1 # 0 /\ i + 1 - 1 = i /\ i <= n /\ i <= m
    OBVIOUS
  <2>2. g[i] = h[i]
    BY <1>2, <2>1
  <2>3. g[i + 1] = Onward(g[i + 1 - 1]) /\ h[i + 1] = Onward(h[i + 1 - 1])
    BY <2>1, ReachStep
  <2>4. g[i + 1] = Onward(g[i]) /\ h[i + 1] = Onward(h[i])
    BY <2>1, <2>3
  <2> QED BY <2>2, <2>4
<1> HIDE DEF S
<1>3. \A i \in Nat : i \in S
  BY <1>1, <1>2, SetInduction
<1> QED BY <1>3 DEF S

\* The recursive function of the specification is defined for every number.
LEMMA ReachedStep ==
  /\ Reached[0] = {Facts(start)}
  /\ \A n \in Nat : Reached[n + 1] = Onward(Reached[n])
<1> DEFINE g(n) == CHOOSE g : IsReach(g, n)
           f == [n \in Nat |-> g(n)[n]]
           reach[n \in Nat] == IF n = 0 THEN {Facts(start)} ELSE Onward(reach[n - 1])
<1>1. \A n \in Nat : IsReach(g(n), n)
  BY ReachExists
<1> HIDE DEF g
<1>2. f[0] = {Facts(start)}
  <2>1. IsReach(g(0), 0) /\ 0 \in 0..0
    BY <1>1
  <2> QED BY <2>1 DEF IsReach
<1>3. ASSUME NEW n \in Nat PROVE f[n + 1] = Onward(f[n])
  <2>1. IsReach(g(n), n) /\ IsReach(g(n + 1), n + 1) /\ n + 1 \in Nat
    BY <1>1
  <2>2. n + 1 \in 0..(n + 1) /\ n + 1 # 0 /\ n + 1 - 1 = n /\ n <= n /\ n <= n + 1
    OBVIOUS
  <2>3. g(n + 1)[n + 1] = Onward(g(n + 1)[n])
    BY <2>1, <2>2 DEF IsReach
  <2>4. g(n + 1)[n] = g(n)[n]
    BY <2>1, <2>2, ReachIsUnique
  <2> QED BY <2>1, <2>3, <2>4
<1>4. f = [n \in Nat |-> f[n]]
  OBVIOUS
<1> HIDE DEF f
<1>5. f = [n \in Nat |-> IF n = 0 THEN {Facts(start)} ELSE Onward(f[n - 1])]
  <2>1. ASSUME NEW n \in Nat
        PROVE  f[n] = IF n = 0 THEN {Facts(start)} ELSE Onward(f[n - 1])
    <3>1. CASE n = 0
      BY <1>2, <3>1
    <3>2. CASE n # 0
      <4>1. n - 1 \in Nat /\ n - 1 + 1 = n
        BY <3>2
      <4> QED BY <1>3, <3>2, <4>1
    <3> QED BY <3>1, <3>2
  <2> QED BY <1>4, <2>1
<1>6. reach = [n \in Nat |-> IF n = 0 THEN {Facts(start)} ELSE Onward(reach[n - 1])]
  BY <1>5
<1>7. Reached = reach
  BY DEF Reached, Onward
<1> HIDE DEF reach
<1>10. ASSUME NEW n \in Nat PROVE reach[n] = IF n = 0 THEN {Facts(start)} ELSE Onward(reach[n - 1])
  BY <1>6
<1>8. ASSUME NEW n \in Nat PROVE reach[n + 1] = Onward(reach[n])
  <2>1. n + 1 \in Nat /\ n + 1 # 0 /\ n + 1 - 1 = n
    OBVIOUS
  <2>2. reach[n + 1] = IF n + 1 = 0 THEN {Facts(start)} ELSE Onward(reach[n + 1 - 1])
    BY <1>10, <2>1
  <2> QED BY <2>1, <2>2
<1>9. reach[0] = {Facts(start)}
  BY <1>6
<1> QED BY <1>7, <1>8, <1>9

LEMMA ReachedStays ==
  ASSUME UNCHANGED <<start, goal, refused>>
  PROVE  Reached' = Reached
BY DEF Reached, CanMove

-----------------------------------------------------------------------------
(* The states of the domain *)

\* What can be true of the table.
States == { Facts(at) : at \in Placements }

LEMMA FactsLemma ==
  ASSUME NEW at \in Placements
  PROVE  /\ \A o \in Objects, r \in Regions \cup {Outside} : <<"at", o, r>> \in Facts(at) <=> at[o] = r
         /\ \A r \in Regions : <<"free", r>> \in Facts(at) <=> \A o \in Objects : at[o] # r
         /\ \A x \in Facts(at) :
              \/ \E o \in Objects, r \in Regions \cup {Outside} : x = <<"at", o, r>>
              \/ \E r \in Regions : x = <<"free", r>>
<1>1. at \in [Objects -> Regions \cup {Outside}]
  BY DEF Placements
<1>2. ASSUME NEW o \in Objects, NEW r \in Regions \cup {Outside}
      PROVE  <<"at", o, r>> \in Facts(at) <=> at[o] = r
  BY DEF Facts
<1>3. ASSUME NEW r \in Regions
      PROVE  <<"free", r>> \in Facts(at) <=> \A o \in Objects : at[o] # r
  BY DEF Facts
<1>4. ASSUME NEW x \in Facts(at)
      PROVE  \/ \E o \in Objects, r \in Regions \cup {Outside} : x = <<"at", o, r>>
             \/ \E r \in Regions : x = <<"free", r>>
  BY <1>1 DEF Facts
<1> QED BY <1>2, <1>3, <1>4

\* A transfer that may be made leads from a state of the table to one.
LEMMA TransferLeadsToState ==
  ASSUME NEW f \in States, NEW op \in Operators(f)
  PROVE  Apply(op, f) \in States
<1>1. PICK at \in Placements : f = Facts(at)
  BY DEF States
<1> DEFINE o    == op.obj
           next == [at EXCEPT ![o] = op.target]
           g    == Facts(next)
           h    == Apply(op, f)
<1>2. op \in Transfer /\ <<"at", o, op.source>> \in f /\ <<"free", op.target>> \in f
  BY DEF Operators, Requires
<1>3. o \in Objects /\ op.source \in Regions \cup {Outside} /\ op.target \in Regions
      /\ op.target # Outside
  BY <1>2, DomainAssumption DEF Transfer
<1>4. at[o] = op.source /\ \A p \in Objects : at[p] # op.target
  BY <1>1, <1>2, <1>3, FactsLemma
<1>5. at \in [Objects -> Regions \cup {Outside}]
      /\ \A p, q \in Objects : at[p] = at[q] => p = q \/ at[p] = Outside
  BY DEF Placements
<1>6. next[o] = op.target /\ \A p \in Objects : p # o => next[p] = at[p]
  BY <1>3, <1>5
<1>7. next \in Placements
  <2>1. next \in [Objects -> Regions \cup {Outside}]
    BY <1>3, <1>5
  <2>2. ASSUME NEW p \in Objects, NEW q \in Objects, next[p] = next[q]
        PROVE  p = q \/ next[p] = Outside
    <3> HIDE DEF next
    <3> QED BY <1>4, <1>5, <1>6, <2>2
  <2> HIDE DEF next
  <2> QED BY <2>1, <2>2 DEF Placements
<1> HIDE DEF next, o
<1>8. /\ \A p \in Objects, r \in Regions \cup {Outside} : <<"at", p, r>> \in g <=> next[p] = r
      /\ \A p \in Objects, r \in Regions \cup {Outside} : <<"at", p, r>> \in f <=> at[p] = r
      /\ \A r \in Regions : <<"free", r>> \in g <=> \A p \in Objects : next[p] # r
      /\ \A r \in Regions : <<"free", r>> \in f <=> \A p \in Objects : at[p] # r
  BY <1>1, <1>7, FactsLemma
<1>9. \A x \in f \cup g : \/ \E p \in Objects, r \in Regions \cup {Outside} : x = <<"at", p, r>>
                         \/ \E r \in Regions : x = <<"free", r>>
  BY <1>1, <1>7, FactsLemma
<1>10. h = (f \ {<<"at", o, op.source>>, <<"free", op.target>>}) \cup {<<"at", o, op.target>>}
           \cup { <<"free", r>> : r \in {op.source} \ {Outside} }
  BY DEF Apply, Deletes, Requires, Adds, o
<1> HIDE DEF g, h
<1>11. ASSUME NEW p \in Objects, NEW r \in Regions \cup {Outside}
       PROVE  <<"at", p, r>> \in h <=> <<"at", p, r>> \in g
  <2>1. <<"at", p, r>> \in h <=>
          (at[p] = r /\ ~(p = o /\ r = op.source)) \/ (p = o /\ r = op.target)
    BY <1>8, <1>10
  <2> QED BY <1>4, <1>6, <1>8, <2>1
<1>12. ASSUME NEW r \in Regions
       PROVE  <<"free", r>> \in h <=> <<"free", r>> \in g
  <2>1. <<"free", r>> \in h <=>
          ((\A p \in Objects : at[p] # r) /\ r # op.target) \/ (r = op.source /\ r # Outside)
    BY <1>8, <1>10
  <2>2. r # Outside
    BY DomainAssumption
  <2>3. (\A p \in Objects : next[p] # r) <=>
          ((\A p \in Objects : at[p] # r) /\ r # op.target) \/ r = op.source
    BY <1>3, <1>4, <1>5, <1>6, <2>2
  <2> QED BY <1>8, <2>1, <2>2, <2>3
<1>13. \A x \in h : \/ \E p \in Objects, r \in Regions \cup {Outside} : x = <<"at", p, r>>
                    \/ \E r \in Regions : x = <<"free", r>>
  BY <1>3, <1>9, <1>10
<1>14. h = g
  <2>1. ASSUME NEW x \in h PROVE x \in g
    <3>1. CASE \E p \in Objects, r \in Regions \cup {Outside} : x = <<"at", p, r>>
      BY <1>11, <2>1, <3>1
    <3>2. CASE \E r \in Regions : x = <<"free", r>>
      BY <1>12, <2>1, <3>2
    <3> QED BY <1>13, <2>1, <3>1, <3>2
  <2>2. ASSUME NEW x \in g PROVE x \in h
    <3>1. CASE \E p \in Objects, r \in Regions \cup {Outside} : x = <<"at", p, r>>
      BY <1>11, <2>2, <3>1
    <3>2. CASE \E r \in Regions : x = <<"free", r>>
      BY <1>12, <2>2, <3>2
    <3> QED BY <1>9, <2>2, <3>1, <3>2
  <2> QED BY <2>1, <2>2
<1> QED BY <1>7, <1>14 DEF States, g, h

-----------------------------------------------------------------------------
(* What a search that drops nothing knows *)

\* Every transfer from the state that the search may make has been tried, and what it
\* leads to is known, or is still to be tried on this level.
Expanded(f) ==
  \A op \in Operators(f) :
    CanMove(op, f) /\ goal.protected \subseteq Apply(op, f) =>
      \/ Apply(op, f) \in visited
      \/ \E step \in queue : step.op = op /\ step.node.facts = f

IsLeaf(f) == \E node \in candidates : node.facts = f

\* What can be reached on the levels before this one is known.
NearIsVisited == \A n \in 0..(level - 1) : Reached[n] \subseteq visited

\* A candidate cannot be reached on an earlier level, and is the only one of its state.
CandidatesAreNew ==
  /\ \A node \in candidates :
       /\ node.facts \in visited \cap States
       /\ \A n \in 0..(level - 1) : node.facts \notin Reached[n]
  /\ \A m, n \in candidates : m.facts = n.facts => m = n

QueueIsReal == \A step \in queue : step.node.facts \in States /\ step.op \in Operators(step.node.facts)

VisitedIsExpanded == \A f \in visited : IsLeaf(f) \/ Expanded(f)

VisitedIsNoGoal == \A f \in visited : ~(goal.required \subseteq f)

BreadthInv ==
  result = "searching" =>
    /\ level \in 1..Depth /\ start \in Placements
    /\ NearIsVisited /\ CandidatesAreNew /\ QueueIsReal /\ VisitedIsExpanded
    /\ VisitedIsNoGoal

\* The beam holds every state that a level can find.
WideBeam == IsFiniteSet(Placements) /\ Cardinality(Placements) <= Width

LEMMA BeamDropsNothing ==
  ASSUME WideBeam, level \in 1..Depth, start \in Placements, CandidatesAreNew
  PROVE  Beam(candidates) = candidates
<1>1. IsFiniteSet(States) /\ Cardinality(States) <= Cardinality(Placements)
  <2> DEFINE f == [at \in Placements |-> Facts(at)]
  <2>1. f \in Surjection(Placements, States)
    BY DEF States, Surjection
  <2> HIDE DEF f
  <2> QED BY <2>1, FS_Surjection DEF WideBeam
<1> DEFINE Others == States \ {Facts(start)}
<1>2. Facts(start) \in States
  BY DEF States
<1>3. /\ IsFiniteSet(Others) /\ Cardinality(Others) = Cardinality(States) - 1
      /\ Cardinality(States) \in Nat /\ Cardinality(Placements) \in Nat
  BY <1>1, <1>2, FS_RemoveElement, FS_CardinalityType DEF WideBeam
<1>4. \A node \in candidates : node.facts \in Others
  <2>1. 0 \in 0..(level - 1)
    OBVIOUS
  <2> QED BY <2>1, ReachedStep DEF CandidatesAreNew
<1> HIDE DEF Others
<1>5. IsFiniteSet(candidates) /\ Cardinality(candidates) <= Cardinality(Others)
  <2> DEFINE f == [node \in candidates |-> node.facts]
  <2>1. f \in Injection(candidates, Others)
    BY <1>4 DEF CandidatesAreNew, Injection, IsInjective
  <2> HIDE DEF f
  <2> QED BY <1>3, <2>1, FS_Injection
<1>6. ASSUME NEW n \in candidates
      PROVE  Cardinality({ m \in candidates : Better(m, n) }) < Width
  <2> DEFINE B == { m \in candidates : Better(m, n) }
  <2>1. B \in SUBSET candidates
    OBVIOUS
  <2> HIDE DEF B
  <2>2. Cardinality(B) <= Cardinality(candidates) /\ Cardinality(B) \in Nat
        /\ Cardinality(candidates) \in Nat
    BY <1>5, <2>1, FS_Subset, FS_CardinalityType
  <2>3. Cardinality(B) < Width
    BY <1>1, <1>3, <1>5, <2>2, BudgetAssumption, FS_CardinalityType DEF WideBeam
  <2> QED BY <2>3 DEF B
<1> QED BY <1>6 DEF Beam

\* At the end of a level, what can be reached on it is known.
LEMMA LevelIsVisited ==
  ASSUME level \in 1..Depth, NearIsVisited, CandidatesAreNew, VisitedIsExpanded, queue = {}
  PROVE  Reached[level] \subseteq visited
<1>1. level - 1 \in Nat /\ level - 1 + 1 = level /\ level - 1 \in 0..(level - 1)
  OBVIOUS
<1>2. Reached[level] = Onward(Reached[level - 1])
  <2>1. Reached[level - 1 + 1] = Onward(Reached[level - 1])
    BY <1>1, ReachedStep
  <2> QED BY <1>1, <2>1
<1>3. ASSUME NEW f \in Reached[level - 1], NEW op \in Operators(f), CanMove(op, f),
             goal.protected \subseteq Apply(op, f)
      PROVE  Apply(op, f) \in visited
  <2>1. f \in visited
    BY <1>1 DEF NearIsVisited
  <2>2. ~IsLeaf(f)
    BY <1>1 DEF CandidatesAreNew, IsLeaf
  <2>3. Expanded(f)
    BY <2>1, <2>2 DEF VisitedIsExpanded
  <2> QED BY <1>3, <2>3 DEF Expanded
<1> QED BY <1>2, <1>3 DEF Onward

\* With nothing left to extend, all that can be reached is known.
LEMMA AllIsVisited ==
  ASSUME level \in 1..Depth, NearIsVisited, VisitedIsExpanded, queue = {}, candidates = {}
  PROVE  \A n \in Nat : Reached[n] \subseteq visited
<1> DEFINE S == {n \in Nat : Reached[n] \subseteq visited}
<1>1. 0 \in S
  BY DEF NearIsVisited
<1>2. ASSUME NEW n \in Nat, n \in S PROVE n + 1 \in S
  <2>1. Reached[n] \subseteq visited /\ Reached[n + 1] = Onward(Reached[n])
    BY <1>2, ReachedStep
  <2>2. ASSUME NEW f \in visited, NEW op \in Operators(f), CanMove(op, f),
               goal.protected \subseteq Apply(op, f)
        PROVE  Apply(op, f) \in visited
    BY <2>2 DEF VisitedIsExpanded, IsLeaf, Expanded
  <2>3. Onward(Reached[n]) \subseteq visited
    BY <2>1, <2>2 DEF Onward
  <2> QED BY <2>1, <2>3
<1> HIDE DEF S
<1>3. \A n \in Nat : n \in S
  BY <1>1, <1>2, SetInduction
<1> QED BY <1>3 DEF S

LEMMA BreadthInit == Init => BreadthInv /\ MissesNothing
<1> SUFFICES ASSUME Init PROVE BreadthInv /\ MissesNothing
  OBVIOUS
<1>1. /\ level = 1 /\ queue = Expand(Root(Facts(start))) /\ candidates = {}
      /\ visited = {Facts(start)} /\ plan = <<>> /\ start \in Placements
      /\ result = FirstResult(goal, Facts(start))
  BY DEF Init
<1>2. MissesNothing
  <2>1. result \in {"protected_goals_not_satisfied", "ok", "searching"}
    BY <1>1 DEF FirstResult
  <2>2. 0..(Len(plan) - 1) = {}
    BY <1>1
  <2> QED BY <2>1, <2>2 DEF MissesNothing
<1>3. ASSUME result = "searching" PROVE BreadthInv
  <2>1. level \in 1..Depth
    BY <1>1, BudgetAssumption
  <2>2. NearIsVisited
    <3>1. \A n \in 0..(level - 1) : n = 0
      BY <1>1
    <3> QED BY <1>1, <3>1, ReachedStep DEF NearIsVisited
  <2>3. CandidatesAreNew
    BY <1>1 DEF CandidatesAreNew
  <2>4. \A step \in queue : step.node.facts = Facts(start) /\ step.op \in Operators(Facts(start))
    BY <1>1 DEF Expand, Root
  <2>5. QueueIsReal
    BY <1>1, <2>4 DEF QueueIsReal, States
  <2>6. \A op \in Operators(Facts(start)) :
          [node |-> [facts |-> Facts(start), path |-> <<>>], op |-> op] \in queue
    BY <1>1 DEF Expand, Root
  <2>7. Expanded(Facts(start))
    <3> SUFFICES ASSUME NEW op \in Operators(Facts(start))
                 PROVE  \E step \in queue : step.op = op /\ step.node.facts = Facts(start)
      BY DEF Expanded
    <3> QED BY <2>6
  <2>8. VisitedIsExpanded
    BY <1>1, <2>7 DEF VisitedIsExpanded
  <2>9. VisitedIsNoGoal
    <3>1. Keeps(goal, Facts(start)) /\ ~Satisfied(goal, Facts(start))
      BY <1>1, <1>3 DEF FirstResult
    <3> QED BY <1>1, <3>1 DEF VisitedIsNoGoal, Keeps, Satisfied
  <2> QED BY <1>1, <2>1, <2>2, <2>3, <2>5, <2>8, <2>9 DEF BreadthInv
<1> QED BY <1>2, <1>3 DEF BreadthInv

LEMMA BreadthExpand ==
  ASSUME SearchInv, BreadthInv, ExpandNext
  PROVE  BreadthInv' /\ MissesNothing'
<1>1. PICK step \in queue :
        LET node == step.node
            op == step.op
            next == Apply(op, node.facts)
            found == [facts |-> next, path |-> Append(node.path, op)]
            accepted == IsNew(next) /\ CanMove(op, node.facts)
            done == accepted /\ Satisfied(goal, next)
        IN  /\ queue' = queue \ {step}
            /\ visited' = visited \cup
                            (IF IsNew(next) THEN Marked(op, node.facts) ELSE {})
            /\ candidates' = IF accepted /\ ~done THEN candidates \cup {found}
                             ELSE candidates
            /\ result = "searching"
            /\ result' = IF done THEN "ok" ELSE result
            /\ plan' = IF done THEN found.path ELSE plan
            /\ UNCHANGED <<start, goal, refused, level>>
  BY DEF ExpandNext
<1> DEFINE node == step.node
           op == step.op
           next == Apply(op, node.facts)
           found == [facts |-> next, path |-> Append(node.path, op)]
           accepted == IsNew(next) /\ CanMove(op, node.facts)
           done == accepted /\ Satisfied(goal, next)
<1>2. /\ level \in 1..Depth /\ start \in Placements
      /\ NearIsVisited /\ CandidatesAreNew /\ QueueIsReal /\ VisitedIsExpanded
      /\ VisitedIsNoGoal
  BY <1>1 DEF BreadthInv
<1>3. Reached' = Reached /\ level' = level /\ goal' = goal /\ start' = start /\ refused' = refused
  BY <1>1, ReachedStays
<1>4. /\ queue' = queue \ {step}
      /\ visited' = visited \cup (IF accepted THEN {next} ELSE {})
      /\ accepted => next \notin visited /\ goal.protected \subseteq next
  BY <1>1 DEF Marked, IsNew, Keeps
<1>5. CASE done
  <2>1. result' = "ok" /\ plan' = Append(node.path, op)
    BY <1>1, <1>5
  <2>2. node.path \in Seq(Transfer) /\ Len(node.path) = level - 1 /\ op \in Transfer
    BY DEF SearchInv, IsFound
  <2>3. Len(plan') = level
    BY <1>2, <2>1, <2>2, AppendLemma
  <2>4. \A n \in 0..(level - 1) : ~SolvedIn(n)
    BY <1>2 DEF NearIsVisited, VisitedIsNoGoal, SolvedIn
  <2>5. \A n \in 0..(Len(plan') - 1) : ~SolvedIn(n)'
    BY <1>3, <2>3, <2>4 DEF SolvedIn
  <2> QED BY <2>1, <2>5 DEF BreadthInv, MissesNothing
<1>6. CASE ~done
  <2>1. /\ result' = "searching"
        /\ candidates' = candidates \cup (IF accepted THEN {found} ELSE {})
    BY <1>1, <1>6
  <2>2. NearIsVisited'
    BY <1>2, <1>3, <1>4 DEF NearIsVisited
  <2>3. CandidatesAreNew'
    <3>1. next \in States
      BY <1>2, TransferLeadsToState DEF QueueIsReal
    <3>2. CASE ~accepted
      BY <1>2, <1>3, <1>4, <2>1, <3>2 DEF CandidatesAreNew
    <3>3. CASE accepted
      <4>1. next \notin visited /\ \A n \in 0..(level - 1) : next \notin Reached[n]
        BY <1>2, <1>4, <3>3 DEF NearIsVisited
      <4>2. candidates' = candidates \cup {found} /\ visited' = visited \cup {next}
            /\ found.facts = next
        BY <1>4, <2>1, <3>3
      <4> HIDE DEF found, next
      <4> QED BY <1>2, <1>3, <3>1, <4>1, <4>2 DEF CandidatesAreNew
    <3> QED BY <3>2, <3>3
  <2>4. QueueIsReal'
    BY <1>2, <1>4 DEF QueueIsReal
  <2>5. VisitedIsExpanded'
    <3>1. ASSUME NEW f \in visited, Expanded(f) PROVE Expanded(f)'
      <4> SUFFICES ASSUME NEW a \in Operators(f), CanMove(a, f), goal.protected \subseteq Apply(a, f)
                   PROVE  \/ Apply(a, f) \in visited'
                          \/ \E s \in queue' : s.op = a /\ s.node.facts = f
        BY <1>3 DEF Expanded, CanMove
      <4>1. \/ Apply(a, f) \in visited
            \/ \E s \in queue : s.op = a /\ s.node.facts = f
        BY <3>1 DEF Expanded
      <4>2. CASE step.op = a /\ step.node.facts = f
        <5>1. next = Apply(a, f) /\ CanMove(op, node.facts) /\ Keeps(goal, next)
          BY <4>2 DEF Keeps
        <5>2. next \in visited'
          BY <1>4, <5>1 DEF IsNew
        <5> QED BY <5>1, <5>2
      <4>3. CASE ~(step.op = a /\ step.node.facts = f)
        BY <1>4, <4>1, <4>3
      <4> QED BY <4>2, <4>3
    <3>2. \A f : IsLeaf(f) => IsLeaf(f)'
      BY <2>1 DEF IsLeaf
    <3>3. ASSUME accepted PROVE IsLeaf(next)'
      <4>1. found \in candidates' /\ found.facts = next
        BY <2>1, <3>3
      <4> HIDE DEF found, next
      <4> QED BY <4>1 DEF IsLeaf
    <3>4. ASSUME NEW f \in visited' PROVE IsLeaf(f)' \/ Expanded(f)'
      BY <1>2, <1>4, <3>1, <3>2, <3>3 DEF VisitedIsExpanded
    <3> QED BY <3>4 DEF VisitedIsExpanded
  <2>6. VisitedIsNoGoal'
    <3>1. accepted => ~(goal.required \subseteq next)
      BY <1>4, <1>6 DEF Satisfied
    <3> HIDE DEF next, accepted
    <3> QED BY <1>2, <1>3, <1>4, <3>1 DEF VisitedIsNoGoal
  <2>7. BreadthInv'
    BY <1>2, <1>3, <2>2, <2>3, <2>4, <2>5, <2>6 DEF BreadthInv
  <2> QED BY <2>1, <2>7 DEF MissesNothing
<1> QED BY <1>5, <1>6

LEMMA BreadthNextLevel ==
  ASSUME WideBeam, SearchInv, BreadthInv, NextLevel
  PROVE  BreadthInv' /\ MissesNothing'
<1>1. /\ result = "searching" /\ queue = {} /\ UNCHANGED <<start, goal, refused, visited>>
  BY DEF NextLevel, Stop
<1>2. /\ level \in 1..Depth /\ start \in Placements
      /\ NearIsVisited /\ CandidatesAreNew /\ QueueIsReal /\ VisitedIsExpanded
      /\ VisitedIsNoGoal
  BY <1>1 DEF BreadthInv
<1>3. Reached' = Reached
  BY <1>1, ReachedStays
<1>4. Reached[level] \subseteq visited
  BY <1>1, <1>2, LevelIsVisited
<1>5. \A n \in 0..level : Reached[n] \subseteq visited
  <2>1. \A n \in 0..level : n \in 0..(level - 1) \/ n = level
    BY <1>2
  <2> QED BY <1>2, <1>4, <2>1 DEF NearIsVisited
<1>6. CASE candidates = {}
  <2>1. result' = "search_exhausted"
    BY <1>6 DEF NextLevel, Stop
  <2>2. \A n \in Nat : Reached[n] \subseteq visited
    BY <1>1, <1>2, <1>6, AllIsVisited
  <2>3. \A n \in Nat : ~SolvedIn(n)'
    BY <1>1, <1>2, <1>3, <2>2 DEF SolvedIn, VisitedIsNoGoal
  <2> QED BY <2>1, <2>3 DEF BreadthInv, MissesNothing
<1>7. CASE candidates # {} /\ level = Depth
  <2>1. result' = "depth_budget_exhausted"
    BY <1>7 DEF NextLevel, Stop
  <2>2. \A n \in 0..Depth : ~SolvedIn(n)'
    BY <1>1, <1>2, <1>3, <1>5, <1>7 DEF SolvedIn, VisitedIsNoGoal
  <2> QED BY <2>1, <2>2 DEF BreadthInv, MissesNothing
<1>8. CASE candidates # {} /\ level # Depth
  <2>1. /\ level' = level + 1 /\ queue' = Expand(candidates) /\ candidates' = {}
        /\ result' = "searching"
    BY <1>2, <1>8, BeamDropsNothing DEF NextLevel
  <2>2. level' \in 1..Depth /\ level' - 1 = level
    BY <1>2, <1>8, <2>1, BudgetAssumption
  <2>3. NearIsVisited'
    BY <1>1, <1>3, <1>5, <2>2 DEF NearIsVisited
  <2>4. CandidatesAreNew'
    BY <2>1 DEF CandidatesAreNew
  <2>5. /\ \A step \in queue' : step.node \in candidates /\ step.op \in Operators(step.node.facts)
        /\ \A n \in candidates : \A op \in Operators(n.facts) : [node |-> n, op |-> op] \in queue'
    <3>1. ASSUME NEW step \in queue'
          PROVE  step.node \in candidates /\ step.op \in Operators(step.node.facts)
      BY <2>1 DEF Expand
    <3>2. ASSUME NEW n \in candidates, NEW op \in Operators(n.facts)
          PROVE  [node |-> n, op |-> op] \in queue'
      BY <2>1 DEF Expand
    <3> QED BY <3>1, <3>2
  <2>6. QueueIsReal'
    BY <1>2, <2>5 DEF QueueIsReal, CandidatesAreNew
  <2>7. VisitedIsExpanded'
    <3>1. ASSUME NEW f \in visited PROVE Expanded(f)'
      <4> SUFFICES ASSUME NEW a \in Operators(f), CanMove(a, f), goal.protected \subseteq Apply(a, f)
                   PROVE  \/ Apply(a, f) \in visited
                          \/ \E s \in queue' : s.op = a /\ s.node.facts = f
        BY <1>1 DEF Expanded, CanMove
      <4>1. CASE IsLeaf(f)
        <5>1. PICK n \in candidates : n.facts = f
          BY <4>1 DEF IsLeaf
        <5>2. [node |-> n, op |-> a] \in queue'
          BY <2>5, <5>1
        <5> QED BY <5>1, <5>2
      <4>2. CASE Expanded(f)
        BY <1>1, <4>2 DEF Expanded
      <4> QED BY <1>2, <4>1, <4>2 DEF VisitedIsExpanded
    <3> QED BY <1>1, <3>1 DEF VisitedIsExpanded
  <2>8. VisitedIsNoGoal'
    BY <1>1, <1>2 DEF VisitedIsNoGoal
  <2>9. BreadthInv'
    BY <1>1, <1>2, <2>2, <2>3, <2>4, <2>6, <2>7, <2>8 DEF BreadthInv
  <2> QED BY <2>1, <2>9 DEF MissesNothing
<1> QED BY <1>6, <1>7, <1>8

\* A beam as wide as the table has placements misses nothing: a plan has the fewest
\* transfers possible, and a search that reports the depth or all states exhausted
\* has overlooked no plan.
THEOREM WideBeamsMissNothing ==
  ASSUME WideBeam
  PROVE  Spec => []MissesNothing
<1>1. Init => BreadthInv /\ MissesNothing
  BY BreadthInit
<1>2. ASSUME SearchInv, BreadthInv, MissesNothing, [Next]_vars
      PROVE  BreadthInv' /\ MissesNothing'
  <2>1. CASE TimeOut \/ RunOut
    BY <2>1 DEF TimeOut, RunOut, Stop, BreadthInv, MissesNothing
  <2>2. CASE ExpandNext
    BY <1>2, <2>2, BreadthExpand
  <2>3. CASE NextLevel
    BY <1>2, <2>3, BreadthNextLevel
  <2>4. CASE UNCHANGED vars
    <3>1. Reached' = Reached
      BY <2>4, ReachedStays DEF vars
    <3>2. /\ UNCHANGED <<start, goal, refused, level, queue, candidates, visited>>
          /\ UNCHANGED <<result, plan>>
      BY <2>4 DEF vars
    <3>3. MissesNothing'
      BY <1>2, <3>1, <3>2 DEF MissesNothing, SolvedIn
    <3>4. BreadthInv'
      BY <1>2, <3>1, <3>2
         DEF BreadthInv, NearIsVisited, CandidatesAreNew, QueueIsReal, VisitedIsExpanded,
             VisitedIsNoGoal, IsLeaf, Expanded, CanMove
    <3> QED BY <3>3, <3>4
  <2> QED BY <1>2, <2>1, <2>2, <2>3, <2>4 DEF Next
<1> QED BY <1>1, <1>2, FindsAreReal, PTL DEF Spec

=============================================================================
