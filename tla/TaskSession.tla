---------------------------- MODULE TaskSession ----------------------------
(***************************************************************************)
(* A task session (controller/task/tamp/task_session.py) over the native   *)
(* provider (transfer_provider.py, native_transfer.py): an agent asks for  *)
(* plans and has them executed, each plan once.  Calls hold the session's  *)
(* lock, so there is one at a time; the table is not locked, and between   *)
(* any two observations of a call somebody may move an object, or the      *)
(* simulator may be restarted.                                             *)
(*                                                                         *)
(* The search is what TaskSearch shows of it: any plan that can be carried *)
(* out from the measured state, keeps what is protected and reaches the    *)
(* goal.  A motion budget or a planner that gives up is a refusal.         *)
(***************************************************************************)
EXTENDS TransferDomain, Sequences

CONSTANTS
    Depth,        \* transfers in a plan
    ToolRounds,   \* plans that are kept
    MaxPlans,     \* bound: plans that are made
    MaxMishaps    \* bound: interferences with the table, and restarts

ASSUME SessionAssumption ==
    /\ Depth \in Nat
    /\ ToolRounds \in Nat \ {0}
    /\ MaxPlans \in Nat
    /\ MaxMishaps \in Nat

Held == Outside + 1   \* in somebody's hand, falling, or across a border

Places == Regions \cup {Outside, Held}

ASSUME HeldAssumption == Held \notin Regions

VARIABLES
    at,          \* where the objects are
    restarted,   \* whether the simulator is another one than the adapter's
    mishaps,
    reference,   \* what the last snapshot measured
    revision,    \* snapshots that measured a change
    plans,       \* the stored plans
    made,        \* plans made so far; the number of a plan is its ref
    call,        \* the call in progress
    answer,      \* what the last execution answered
    moved        \* the transfers made: <<ref, step>>, in order

vars == <<at, restarted, mishaps, reference, revision, plans, made, call,
          answer, moved>>

NoCall == [at |-> "idle"]

NoAnswer == [status |-> "none"]

-----------------------------------------------------------------------------
(* Observing the table.                                                    *)

\* Nothing is measured if the simulator was restarted or an object is not at rest.
Measurable == ~restarted /\ \A o \in Objects : at[o] # Held

\* The revision advances when the configuration is not the one measured last.
Measure ==
    /\ reference' = at
    /\ revision' = IF at = reference THEN revision ELSE revision + 1

Snapshot == Measurable /\ at \in Placements /\ Measure

\* Two objects in one region have been measured when the snapshot raises.
NoSnapshot ==
    \/ ~Measurable /\ UNCHANGED <<reference, revision>>
    \/ Measurable /\ at \notin Placements /\ Measure

\* Fault: a snapshot is taken, and not compared.
AnyBinding(seen) == TRUE

\* The binding of the snapshot is the one of the snapshot that gave "seen".
SameBinding(seen) == revision' = seen

-----------------------------------------------------------------------------
(* Somebody else.                                                          *)

Interfere ==
    /\ mishaps < MaxMishaps
    /\ mishaps' = mishaps + 1
    /\ \E o \in Objects : \E place \in Places \ {at[o]} :
          at' = [at EXCEPT ![o] = place]
    /\ UNCHANGED <<restarted, reference, revision, plans, made, call, answer, moved>>

Restart ==
    /\ mishaps < MaxMishaps
    /\ mishaps' = mishaps + 1
    /\ restarted' = TRUE
    /\ UNCHANGED <<at, reference, revision, plans, made, call, answer, moved>>

-----------------------------------------------------------------------------
(* Planning.                                                               *)

\* discover, or a plan_task that ends without a plan: all it leaves behind is
\* what it has measured.
Look ==
    /\ call = NoCall
    /\ Snapshot \/ NoSnapshot
    /\ UNCHANGED <<at, restarted, mishaps, plans, made, call, answer, moved>>

\* All plans of at most n transfers, with the facts they lead to.
Plans(goal, start) ==
    LET Longer(w) ==
          { [facts |-> Apply(op, w.facts), ops |-> Append(w.ops, op)] :
            op \in { op \in Transfer :
                     /\ Feasible(op, w.facts)
                     /\ ~Satisfied(goal, w.facts)
                     /\ Keeps(goal, Apply(op, w.facts)) } }
        ways[n \in 0..Depth] ==
          IF n = 0 THEN { [facts |-> start, ops |-> <<>>] }
          ELSE UNION { Longer(w) : w \in ways[n - 1] }
    IN  { w.ops : w \in { w \in UNION { ways[n] : n \in 0..Depth } :
                            Satisfied(goal, w.facts) } }

\* plan_task: the state is measured, the goal is compiled and a plan found.
FindPlan ==
    /\ call = NoCall
    /\ made < MaxPlans
    /\ Snapshot
    /\ \E assigned \in Assignments :
          LET goal == Goal(assigned, at)
          IN  \E ops \in Plans(goal, Facts(at)) :
                 call' = [at |-> "planned", goal |-> goal, ops |-> ops,
                          facts |-> Facts(at), binding |-> revision']
    /\ UNCHANGED <<at, restarted, mishaps, plans, made, answer, moved>>

\* The oldest plan makes room for a new one.
Kept ==
    IF Cardinality(plans) >= ToolRounds
    THEN { p \in plans : \E q \in plans : q.ref < p.ref }
    ELSE plans

\* The scene is measured again: a plan is stored if nothing has changed.
StorePlan ==
    /\ call.at = "planned"
    /\ Snapshot
    /\ IF SameBinding(call.binding)
       THEN /\ made' = made + 1
            /\ plans' = Kept \cup
                 {[ref |-> made + 1, goal |-> call.goal, ops |-> call.ops,
                   facts |-> call.facts, binding |-> call.binding]}
       ELSE UNCHANGED <<made, plans>>
    /\ call' = NoCall
    /\ UNCHANGED <<at, restarted, mishaps, answer, moved>>

PlanningFails ==
    /\ call.at = "planned"
    /\ NoSnapshot
    /\ call' = NoCall
    /\ UNCHANGED <<at, restarted, mishaps, plans, made, answer, moved>>

-----------------------------------------------------------------------------
(* Execution.                                                              *)

\* Fault: a plan is kept until it is evicted.
StillStored(p) == plans

Without(p) == plans \ {p}

Answer(c, status) ==
    [status |-> status, ref |-> c.plan.ref, goal |-> c.plan.goal,
     started |-> c.started, completed |-> c.step - 1]

\* Any error ends the call, as partial if a transfer may have begun.
Fail(c) ==
    /\ call' = NoCall
    /\ answer' = Answer(c, IF c.started THEN "partial" ELSE "error")

Step(c) == call' = c /\ UNCHANGED answer

Operator(c) == c.plan.ops[c.step]

\* execute_task_plan takes the plan out of the session before anything else.
TakePlan(p) ==
    /\ call = NoCall
    /\ plans' = Without(p)
    /\ call' = [at |-> "validating", plan |-> p, step |-> 1, started |-> FALSE,
                before |-> FALSE, facts |-> p.facts, binding |-> p.binding,
                scene |-> reference]
    /\ UNCHANGED <<at, restarted, mishaps, reference, revision, made, answer, moved>>

AtStep(c) ==
    [c EXCEPT !.at = IF c.step <= Len(c.plan.ops) THEN "checking" ELSE "over"]

\* Every observation is either a measurement or an error.
Validate ==
    /\ call.at = "validating"
    /\ \/ /\ Snapshot
          /\ IF SameBinding(call.binding) /\ Facts(at) = call.facts
             THEN Step(AtStep(call)) ELSE Fail(call)
       \/ NoSnapshot /\ Fail(call)
    /\ UNCHANGED <<at, restarted, mishaps, plans, made, moved>>

\* The operator is checked against the last measurement, and that measurement
\* against a new one.  If it is not allowed, or no motion is found for it, the
\* call fails at once.
Check ==
    LET op == Operator(call)
        allowed == /\ Feasible(op, call.facts)
                   /\ Keeps(call.plan.goal, Apply(op, call.facts))
    IN  /\ call.at = "checking"
        /\ \/ /\ allowed
              /\ Snapshot
              /\ IF SameBinding(call.binding)
                 THEN Step([call EXCEPT !.at = "executing", !.started = TRUE,
                                        !.before = call.started])
                 ELSE Fail(call)
           \/ allowed /\ NoSnapshot /\ Fail(call)
           \/ Fail(call) /\ UNCHANGED <<reference, revision>>
        /\ UNCHANGED <<at, restarted, mishaps, plans, made, moved>>

\* Fault: what the earlier steps have done is forgotten.
OwnReceipt(c) == FALSE

Earlier(c) == c.before

\* A receipt that says that nothing was started.
Refuse(c) == Fail([c EXCEPT !.started = Earlier(c)])

\* The provider's preflight: the operator is checked against one more snapshot.
Preflight ==
    /\ call.at = "executing"
    /\ \/ /\ Snapshot
          /\ \/ /\ Feasible(Operator(call), Facts(at))
                /\ Step([call EXCEPT !.at = "preflighted"])
             \/ Refuse(call)
       \/ NoSnapshot /\ Refuse(call)
    /\ UNCHANGED <<at, restarted, mishaps, plans, made, moved>>

\* A motion is made for the scene as it is by now, read from the simulator once
\* more: that read is no snapshot, and is compared with none.
Refine ==
    /\ call.at = "preflighted"
    /\ \/ ~restarted /\ Step([call EXCEPT !.at = "refined", !.scene = at])
       \/ Refuse(call)
    /\ UNCHANGED <<at, restarted, mishaps, reference, revision, plans, made, moved>>

\* The adapter refuses a motion if the scene is not the one it was made for.
MotionIsCurrent == ~restarted /\ at = call.scene

SceneChanged ==
    /\ call.at = "refined"
    /\ ~MotionIsCurrent
    /\ Refuse(call)
    /\ UNCHANGED <<at, restarted, mishaps, reference, revision, plans, made, moved>>

\* The robot moves.  Whatever it reports, the object may be anywhere.
Actuate ==
    LET reported == [call EXCEPT !.at = "verifying"]
    IN  /\ call.at = "refined"
        /\ MotionIsCurrent
        /\ \E place \in Places : at' = [at EXCEPT ![Operator(call).obj] = place]
        /\ Step(reported) \/ Fail(reported)
        /\ moved' = Append(moved, <<call.plan.ref, call.step>>)
        /\ UNCHANGED <<restarted, mishaps, reference, revision, plans, made>>

EffectHolds(op, facts) == Adds(op) \subseteq facts /\ Deletes(op) \cap facts = {}

\* The effect is looked for in a new measurement of the same scene.
Verify ==
    LET op == Operator(call)
        next == [call EXCEPT !.step = @ + 1, !.facts = Facts(at),
                             !.binding = revision']
    IN  /\ call.at = "verifying"
        /\ \/ /\ Snapshot
              /\ IF /\ EffectHolds(op, Facts(at))
                    /\ Keeps(call.plan.goal, Facts(at))
                 THEN Step(AtStep(next)) ELSE Fail(call)
           \/ NoSnapshot /\ Fail(call)
        /\ UNCHANGED <<at, restarted, mishaps, plans, made, moved>>

\* Fault: the goal is reached when all steps have been completed.
AllCompleted(c) == c.step > Len(c.plan.ops)

GoalReached(c) == Satisfied(c.plan.goal, c.facts)

Finish ==
    /\ call.at = "over"
    /\ IF GoalReached(call)
       THEN call' = NoCall /\ answer' = Answer(call, "ok")
       ELSE Fail(call)
    /\ UNCHANGED <<at, restarted, mishaps, reference, revision, plans, made, moved>>

-----------------------------------------------------------------------------
Init ==
    /\ at \in Placements
    /\ restarted = FALSE
    /\ mishaps = 0
    /\ reference = at
    /\ revision = 1
    /\ plans = {}
    /\ made = 0
    /\ call = NoCall
    /\ answer = NoAnswer
    /\ moved = <<>>

Next ==
    \/ Interfere \/ Restart
    \/ Look \/ FindPlan \/ StorePlan \/ PlanningFails
    \/ \E p \in plans : TakePlan(p)
    \/ Validate \/ Check \/ Preflight \/ Refine \/ SceneChanged \/ Actuate
    \/ Verify \/ Finish

Spec == Init /\ [][Next]_vars

-----------------------------------------------------------------------------
(* Properties.                                                             *)

\* "Single-use plans", "no retries after partial progress": no step of a plan
\* is ever made twice, and none before the ones that come earlier in the plan,
\* whatever fails in between.
StepsInOrder ==
    /\ \A i, j \in DOMAIN moved : moved[i] = moved[j] => i = j
    /\ \A i \in DOMAIN moved :
          \A n \in 1..(moved[i][2] - 1) :
             \E j \in 1..(i - 1) : moved[j] = <<moved[i][1], n>>

\* The robot has made this step of the plan.
Made(ref, n) == \E i \in DOMAIN moved : moved[i] = <<ref, n>>

\* An answer that says that nothing was started means that the robot did not
\* move for the plan, and steps counted as completed have been made.
AnswersAreTruthful ==
    answer # NoAnswer =>
       /\ ~answer.started => \A i \in DOMAIN moved : moved[i][1] # answer.ref
       /\ \A n \in 1..answer.completed : Made(answer.ref, n)

\* A verified goal holds in what was measured after the last transfer (if it is
\* not so any more, somebody has interfered since), and the objects that the
\* instruction does not mention are where it found them.
GoalIsMeasured ==
    [][answer' # answer /\ answer'.status = "ok"
         => Satisfied(answer'.goal, Facts(reference))]_vars

\* "Every subsequent action is revalidated from a new measured snapshot": a step
\* is given to the provider only when it can be carried out, and keeps what the
\* goal protects, in the scene as it is at that moment, however the world changed
\* since the plan was made, stored or begun.
OnlyCurrentStepsAreSent ==
    [][call.at = "checking" /\ call'.at = "executing"
         => /\ Feasible(Operator(call), Facts(at))
            /\ Keeps(call.plan.goal, Apply(Operator(call), Facts(at)))]_vars

\* The robot never moves an object that the instruction does not mention.
OnlyMovesTheMentioned ==
    [][Actuate => \E f \in call.plan.goal.required : f[2] = Operator(call).obj]_vars
=============================================================================
