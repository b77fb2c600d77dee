------------------------- MODULE TaskSessionProofs -------------------------
(***************************************************************************)
(* Proofs about TaskSession, for any objects, regions and budgets.  What a *)
(* plan is made of does not matter to them: that the search is sound is a  *)
(* matter of TaskSearch, and an execution checks every step again.         *)
(***************************************************************************)
EXTENDS TaskSession, TLAPS

Scenes == [Objects -> Places]

FactSets == { Facts(x) : x \in Scenes }

Phases == {"validating", "checking", "executing", "preflighted", "refined", "verifying",
           "over"}

\* The provider has been given the step, and the robot has not moved for it.
Provided == {"executing", "preflighted", "refined"}

Running == call.at \in Phases

\* The shape of a call that executes a plan.
IsRun(c) ==
    c \in [at : Phases, plan : {c.plan}, step : Nat \ {0}, started : BOOLEAN,
           before : BOOLEAN, facts : FactSets, binding : {c.binding},
           scene : Scenes]

ShapeInv ==
    /\ at \in Scenes
    /\ reference \in Scenes
    /\ made \in Nat
    /\ moved \in Seq(Nat \X Nat)
    /\ call = NoCall \/ call.at = "planned" \/ IsRun(call)

-----------------------------------------------------------------------------
(* Which plans may still move the robot.                                   *)

NotBegun(ref) == \A i \in DOMAIN moved : moved[i][1] # ref

\* A plan that was taken out of the session.
Retired(ref) == ref \in 1..made /\ \A p \in plans : p.ref # ref

\* Stored plans have refs of their own and have moved nothing.
StoreInv ==
    /\ \A p \in plans : p.ref \in 1..made /\ NotBegun(p.ref)
    /\ \A p, q \in plans : p.ref = q.ref => p = q
    /\ \A i \in DOMAIN moved : moved[i][1] \in 1..made

\* The steps that the call in progress has made.
StepsSoFar == IF call.at = "verifying" THEN call.step ELSE call.step - 1

\* What the call knows of what has been started is so.
RunInv ==
    Running =>
      /\ Retired(call.plan.ref)
      /\ \A n \in 1..StepsSoFar : Made(call.plan.ref, n)
      /\ \A i \in DOMAIN moved :
            moved[i][1] = call.plan.ref => moved[i][2] \in 1..StepsSoFar
      /\ call.at \in Provided \cup {"verifying"} => call.started
      /\ ~call.started => NotBegun(call.plan.ref)
      /\ call.at \in Provided /\ ~call.before => NotBegun(call.plan.ref)

\* The plan of the last answer can move nothing any more.
AnswerInv ==
    /\ AnswersAreTruthful
    /\ answer # NoAnswer =>
         Retired(answer.ref) /\ (Running => call.plan.ref # answer.ref)

LedgerInv == ShapeInv /\ StoreInv /\ RunInv /\ AnswerInv /\ StepsInOrder

\* A new session has planned, answered and moved nothing.
LEMMA InitLedger == Init => LedgerInv
<1> SUFFICES ASSUME Init PROVE LedgerInv
  OBVIOUS
<1>1. at \in Scenes
  BY DEF Init, Scenes, Placements, Places
<1>2. ~Running
  BY DEF Init, Running, NoCall, Phases
<1> QED
  BY <1>1, <1>2 DEF Init, LedgerInv, ShapeInv, StoreInv, RunInv, AnswerInv,
    AnswersAreTruthful, StepsInOrder, NotBegun

\* What the observations of a call may change.
LEMMA Observed ==
  ASSUME ShapeInv, Snapshot \/ NoSnapshot
  PROVE  reference' \in Scenes
BY DEF ShapeInv, Snapshot, NoSnapshot, Measure

\* A call that ends with an answer leaves its plan retired.
LEMMA FailKeeps ==
  ASSUME LedgerInv, Running, NEW c, IsRun(c), c.plan = call.plan,
         c.step = call.step, Fail(c) \/ (call' = NoCall /\ answer' = Answer(c, "ok")),
         ~c.started => NotBegun(call.plan.ref),
         UNCHANGED <<at, made, plans, moved>>, reference' \in Scenes
  PROVE  LedgerInv'
<1>1. /\ call' = NoCall
      /\ answer'.ref = call.plan.ref
      /\ answer'.started = c.started
      /\ answer'.completed = call.step - 1
  BY DEF Fail, Answer
<1>2. ~Running'
  BY <1>1 DEF Running, NoCall, Phases
<1>3. call.step \in Nat \ {0}
  BY DEF LedgerInv, ShapeInv, IsRun, Running, NoCall, Phases
<1>4. \A n \in 1..(call.step - 1) : Made(call.plan.ref, n)
  BY <1>3 DEF LedgerInv, RunInv, StepsSoFar
<1>5. AnswersAreTruthful'
  BY <1>1, <1>4 DEF AnswersAreTruthful, NotBegun, Made
<1>6. AnswerInv'
  BY <1>1, <1>2, <1>5 DEF AnswerInv, LedgerInv, RunInv, Retired
<1>7. ShapeInv' /\ StoreInv' /\ StepsInOrder'
  BY <1>1 DEF LedgerInv, ShapeInv, StoreInv, StepsInOrder, NotBegun
<1> QED BY <1>2, <1>6, <1>7 DEF LedgerInv, RunInv

\* A call that goes on without moving anything.
LEMMA StepKeeps ==
  ASSUME LedgerInv, Running, NEW c, IsRun(c), Step(c), c.plan = call.plan,
         \/ /\ call.at # "verifying" /\ c.at # "verifying"
            /\ c.step = call.step
         \/ /\ call.at = "verifying" /\ c.at # "verifying"
            /\ c.step = call.step + 1,
         c.at \in Provided => c.started,
         ~c.started => NotBegun(call.plan.ref),
         c.at \in Provided /\ ~c.before => NotBegun(call.plan.ref),
         UNCHANGED <<at, made, plans, moved>>, reference' \in Scenes
  PROVE  LedgerInv'
<1>1. call' = c /\ answer' = answer
  BY DEF Step
<1>2. Running'
  BY <1>1 DEF Running, IsRun
<1>3. call.step \in Nat \ {0}
  BY DEF LedgerInv, ShapeInv, IsRun, Running, NoCall, Phases
<1>4. StepsSoFar' = StepsSoFar
  BY <1>1, <1>3 DEF StepsSoFar
<1>5. RunInv'
  BY <1>1, <1>2, <1>4 DEF LedgerInv, RunInv, Retired, NotBegun, Made
<1>6. AnswerInv'
  BY <1>1 DEF LedgerInv, AnswerInv, AnswersAreTruthful, NotBegun, Made, Retired, Running
<1>7. ShapeInv' /\ StoreInv' /\ StepsInOrder'
  BY <1>1 DEF LedgerInv, ShapeInv, StoreInv, StepsInOrder, NotBegun
<1> QED BY <1>5, <1>6, <1>7 DEF LedgerInv

\* A call that executes no plan, before and after.
LEMMA PlanningKeeps ==
  ASSUME LedgerInv, call' = NoCall \/ call'.at = "planned",
         StoreInv', made' \in Nat, \A ref : Retired(ref) => Retired(ref)',
         UNCHANGED <<at, answer, moved>>, reference' \in Scenes
  PROVE  LedgerInv'
<1>1. ~Running'
  BY DEF Running, NoCall, Phases
<1>2. AnswerInv'
  BY <1>1 DEF LedgerInv, AnswerInv, AnswersAreTruthful, NotBegun, Made
<1>3. ShapeInv' /\ StepsInOrder'
  BY DEF LedgerInv, ShapeInv, StepsInOrder
<1> QED BY <1>1, <1>2, <1>3 DEF LedgerInv, RunInv

-----------------------------------------------------------------------------
(* One lemma for each action of the session.                               *)

LEMMA FindPlanLedger ==
  ASSUME LedgerInv, FindPlan
  PROVE  LedgerInv'
<1>1. call'.at = "planned"
  BY DEF FindPlan
<1>2. StoreInv' /\ (\A ref : Retired(ref) => Retired(ref)')
  BY DEF FindPlan, LedgerInv, StoreInv, NotBegun, Retired
<1>3. reference' \in Scenes /\ made' \in Nat
  BY Observed DEF FindPlan, LedgerInv, ShapeInv
<1> QED BY <1>1, <1>2, <1>3, PlanningKeeps DEF FindPlan

LEMMA StorePlanLedger ==
  ASSUME LedgerInv, StorePlan
  PROVE  LedgerInv'
<1>1. reference' \in Scenes
  BY Observed DEF StorePlan, LedgerInv
<1>2. /\ made \in Nat
      /\ Kept \subseteq plans
      /\ \A i \in DOMAIN moved : moved'[i][1] \in 1..made
  BY DEF Kept, LedgerInv, ShapeInv, StoreInv, StorePlan
<1>3. /\ made' \in {made, made + 1}
      /\ \A p \in plans' : p \in plans \/ (made' = made + 1 /\ p.ref = made')
      /\ \A p, q \in plans' : p.ref = made + 1 /\ q.ref = made + 1
            => p \in plans \/ q \in plans \/ p = q
  BY <1>2 DEF StorePlan
<1>4. StoreInv'
  BY <1>2, <1>3 DEF StorePlan, LedgerInv, StoreInv, NotBegun
<1>5. \A ref : Retired(ref) => Retired(ref)'
  BY <1>2, <1>3 DEF Retired
<1> QED BY <1>1, <1>2, <1>3, <1>4, <1>5, PlanningKeeps DEF StorePlan

LEMMA PlanningFailsLedger ==
  ASSUME LedgerInv, PlanningFails
  PROVE  LedgerInv'
<1>1. call' = NoCall /\ UNCHANGED <<at, plans, made, answer, moved>>
  BY DEF PlanningFails
<1>2. StoreInv' /\ (\A ref : Retired(ref) => Retired(ref)')
  BY <1>1 DEF LedgerInv, StoreInv, NotBegun, Retired
<1>3. reference' \in Scenes
  BY Observed DEF PlanningFails, LedgerInv
<1> QED BY <1>1, <1>2, <1>3, PlanningKeeps DEF LedgerInv, ShapeInv

LEMMA LookLedger ==
  ASSUME LedgerInv, Look
  PROVE  LedgerInv'
<1>1. call' = NoCall /\ UNCHANGED <<at, plans, made, answer, moved>>
  BY DEF Look
<1>2. StoreInv' /\ (\A ref : Retired(ref) => Retired(ref)')
  BY <1>1 DEF LedgerInv, StoreInv, NotBegun, Retired
<1>3. reference' \in Scenes
  BY Observed DEF Look, LedgerInv
<1> QED BY <1>1, <1>2, <1>3, PlanningKeeps DEF LedgerInv, ShapeInv

\* The plan that is taken was in the store, and is so no more.
LEMMA TakePlanLedger ==
  ASSUME LedgerInv, NEW p \in plans, TakePlan(p), p.facts \in FactSets
  PROVE  LedgerInv'
<1>1. /\ call' = [at |-> "validating", plan |-> p, step |-> 1, started |-> FALSE,
                  before |-> FALSE, facts |-> p.facts, binding |-> p.binding,
                  scene |-> reference]
      /\ plans' = plans \ {p}
      /\ UNCHANGED <<at, reference, made, answer, moved>>
  BY DEF TakePlan, Without
<1>2. IsRun(call')
  BY <1>1 DEF IsRun, Phases, LedgerInv, ShapeInv
<1>3. ShapeInv' /\ StoreInv' /\ StepsInOrder'
  BY <1>1, <1>2 DEF LedgerInv, ShapeInv, StoreInv, StepsInOrder, NotBegun
<1>4. /\ p.ref \in 1..made
      /\ NotBegun(p.ref)
      /\ Retired(p.ref)'
      /\ \A ref : Retired(ref) => Retired(ref)' /\ ref # p.ref
  BY <1>1 DEF LedgerInv, StoreInv, Retired
<1>5. RunInv'
  BY <1>1, <1>4 DEF RunInv, StepsSoFar, NotBegun, Provided
<1>6. AnswerInv'
  BY <1>1, <1>4 DEF LedgerInv, AnswerInv, AnswersAreTruthful, NotBegun, Made
<1> QED BY <1>3, <1>5, <1>6 DEF LedgerInv

LEMMA ValidateLedger ==
  ASSUME LedgerInv, Validate
  PROVE  LedgerInv'
<1>1. /\ Running /\ IsRun(call)
      /\ reference' \in Scenes
      /\ ~call.started => NotBegun(call.plan.ref)
      /\ UNCHANGED <<at, made, plans, moved>>
  BY Observed DEF Validate, LedgerInv, ShapeInv, RunInv, Running, Phases, NoCall
<1>2. CASE Fail(call)
  BY <1>1, <1>2, FailKeeps
<1>3. CASE Step(AtStep(call))
  <2>1. /\ IsRun(AtStep(call))
        /\ AtStep(call).at \in {"checking", "over"}
        /\ AtStep(call).plan = call.plan
        /\ AtStep(call).step = call.step
        /\ AtStep(call).started = call.started
    BY <1>1 DEF AtStep, IsRun, Phases
  <2> QED BY <1>1, <1>3, <2>1, StepKeeps DEF Validate, Provided
<1> QED BY <1>2, <1>3 DEF Validate

LEMMA CheckLedger ==
  ASSUME LedgerInv, Check
  PROVE  LedgerInv'
<1>1. /\ Running /\ IsRun(call)
      /\ reference' \in Scenes
      /\ ~call.started => NotBegun(call.plan.ref)
      /\ UNCHANGED <<at, made, plans, moved>>
  BY Observed DEF Check, LedgerInv, ShapeInv, RunInv, Running, Phases, NoCall
<1>2. CASE Fail(call)
  BY <1>1, <1>2, FailKeeps
<1> DEFINE c == [call EXCEPT !.at = "executing", !.started = TRUE,
                             !.before = call.started]
<1>3. CASE Step(c)
  <2>1. /\ IsRun(c)
        /\ c.at = "executing" /\ c.started /\ c.before = call.started
        /\ c.plan = call.plan /\ c.step = call.step
    BY <1>1 DEF IsRun, Phases
  <2> QED BY <1>1, <1>3, <2>1, StepKeeps DEF Check
<1> QED BY <1>2, <1>3 DEF Check

\* A receipt that says that nothing was started is believed if it is of the
\* first step.
LEMMA RefuseLedger ==
  ASSUME LedgerInv, call.at \in Provided, Refuse(call),
         UNCHANGED <<at, made, plans, moved>>, reference' \in Scenes
  PROVE  LedgerInv'
<1> DEFINE c == [call EXCEPT !.started = Earlier(call)]
<1>1. /\ Running /\ IsRun(call)
      /\ ~call.before => NotBegun(call.plan.ref)
  BY DEF LedgerInv, ShapeInv, RunInv, Running, Phases, NoCall, Provided
<1>2. IsRun(c) /\ c.plan = call.plan /\ c.step = call.step /\ c.started = call.before
  BY <1>1 DEF IsRun, Phases, Earlier
<1> QED BY <1>1, <1>2, FailKeeps DEF Refuse

LEMMA PreflightLedger ==
  ASSUME LedgerInv, Preflight
  PROVE  LedgerInv'
<1>1. /\ Running /\ IsRun(call)
      /\ reference' \in Scenes
      /\ call.started
      /\ ~call.before => NotBegun(call.plan.ref)
      /\ UNCHANGED <<at, made, plans, moved>>
  BY Observed DEF Preflight, LedgerInv, ShapeInv, RunInv, Running, Phases, NoCall, Provided
<1>2. CASE Refuse(call)
  BY <1>1, <1>2, RefuseLedger DEF Preflight, Provided
<1> DEFINE c == [call EXCEPT !.at = "preflighted"]
<1>3. CASE Step(c)
  <2>1. /\ IsRun(c)
        /\ c.at = "preflighted" /\ c.started = call.started /\ c.before = call.before
        /\ c.plan = call.plan /\ c.step = call.step
    BY <1>1 DEF IsRun, Phases
  <2> QED BY <1>1, <1>3, <2>1, StepKeeps DEF Preflight
<1> QED BY <1>2, <1>3 DEF Preflight

LEMMA RefineLedger ==
  ASSUME LedgerInv, Refine
  PROVE  LedgerInv'
<1>1. /\ Running /\ IsRun(call)
      /\ at \in Scenes /\ reference' \in Scenes
      /\ call.started
      /\ ~call.before => NotBegun(call.plan.ref)
      /\ UNCHANGED <<at, made, plans, moved>>
  BY DEF Refine, LedgerInv, ShapeInv, RunInv, Running, Phases, NoCall, Provided
<1>2. CASE Refuse(call)
  BY <1>1, <1>2, RefuseLedger DEF Refine, Provided
<1> DEFINE c == [call EXCEPT !.at = "refined", !.scene = at]
<1>3. CASE Step(c)
  <2>1. /\ IsRun(c)
        /\ c.at = "refined" /\ c.started = call.started /\ c.before = call.before
        /\ c.plan = call.plan /\ c.step = call.step
    BY <1>1 DEF IsRun, Phases
  <2> QED BY <1>1, <1>3, <2>1, StepKeeps DEF Refine
<1> QED BY <1>2, <1>3 DEF Refine

LEMMA SceneChangedLedger ==
  ASSUME LedgerInv, SceneChanged
  PROVE  LedgerInv'
BY RefuseLedger DEF SceneChanged, LedgerInv, ShapeInv, Provided

\* What a move adds to the history.
LEMMA MoveLemma ==
  ASSUME NEW CONSTANT ref \in Nat, NEW CONSTANT k \in Nat,
         moved \in Seq(Nat \X Nat), moved' = Append(moved, <<ref, k>>)
  PROVE  /\ moved' \in Seq(Nat \X Nat)
         /\ \A i \in DOMAIN moved' :
               \/ i \in DOMAIN moved /\ moved'[i] = moved[i]
               \/ i = Len(moved) + 1 /\ moved'[i] = <<ref, k>>
         /\ \A r, n : Made(r, n) => Made(r, n)'
         /\ Made(ref, k)'
         /\ \A r : NotBegun(r) /\ r # ref => NotBegun(r)'
<1>1. /\ Len(moved) \in Nat
      /\ DOMAIN moved = 1..Len(moved)
      /\ DOMAIN moved' = 1..(Len(moved) + 1)
      /\ moved' \in Seq(Nat \X Nat)
      /\ \A i \in DOMAIN moved : moved'[i] = moved[i]
      /\ moved'[Len(moved) + 1] = <<ref, k>>
  OBVIOUS
<1>2. \A i \in DOMAIN moved' :
        \/ i \in DOMAIN moved /\ moved'[i] = moved[i]
        \/ i = Len(moved) + 1 /\ moved'[i] = <<ref, k>>
  BY <1>1
<1>3. \A i \in DOMAIN moved : i \in DOMAIN moved'
  BY <1>1
<1>4. \A r, n : Made(r, n) => Made(r, n)'
  BY <1>1, <1>3 DEF Made
<1>5. Made(ref, k)'
  BY <1>1 DEF Made
<1>6. ASSUME NEW CONSTANT r, NotBegun(r), r # ref
      PROVE  NotBegun(r)'
  BY <1>2, <1>6 DEF NotBegun
<1> QED BY <1>1, <1>2, <1>4, <1>5, <1>6

\* A step that is new, and whose earlier steps have been made.
LEMMA MoveInOrder ==
  ASSUME NEW CONSTANT ref \in Nat, NEW CONSTANT k \in Nat \ {0},
         moved \in Seq(Nat \X Nat), moved' = Append(moved, <<ref, k>>),
         StepsInOrder, \A n \in 1..(k - 1) : Made(ref, n),
         \A i \in DOMAIN moved : moved[i] # <<ref, k>>
  PROVE  StepsInOrder'
<1>1. /\ Len(moved) \in Nat
      /\ DOMAIN moved = 1..Len(moved)
      /\ DOMAIN moved' = 1..(Len(moved) + 1)
      /\ \A i \in DOMAIN moved : moved'[i] = moved[i]
      /\ moved'[Len(moved) + 1] = <<ref, k>>
  OBVIOUS
<1>2. ASSUME NEW i \in DOMAIN moved', NEW j \in DOMAIN moved', moved'[i] = moved'[j]
      PROVE  i = j
  <2>1. CASE i \in DOMAIN moved /\ j \in DOMAIN moved
    BY <1>1, <1>2, <2>1 DEF StepsInOrder
  <2>2. CASE i = Len(moved) + 1 /\ j \in DOMAIN moved
    <3>1. moved[j] = <<ref, k>>
      BY <1>1, <1>2, <2>2
    <3> QED BY <2>2, <3>1
  <2>3. CASE j = Len(moved) + 1 /\ i \in DOMAIN moved
    <3>1. moved[i] = <<ref, k>>
      BY <1>1, <1>2, <2>3
    <3> QED BY <2>3, <3>1
  <2> QED BY <1>1, <1>2, <2>1, <2>2, <2>3
<1>3. ASSUME NEW i \in DOMAIN moved', NEW n \in 1..(moved'[i][2] - 1)
      PROVE  \E j \in 1..(i - 1) : moved'[j] = <<moved'[i][1], n>>
  <2>1. CASE i = Len(moved) + 1
    <3>1. moved'[i][1] = ref /\ n \in 1..(k - 1)
      BY <1>1, <2>1
    <3>2. PICK j \in DOMAIN moved : moved[j] = <<ref, n>>
      BY <3>1 DEF Made
    <3>3. j \in 1..(i - 1) /\ moved'[j] = <<moved'[i][1], n>>
      BY <1>1, <2>1, <3>1, <3>2
    <3> QED BY <3>3
  <2>2. CASE i \in DOMAIN moved
    <3>1. moved'[i] = moved[i]
      BY <1>1, <2>2
    <3>2. n \in 1..(moved[i][2] - 1)
      BY <3>1
    <3>3. PICK j \in 1..(i - 1) : moved[j] = <<moved[i][1], n>>
      BY <2>2, <3>2 DEF StepsInOrder
    <3>4. j \in DOMAIN moved
      BY <1>1, <2>2, <3>3
    <3>5. moved'[j] = moved[j]
      BY <1>1, <3>4
    <3> QED BY <3>1, <3>3, <3>5
  <2>3. i = Len(moved) + 1 \/ i \in DOMAIN moved
    BY <1>1
  <2> QED BY <2>1, <2>2, <2>3
<1> QED BY <1>2, <1>3 DEF StepsInOrder

LEMMA ActuateLedger ==
  ASSUME LedgerInv, Actuate
  PROVE  LedgerInv'
<1>1. PICK ref : ref = call.plan.ref
  OBVIOUS
<1>2. PICK k : k = call.step
  OBVIOUS
<1> DEFINE c == [call EXCEPT !.at = "verifying"]
<1>3. /\ Running /\ IsRun(call) /\ call.at = "refined"
      /\ k \in Nat \ {0}
      /\ call.started
      /\ Retired(ref)
      /\ ref \in 1..made /\ made \in Nat /\ ref \in Nat
      /\ UNCHANGED <<reference, made, plans>>
      /\ moved \in Seq(Nat \X Nat)
      /\ moved' = Append(moved, <<ref, k>>)
  BY <1>1, <1>2
  DEF Actuate, LedgerInv, ShapeInv, RunInv, IsRun, Running, Phases, NoCall, Retired, Provided
<1>4. /\ IsRun(c)
      /\ c.at = "verifying" /\ c.started /\ c.plan = call.plan /\ c.step = k
  BY <1>2, <1>3 DEF IsRun, Phases
<1>5. \/ call' = c /\ answer' = answer
      \/ /\ call' = NoCall
         /\ answer'.ref = ref
         /\ answer'.started
         /\ answer'.completed = k - 1
  BY <1>1, <1>2, <1>4 DEF Actuate, Step, Fail, Answer
<1>6. /\ \A n \in 1..(k - 1) : Made(ref, n)
      /\ \A i \in DOMAIN moved : moved[i][1] = ref => moved[i][2] \in 1..(k - 1)
  BY <1>1, <1>2, <1>3 DEF LedgerInv, RunInv, StepsSoFar
<1>7. \A i \in DOMAIN moved : moved[i] # <<ref, k>>
  BY <1>3, <1>6
<1>8. StepsInOrder'
  BY <1>3, <1>6, <1>7, MoveInOrder DEF LedgerInv
<1>9. /\ moved' \in Seq(Nat \X Nat)
      /\ \A i \in DOMAIN moved' :
            \/ i \in DOMAIN moved /\ moved'[i] = moved[i]
            \/ i = Len(moved) + 1 /\ moved'[i] = <<ref, k>>
      /\ \A r, n : Made(r, n) => Made(r, n)'
      /\ Made(ref, k)'
      /\ \A r : NotBegun(r) /\ r # ref => NotBegun(r)'
  BY <1>3, MoveLemma
<1>10. at' \in Scenes
  BY DEF Actuate, LedgerInv, ShapeInv, Scenes
<1>11. ShapeInv'
  BY <1>3, <1>4, <1>5, <1>9, <1>10 DEF LedgerInv, ShapeInv
<1>12. StoreInv'
  BY <1>3, <1>9 DEF LedgerInv, StoreInv, Retired
<1>13. Retired(ref)'
  BY <1>3 DEF Retired
<1>14. RunInv'
  <2>1. CASE call' = c
    <3>1. StepsSoFar' = k /\ call'.plan.ref = ref
      BY <1>1, <1>4, <2>1 DEF StepsSoFar
    <3>2. \A n \in 1..k : Made(ref, n)'
      BY <1>3, <1>6, <1>9
    <3>3. \A i \in DOMAIN moved' : moved'[i][1] = ref => moved'[i][2] \in 1..k
      BY <1>3, <1>6, <1>9
    <3> QED BY <1>4, <1>13, <2>1, <3>1, <3>2, <3>3 DEF RunInv, Provided
  <2>2. CASE call' = NoCall
    BY <2>2 DEF RunInv, Running, NoCall, Phases
  <2> QED BY <1>5, <2>1, <2>2
<1>15. AnswerInv'
  <2>1. CASE call' = c /\ answer' = answer
    <3>1. answer # NoAnswer => ref # answer.ref /\ Retired(answer.ref)
      BY <1>1, <1>3 DEF LedgerInv, AnswerInv
    <3>2. AnswersAreTruthful'
      BY <1>9, <2>1, <3>1 DEF LedgerInv, AnswerInv, AnswersAreTruthful, NotBegun
    <3> QED BY <1>1, <1>3, <1>4, <2>1, <3>1, <3>2 DEF AnswerInv, Retired
  <2>2. CASE call' = NoCall /\ answer'.ref = ref /\ answer'.started
             /\ answer'.completed = k - 1
    <3>1. AnswersAreTruthful'
      BY <1>6, <1>9, <2>2 DEF AnswersAreTruthful
    <3> QED BY <1>13, <2>2, <3>1 DEF AnswerInv, Retired, Running, NoCall, Phases
  <2> QED BY <1>5, <2>1, <2>2
<1> QED BY <1>8, <1>11, <1>12, <1>14, <1>15 DEF LedgerInv

LEMMA VerifyLedger ==
  ASSUME LedgerInv, Verify
  PROVE  LedgerInv'
<1>1. /\ Running /\ IsRun(call) /\ call.at = "verifying"
      /\ call.step \in Nat \ {0}
      /\ reference' \in Scenes
      /\ call.started
      /\ UNCHANGED <<at, made, plans, moved>>
  BY Observed DEF Verify, LedgerInv, ShapeInv, RunInv, IsRun, Running, Phases, NoCall,
    Provided
<1>2. CASE Fail(call)
  BY <1>1, <1>2, FailKeeps
<1> DEFINE next == [call EXCEPT !.step = @ + 1, !.facts = Facts(at),
                                !.binding = revision']
           c == AtStep(next)
<1>3. CASE Step(c)
  <2>1. Facts(at) \in FactSets
    BY DEF FactSets, LedgerInv, ShapeInv
  <2>2. call.step + 1 \in Nat \ {0}
    BY <1>1
  <2>3. IsRun(next)
    BY <1>1, <2>1, <2>2 DEF IsRun
  <2>4. next.started = call.started /\ next.plan = call.plan
    BY <1>1 DEF IsRun
  <2>5. next.step = call.step + 1
    BY <1>1 DEF IsRun
  <2>6. /\ IsRun(c)
        /\ c.at \in {"checking", "over"}
        /\ c.started = next.started /\ c.plan = next.plan /\ c.step = next.step
    <3> HIDE DEF next
    <3> QED BY <2>3 DEF AtStep, IsRun, Phases
  <2> QED BY <1>1, <1>3, <2>4, <2>5, <2>6, StepKeeps DEF Provided
<1> QED BY <1>2, <1>3 DEF Verify

LEMMA FinishLedger ==
  ASSUME LedgerInv, Finish
  PROVE  LedgerInv'
<1>1. /\ Running /\ IsRun(call)
      /\ reference' \in Scenes
      /\ ~call.started => NotBegun(call.plan.ref)
      /\ UNCHANGED <<at, made, plans, moved>>
  BY DEF Finish, LedgerInv, ShapeInv, RunInv, Running, Phases, NoCall
<1> QED BY <1>1, FailKeeps DEF Finish

-----------------------------------------------------------------------------
(* Which objects may be moved, and what has been measured.                 *)

KnownGoal(goal) == \E f \in Assignments, y \in Scenes : goal = Goal(f, y)

Mentioned(goal, o) == \E f \in goal.required : f[2] = o

\* What has been planned was sound when it was measured.
Sound(goal, facts) == KnownGoal(goal) /\ facts \in FactSets /\ Keeps(goal, facts)

GoalInv ==
    /\ \A p \in plans : Sound(p.goal, p.facts)
    /\ call.at = "planned" => Sound(call.goal, call.facts)
    /\ Running => KnownGoal(call.plan.goal)
    /\ call.at \in {"validating", "checking"} => Keeps(call.plan.goal, call.facts)
    /\ call.at \in Provided =>
         Mentioned(call.plan.goal, Operator(call).obj)
    /\ call.at = "over" => call.facts = Facts(reference)

\* A transfer takes its object away from where a protected goal wants it.
LEMMA TransferIsMentioned ==
  ASSUME NEW goal, KnownGoal(goal), NEW facts \in FactSets, NEW op,
         Feasible(op, facts), Keeps(goal, facts), Keeps(goal, Apply(op, facts))
  PROVE  Mentioned(goal, op.obj)
<1>1. PICK f \in Assignments, y \in Scenes : goal = Goal(f, y)
  BY DEF KnownGoal
<1>2. PICK x \in Scenes : facts = Facts(x)
  BY DEF FactSets
<1>3. op.obj \in Objects /\ op.target \in Regions
  BY DomainAssumption DEF Feasible
<1>4. x[op.obj] = op.source /\ x[op.obj] # op.target
  <2>1. <<"at", op.obj, op.source>> \in Facts(x) /\ <<"free", op.target>> \in Facts(x)
    BY <1>2 DEF Feasible, Requires
  <2> QED BY <1>3, <2>1 DEF Facts
<1>5. <<"at", op.obj, op.source>> \notin Apply(op, facts)
  <2>1. <<"at", op.obj, op.source>> \in Deletes(op)
    BY DEF Deletes, Requires
  <2>2. <<"at", op.obj, op.source>> \notin Adds(op)
    BY <1>4 DEF Adds
  <2> QED BY <2>1, <2>2 DEF Apply
<1>6. op.obj \in DOMAIN f
  <2> SUFFICES ASSUME op.obj \notin DOMAIN f PROVE FALSE
    OBVIOUS
  <2>1. <<"at", op.obj, y[op.obj]>> \in goal.protected
    BY <1>1, <1>3 DEF Goal
  <2>2. <<"at", op.obj, y[op.obj]>> \in Facts(x)
    BY <1>2, <2>1 DEF Keeps
  <2>3. y[op.obj] = x[op.obj]
    BY <2>2 DEF Facts
  <2> QED BY <1>4, <1>5, <2>1, <2>3 DEF Keeps
<1>7. <<"at", op.obj, f[op.obj]>> \in goal.required
  BY <1>1, <1>6 DEF Goal
<1> QED BY <1>7 DEF Mentioned

LEMMA InitGoal == Init => GoalInv
BY DEF Init, GoalInv, Provided, NoCall, Running, Phases

LEMMA FindPlanGoal ==
  ASSUME LedgerInv, GoalInv, FindPlan
  PROVE  GoalInv'
<1>1. PICK f \in Assignments :
        \E ops : call' = [at |-> "planned", goal |-> Goal(f, at), ops |-> ops,
                          facts |-> Facts(at), binding |-> revision']
  BY DEF FindPlan
<1>2. Sound(Goal(f, at), Facts(at))
  BY DEF Sound, KnownGoal, FactSets, Keeps, Goal, Facts, LedgerInv, ShapeInv
<1> QED BY <1>1, <1>2 DEF GoalInv, Provided, FindPlan, Running, Phases

LEMMA StorePlanGoal ==
  ASSUME GoalInv, StorePlan
  PROVE  GoalInv'
<1>1. Kept \subseteq plans
  BY DEF Kept
<1>2. \A p \in plans' :
        p \in plans \/ (p.goal = call.goal /\ p.facts = call.facts)
  BY <1>1 DEF StorePlan
<1> QED BY <1>2 DEF StorePlan, GoalInv, Provided, NoCall, Running, Phases

LEMMA TakePlanGoal ==
  ASSUME GoalInv, NEW p \in plans, TakePlan(p)
  PROVE  GoalInv'
<1>1. /\ call'.at = "validating" /\ call'.plan = p /\ call'.facts = p.facts
      /\ plans' \subseteq plans
  BY DEF TakePlan, Without
<1> QED BY <1>1 DEF GoalInv, Provided, Sound

\* A call that is over knows nothing.
LEMMA FailGoal ==
  ASSUME GoalInv, call' = NoCall, UNCHANGED plans
  PROVE  GoalInv'
BY DEF GoalInv, Provided, NoCall, Running, Phases

LEMMA ValidateGoal ==
  ASSUME LedgerInv, GoalInv, Validate
  PROVE  GoalInv'
<1>1. Running /\ IsRun(call) /\ UNCHANGED plans
  BY DEF Validate, LedgerInv, ShapeInv, Running, Phases, NoCall
<1>2. CASE Fail(call)
  BY <1>1, <1>2, FailGoal DEF Fail
<1>3. CASE Step(AtStep(call)) /\ reference' = at /\ Facts(at) = call.facts
  <2>1. /\ call'.at \in {"checking", "over"}
        /\ call'.plan = call.plan /\ call'.facts = call.facts
    BY <1>1, <1>3 DEF AtStep, Step, IsRun, Phases
  <2> QED BY <1>1, <1>3, <2>1 DEF GoalInv, Provided, Validate
<1> QED BY <1>2, <1>3 DEF Validate, Snapshot, Measure

LEMMA CheckGoal ==
  ASSUME LedgerInv, GoalInv, Check
  PROVE  GoalInv'
<1>1. Running /\ IsRun(call) /\ UNCHANGED plans
  BY DEF Check, LedgerInv, ShapeInv, Running, Phases, NoCall
<1>2. CASE Fail(call)
  BY <1>1, <1>2, FailGoal DEF Fail
<1> DEFINE c == [call EXCEPT !.at = "executing", !.started = TRUE,
                             !.before = call.started]
<1>3. CASE /\ Step(c)
           /\ Feasible(Operator(call), call.facts)
           /\ Keeps(call.plan.goal, Apply(Operator(call), call.facts))
  <2>1. call'.at = "executing" /\ call'.plan = call.plan /\ call'.step = call.step
    BY <1>1, <1>3 DEF Step, IsRun, Phases
  <2>2. call.facts \in FactSets
    BY <1>1 DEF IsRun
  <2>3. Mentioned(call.plan.goal, Operator(call).obj)
    BY <1>1, <1>3, <2>2, TransferIsMentioned DEF GoalInv, Check
  <2> QED BY <1>1, <2>1, <2>3 DEF GoalInv, Provided, Operator, Running
<1> QED BY <1>2, <1>3 DEF Check

LEMMA ProvidedGoal ==
  ASSUME LedgerInv, GoalInv, Preflight \/ Refine
  PROVE  GoalInv'
<1>1. Running /\ IsRun(call) /\ call.at \in Provided /\ UNCHANGED plans
  BY DEF Preflight, Refine, LedgerInv, ShapeInv, Running, Phases, NoCall, Provided
<1>2. CASE Refuse(call)
  BY <1>1, <1>2, FailGoal DEF Refuse, Fail
<1>3. CASE \/ Step([call EXCEPT !.at = "preflighted"])
           \/ Step([call EXCEPT !.at = "refined", !.scene = at])
  <2>1. /\ call'.at \in {"preflighted", "refined"}
        /\ call'.plan = call.plan /\ call'.step = call.step
    BY <1>1, <1>3 DEF Step, IsRun, Phases
  <2> QED BY <1>1, <2>1 DEF GoalInv, Operator, Running, Provided
<1> QED BY <1>2, <1>3 DEF Preflight, Refine

LEMMA ActuateGoal ==
  ASSUME LedgerInv, GoalInv, Actuate
  PROVE  GoalInv'
<1> DEFINE c == [call EXCEPT !.at = "verifying"]
<1>1. Running /\ IsRun(call) /\ UNCHANGED plans
  BY DEF Actuate, LedgerInv, ShapeInv, Running, Phases, NoCall
<1>2. CASE Fail(c)
  BY <1>1, <1>2, FailGoal DEF Fail
<1>3. CASE Step(c)
  <2>1. call'.at = "verifying" /\ call'.plan = call.plan
    BY <1>1, <1>3 DEF Step, IsRun, Phases
  <2> QED BY <1>1, <2>1 DEF GoalInv, Provided
<1> QED BY <1>2, <1>3 DEF Actuate

LEMMA VerifyGoal ==
  ASSUME LedgerInv, GoalInv, Verify
  PROVE  GoalInv'
<1>1. Running /\ IsRun(call) /\ UNCHANGED plans
  BY DEF Verify, LedgerInv, ShapeInv, Running, Phases, NoCall
<1>2. CASE Fail(call)
  BY <1>1, <1>2, FailGoal DEF Fail
<1> DEFINE next == [call EXCEPT !.step = @ + 1, !.facts = Facts(at),
                                !.binding = revision']
<1>3. CASE /\ Step(AtStep(next)) /\ reference' = at
           /\ Keeps(call.plan.goal, Facts(at))
  <2>1. next.plan = call.plan
    BY <1>1 DEF IsRun
  <2>2. next.facts = Facts(at)
    BY <1>1 DEF IsRun
  <2>3. DOMAIN next = DOMAIN call /\ "at" \in DOMAIN call
    BY <1>1 DEF IsRun
  <2>4. /\ call'.at \in {"checking", "over"}
        /\ call'.plan = next.plan /\ call'.facts = next.facts
    <3> HIDE DEF next
    <3> QED BY <1>3, <2>3 DEF AtStep, Step
  <2>5. call'.plan = call.plan /\ call'.facts = Facts(at)
    BY <2>1, <2>2, <2>4
  <2> HIDE DEF next
  <2> QED BY <1>1, <1>3, <2>4, <2>5 DEF GoalInv, Provided
<1> QED BY <1>2, <1>3 DEF Verify, Snapshot, Measure

-----------------------------------------------------------------------------
(* The theorems.                                                           *)

SessionInv == LedgerInv /\ GoalInv

\* Somebody who moves an object, or restarts the simulator, does not touch
\* the session, and nor does a step of something else.
LEMMA MishapKeeps ==
  ASSUME SessionInv, Interfere \/ Restart \/ UNCHANGED vars
  PROVE  SessionInv'
<1>1. UNCHANGED <<reference, plans, made, call, answer, moved>>
  BY DEF Interfere, Restart, vars
<1>2. at' \in Scenes
  BY DEF Interfere, Restart, vars, Scenes, SessionInv, LedgerInv, ShapeInv
<1>3. ShapeInv'
  BY <1>1, <1>2 DEF SessionInv, LedgerInv, ShapeInv
<1>4. StoreInv' /\ StepsInOrder'
  BY <1>1 DEF SessionInv, LedgerInv, StoreInv, StepsInOrder, NotBegun
<1>5. RunInv'
  BY <1>1 DEF SessionInv, LedgerInv, RunInv, Running, StepsSoFar, Made, NotBegun, Retired
<1>6. AnswerInv'
  BY <1>1 DEF SessionInv, LedgerInv, AnswerInv, AnswersAreTruthful, Made, Retired, Running
<1>7. GoalInv'
  BY <1>1 DEF SessionInv, GoalInv, Running, Operator
<1> QED BY <1>3, <1>4, <1>5, <1>6, <1>7 DEF SessionInv, LedgerInv

LEMMA SessionInvStep ==
  ASSUME SessionInv, [Next]_vars
  PROVE  SessionInv'
<1> USE DEF SessionInv
<1>1. CASE Interfere \/ Restart \/ UNCHANGED vars
  BY <1>1, MishapKeeps
<1>2. CASE FindPlan
  BY <1>2, FindPlanLedger, FindPlanGoal
<1>3. CASE StorePlan
  BY <1>3, StorePlanLedger, StorePlanGoal
<1>4. CASE PlanningFails
  <2>1. GoalInv'
    BY <1>4, FailGoal DEF PlanningFails
  <2> QED BY <1>4, <2>1, PlanningFailsLedger
<1>5. ASSUME NEW p \in plans, TakePlan(p)
      PROVE  SessionInv'
  <2>1. p.facts \in FactSets
    BY DEF GoalInv, Sound
  <2> QED BY <1>5, <2>1, TakePlanLedger, TakePlanGoal
<1>6. CASE Validate
  BY <1>6, ValidateLedger, ValidateGoal
<1>7. CASE Check
  BY <1>7, CheckLedger, CheckGoal
<1>8. CASE Preflight
  BY <1>8, PreflightLedger, ProvidedGoal
<1>9. CASE SceneChanged
  <2>1. GoalInv'
    BY <1>9, FailGoal DEF SceneChanged, Refuse, Fail
  <2> QED BY <1>9, <2>1, SceneChangedLedger
<1>10. CASE Actuate
  BY <1>10, ActuateLedger, ActuateGoal
<1>11. CASE Verify
  BY <1>11, VerifyLedger, VerifyGoal
<1>12. CASE Finish
  <2>1. GoalInv'
    BY <1>12, FailGoal DEF Finish, Fail
  <2> QED BY <1>12, <2>1, FinishLedger
<1>13. CASE Refine
  BY <1>13, RefineLedger, ProvidedGoal
<1>14. CASE Look
  <2>1. GoalInv'
    BY <1>14, FailGoal DEF Look
  <2> QED BY <1>14, <2>1, LookLedger
<1> QED
  BY <1>1, <1>2, <1>3, <1>4, <1>5, <1>6, <1>7, <1>8, <1>9, <1>10, <1>11, <1>12, <1>13,
    <1>14
  DEF Next

\* The invariant of the session holds in every reachable state, whatever fails
\* and whoever interferes.
THEOREM SessionInvariant == Spec => []SessionInv
<1>1. Init => SessionInv
  BY InitLedger, InitGoal DEF SessionInv
<1>2. SessionInv /\ [Next]_vars => SessionInv'
  BY SessionInvStep
<1> QED BY <1>1, <1>2, PTL DEF Spec

\* No step of a plan is made twice, or before the ones that come earlier in
\* the plan: a plan leaves the store before anything else (TaskSession.execute).
THEOREM PlansAreSingleUse == Spec => []StepsInOrder
<1>1. SessionInv => StepsInOrder
  BY DEF SessionInv, LedgerInv
<1> QED BY <1>1, SessionInvariant, PTL

\* What an answer says of what was started and completed is so, and stays so.
THEOREM AnswersHold == Spec => []AnswersAreTruthful
<1>1. SessionInv => AnswersAreTruthful
  BY DEF SessionInv, LedgerInv, AnswerInv
<1> QED BY <1>1, SessionInvariant, PTL

\* The robot moves only objects that the instruction mentions, although the
\* protected predicates are all that is checked (task_session.py, execute).
THEOREM OthersStay == Spec => OnlyMovesTheMentioned
<1>1. SessionInv =>
        [Actuate => \E f \in call.plan.goal.required : f[2] = Operator(call).obj]_vars
  BY DEF SessionInv, GoalInv, Mentioned, Actuate, Provided
<1> QED BY <1>1, SessionInvariant, PTL DEF OnlyMovesTheMentioned

\* A goal reported as verified holds in the measurement after the last step.
THEOREM VerifiedIsMeasured == Spec => GoalIsMeasured
<1> DEFINE Verified == answer' # answer /\ answer'.status = "ok"
                         => Satisfied(answer'.goal, Facts(reference))
<1>1. ASSUME SessionInv, Next, answer' # answer, answer'.status = "ok"
      PROVE  Satisfied(answer'.goal, Facts(reference))
  <2>1. \A c : Fail(c) => answer'.status # "ok"
    BY DEF Fail, Answer
  <2>2. CASE Finish
    <3>1. GoalReached(call) /\ answer'.goal = call.plan.goal
      BY <1>1, <2>1, <2>2 DEF Finish, Answer
    <3>2. call.facts = Facts(reference)
      BY <1>1, <2>2 DEF Finish, SessionInv, GoalInv
    <3> QED BY <3>1, <3>2 DEF GoalReached
  <2>3. CASE ~Finish
    BY <1>1, <2>1, <2>3 DEF Next, Interfere, Restart, FindPlan, StorePlan,
      Look, PlanningFails, TakePlan, Validate, Check, Preflight, Refine, SceneChanged,
      Refuse, Actuate, Verify, Step
  <2> QED BY <2>2, <2>3
<1>2. SessionInv /\ [Next]_vars => [Verified]_vars
  BY <1>1 DEF vars
<1> QED BY <1>2, SessionInvariant, PTL DEF Spec, GoalIsMeasured

-----------------------------------------------------------------------------
(* What a binding says of the scene.                                       *)

\* Facts that were measured under a binding are those of the last measurement
\* as long as the revision is the one of the binding.
Bound(binding, facts) ==
    /\ binding \in Nat
    /\ binding <= revision
    /\ binding = revision => facts = Facts(reference)

BindingInv ==
    /\ revision \in Nat
    /\ \A p \in plans : Bound(p.binding, p.facts)
    /\ call.at \in {"planned", "validating", "checking"} =>
         Bound(call.binding, call.facts)

LEMMA InitBinding == Init => BindingInv
BY DEF Init, BindingInv, NoCall

BoundNext(binding, facts) ==
    /\ binding \in Nat
    /\ binding <= revision'
    /\ binding = revision' => facts = Facts(reference')

\* A measurement keeps what was bound before it, and binds what it sees.
LEMMA MeasureBinds ==
  ASSUME revision \in Nat, Snapshot \/ NoSnapshot \/ UNCHANGED <<reference, revision>>
  PROVE  /\ revision' \in Nat
         /\ \A b, f : Bound(b, f) => BoundNext(b, f)
         /\ Snapshot => BoundNext(revision', Facts(at))
<1>1. CASE Measure
  <2>1. \/ at = reference /\ revision' = revision
        \/ revision' = revision + 1
    BY <1>1 DEF Measure
  <2>2. reference' = at /\ revision' \in Nat
    BY <1>1, <2>1 DEF Measure
  <2>3. ASSUME NEW b, NEW f, Bound(b, f)
        PROVE  BoundNext(b, f)
    BY <2>1, <2>2, <2>3 DEF Bound, BoundNext
  <2>4. BoundNext(revision', Facts(at))
    BY <2>2 DEF BoundNext
  <2> QED BY <2>2, <2>3, <2>4
<1>2. CASE UNCHANGED <<reference, revision>> /\ ~Snapshot
  BY <1>2 DEF Bound, BoundNext
<1> QED BY <1>1, <1>2 DEF Snapshot, NoSnapshot

\* What a step leaves in the store and in the call was bound before, or is what
\* the step has measured.
LEMMA BindingStep ==
  ASSUME BindingInv, revision' \in Nat,
         \A p \in plans' : BoundNext(p.binding, p.facts),
         call'.at \in {"planned", "validating", "checking"} =>
           BoundNext(call'.binding, call'.facts)
  PROVE  BindingInv'
BY DEF BindingInv, Bound, BoundNext

\* The steps after which a call relies on a binding.
LEMMA CallBinding ==
  ASSUME SessionInv, [Next]_vars
  PROVE  \/ call' = call
         \/ call'.at \notin {"planned", "validating", "checking"}
         \/ FindPlan
         \/ \E p \in plans : TakePlan(p)
         \/ Validate /\ Step(AtStep(call))
         \/ Verify
<1> USE DEF NoCall
<1>1. CASE Interfere \/ Restart \/ Look \/ UNCHANGED vars
  BY <1>1 DEF Interfere, Restart, Look, vars
<1>2. CASE StorePlan \/ PlanningFails
  BY <1>2 DEF StorePlan, PlanningFails
<1>3. ASSUME IsRun(call), Check \/ Preflight \/ Refine \/ SceneChanged \/ Actuate
      PROVE  call'.at \notin {"planned", "validating", "checking"}
  <2>1. DOMAIN call = {"at", "plan", "step", "started", "before", "facts", "binding", "scene"}
    BY <1>3 DEF IsRun
  <2>2. CASE Check
    <3>1. \/ Fail(call)
          \/ Step([call EXCEPT !.at = "executing", !.started = TRUE,
                               !.before = call.started])
      BY <2>2 DEF Check
    <3>2. CASE Fail(call)
      BY <3>2 DEF Fail
    <3>3. CASE Step([call EXCEPT !.at = "executing", !.started = TRUE,
                             !.before = call.started])
      <4>1. call'.at = "executing"
        BY <2>1, <3>3 DEF Step
      <4> QED BY <4>1
    <3> QED BY <3>1, <3>2, <3>3
  <2>3. CASE Preflight
    <3>1. Refuse(call) \/ Step([call EXCEPT !.at = "preflighted"])
      BY <2>3 DEF Preflight
    <3> QED BY <2>1, <3>1 DEF Refuse, Fail, Step
  <2>4. CASE Refine
    <3>1. Refuse(call) \/ Step([call EXCEPT !.at = "refined", !.scene = at])
      BY <2>4 DEF Refine
    <3>2. CASE Refuse(call)
      BY <3>2 DEF Refuse, Fail
    <3>3. CASE Step([call EXCEPT !.at = "refined", !.scene = at])
      <4>1. call'.at = "refined"
        BY <2>1, <3>3 DEF Step
      <4> QED BY <4>1
    <3> QED BY <3>1, <3>2, <3>3
  <2>5. CASE SceneChanged
    BY <2>5 DEF SceneChanged, Refuse, Fail
  <2>6. CASE Actuate
    <3>1. call' \in {NoCall, [call EXCEPT !.at = "verifying"]}
      BY <2>6 DEF Actuate, Fail, Step
    <3> QED BY <2>1, <3>1
  <2> QED BY <1>3, <2>2, <2>3, <2>4, <2>5, <2>6
<1>4. CASE Check \/ Preflight \/ Refine \/ SceneChanged \/ Actuate
  <2>1. Running /\ IsRun(call)
    BY <1>4 DEF Check, Preflight, Refine, SceneChanged, Actuate, SessionInv, LedgerInv,
      ShapeInv, Running, Phases
  <2> QED BY <1>3, <1>4, <2>1
<1>5. CASE Validate \/ Finish
  BY <1>5 DEF Validate, Finish, Fail
<1> QED BY <1>1, <1>2, <1>4, <1>5 DEF Next

LEMMA BindingInvStep ==
  ASSUME SessionInv, BindingInv, [Next]_vars
  PROVE  BindingInv'
<1>1. Snapshot \/ NoSnapshot \/ UNCHANGED <<reference, revision>>
  BY DEF Next, Interfere, Restart, Look, FindPlan, StorePlan, PlanningFails, TakePlan,
    Validate, Check, Preflight, Refine, SceneChanged, Actuate, Verify, Finish, vars
<1>2. /\ revision' \in Nat
      /\ \A b, f : Bound(b, f) => BoundNext(b, f)
      /\ Snapshot => BoundNext(revision', Facts(at))
  BY <1>1, MeasureBinds DEF BindingInv
<1>3. \A p \in plans' : BoundNext(p.binding, p.facts)
  <2>1. CASE StorePlan
    <3>1. \A p \in plans' : \/ p \in plans
                            \/ p.facts = call.facts /\ p.binding = call.binding
      BY <2>1 DEF StorePlan, Kept
    <3> QED BY <1>2, <2>1, <3>1 DEF BindingInv, StorePlan
  <2>2. CASE ~StorePlan
    <3>1. plans' \subseteq plans
      BY <2>2 DEF Next, Interfere, Restart, Look, FindPlan, PlanningFails, TakePlan,
        Without, Validate, Check, Preflight, Refine, SceneChanged, Actuate, Verify,
        Finish, vars
    <3> QED BY <1>2, <3>1 DEF BindingInv
  <2> QED BY <2>1, <2>2
<1>4. ASSUME call'.at \in {"planned", "validating", "checking"}
      PROVE  BoundNext(call'.binding, call'.facts)
  <2>1. CASE call' = call
    BY <1>2, <1>4, <2>1 DEF BindingInv
  <2>2. CASE FindPlan
    BY <1>2, <2>2 DEF FindPlan
  <2>3. ASSUME NEW p \in plans, TakePlan(p)
        PROVE  BoundNext(call'.binding, call'.facts)
    BY <1>2, <2>3 DEF TakePlan, BindingInv
  <2>4. CASE Validate /\ Step(AtStep(call))
    <3>1. IsRun(call)
      BY <2>4 DEF Validate, SessionInv, LedgerInv, ShapeInv, NoCall
    <3>2. call'.binding = call.binding /\ call'.facts = call.facts
      BY <2>4, <3>1 DEF AtStep, Step, IsRun
    <3> QED BY <1>2, <2>4, <3>2 DEF Validate, BindingInv
  <2>5. CASE Verify
    <3>1. IsRun(call)
      BY <2>5 DEF Verify, SessionInv, LedgerInv, ShapeInv, NoCall
    <3> DEFINE next == [call EXCEPT !.step = @ + 1, !.facts = Facts(at),
                                    !.binding = revision']
    <3>2. Step(AtStep(next)) /\ Snapshot
      BY <1>4, <2>5 DEF Verify, Fail, NoCall
    <3>3. next.binding = revision' /\ next.facts = Facts(at)
      BY <3>1 DEF IsRun
    <3>4. call'.binding = next.binding /\ call'.facts = next.facts
      <4> HIDE DEF next
      <4> QED BY <3>2 DEF AtStep, Step
    <3> QED BY <1>2, <3>2, <3>3, <3>4
  <2> QED BY <1>4, <2>1, <2>2, <2>3, <2>4, <2>5, CallBinding
<1> QED BY <1>2, <1>3, <1>4, BindingStep

\* A step is given to the provider only when it can be carried out, and keeps
\* what is protected, in the scene as it is then (task_session.py, execute).
THEOREM StepsAreCurrent == Spec => OnlyCurrentStepsAreSent
<1> DEFINE Current == call.at = "checking" /\ call'.at = "executing"
                        => /\ Feasible(Operator(call), Facts(at))
                           /\ Keeps(call.plan.goal, Apply(Operator(call), Facts(at)))
<1>1. ASSUME BindingInv, Next, call.at = "checking", call'.at = "executing"
      PROVE  /\ Feasible(Operator(call), Facts(at))
             /\ Keeps(call.plan.goal, Apply(Operator(call), Facts(at)))
  <2>1. Check
    BY <1>1 DEF Next, Interfere, Restart, Look, FindPlan, StorePlan, PlanningFails,
      TakePlan, Validate, Preflight, Refine, SceneChanged, Actuate, Verify, Finish, NoCall
  <2>2. /\ Feasible(Operator(call), call.facts)
        /\ Keeps(call.plan.goal, Apply(Operator(call), call.facts))
        /\ Snapshot
        /\ revision' = call.binding
    BY <1>1, <2>1 DEF Check, Fail, NoCall, SameBinding
  <2>3. /\ revision \in Nat /\ call.binding \in Nat /\ call.binding <= revision
        /\ call.binding = revision => call.facts = Facts(reference)
    BY <1>1 DEF BindingInv, Bound
  <2>4. at = reference /\ call.binding = revision
    BY <2>2, <2>3 DEF Snapshot, Measure
  <2> QED BY <2>2, <2>3, <2>4
<1>2. BindingInv /\ [Next]_vars => [Current]_vars
  BY <1>1 DEF vars
<1>3. Spec => []BindingInv
  <2>1. SessionInv /\ BindingInv /\ [Next]_vars => BindingInv'
    BY BindingInvStep
  <2> QED BY <2>1, InitBinding, SessionInvariant, PTL DEF Spec
<1> QED BY <1>2, <1>3, PTL DEF Spec, OnlyCurrentStepsAreSent
=============================================================================
